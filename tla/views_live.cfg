SPECIFICATION KindsSpec
CONSTANTS
  Keys = {1, 2, 3}
  Cols = {"x"}
  Vals = {1, 2}
  Invalid = Invalid
  Clear = Clear
  Null = Null
  Ports = {0}
  Indexed = TRUE
  Limit = 9
  OffsetBound = 1
  SentCells = {1, 2, Invalid}
  Ops = {"update", "remove", "replace", "clear"}
  MaxBatch = 1
  MaxLoad = 2
  MaxQueued = 2
  ViewIds = {v}
  Configs <- AllConfigs
INVARIANTS
  ViewIsQuery
  ViewsAreConsistent
