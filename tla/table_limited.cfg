SPECIFICATION TableSpec
CONSTANTS
  Keys = {0, 1, 2, 3, 4, 5}
  Cols = {}
  Vals = {a}
  Invalid = Invalid
  Clear = Clear
  Null = Null
  Ports = {0}
  Indexed = FALSE
  Limit = 2
  OffsetBound = 9
  SentCells = {a, Invalid, Clear}
  Ops = {"update", "load_csv"}
  MaxBatch = 4
  MaxLoad = 2
  MaxQueued = 9
INVARIANTS
  RetainsNewest
CHECK_DEADLOCK FALSE
