SPECIFICATION FairHistorySpec
CONSTANTS
  Keys = {0, 1}
  Cols = {x}
  Vals = {a}
  Invalid = Invalid
  Clear = Clear
  Null = Null
  Ports = {0, 1}
  Indexed = TRUE
  Limit = 9
  OffsetBound = 1
  SentCells = {a, Invalid, Clear}
  Ops = {"update", "remove", "replace", "make_port"}
  MaxBatch = 1
  MaxLoad = 2
  MaxQueued = 2
PROPERTIES
  RowsAreApplied
  ChangesAreSeen
