SPECIFICATION TableSpec
CONSTANTS
  Keys = {1, 2}
  Cols = {x}
  Vals = {a}
  Invalid = Invalid
  Clear = Clear
  Null = Null
  Ports = {0, 1}
  Indexed = TRUE
  Limit = 9
  OffsetBound = 1
  SentCells = {a, Invalid, Clear}
  Ops = {"update", "remove", "replace", "clear", "make_port"}
  MaxBatch = 1
  MaxLoad = 2
  MaxQueued = 3
INVARIANTS
  GStateInv
PROPERTIES
  ImplementsKeyedTable
