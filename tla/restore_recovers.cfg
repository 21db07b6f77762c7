SPECIFICATION PanelSpec
CONSTANTS
  Tasks = {t1, t2, t3}
  Slots = {"default", "geometry"}
  NoSlot = NoSlot
  Tables = {a, b}
  NoTable = NoTable
  AnyTable = AnyTable
  Plugins = {p, q}
  NoPlugin = NoPlugin
  Needs = {AnyTable, b}
  Ops = {"restore", "error"}
  Payloads = {"table"}
  MaxOps = 2
  MaxUpdates = 0
  MaxEvents = 4
PROPERTIES
  RestoreRecovers
CHECK_DEADLOCK FALSE
