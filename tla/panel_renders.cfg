SPECIFICATION PanelSpec
CONSTANTS
  Tasks = {t1, t2, t3}
  Slots = {"default", "geometry"}
  NoSlot = NoSlot
  Tables = {a, b}
  NoTable = NoTable
  AnyTable = AnyTable
  Plugins = {p, q}
  NoPlugin = NoPlugin
  Needs = {AnyTable, b}
  Ops = {"apply", "filter", "restore", "load", "reset", "resetError", "pause", "hide", "resize", "presize", "eject", "error", "host"}
  Payloads = {"table", "client", "reject"}
  MaxOps = 2
  MaxUpdates = 3
  MaxEvents = 4
INVARIANTS
  FinalRenderIsFinalCommit
  UpdatesAreShown
  PinnedIsDrawn
  ViewsAreReleased
  DebouncedCallsAreFresh
  NobodyIsStranded
SYMMETRY TaskSymmetry
CHECK_DEADLOCK FALSE
