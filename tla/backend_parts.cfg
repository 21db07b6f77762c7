SPECIFICATION BackendSpec
CONSTANTS
  Views = {"u", "v", "w"}
  TableOf <- ViewTables
  Hosts <- ServerHosts
  Present = {"getFeatures", "viewGetMinMax"}
  RequestKinds = {"makeView", "makeWindows", "dimensions", "viewExpressions", "viewSchema", "data", "paths", "config", "minMax", "delete", "makeTable", "expressions", "port", "hosted"}
  Freed = Freed
  MaxRequests = 4
  MaxFailures = 1
  Sources <- SqlSources
  SqlConfigs <- SqlViews
  AggregateOf <- SqlAggregates
  PageRows = 2
  SlicePages <- ModelPages
  Nothing = Nothing
  Thousand = 4
  DayMs = 12
  MaxI32 = 8
  Threads = {t1, t2}
  Remotes = {r}
  Careful = TRUE
  Local = local
  NoThread = NoThread
  MaxPyCalls = 3
  JsValues = {"view", "not utf-8", "array", "empty"}
  JsCareful = TRUE
  JsPrograms <- Programs
  MaxJsCalls = 3
  MaxObjects = 4
INVARIANTS
  StoreIsServed
  PagesAreTheSortedTree
  AnswersAreThePage
  CallsReturnAndTell
  HandlesAreSound
CHECK_DEADLOCK FALSE
SYMMETRY SameThreads
