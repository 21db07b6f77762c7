SPECIFICATION PartsSpec
CONSTANTS
  Ids = {0, 1, 2, 3, 4, 9}
  Named = {9}
  NoId = NoId
  Filters = {f, g}
  Methods = {"restore", "add", "duplicate", "load", "restoreWorkspace", "setActivePanel", "removePanel", "reset", "toggleConfig", "eject", "flush", "master", "select", "clearFilter", "closeFrame"}
  SavedSizes = {1, 2}
  MaxCalls = 2
  TableColumns <- Columns3
  Numeric = {"a", "b"}
  Typed = {"e"}
  Empty = "none"
  PluginKinds <- Kinds
  MaxGestures = 3
  FilterColumns = {"c", "d"}
  ValuesOf <- Values
  RowInputs = {1, 2}
  Columns <- Choices
  ValidTexts = {"e"}
  OtherTexts = {"x"}
  MaxKeys = 4
  Fields = {"c"}
  GoodTexts = {"good", "fine"}
  BadTexts = {"bad"}
  FreshNames <- NewNames
  TypedNames = {"x", "c"}
  Roles = {"columns", "sort"}
  NoColumn = NoColumn
  MaxEdits = 4
  Schemas <- Tables
  Computed = {"e"}
  Aggregates <- WindowAggregates
  Ordered = {"integer"}
  NeedsOrder = FALSE
  WindowNames = {"w", "v"}
  NaN = NaN
  Amounts = {0, 50, 200}
  MaxTouches = 7
  StylePlugins = {"grid", "chart"}
  EditPlugins = {"grid"}
  StyledColumns = {"x", "y"}
  Given <- StyleUpdates
  MaxStyleActs = 3
  AgentPanels = {1, 2}
  PanelConfigs = {"a", "b", "failing", "invalid"}
  FailingConfigs = {"failing"}
  InvalidConfigs = {"invalid"}
  Setups <- AgentSetups
  Replies <- ModelReplies
  MaxModelTurns = 2
  MaxEvents = 3
  GeoPanels = {p1}
  NaturalWidth = 20
  PointerMoves <- PointersMoved
  Trees = {0, 1}
  HostBoxes = {0, 1}
  NoBox = NoBox
  GeoActs = {"toggle", "drag", "reset", "layout", "host"}
  MaxGeoActs = 3
  PanelCount = 2
  SheetThemes <- RulesOfSheets
  AuthoredThemes = {"dark"}
  Picks = {"dark", "blue"}
  ThemeLists <- ListsGiven
  NoThemes = NoThemes
  ThemeActs = {"pick", "activate", "restore", "resetThemes", "restyleElement", "reset", "sheet", "update"}
  MaxThemeActs = 2
  Alphabets <- RepliesMixed
  MaxDeltas = 5
INVARIANTS
  EverybodyFollows
  
  OffersFit
  SidebarIsInStep
  WindowsAreSound
  StylesAgree
  ConversationIsSound
  GeometrySettles
  ThemesSettle
  RepliesAreShown
PROPERTIES
  DropsAreSound
  EditsAreCommitted
  RejectedToolsChangeNothing
CHECK_DEADLOCK FALSE
