SPECIFICATION FairClientSpec
CONSTANTS
  Tasks = {t1, t2}
  Ops = {"size", "expression_schema", "on_update", "remove_update", "on_delete", "table_from_view"}
  MaxCalls = 4
  MaxUpdates = 1
  MaxFailures = 1
  LoseFollowed = FALSE
  ReconnectEarly = FALSE
INVARIANTS
  WaitersWillHear
  RemovedStreamsAreSilent
  StreamsAreHeard
PROPERTIES
  CallsEnd
CHECK_DEADLOCK FALSE
