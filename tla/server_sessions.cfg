SPECIFICATION HistorySpec
CONSTANTS
  c1 = c1
  c2 = c2
  a = a
  b = b
  c = c
  j1 = j1
  j2 = j2
  Clients = {c1, c2}
  Tables = {a}
  Views = {v1, v2}
  JoinOf <- NoJoins
  Realtime = FALSE
  Requests <- LivingSessions
INVARIANTS
  LazyDeletesAreAnswered
PROPERTIES
  WatchersAreTold
