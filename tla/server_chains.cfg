SPECIFICATION HistorySpec
CONSTANTS
  c1 = c1
  c2 = c2
  a = a
  b = b
  c = c
  j1 = j1
  j2 = j2
  Clients = {c1}
  Tables = {a, b, c, j1, j2}
  Views = {v1}
  JoinOf <- ChainedJoins
  Realtime = FALSE
  Requests <- Unsubscribed
INVARIANTS
  ServerIsConsistent
  ClosedSessionsLeaveNoViews
CHECK_DEADLOCK FALSE
