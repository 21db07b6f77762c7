--------------------------- MODULE ServerHistory ---------------------------
(***************************************************************************)
(* A ProtoServer, with what its sessions remember of it.                   *)
(***************************************************************************)
EXTENDS ProtoServer

VARIABLES behind,  \* {<<session, View>>}: rows of the View's Table were processed
                   \* since the session was last sent an on_update
          owed,    \* {<<session, Table>>}: lazy deletes not answered
          maker    \* View -> the session that made it

historyVars == <<behind, owed, maker, serverVars>>

\* The Tables whose queued rows a request or the start of a poll processed.
Changed == (pending \ pending') \cap m_tables'

HistoryInit == ServerInit /\ behind = {} /\ owed = {} /\ maker = <<>>

\* What is remembered of a step that processed rows of the Tables in ts.
Remember(ts) ==
    /\ behind' = {s \in m_update_subs' :
                    /\ s[1] \in open'
                    /\ \/ s \in behind
                       \/ s \in m_update_subs /\ m_view_to_table[s[2]] \in ts
                    /\ <<s[1], "on_update", s[2]>> \notin sent'}
    /\ owed' = {s \in owed \cup {<<m_deleted_tables'[t], t>> : t \in DOMAIN m_deleted_tables'} :
                  <<s[1], "table_deleted", s[2]>> \notin sent'}
    /\ maker' = [v \in DOMAIN m_view_to_table' |->
                   IF v \in HostedViews THEN maker[v]
                   ELSE CHOOSE c \in open : m_client_to_view'[c] # m_client_to_view[c]]

HistoryNext ==
    \/ (Request \/ PollTables) /\ Remember(Changed)
    \/ \E rows \in BOOLEAN : /\ PollJoin(rows)
                             /\ Remember(IF rows THEN processed' \ processed ELSE {})

HistorySpec == HistoryInit /\ [][HistoryNext]_historyVars

----------------------------------------------------------------------------

(* When nothing is left to poll, every subscriber of a View has been sent  *)
(* an on_update after rows of its Table, or of its join, were last         *)
(* processed, whichever of a poll or another session's request processed   *)
(* them. A clear() and a join left without rows queue none (see            *)
(* TableReplace and PollJoin): of these nobody is told.                    *)
SubscribersAreTold == ~Polling /\ m_dirty_tables = {} => behind = {}

(* After every step whoever subscribed has been told: of updates once they *)
(* are processed, and of the deletion of a View (ViewOnUpdateReq,          *)
(* ViewOnDeleteReq, ViewDeleteReq).                                        *)
WatchersAreTold == [][SubscribersAreTold' /\ TellsOfDeletedViews]_historyVars

(* A session that waits for a lazy delete waits for a Table that is still  *)
(* there: it is answered when the Table goes.                              *)
DeletersAreAnswered == \A s \in owed : s[2] \in m_tables

(* A lazy delete is completed, by whichever request removes the last View, *)
(* and whoever waits for it is told (ViewDeleteReq, is_table_deleted).     *)
LazyDeletesAreAnswered == LazyDeletesComplete /\ DeletersAreAnswered

(* Both sources of a join stay as long as it does, and once everything is  *)
(* polled every join is computed from their present rows (TableDeleteReq,  *)
(* Poll).                                                                  *)
JoinsAreSound == JoinSourcesAreHosted /\ JoinsAreCurrent

(* A session that is closed leaves no View behind ("resources (e.g. views  *)
(* returned by a call to Table::view)", Session::close).                   *)
ClosedSessionsLeaveNoViews == \A v \in HostedViews : maker[v] \in open
============================================================================
