---------------------------- MODULE TableHistory ----------------------------
(***************************************************************************)
(* A Table, with what a listener and a caller of clear() remember.         *)
(***************************************************************************)
EXTENDS TableProperties

VARIABLES seen,     \* the contents a listener read at its last on_update
          cleared   \* keys sent before the last clear() and not since

historyVars == <<seen, cleared, tableVars>>

QueuedKeys == {k \in Keys : \E p \in DOMAIN m_input_ports :
                 \E i \in DOMAIN m_input_ports[p] : m_input_ports[p][i].pkey = k}

\* The keys of the rows that a request appended.
SentKeys == {k \in Keys : \E p \in DOMAIN m_input_ports :
               \E i \in DOMAIN m_input_ports'[p] :
                  i > Len(m_input_ports[p]) /\ m_input_ports'[p][i].pkey = k}

Notified == \E p \in task \ task' : ProcessNotifies(p)

HistoryInit == TableInit /\ seen = Contents /\ cleared = {}

Remember ==
    /\ seen' = IF Notified THEN Contents' ELSE seen
    /\ cleared' = IF ClearTable THEN QueuedKeys \cup DOMAIN m_mapping
                  ELSE cleared \ SentKeys

HistoryNext == TableNext /\ Remember

HistorySpec == HistoryInit /\ [][HistoryNext]_historyVars

FairHistorySpec ==
    HistorySpec /\ WF_historyVars(StartRun /\ Remember)
                /\ WF_historyVars(ProcessNext /\ Remember)

----------------------------------------------------------------------------

(* Whatever changes the contents of a Table, a listener is called after it *)
(* (View::on_update; the calls of the callback in update_task.cpp).        *)
ChangesAreSeen == (seen # Contents) ~> (seen = Contents)

(* clear() "removes all the rows in the Table": no row sent before it      *)
(* comes back after it (Table::clear, t_gnode::reset, clear_input_ports).  *)
ClearedRowsStayGone == \A k \in cleared : ~HasKey(k)

(* An update of a Table with an index takes no row away: it has no limit.  *)
UpdatesKeepRows == [][DOMAIN m_mapping \subseteq DOMAIN m_mapping']_historyVars
============================================================================
