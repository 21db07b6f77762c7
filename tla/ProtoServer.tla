---------------------------- MODULE ProtoServer ----------------------------
(***************************************************************************)
(* ProtoServer: the requests of the sessions, one at a time, and poll(),   *)
(* which processes the dirty Tables, recomputes the joins that read them   *)
(* and tells the subscribers. A server without a poll callback (Realtime   *)
(* is FALSE) also processes a dirty Table when a request reads it.         *)
(***************************************************************************)
EXTENDS Resources, JoinEngine

CONSTANTS Realtime,   \* m_realtime_mode: there is a poll callback
          Requests    \* {<<session, request>>}: what the sessions ask

ASSUME RealtimeAssumption == Realtime \in BOOLEAN
ASSUME JoinsAssumption == DOMAIN JoinOf \cup JoinSources \subseteq Tables

VARIABLES open,       \* the sessions that are open
          pending,    \* Tables with queued rows
          worklist,   \* of the current poll: joins to recompute, last first
          processed,  \* of the current poll: joins recomputed
          changed,    \* of the current poll: dirty_ids
          outbox,     \* of the current poll: messages to send at its end
          sent        \* the messages of the last step: {<<session, kind, id>>}

pollVars == <<worklist, processed, changed, outbox>>
serverVars == <<resourceVars, joinVars, open, pending, pollVars, sent>>

Polling == worklist # <<>>

Asks(c, request) == ~Polling /\ c \in open /\ <<c, request>> \in Requests

----------------------------------------------------------------------------
(* Messages.                                                               *)

Messages(subs, kind, id) == {<<c, kind, id>> : c \in Subscribed(subs, id)}

\* _process_table_unchecked: what the subscribers of a Table's Views are sent
\* when its rows are processed.
UpdatesOf(ts) ==
    UNION {Messages(m_update_subs, "on_update", v) :
             v \in UNION {ViewsOf(t) : t \in ts \cap pending}}

\* The end of a Table: its on_delete subscribers and who asked are told.
TableGone(c, t) ==
    Messages(m_table_delete_subs, "table_on_delete", t) \cup {<<c, "table_deleted", t>>}

----------------------------------------------------------------------------
(* handle_process_table: a request that reads a dirty Table processes it   *)
(* first and marks it clean.                                               *)

\* Mutant: the rows are processed and nobody is told.
MutReadUpdates(t) == {}

ReadProcesses(t) == ~Realtime /\ t \in m_dirty_tables
ReadUpdates(t) == IF ReadProcesses(t) THEN UpdatesOf({t}) ELSE {}

ProcessForRead(t) ==
    IF ReadProcesses(t)
    THEN /\ pending' = pending \ {t}
         /\ stale' = stale \cup MadeStale({t} \cap pending)
         /\ MarkTablesClean({t})
         /\ UNCHANGED <<m_join_defs, m_table_to_join_tables>>
    ELSE UNCHANGED <<tableVars, pending, joinVars>>

----------------------------------------------------------------------------
(* Requests about Tables.                                                  *)

MakeTable(c, t) ==
    /\ Asks(c, "make_table")
    /\ t \notin m_tables \cup DOMAIN JoinOf
    /\ HostTable(t)
    /\ sent' = {}
    /\ UNCHANGED <<viewVars, m_table_delete_subs, joinVars, open, pending, pollVars>>

\* MakeJoinTableReq: register, compute and process the join.
MakeJoinTable(c, j) ==
    /\ Asks(c, "make_join")
    /\ j \in DOMAIN JoinOf \ m_tables
    /\ SourcesOf(j) \subseteq m_tables
    /\ HostTable(j)
    /\ RegisterJoin(j)
    /\ sent' = {}
    /\ UNCHANGED <<viewVars, m_table_delete_subs, open, pending, pollVars>>

\* TableUpdateReq with rows; a join refuses it.
TableUpdate(c, t) ==
    /\ Asks(c, "update")
    /\ t \in m_tables /\ ~IsJoinTable(t)
    /\ pending' = pending \cup {t}
    /\ MarkTableDirty(t)
    /\ sent' = {}
    /\ UNCHANGED <<viewVars, m_table_delete_subs, joinVars, open, pollVars>>

\* TableReplaceReq, and clear(), which replaces by no rows. The Table is emptied
\* at once: its joins are out of date before the new rows, if any, are processed.
TableReplace(c, t, rows) ==
    /\ Asks(c, "replace")
    /\ t \in m_tables /\ ~IsJoinTable(t)
    /\ pending' = pending \cup (IF rows THEN {t} ELSE {})
    /\ stale' = stale \cup MadeStale({t})
    /\ MarkTableDirty(t)
    /\ sent' = {}
    /\ UNCHANGED <<viewVars, m_table_delete_subs, m_join_defs, m_table_to_join_tables,
                   open, pollVars>>

\* TableSizeReq, ViewToArrowReq and their like.
Read(c, t) ==
    /\ Asks(c, "read")
    /\ t \in m_tables
    /\ ProcessForRead(t)
    /\ sent' = ReadUpdates(t)
    /\ UNCHANGED <<viewVars, m_table_delete_subs, open, pollVars>>

\* A request that reads a Table and then throws: the responses gathered so
\* far are given up for one with the error.
FailingRead(c, t) ==
    /\ Asks(c, "failing_read")
    /\ t \in m_tables
    /\ ProcessForRead(t)
    /\ sent' = {}
    /\ UNCHANGED <<viewVars, m_table_delete_subs, open, pollVars>>

TableOnDelete(c, t) ==
    /\ Asks(c, "table_on_delete")
    /\ t \in m_tables
    /\ m_table_delete_subs' = m_table_delete_subs \cup {<<c, t>>}
    /\ sent' = {}
    /\ UNCHANGED <<viewVars, tableVars, joinVars, open, pending, pollVars>>

\* A Table that is no join cannot go while a join reads it.
IsSource(t) == DependentJoins(t) # <<>> /\ ~IsJoinTable(t)

HasViews(t) == ViewsOf(t) # {}

\* TableDeleteReq. A join is unregistered whatever comes next: the Table is
\* deleted, or has Views and the request throws, or is to be deleted later.
TableDelete(c, t, lazily) ==
    /\ Asks(c, IF lazily THEN "lazy_delete" ELSE "delete")
    /\ t \in m_tables
    /\ ~IsSource(t)
    /\ IF IsJoinTable(t) THEN UnregisterJoin(t) ELSE UNCHANGED joinVars
    /\ IF ~HasViews(t) THEN /\ DeleteTable(t)
                            /\ pending' = pending \ {t}
                            /\ sent' = TableGone(c, t)
       ELSE IF lazily  THEN /\ MarkTableDeleted(t, c)
                            /\ sent' = {}
                            /\ UNCHANGED pending
       ELSE                 /\ sent' = {<<c, "error", t>>}
                            /\ UNCHANGED <<tableVars, pending>>
    /\ UNCHANGED <<viewVars, m_table_delete_subs, open, pollVars>>

----------------------------------------------------------------------------
(* Requests about Views. A session may know the Views of another one: that *)
(* is how a chart's worker reads the View of the page                      *)
(* (__unsafe_open_view).                                                   *)

TableMakeView(c, v, t) ==
    /\ Asks(c, "make_view")
    /\ t \in m_tables
    /\ v \notin HostedViews /\ \A d \in Clients : \A i \in DOMAIN m_client_to_view[d] :
                                  m_client_to_view[d][i] # v
    /\ ProcessForRead(t)
    /\ HostView(c, v, t)
    /\ sent' = ReadUpdates(t)
    /\ UNCHANGED <<m_table_delete_subs, open, pollVars>>

ViewOnUpdate(c, v) ==
    /\ Asks(c, "on_update")
    /\ v \in HostedViews
    /\ ProcessForRead(m_view_to_table[v])
    /\ m_update_subs' = m_update_subs \cup {<<c, v>>}
    /\ sent' = ReadUpdates(m_view_to_table[v])
    /\ UNCHANGED <<m_view_to_table, m_client_to_view, m_delete_subs,
                   m_table_delete_subs, open, pollVars>>

ViewRemoveOnUpdate(c, v) ==
    /\ Asks(c, "on_update")
    /\ m_update_subs' = m_update_subs \ {<<c, v>>}
    /\ sent' = {}
    /\ UNCHANGED <<m_view_to_table, m_client_to_view, m_delete_subs, tableVars,
                   m_table_delete_subs, joinVars, open, pending, pollVars>>

ViewOnDelete(c, v) ==
    /\ Asks(c, "on_delete")
    /\ v \in HostedViews
    /\ m_delete_subs' = m_delete_subs \cup {<<c, v>>}
    /\ sent' = {}
    /\ UNCHANGED <<m_view_to_table, m_client_to_view, m_update_subs, tableVars,
                   m_table_delete_subs, joinVars, open, pending, pollVars>>

\* Mutant: the last View of a lazily deleted Table leaves it behind.
MutCompletesDelete(v) == FALSE

\* is_table_deleted, once v is gone.
CompletesDelete(v) ==
    LET t == m_view_to_table[v]
    IN  t \in DOMAIN m_deleted_tables /\ ViewsOf(t) = {v}

ViewGone(v) == Messages(m_delete_subs, "view_on_delete", v)

\* ViewDeleteReq: the last View of a lazily deleted Table takes it along.
ViewDelete(c, v) ==
    /\ Asks(c, "delete_view")
    /\ v \in HostedViews
    /\ DeleteViews(c, {v})
    /\ LET t == m_view_to_table[v]
       IN  IF CompletesDelete(v)
           THEN /\ DeleteTable(t)
                /\ pending' = pending \ {t}
                /\ sent' = ViewGone(v) \cup TableGone(m_deleted_tables[t], t)
           ELSE /\ sent' = ViewGone(v)
                /\ UNCHANGED <<tableVars, pending>>
    /\ UNCHANGED <<m_table_delete_subs, joinVars, open, pollVars>>

\* Mutant: the first View of the session is passed over.
MutDropped(c) == {m_client_to_view[c][i] : i \in 2..Len(m_client_to_view[c])}

\* drop_client deletes the Views the session made, in order, up to one that
\* another session has deleted: delete_view throws there.
Dropped(c) ==
    LET views == m_client_to_view[c]
    IN  {views[i] : i \in {j \in DOMAIN views : \A k \in 1..j : views[k] \in HostedViews}}

\* close_session. Nobody is told of the Views that go.
CloseSession(c) ==
    /\ Asks(c, "close")
    /\ open' = open \ {c}
    /\ DeleteViews(c, Dropped(c))
    /\ sent' = {}
    /\ UNCHANGED <<tableVars, m_table_delete_subs, joinVars, pending, pollVars>>

----------------------------------------------------------------------------
(* poll.                                                                   *)

\* What happens to the messages gathered so far: they are sent once the
\* worklist is empty.
Gather(work, messages) ==
    /\ worklist' = work
    /\ outbox' = IF work = <<>> THEN {} ELSE messages
    /\ sent' = IF work = <<>> THEN messages ELSE {}

\* The dirty Tables, in the order the hash set happens to have.
Orders(S) == {f \in [1..Cardinality(S) -> S] : \A i, j \in DOMAIN f : f[i] = f[j] => i = j}

\* Mutant: only the first dirty Table's joins are looked up.
MutJoinsOf(order) == IF Len(order) > 0 THEN DependentJoins(order[1]) ELSE <<>>

\* The joins that read them.
JoinsOf(order) == Joined([i \in DOMAIN order |-> DependentJoins(order[i])])

PollTables ==
    /\ ~Polling
    /\ m_dirty_tables # {}
    /\ \E order \in Orders(m_dirty_tables) :
         Gather(JoinsOf(order), UpdatesOf(m_dirty_tables))
    /\ pending' = pending \ m_dirty_tables
    /\ stale' = stale \cup MadeStale(m_dirty_tables \cap pending)
    /\ MarkTablesClean(m_dirty_tables)
    /\ processed' = {}
    /\ changed' = m_dirty_tables
    /\ UNCHANGED <<viewVars, m_table_delete_subs, m_join_defs, m_table_to_join_tables, open>>

\* The join at the end of the worklist is recomputed, unless it was before in
\* this poll. If one of its sources is gone, the poll throws and its messages
\* are lost. A join that is left without rows queues none, and tells nobody.
PollJoin(rows) ==
    /\ Polling
    /\ LET j == worklist[Len(worklist)]
           rest == SubSeq(worklist, 1, Len(worklist) - 1)
           updates == IF rows
                      THEN UNION {Messages(m_update_subs, "on_update", v) : v \in ViewsOf(j)}
                      ELSE {}
       IN  IF j \in processed
           THEN /\ Gather(rest, outbox)
                /\ UNCHANGED <<joinVars, processed, changed>>
           ELSE IF ~(SourcesOf(j) \cup {j} \subseteq m_tables)
           THEN /\ Gather(<<>>, {})
                /\ UNCHANGED <<joinVars, processed, changed>>
           ELSE /\ Recompute(j, changed)
                /\ processed' = processed \cup {j}
                /\ changed' = changed \cup {j}
                /\ Gather(rest \o Kept(DependentJoins(j), processed'), outbox \cup updates)
    /\ UNCHANGED <<resourceVars, open, pending>>

----------------------------------------------------------------------------

ServerInit ==
    /\ ResourcesInit
    /\ JoinInit
    /\ open = Clients
    /\ pending = {}
    /\ worklist = <<>> /\ processed = {} /\ changed = {} /\ outbox = {}
    /\ sent = {}

TableRequest(c, t) ==
    \/ MakeTable(c, t)
    \/ MakeJoinTable(c, t)
    \/ TableUpdate(c, t)
    \/ \E rows \in BOOLEAN : TableReplace(c, t, rows)
    \/ Read(c, t)
    \/ FailingRead(c, t)
    \/ TableOnDelete(c, t)
    \/ \E lazily \in BOOLEAN : TableDelete(c, t, lazily)
    \/ \E v \in Views : TableMakeView(c, v, t)

ViewRequest(c, v) ==
    \/ ViewOnUpdate(c, v)
    \/ ViewRemoveOnUpdate(c, v)
    \/ ViewOnDelete(c, v)
    \/ ViewDelete(c, v)

Request ==
    \/ \E c \in Clients, t \in Tables : TableRequest(c, t)
    \/ \E c \in Clients, v \in Views : ViewRequest(c, v)
    \/ \E c \in Clients : CloseSession(c)

ServerNext ==
    \/ Request
    \/ PollTables
    \/ \E rows \in BOOLEAN : PollJoin(rows)

ServerSpec == ServerInit /\ [][ServerNext]_serverVars

ServerTypeOK ==
    /\ ResourcesTypeOK
    /\ JoinTypeOK
    /\ open \subseteq Clients /\ pending \subseteq Tables
    /\ worklist \in Seq(DOMAIN JoinOf)
    /\ processed \subseteq DOMAIN JoinOf /\ changed \subseteq Tables

----------------------------------------------------------------------------
(* What keeps it correct.                                                  *)

(* Rows wait only on Tables that are marked dirty, and dirty Tables are    *)
(* hosted: a poll finds every row, and no Table that is gone               *)
(* (get_dirty_tables reads m_tables[id] without asking).                   *)
RowsWillBePolled == pending \subseteq m_dirty_tables /\ m_dirty_tables \subseteq m_tables

(* Every View's Table is hosted as long as the View is, lazily deleted or  *)
(* not: a request about the View finds it (get_table_for_view).            *)
ViewsHaveTables == \A v \in HostedViews : m_view_to_table[v] \in m_tables

(* A Table that was made as a join stays one: while it is hosted, the      *)
(* updates of its sources reach it (unregister_join in TableDeleteReq).    *)
HostedJoinsAreJoins == m_tables \cap DOMAIN JoinOf \subseteq m_join_defs

(* The sources of a join are hosted as long as the join is registered: a   *)
(* poll that recomputes it finds them (the guard of TableDeleteReq).       *)
JoinSourcesAreHosted == \A j \in m_join_defs : SourcesOf(j) \subseteq m_tables

(* When nothing is left to poll, every join was computed from the present  *)
(* rows of its sources, through chains of joins too (the worklist of       *)
(* _poll, the right index of JoinEngine).                                  *)
JoinsAreCurrent == ~Polling /\ m_dirty_tables = {} => stale = {}

(* A lazily deleted Table has a View that keeps it: the deletion is        *)
(* completed by whatever removes the last one (is_table_deleted).          *)
LazyDeletesComplete == \A t \in DOMAIN m_deleted_tables : HasViews(t)

(* Whoever subscribed to the deletion of a View is told when it is         *)
(* deleted.                                                                *)
TellsOfDeletedViews ==
    \A v \in HostedViews \ DOMAIN m_view_to_table' :
      \A c \in Subscribed(m_delete_subs, v) \cap open' : <<c, "view_on_delete", v>> \in sent'
DeletedViewsAreTold == [][TellsOfDeletedViews]_serverVars

(* The maps of the server agree between any two requests, failed ones and  *)
(* polls that throw included: a request or a poll finds what its ids name. *)
ServerIsConsistent ==
    ServerTypeOK /\ RowsWillBePolled /\ ViewsHaveTables /\ JoinMapsAgree
============================================================================
