----------------------------- MODULE Resources -----------------------------
(***************************************************************************)
(* ServerResources: which Tables and Views a server hosts, which session   *)
(* made each View, who subscribes to what, which Tables have rows to       *)
(* process and which wait for their Views to go before they are deleted.   *)
(***************************************************************************)
EXTENDS FiniteSets, Lists

CONSTANTS Clients,  \* session ids
          Tables,   \* entity ids of Tables
          Views     \* entity ids of Views

VARIABLES m_tables,          \* the hosted Tables
          m_view_to_table,   \* View -> its Table, for the hosted Views
          m_client_to_view,  \* session -> the Views it made, in order
          m_update_subs,     \* m_view_on_update_subs: {<<session, View>>}
          m_delete_subs,     \* m_view_on_delete_subs: {<<session, View>>}
          m_table_delete_subs,  \* m_table_on_delete_subs: {<<session, Table>>}
          m_dirty_tables,    \* Tables with rows to process
          m_deleted_tables   \* Table -> the session that deletes it lazily

resourceVars == <<m_tables, m_view_to_table, m_client_to_view, m_update_subs,
                  m_delete_subs, m_table_delete_subs, m_dirty_tables,
                  m_deleted_tables>>

viewVars == <<m_view_to_table, m_client_to_view, m_update_subs, m_delete_subs>>
tableVars == <<m_tables, m_dirty_tables, m_deleted_tables>>

HostedViews == DOMAIN m_view_to_table

ResourcesTypeOK ==
    /\ m_tables \subseteq Tables
    /\ HostedViews \subseteq Views /\ m_view_to_table \in [HostedViews -> Tables]
    /\ m_client_to_view \in [Clients -> Seq(Views)]
    /\ m_update_subs \subseteq Clients \X Views
    /\ m_delete_subs \subseteq Clients \X Views
    /\ m_table_delete_subs \subseteq Clients \X Tables
    /\ m_dirty_tables \subseteq Tables
    /\ DOMAIN m_deleted_tables \subseteq m_tables
    /\ m_deleted_tables \in [DOMAIN m_deleted_tables -> Clients]

ResourcesInit ==
    /\ m_tables = {}
    /\ m_view_to_table = <<>>
    /\ m_client_to_view = [c \in Clients |-> <<>>]
    /\ m_update_subs = {} /\ m_delete_subs = {} /\ m_table_delete_subs = {}
    /\ m_dirty_tables = {}
    /\ m_deleted_tables = <<>>

----------------------------------------------------------------------------
(* Reading.                                                                *)

ViewsOf(t) == {v \in HostedViews : m_view_to_table[v] = t}

Subscribed(subs, id) == {c \in Clients : <<c, id>> \in subs}

----------------------------------------------------------------------------
(* Operations.                                                             *)

HostTable(t) ==
    /\ m_tables' = m_tables \cup {t}
    /\ UNCHANGED <<m_dirty_tables, m_deleted_tables>>

HostView(c, v, t) ==
    /\ m_view_to_table' = [w \in HostedViews \cup {v} |->
                             IF w = v THEN t ELSE m_view_to_table[w]]
    /\ m_client_to_view' = [m_client_to_view EXCEPT ![c] = Append(@, v)]
    /\ UNCHANGED <<m_update_subs, m_delete_subs>>

\* delete_view, for each View of gone, by the session c: the Views and their
\* subscriptions go, and leave the list of c, which need not be the session
\* that made them.
DeleteViews(c, gone) ==
    /\ m_view_to_table' = [w \in HostedViews \ gone |-> m_view_to_table[w]]
    /\ m_client_to_view' = [m_client_to_view EXCEPT ![c] = Kept(@, gone)]
    /\ m_update_subs' = {s \in m_update_subs : s[2] \notin gone}
    /\ m_delete_subs' = {s \in m_delete_subs : s[2] \notin gone}

\* delete_table of a Table without Views. Its on_delete subscriptions stay.
DeleteTable(t) ==
    /\ m_tables' = m_tables \ {t}
    /\ m_dirty_tables' = m_dirty_tables \ {t}
    /\ m_deleted_tables' = [u \in DOMAIN m_deleted_tables \ {t} |-> m_deleted_tables[u]]

MarkTableDeleted(t, c) ==
    /\ m_deleted_tables' = [u \in DOMAIN m_deleted_tables \cup {t} |->
                              IF u = t THEN c ELSE m_deleted_tables[u]]
    /\ UNCHANGED <<m_tables, m_dirty_tables>>

MarkTableDirty(t) ==
    /\ m_dirty_tables' = m_dirty_tables \cup {t}
    /\ UNCHANGED <<m_tables, m_deleted_tables>>

MarkTablesClean(ts) ==
    /\ m_dirty_tables' = m_dirty_tables \ ts
    /\ UNCHANGED <<m_tables, m_deleted_tables>>
============================================================================
