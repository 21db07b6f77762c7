---------------------------- MODULE JoinEngine ----------------------------
(***************************************************************************)
(* JoinEngine: which Tables are joins of which others, and how old the     *)
(* rows are that each join was last computed from. A recomputation reads   *)
(* the left source anew; it reads the right one through an index, rebuilt  *)
(* only if the caller says that the right source has changed.              *)
(***************************************************************************)
EXTENDS Lists

CONSTANT JoinOf    \* the joins that callers make: id -> [left, right]

ASSUME JoinOfAssumption == \A j \in DOMAIN JoinOf : JoinOf[j].left # JoinOf[j].right

VARIABLES m_join_defs,      \* the registered joins
          m_table_to_join_tables, \* source -> the joins that read it, oldest first
          stale             \* {<<join, source>>}: the source has changed since
                            \* the join's rows were computed from it

SourcesOf(j) == {JoinOf[j].left, JoinOf[j].right}
JoinSources == UNION {SourcesOf(j) : j \in DOMAIN JoinOf}

joinVars == <<m_join_defs, m_table_to_join_tables, stale>>

JoinTypeOK ==
    /\ m_join_defs \subseteq DOMAIN JoinOf
    /\ m_table_to_join_tables \in [JoinSources -> Seq(DOMAIN JoinOf)]
    /\ stale \subseteq (DOMAIN JoinOf) \X JoinSources

JoinInit ==
    /\ m_join_defs = {}
    /\ m_table_to_join_tables = [t \in JoinSources |-> <<>>]
    /\ stale = {}

IsJoinTable(t) == t \in m_join_defs

DependentJoins(t) == IF t \in JoinSources THEN m_table_to_join_tables[t] ELSE <<>>

\* What becomes stale when the rows of the Tables in ts change.
MadeStale(ts) == {s \in m_join_defs \X ts : s[2] \in SourcesOf(s[1])}

RegisterJoin(j) ==
    /\ m_join_defs' = m_join_defs \cup {j}
    /\ m_table_to_join_tables' = [t \in JoinSources |->
                              IF t \in SourcesOf(j) THEN Append(m_table_to_join_tables[t], j)
                              ELSE m_table_to_join_tables[t]]
    /\ stale' = {s \in stale : s[1] # j} \cup MadeStale({j})

\* Mutant: the sources keep the deleted join among those that read them.
MutUnregisterJoin(j) ==
    /\ m_join_defs' = m_join_defs \ {j}
    /\ stale' = {s \in stale : s[1] # j}
    /\ UNCHANGED m_table_to_join_tables

\* The join is forgotten as a reader of its sources. Joins that read it stay.
UnregisterJoin(j) ==
    /\ m_join_defs' = m_join_defs \ {j}
    /\ m_table_to_join_tables' = [t \in JoinSources |-> Kept(m_table_to_join_tables[t], {j})]
    /\ stale' = {s \in stale : s[1] # j}

\* recompute, with right_changed if the right source is in changed.
Recompute(j, changed) ==
    /\ stale' = (stale \ ({<<j, JoinOf[j].left>>}
                            \cup {<<j, t>> : t \in changed \cap {JoinOf[j].right}}))
                  \cup MadeStale({j})
    /\ UNCHANGED <<m_join_defs, m_table_to_join_tables>>

----------------------------------------------------------------------------

(* The maps of the joins and of their readers agree: a source lists each   *)
(* registered join that reads it, once, and no other, whatever joins were  *)
(* registered and forgotten and in whichever order (a poll looks up each   *)
(* join that a source lists, and throws if it is not registered).          *)
JoinMapsAgree ==
    \A t \in JoinSources :
       LET readers == m_table_to_join_tables[t]
       IN  /\ {readers[i] : i \in DOMAIN readers} = {j \in m_join_defs : t \in SourcesOf(j)}
           /\ \A h, i \in DOMAIN readers : readers[h] = readers[i] => h = i
============================================================================
