-------------------------- MODULE TableProperties --------------------------
(* What the callers of a Table rely on.                                    *)
EXTENDS Table

(* A Table implements the keyed table: whatever rows of storage the keys   *)
(* were given, whatever was flattened, masked or taken from the free list, *)
(* its readers see each port's rows applied one by one in arrival order    *)
(* (data_table.h flatten, gnode.cpp _process_table, gnode_state.cpp).      *)
Keyed == INSTANCE KeyedTable WITH contents <- Contents, queued <- m_input_ports
ImplementsKeyedTable == Keyed!KeyedSpec

(* A poll that is repeated until nothing is left applies every row that    *)
(* was queued.                                                             *)
RowsAreApplied ==
    \A p \in Ports : (QueuedOn(p) > 0) ~> (QueuedOn(p) = 0)

Quiescent == \A p \in DOMAIN m_input_ports : m_input_ports[p] = <<>>

(* A Table never settles with more rows than its limit.                    *)
LimitRespected == Quiescent => Cardinality(DOMAIN m_mapping) <= Limit

(* With a limit, what is left once all rows are applied are the rows that  *)
(* were inserted last, as many as the limit allows.                        *)
RetainsNewest ==
    Quiescent =>
      DOMAIN m_mapping = {n \in Keys : m_offset - Limit <= n /\ n < m_offset}
============================================================================
