------------------------------- MODULE Batch -------------------------------
(***************************************************************************)
(* The rows that callers queue on an input port, and what one pass of the  *)
(* engine makes of them: t_data_table::flatten sorts a port's rows by      *)
(* primary key and arrival, and leaves at most one DELETE row and one      *)
(* INSERT row per key.                                                     *)
(*                                                                         *)
(* A cell of a queued row holds a value, Invalid (the column was not sent, *)
(* STATUS_INVALID) or Clear (an explicit null, STATUS_CLEAR).              *)
(***************************************************************************)
EXTENDS Integers, FiniteSets, Sequences

CONSTANTS Keys,     \* primary keys: numbers, ordered as t_tscalar orders them
          Cols,     \* the data columns of the table's schema
          Vals,     \* the values a cell may hold
          Invalid,  \* STATUS_INVALID
          Clear     \* STATUS_CLEAR

ASSUME KeysAssumption == Keys \subseteq Nat
ASSUME StatusAssumption == Invalid # Clear /\ Invalid \notin Vals /\ Clear \notin Vals

----------------------------------------------------------------------------
(* Queued rows.                                                            *)

Cell == Vals \cup {Invalid, Clear}
RowCells == [Cols -> Cell]
NoCells == [c \in Cols |-> Invalid]

Insert(k, cells) == [pkey |-> k, op |-> "INSERT", cells |-> cells]
Delete(k) == [pkey |-> k, op |-> "DELETE", cells |-> NoCells]

Rows == {Insert(k, cells) : k \in Keys, cells \in RowCells}
          \cup {Delete(k) : k \in Keys}

----------------------------------------------------------------------------
(* flatten.                                                                *)

Span(rows, k) == {i \in DOMAIN rows : rows[i].pkey = k}

DeletesOf(rows, k) == {i \in Span(rows, k) : rows[i].op = "DELETE"}

\* The part of a key's span that flatten_helper_1 keeps: from its last DELETE
\* on, or all of it.
Live(rows, k) == {i \in Span(rows, k) : \A d \in DeletesOf(rows, k) : d <= i}

\* A DELETE row is emitted for a key that has one, an INSERT row for a key
\* that has none or has rows after the last one.
DeletedKeys(rows) == {k \in Keys : DeletesOf(rows, k) # {}}
InsertedKeys(rows) == {k \in Keys : \E i \in Live(rows, k) : rows[i].op = "INSERT"}

\* Mutant: a column takes the earliest cell that was sent.
MutEarliestCell(rows, k, c) ==
    LET sent == {i \in Live(rows, k) : rows[i].cells[c] # Invalid}
    IN  IF sent = {} THEN Invalid
        ELSE rows[CHOOSE i \in sent : \A j \in sent : i <= j].cells[c]

\* flatten_helper_2: a column takes the latest cell of the span that was sent.
MergedCell(rows, k, c) ==
    LET sent == {i \in Live(rows, k) : rows[i].cells[c] # Invalid}
    IN  IF sent = {} THEN Invalid
        ELSE rows[CHOOSE i \in sent : \A j \in sent : j <= i].cells[c]

MergedCells(rows, k) == [c \in Cols |-> MergedCell(rows, k, c)]

Flatten(rows) == {Delete(k) : k \in DeletedKeys(rows)}
                   \cup {Insert(k, MergedCells(rows, k)) : k \in InsertedKeys(rows)}

----------------------------------------------------------------------------
(* What every flattened batch is: a set of rows, ordered by Before.        *)

OneRowPerKeyAndOp(fl) ==
    \A r, q \in fl : r.pkey = q.pkey /\ r.op = q.op => r = q

FlattenedBatches == {fl \in SUBSET Rows : IsFiniteSet(fl) /\ OneRowPerKeyAndOp(fl)}

\* The order of the flattened rows: by key, a key's DELETE before its INSERT.
Before(r, q) == \/ r.pkey < q.pkey
                \/ r.pkey = q.pkey /\ r.op = "DELETE" /\ q.op = "INSERT"

\* The position, from 0, of a row in the flattened table.
Position(fl, r) == Cardinality({q \in fl : Before(q, r)})

Inserts(fl) == {r \in fl : r.op = "INSERT"}
Deletes(fl) == {r \in fl : r.op = "DELETE"}
KeysOf(fl) == {r.pkey : r \in fl}
============================================================================
