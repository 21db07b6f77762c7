----------------------------- MODULE KeyedTable -----------------------------
(***************************************************************************)
(* What a Table promises its callers: a map from keys to rows. Each port   *)
(* is a queue of rows; applying a port applies its rows one by one, in the *)
(* order in which they were sent. No batches, rows of storage, masks or    *)
(* free lists: Table.tla implements this (see TableProperties).            *)
(***************************************************************************)
EXTENDS Batch, SequencesExt

CONSTANT Null

VARIABLES contents,  \* key -> cells
          queued     \* port -> rows sent and not yet applied

keyedVars == <<contents, queued>>

\* A cell that was sent replaces the old one, an explicit null empties it.
Overlay(old, cells) ==
    [c \in Cols |-> IF cells[c] = Invalid THEN old[c]
                    ELSE IF cells[c] = Clear THEN Null ELSE cells[c]]

Blank == [c \in Cols |-> Null]

ApplyRow(table, row) ==
    IF row.op = "DELETE"
    THEN [k \in DOMAIN table \ {row.pkey} |-> table[k]]
    ELSE [k \in DOMAIN table \cup {row.pkey} |->
            IF k # row.pkey THEN table[k]
            ELSE Overlay(IF k \in DOMAIN table THEN table[k] ELSE Blank, row.cells)]

ApplyRows(table, rows) == FoldLeft(ApplyRow, table, rows)

----------------------------------------------------------------------------

KeyedInit == contents = <<>> /\ queued = [p \in {0} |-> <<>>]

\* Rows are sent to port p: they queue behind those already there.
SendTo(p) ==
    /\ IsStrictPrefix(queued[p], queued'[p])
    /\ queued' = [queued EXCEPT ![p] = queued'[p]]

Accept ==
    /\ \E p \in DOMAIN queued : SendTo(p)
    /\ UNCHANGED contents

Apply(p) ==
    /\ contents' = ApplyRows(contents, queued[p])
    /\ queued' = [queued EXCEPT ![p] = <<>>]

EmptyTable == contents' = <<>> /\ UNCHANGED queued

ReplaceRows == contents' = <<>> /\ SendTo(0)

OpenPort(p) ==
    /\ queued' = [q \in DOMAIN queued \cup {p} |->
                    IF q = p THEN <<>> ELSE queued[q]]
    /\ UNCHANGED contents

KeyedNext ==
    \/ Accept
    \/ \E p \in DOMAIN queued : Apply(p)
    \/ EmptyTable
    \/ ReplaceRows
    \/ \E p \in DOMAIN queued' \ DOMAIN queued : OpenPort(p)

KeyedSpec == KeyedInit /\ [][KeyedNext]_keyedVars
============================================================================
