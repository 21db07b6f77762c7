------------------------------- MODULE Lists -------------------------------
(***************************************************************************)
(* The lists that a server keeps, of Views and of joins: joined, and with  *)
(* members taken out.                                                      *)
(***************************************************************************)
EXTENDS Naturals, Sequences

SeqExt == INSTANCE SequencesExt

\* The lists one after the other.
Joined(lists) == SeqExt!FlattenSeq(lists)

\* The members of the list that are not in gone, in their order.
Kept(list, gone) ==
    Joined([i \in 1..Len(list) |-> IF list[i] \in gone THEN <<>> ELSE <<list[i]>>])
=============================================================================
