------------------------------ MODULE MCPanel ------------------------------
(* Panel for TLC: the tasks are interchangeable.                           *)
EXTENDS Panel

TaskSymmetry == Permutations(Tasks)
=============================================================================
