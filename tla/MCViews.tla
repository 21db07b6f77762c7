------------------------------ MODULE MCViews ------------------------------
(***************************************************************************)
(* A Table with one View at a time, of one column: a sorted View of        *)
(* batches of one row, under every request, or a filtered one of longer    *)
(* batches.                                                                *)
(***************************************************************************)
EXTENDS Views

VARIABLE of  \* which of the two: "sorted" or "filtered"

SortedConfigs == {[filters |-> <<>>, sortBy |-> <<"x">>]}
FilterConfigs == {[filters |-> [c \in {"x"} |-> {1}], sortBy |-> <<>>],
                  [filters |-> [c \in {"x"} |-> {Null, 2}], sortBy |-> <<>>]}
AllConfigs == SortedConfigs \cup FilterConfigs

Queued == Len(m_input_ports[0])

KindsInit == ViewsInit /\ of \in {"sorted", "filtered"}

KindsNext ==
    /\ UNCHANGED of
    /\ \/ of = "sorted" /\ \E v \in ViewIds, config \in SortedConfigs : MakeView(v, config)
       \/ of = "filtered" /\ \E v \in ViewIds, config \in FilterConfigs : MakeView(v, config)
       \/ \E v \in DOMAIN m_contexts : DeleteView(v)
       \/ of = "sorted" /\ Emptying /\ ResetViews /\ Queued' <= 1
       \/ ProcessNext /\ \A p \in task \ task' : NotifyViews(p)
       \/ (Sending \/ StartRun) /\ UNCHANGED m_contexts /\ (of = "sorted" => Queued' <= 1)

KindsSpec == KindsInit /\ [][KindsNext]_<<of, viewsVars>>

(* The rows of a View and the places kept for their keys agree, as long as *)
(* nothing is cleared: t_ftrav::reset forgets the rows and not their       *)
(* places (t_ftrav::step_end, t_ftrav::reset).                             *)
ViewsAreConsistent == ViewsTypeOK /\ (of = "filtered" => PlacesAreTrue)
============================================================================
