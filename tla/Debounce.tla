------------------------------ MODULE Debounce ------------------------------
(***************************************************************************)
(* The draw lock of a panel (utils/debounce.rs): a mutex whose tasks       *)
(* either run one by one (lock_with) or are debounced in a slot: a task    *)
(* that finds another one of its slot parked settles when a task of the    *)
(* slot that runs no earlier than its call has finished.                   *)
(*                                                                         *)
(* id counts the evaluations a slot has begun, so a call made at id = n is *)
(* served by any evaluation numbered n + 1 or more.                        *)
(***************************************************************************)
EXTENDS Naturals

CONSTANTS Tasks,   \* the tasks that may wait for the lock
          Slots,   \* the debounce slots over it
          NoSlot   \* the slot of a task that is not debounced

ASSUME SlotsAssumption == NoSlot \notin Slots

VARIABLES held,    \* whether a task holds the mutex
          slot,    \* slot -> its SlotState
          call,    \* task -> its slot, where it is, its settle number, and
                   \* the evaluations begun before it (history)
          ended    \* slot -> the last evaluation that has ended (history)

debounceVars == <<held, slot, call, ended>>

NewSlot == [id |-> 0, last |-> 0, parked |-> FALSE, settled_id |-> 0]
NoCall == [slot |-> NoSlot, at |-> "idle", next |-> 0, asked |-> 0]
Larger(m, n) == IF m > n THEN m ELSE n

DebounceInit ==
    /\ held = FALSE
    /\ slot = [s \in Slots |-> NewSlot]
    /\ call = [t \in Tasks |-> NoCall]
    /\ ended = [s \in Slots |-> 0]

\* lock_with: the task queues on the mutex.
Lock(t) ==
    /\ call[t].at = "idle"
    /\ call' = [call EXCEPT ![t] = [NoCall EXCEPT !.at = "mutex"]]
    /\ UNCHANGED <<held, slot, ended>>

MutDebounce(t, s) ==
    /\ call[t].at = "idle"
    /\ LET next == slot[s].id
           at == IF slot[s].parked THEN "settle" ELSE "mutex"
       IN call' = [call EXCEPT ![t] = [slot |-> s, at |-> at, next |-> next, asked |-> slot[s].id]]
    /\ slot' = [slot EXCEPT ![s].parked = TRUE]
    /\ UNCHANGED <<held, ended>>

\* debounce_with: it waits for the parked task, or parks and queues itself.
Debounce(t, s) ==
    /\ call[t].at = "idle"
    /\ LET next == slot[s].id + 1
           at == IF slot[s].parked THEN "settle" ELSE "mutex"
       IN call' = [call EXCEPT ![t] = [slot |-> s, at |-> at, next |-> next, asked |-> slot[s].id]]
    /\ slot' = [slot EXCEPT ![s].parked = TRUE]
    /\ UNCHANGED <<held, ended>>

\* What remains of the slot when a task that settles for n drops its guard.
MutSettledFor(st, n) == [st EXCEPT !.parked = FALSE]
SettledFor(st, n) == [st EXCEPT !.parked = FALSE, !.settled_id = Larger(@, n)]

Covered(t) == call[t].slot # NoSlot /\ slot[call[t].slot].last >= call[t].next

\* The mutex is free (it is not fair: any task that waits may take it), and an
\* evaluation begins.
Acquire(t) ==
    /\ call[t].at = "mutex" /\ ~held /\ ~Covered(t)
    /\ held' = TRUE
    /\ call' = [call EXCEPT ![t].at = "run"]
    /\ slot' = [s \in Slots |-> IF s = call[t].slot
                                THEN [slot[s] EXCEPT !.parked = FALSE, !.id = @ + 1] ELSE slot[s]]
    /\ UNCHANGED ended

\* The mutex is free, but an evaluation has succeeded since the call.
Skip(t) ==
    /\ call[t].at = "mutex" /\ ~held /\ Covered(t)
    /\ slot' = [slot EXCEPT ![call[t].slot] = SettledFor(@, call[t].next)]
    /\ call' = [call EXCEPT ![t].at = "done"]
    /\ UNCHANGED <<held, ended>>

\* The evaluation ends; only a success counts for those that wait.
Release(t, ok) ==
    /\ call[t].at = "run"
    /\ held' = FALSE
    /\ call' = [call EXCEPT ![t].at = "done"]
    /\ slot' = [s \in Slots |->
         IF s # call[t].slot THEN slot[s]
         ELSE SettledFor([slot[s] EXCEPT !.last = IF ok THEN slot[s].id ELSE @], call[t].next)]
    /\ ended' = [s \in Slots |-> IF s = call[t].slot THEN slot[s].id ELSE ended[s]]

\* await_settled.
Settled(t) ==
    /\ call[t].at = "settle"
    /\ slot[call[t].slot].settled_id >= call[t].next
    /\ call' = [call EXCEPT ![t].at = "done"]
    /\ UNCHANGED <<held, slot, ended>>

\* The caller goes on.
Return(t) ==
    /\ call[t].at = "done"
    /\ call' = [call EXCEPT ![t] = NoCall]
    /\ UNCHANGED <<held, slot, ended>>

DebounceNext ==
    \E t \in Tasks :
      \/ Lock(t) \/ Acquire(t) \/ Skip(t) \/ Settled(t) \/ Return(t)
      \/ \E s \in Slots : Debounce(t, s)
      \/ \E ok \in BOOLEAN : Release(t, ok)

DebounceSpec == DebounceInit /\ [][DebounceNext]_debounceVars
----------------------------------------------------------------------------
SlotStates == [id : Nat, last : Nat, parked : BOOLEAN, settled_id : Nat]
CallStates == [slot : Slots \cup {NoSlot}, next : Nat, asked : Nat,
               at : {"idle", "mutex", "run", "settle", "done"}]

DebounceTypeOK ==
    /\ held \in BOOLEAN
    /\ slot \in [Slots -> SlotStates]
    /\ call \in [Tasks -> CallStates]
    /\ ended \in [Slots -> Nat]
    /\ \A t \in Tasks : call[t].at = "settle" => call[t].slot \in Slots

(* A debounced call resolves only after an evaluation that began no        *)
(* earlier than the call has ended (the doc of DebounceMutex).             *)
DebouncedCallsAreFresh ==
    \A t \in Tasks : call[t].at = "done" /\ call[t].slot # NoSlot => ended[call[t].slot] > call[t].asked

(* Who waits for another task to settle is never stranded: the number it   *)
(* waits for is settled, or a task that will settle it queues or runs.     *)
NobodyIsStranded ==
    \A t \in Tasks : call[t].at = "settle" =>
      \/ slot[call[t].slot].settled_id >= call[t].next
      \/ \E u \in Tasks : /\ call[u].at \in {"mutex", "run"}
                          /\ call[u].slot = call[t].slot /\ call[u].next >= call[t].next

(* At most one task of a slot queues on the mutex (debounce.rs:106-110).   *)
OneTaskQueues ==
    \A t, u \in Tasks :
      call[t].at = "mutex" /\ call[u].at = "mutex" /\ call[t].slot = call[u].slot /\ call[t].slot # NoSlot
        => t = u
=============================================================================
