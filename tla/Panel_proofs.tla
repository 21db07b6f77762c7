---------------------------- MODULE Panel_proofs ----------------------------
(***************************************************************************)
(* Proofs about a panel. It uses its draw lock as Debounce describes it:   *)
(* whatever its tasks do, a step of the panel is a step of the lock or     *)
(* leaves the lock alone, and what is proved of the lock holds for every   *)
(* panel. Whoever has the lock is alone with the View that it draws. Once  *)
(* everybody has ended, the frame is of the last commit and the last       *)
(* update, and no View is left over.                                       *)
(***************************************************************************)
EXTENDS Panel, TLAPS

----------------------------------------------------------------------------
(* The draw lock: its slots strand nobody and serve every call with an     *)
(* evaluation that began after it, for any number of tasks and slots.      *)

Waits(t) == call[t].at \in {"mutex", "settle"}

\* The counters of a slot: what was settled has ended, what has ended began.
Counters ==
    \A s \in Slots : /\ slot[s].settled_id <= ended[s]
                     /\ slot[s].last <= ended[s]
                     /\ ended[s] <= slot[s].id

\* A call waits for an evaluation that is at most the next one of its slot, and
\* for the first that began after it.
CallsAreNumbered ==
    \A t \in Tasks : call[t].slot \in Slots =>
      /\ call[t].at # "idle" => call[t].next = call[t].asked + 1
      /\ Waits(t) => call[t].next <= slot[call[t].slot].id + 1
      /\ call[t].at = "run" => call[t].next <= slot[call[t].slot].id

\* The mark of a slot is set while a task queues for its next evaluation.
ParkedSlots == {s \in Slots : slot[s].parked}
ParkedQueues ==
    \A s \in ParkedSlots :
      \E u \in Tasks : call[u].at = "mutex" /\ call[u].slot = s /\ call[u].next = slot[s].id + 1

\* The fields of the states, one by one.
FieldsTyped ==
    /\ \A s \in Slots : slot[s].id \in Nat /\ slot[s].last \in Nat /\ slot[s].settled_id \in Nat /\ ended[s] \in Nat
    /\ \A t \in Tasks : call[t].slot \in Slots \cup {NoSlot} /\ call[t].next \in Nat /\ call[t].asked \in Nat

DebounceInv ==
    /\ DebounceTypeOK
    /\ Counters
    /\ CallsAreNumbered
    /\ ParkedQueues
    /\ NobodyIsStranded
    /\ DebouncedCallsAreFresh

----------------------------------------------------------------------------
LEMMA InitDebounce == DebounceInit => DebounceInv
<1>1. NewSlot \in SlotStates /\ NoCall \in CallStates
  BY DEF NewSlot, NoCall, SlotStates, CallStates
<1>2. DebounceInit => DebounceTypeOK
  <2>1. SUFFICES ASSUME DebounceInit PROVE DebounceTypeOK
    OBVIOUS
  <2>2. \A t \in Tasks : call[t].at = "idle"
    BY <2>1 DEF DebounceInit, NoCall
  <2>3. held \in BOOLEAN /\ ended \in [Slots -> Nat]
    BY <2>1 DEF DebounceInit
  <2>4. slot \in [Slots -> SlotStates] /\ call \in [Tasks -> CallStates]
    BY <1>1, <2>1 DEF DebounceInit
  <2> QED BY <2>2, <2>3, <2>4 DEF DebounceTypeOK
<1>3. DebounceInit => Counters /\ ParkedQueues
  BY DEF DebounceInit, Counters, ParkedQueues, ParkedSlots, NewSlot
<1>4. DebounceInit => CallsAreNumbered /\ NobodyIsStranded /\ DebouncedCallsAreFresh
  BY SlotsAssumption DEF DebounceInit, CallsAreNumbered, NobodyIsStranded, DebouncedCallsAreFresh, NoCall, Waits
<1> QED BY <1>2, <1>3, <1>4 DEF DebounceInv

\* What a slot's state becomes is again one.
LEMMA SlotBegins ==
  ASSUME NEW st \in SlotStates
  PROVE  [st EXCEPT !.parked = FALSE, !.id = @ + 1] \in SlotStates
<1>1. st.id + 1 \in Nat
  BY DEF SlotStates
<1> QED BY <1>1 DEF SlotStates

LEMMA SlotSettles ==
  ASSUME NEW st \in SlotStates, NEW n \in Nat
  PROVE  SettledFor(st, n) \in SlotStates
<1>1. Larger(st.settled_id, n) \in Nat
  BY DEF SlotStates, Larger
<1> QED BY <1>1 DEF SlotStates, SettledFor

LEMMA SlotSucceeds ==
  ASSUME NEW st \in SlotStates, NEW ok \in BOOLEAN
  PROVE  [st EXCEPT !.last = IF ok THEN st.id ELSE @] \in SlotStates
<1>1. (IF ok THEN st.id ELSE st.last) \in Nat
  BY DEF SlotStates
<1> QED BY <1>1 DEF SlotStates

LEMMA Fields == DebounceTypeOK => FieldsTyped
BY DEF DebounceTypeOK, FieldsTyped, SlotStates, CallStates

\* A call that waits for others is still served after a step that keeps what
\* was settled, and in which who queues or runs goes on doing so or settles.
LEMMA StillServed ==
  ASSUME FieldsTyped, FieldsTyped', NobodyIsStranded,
         NEW w \in Tasks, call[w].at = "settle", call[w].slot \in Slots,
         call'[w].slot = call[w].slot, call'[w].next = call[w].next,
         \A s \in Slots : slot'[s].settled_id >= slot[s].settled_id,
         \A u \in Tasks : call[u].at \in {"mutex", "run"} /\ call[u].slot \in Slots =>
            \/ /\ call'[u].at \in {"mutex", "run"}
               /\ call'[u].slot = call[u].slot
               /\ call'[u].next = call[u].next
            \/ slot'[call[u].slot].settled_id >= call[u].next
  PROVE  \/ slot'[call'[w].slot].settled_id >= call'[w].next
         \/ \E u \in Tasks : /\ call'[u].at \in {"mutex", "run"}
                             /\ call'[u].slot = call'[w].slot
                             /\ call'[u].next >= call'[w].next
<1>1. CASE slot[call[w].slot].settled_id >= call[w].next
  BY <1>1 DEF FieldsTyped
<1>2. CASE ~(slot[call[w].slot].settled_id >= call[w].next)
  <2>1. PICK u \in Tasks : /\ call[u].at \in {"mutex", "run"}
                           /\ call[u].slot = call[w].slot
                           /\ call[u].next >= call[w].next
    BY <1>2 DEF NobodyIsStranded
  <2>2. CASE /\ call'[u].at \in {"mutex", "run"}
             /\ call'[u].slot = call[u].slot
             /\ call'[u].next = call[u].next
    BY <2>1, <2>2
  <2>3. CASE slot'[call[u].slot].settled_id >= call[u].next
    BY <2>1, <2>3 DEF FieldsTyped
  <2> QED BY <2>1, <2>2, <2>3
<1> QED BY <1>1, <1>2

LEMMA LockKeeps ==
  ASSUME DebounceInv, NEW t \in Tasks, Lock(t)
  PROVE  DebounceInv'
<1> USE SlotsAssumption
<1>1. DebounceTypeOK
  BY DEF DebounceInv
<1>t. FieldsTyped /\ ParkedSlots \subseteq Slots
  BY <1>1, Fields DEF ParkedSlots
<1>2. /\ \A u \in Tasks \ {t} : call'[u] = call[u]
      /\ call[t].at = "idle" /\ call'[t].slot = NoSlot /\ call'[t].at = "mutex"
      /\ slot' = slot /\ ended' = ended
  BY <1>1 DEF DebounceTypeOK, SlotStates, CallStates, Lock, NoCall
<1>p. ParkedSlots' = ParkedSlots
  BY <1>1 DEF DebounceTypeOK, SlotStates, CallStates, ParkedSlots, Lock
<1>3. DebounceTypeOK'
  <2>1. [NoCall EXCEPT !.at = "mutex"] \in CallStates
    BY DEF NoCall, CallStates
  <2> QED BY <1>1, <2>1 DEF DebounceTypeOK, Lock, NoCall
<1>4. Counters'
  BY <1>2, <1>t DEF DebounceInv, FieldsTyped, Counters, CallsAreNumbered
<1>5. CallsAreNumbered'
  BY <1>2, <1>t DEF DebounceInv, FieldsTyped, CallsAreNumbered, Waits
<1>6. ParkedQueues'
  BY <1>2, <1>p, <1>t DEF DebounceInv, FieldsTyped, ParkedQueues
<1>7. NobodyIsStranded'
  BY <1>2, <1>t DEF DebounceInv, FieldsTyped, ParkedQueues, NobodyIsStranded
<1>8. DebouncedCallsAreFresh'
  BY <1>2, <1>t DEF DebounceInv, FieldsTyped, Counters, CallsAreNumbered, DebouncedCallsAreFresh
<1> QED BY <1>3, <1>4, <1>5, <1>6, <1>7, <1>8 DEF DebounceInv

LEMMA DebounceKeeps ==
  ASSUME DebounceInv, NEW t \in Tasks, NEW s \in Slots, Debounce(t, s)
  PROVE  DebounceInv'
<1> USE SlotsAssumption
<1>1. DebounceTypeOK
  BY DEF DebounceInv
<1>t. FieldsTyped /\ ParkedSlots \subseteq Slots
  BY <1>1, Fields DEF ParkedSlots
<1>2. /\ \A u \in Tasks \ {t} : call'[u] = call[u]
      /\ call[t].at = "idle"
      /\ call'[t].slot = s /\ call'[t].next = slot[s].id + 1 /\ call'[t].asked = slot[s].id
      /\ s \in ParkedSlots => call'[t].at = "settle"
      /\ s \notin ParkedSlots => call'[t].at = "mutex"
      /\ \A r \in Slots :
           /\ slot'[r].id = slot[r].id
           /\ slot'[r].last = slot[r].last
           /\ slot'[r].settled_id = slot[r].settled_id
      /\ ended' = ended
  BY <1>1 DEF DebounceTypeOK, SlotStates, CallStates, ParkedSlots, Debounce
<1>p. ParkedSlots' = ParkedSlots \cup {s}
  BY <1>1 DEF DebounceTypeOK, SlotStates, CallStates, ParkedSlots, Debounce
<1>3. DebounceTypeOK'
  <2>0. slot[s] \in SlotStates
    BY <1>1 DEF DebounceTypeOK
  <2>1. slot[s].id \in Nat /\ slot[s].id + 1 \in Nat
    BY <2>0 DEF SlotStates
  <2>5. [slot[s] EXCEPT !.parked = TRUE] \in SlotStates
    BY <2>0 DEF SlotStates
  <2>2. slot' \in [Slots -> SlotStates]
    BY <1>1, <2>5 DEF DebounceTypeOK, Debounce
  <2>3. ASSUME NEW at \in {"settle", "mutex"}
        PROVE  [slot |-> s, at |-> at, next |-> slot[s].id + 1, asked |-> slot[s].id] \in CallStates
    BY <2>1 DEF CallStates
  <2>4. call' \in [Tasks -> CallStates]
    BY <1>1, <2>3 DEF DebounceTypeOK, Debounce
  <2> QED BY <1>1, <1>2, <2>2, <2>4 DEF DebounceTypeOK, Debounce
<1>4. Counters'
  BY <1>2, <1>t DEF DebounceInv, FieldsTyped, Counters, CallsAreNumbered
<1>5. CallsAreNumbered'
  BY <1>2, <1>t DEF DebounceInv, FieldsTyped, CallsAreNumbered, Waits
<1>6. ParkedQueues'
  BY <1>2, <1>p, <1>t DEF DebounceInv, FieldsTyped, ParkedQueues
<1>7. NobodyIsStranded'
  <2>1. SUFFICES ASSUME NEW w \in Tasks, call'[w].at = "settle"
                 PROVE  \/ slot'[call'[w].slot].settled_id >= call'[w].next
                        \/ \E u \in Tasks : /\ call'[u].at \in {"mutex", "run"}
                                            /\ call'[u].slot = call'[w].slot
                                            /\ call'[u].next >= call'[w].next
    BY DEF NobodyIsStranded
  <2>2. FieldsTyped'
    BY <1>3, Fields, PTL
  <2>3. CASE w # t
    <3>1. call[w].at = "settle" /\ call[w].slot \in Slots
      BY <1>1, <1>2, <2>1, <2>3 DEF DebounceTypeOK
    <3>2. call'[w].slot = call[w].slot /\ call'[w].next = call[w].next
      BY <1>2, <2>3
    <3>3. \A r \in Slots : slot'[r].settled_id >= slot[r].settled_id
      BY <1>2, <1>t DEF FieldsTyped
    <3>4. \A u \in Tasks : call[u].at \in {"mutex", "run"} =>
             call'[u].at \in {"mutex", "run"} /\ call'[u].slot = call[u].slot /\ call'[u].next = call[u].next
      BY <1>2
    <3>5. NobodyIsStranded
      BY DEF DebounceInv
    <3> QED BY <1>t, <2>2, <3>1, <3>2, <3>3, <3>4, <3>5, StillServed
  <2>4. CASE w = t
    <3>1. s \in ParkedSlots
      BY <1>2, <2>1, <2>4
    <3>2. PICK u \in Tasks : call[u].at = "mutex" /\ call[u].slot = s /\ call[u].next = slot[s].id + 1
      BY <3>1 DEF DebounceInv, ParkedQueues
    <3> QED BY <1>2, <1>t, <2>4, <3>2 DEF FieldsTyped
  <2> QED BY <2>3, <2>4
<1>8. DebouncedCallsAreFresh'
  BY <1>2, <1>t DEF DebounceInv, FieldsTyped, Counters, CallsAreNumbered, DebouncedCallsAreFresh
<1> QED BY <1>3, <1>4, <1>5, <1>6, <1>7, <1>8 DEF DebounceInv

LEMMA AcquireKeeps ==
  ASSUME DebounceInv, NEW t \in Tasks, Acquire(t)
  PROVE  DebounceInv'
<1> USE SlotsAssumption
<1>1. DebounceTypeOK
  BY DEF DebounceInv
<1>t. FieldsTyped /\ ParkedSlots \subseteq Slots
  BY <1>1, Fields DEF ParkedSlots
<1>2. /\ \A u \in Tasks :
           /\ call'[u].slot = call[u].slot
           /\ call'[u].next = call[u].next
           /\ call'[u].asked = call[u].asked
           /\ u # t => call'[u].at = call[u].at
      /\ call[t].at = "mutex" /\ call'[t].at = "run"
      /\ \A s \in Slots :
           /\ slot'[s].last = slot[s].last
           /\ slot'[s].settled_id = slot[s].settled_id
           /\ s = call[t].slot => slot'[s].id = slot[s].id + 1
           /\ s # call[t].slot => slot'[s].id = slot[s].id
      /\ ended' = ended
  <2>1. /\ \A u \in Tasks :
             /\ call'[u].slot = call[u].slot
             /\ call'[u].next = call[u].next
             /\ call'[u].asked = call[u].asked
             /\ u # t => call'[u].at = call[u].at
        /\ call[t].at = "mutex" /\ call'[t].at = "run"
    BY <1>1 DEF DebounceTypeOK, CallStates, Acquire
  <2>2. ASSUME NEW s \in Slots
        PROVE  /\ slot'[s].last = slot[s].last
               /\ slot'[s].settled_id = slot[s].settled_id
               /\ s = call[t].slot => slot'[s].id = slot[s].id + 1
               /\ s # call[t].slot => slot'[s].id = slot[s].id
    <3>1. DOMAIN slot[s] = {"id", "last", "parked", "settled_id"}
      BY <1>1 DEF DebounceTypeOK, SlotStates
    <3>2. slot'[s] = IF s = call[t].slot
                     THEN [slot[s] EXCEPT !.parked = FALSE, !.id = slot[s].id + 1] ELSE slot[s]
      BY DEF Acquire
    <3> QED BY <3>1, <3>2
  <2>3. ended' = ended
    BY DEF Acquire
  <2> QED BY <2>1, <2>2, <2>3
<1>p. ParkedSlots' = ParkedSlots \ {call[t].slot}
  BY <1>1 DEF DebounceTypeOK, SlotStates, CallStates, ParkedSlots, Acquire
<1>3. DebounceTypeOK'
  <2>1. [call[t] EXCEPT !.at = "run"] \in CallStates
    BY <1>1 DEF DebounceTypeOK, CallStates
  <2>2. call' \in [Tasks -> CallStates]
    BY <1>1, <2>1 DEF DebounceTypeOK, Acquire
  <2>3. slot' \in [Slots -> SlotStates]
    BY <1>1, SlotBegins DEF DebounceTypeOK, Acquire
  <2> QED BY <1>1, <1>2, <2>2, <2>3 DEF DebounceTypeOK, Acquire
<1>4. Counters'
  BY <1>2, <1>t DEF DebounceInv, FieldsTyped, Counters, CallsAreNumbered
<1>5. CallsAreNumbered'
  BY <1>2, <1>t DEF DebounceInv, FieldsTyped, CallsAreNumbered, Waits
<1>6. ParkedQueues'
  BY <1>2, <1>p, <1>t DEF DebounceInv, FieldsTyped, ParkedQueues
<1>7. NobodyIsStranded'
  <2>1. SUFFICES ASSUME NEW w \in Tasks, call'[w].at = "settle"
                 PROVE  \/ slot'[call'[w].slot].settled_id >= call'[w].next
                        \/ \E u \in Tasks : /\ call'[u].at \in {"mutex", "run"}
                                            /\ call'[u].slot = call'[w].slot
                                            /\ call'[u].next >= call'[w].next
    BY DEF NobodyIsStranded
  <2>2. FieldsTyped'
    BY <1>3, Fields, PTL
  <2>3. w # t /\ call[w].at = "settle" /\ call[w].slot \in Slots
    BY <1>1, <1>2, <2>1 DEF DebounceTypeOK
  <2>4. \A s \in Slots : slot'[s].settled_id >= slot[s].settled_id
    BY <1>2, <1>t DEF FieldsTyped
  <2>5. \A u \in Tasks : call[u].at \in {"mutex", "run"} /\ call[u].slot \in Slots =>
           \/ /\ call'[u].at \in {"mutex", "run"}
              /\ call'[u].slot = call[u].slot
              /\ call'[u].next = call[u].next
           \/ slot'[call[u].slot].settled_id >= call[u].next
    BY <1>2, <1>t DEF FieldsTyped
  <2>6. call'[w].slot = call[w].slot /\ call'[w].next = call[w].next
    BY <1>2
  <2>7. NobodyIsStranded
    BY DEF DebounceInv
  <2> QED BY <1>t, <2>2, <2>3, <2>4, <2>5, <2>6, <2>7, StillServed
<1>8. DebouncedCallsAreFresh'
  BY <1>2, <1>t DEF DebounceInv, FieldsTyped, Counters, CallsAreNumbered, DebouncedCallsAreFresh
<1> QED BY <1>3, <1>4, <1>5, <1>6, <1>7, <1>8 DEF DebounceInv

LEMMA SkipKeeps ==
  ASSUME DebounceInv, NEW t \in Tasks, Skip(t)
  PROVE  DebounceInv'
<1> USE SlotsAssumption
<1>1. DebounceTypeOK
  BY DEF DebounceInv
<1>t. FieldsTyped /\ ParkedSlots \subseteq Slots
  BY <1>1, Fields DEF ParkedSlots
<1>2. /\ \A u \in Tasks :
           /\ call'[u].slot = call[u].slot
           /\ call'[u].next = call[u].next
           /\ call'[u].asked = call[u].asked
           /\ u # t => call'[u].at = call[u].at
      /\ call[t].at = "mutex" /\ call'[t].at = "done"
      /\ call[t].slot \in Slots /\ slot[call[t].slot].last >= call[t].next
      /\ \A s \in Slots :
           /\ slot'[s].last = slot[s].last /\ slot'[s].id = slot[s].id
           /\ s # call[t].slot => slot'[s].settled_id = slot[s].settled_id
           /\ s = call[t].slot =>
                /\ slot'[s].settled_id >= slot[s].settled_id
                /\ slot'[s].settled_id >= call[t].next
                /\ slot'[s].settled_id \in {slot[s].settled_id, call[t].next}
      /\ ended' = ended
  <2>1. /\ \A u \in Tasks :
             /\ call'[u].slot = call[u].slot
             /\ call'[u].next = call[u].next
             /\ call'[u].asked = call[u].asked
             /\ u # t => call'[u].at = call[u].at
        /\ call[t].at = "mutex" /\ call'[t].at = "done"
    BY <1>1 DEF DebounceTypeOK, CallStates, Skip
  <2>2. call[t].slot \in Slots /\ slot[call[t].slot].last >= call[t].next /\ ended' = ended
    BY <1>1 DEF DebounceTypeOK, CallStates, Skip, Covered
  <2>3. call[t].next \in Nat
    BY <1>1 DEF DebounceTypeOK, CallStates
  <2>4. ASSUME NEW s \in Slots
        PROVE  /\ slot'[s].last = slot[s].last /\ slot'[s].id = slot[s].id
               /\ s # call[t].slot => slot'[s].settled_id = slot[s].settled_id
               /\ s = call[t].slot => slot'[s].settled_id = Larger(slot[s].settled_id, call[t].next)
    <3>1. DOMAIN slot[s] = {"id", "last", "parked", "settled_id"}
      BY <1>1 DEF DebounceTypeOK, SlotStates
    <3>2. slot'[s] = IF s = call[t].slot THEN SettledFor(slot[s], call[t].next) ELSE slot[s]
      BY <1>1, <2>2 DEF DebounceTypeOK, Skip
    <3> QED BY <3>1, <3>2 DEF SettledFor
  <2>5. ASSUME NEW s \in Slots
        PROVE  /\ Larger(slot[s].settled_id, call[t].next) >= slot[s].settled_id
               /\ Larger(slot[s].settled_id, call[t].next) >= call[t].next
               /\ Larger(slot[s].settled_id, call[t].next) \in {slot[s].settled_id, call[t].next}
    <3>1. slot[s].settled_id \in Nat
      BY <1>1 DEF DebounceTypeOK, SlotStates
    <3> QED BY <2>3, <3>1 DEF Larger
  <2> QED BY <2>1, <2>2, <2>4, <2>5
<1>p. ParkedSlots' = ParkedSlots \ {call[t].slot}
  BY <1>1 DEF DebounceTypeOK, SlotStates, CallStates, ParkedSlots, Skip, Covered, SettledFor
<1>3. DebounceTypeOK'
  <2>1. [call[t] EXCEPT !.at = "done"] \in CallStates
    BY <1>1 DEF DebounceTypeOK, CallStates
  <2>2. call' \in [Tasks -> CallStates]
    BY <1>1, <2>1 DEF DebounceTypeOK, Skip
  <2>3. call[t].next \in Nat
    BY <1>1 DEF DebounceTypeOK, CallStates
  <2>4. slot' \in [Slots -> SlotStates]
    BY <1>1, <1>2, <2>3, SlotSettles DEF DebounceTypeOK, Skip
  <2> QED BY <1>1, <1>2, <2>2, <2>4 DEF DebounceTypeOK, Skip
<1>4. Counters'
  BY <1>2, <1>t DEF DebounceInv, FieldsTyped, Counters, CallsAreNumbered
<1>5. CallsAreNumbered'
  BY <1>2, <1>t DEF DebounceInv, FieldsTyped, CallsAreNumbered, Waits
<1>6. ParkedQueues'
  BY <1>2, <1>p, <1>t DEF DebounceInv, FieldsTyped, ParkedQueues
<1>7. NobodyIsStranded'
  <2>1. SUFFICES ASSUME NEW w \in Tasks, call'[w].at = "settle"
                 PROVE  \/ slot'[call'[w].slot].settled_id >= call'[w].next
                        \/ \E u \in Tasks : /\ call'[u].at \in {"mutex", "run"}
                                            /\ call'[u].slot = call'[w].slot
                                            /\ call'[u].next >= call'[w].next
    BY DEF NobodyIsStranded
  <2>2. FieldsTyped'
    BY <1>3, Fields, PTL
  <2>3. w # t /\ call[w].at = "settle" /\ call[w].slot \in Slots
    BY <1>1, <1>2, <2>1 DEF DebounceTypeOK
  <2>4. \A s \in Slots : slot'[s].settled_id >= slot[s].settled_id
    BY <1>2, <1>t DEF FieldsTyped
  <2>5. \A u \in Tasks : call[u].at \in {"mutex", "run"} /\ call[u].slot \in Slots =>
           \/ /\ call'[u].at \in {"mutex", "run"}
              /\ call'[u].slot = call[u].slot
              /\ call'[u].next = call[u].next
           \/ slot'[call[u].slot].settled_id >= call[u].next
    BY <1>2, <1>t DEF FieldsTyped
  <2>6. call'[w].slot = call[w].slot /\ call'[w].next = call[w].next
    BY <1>2
  <2>7. NobodyIsStranded
    BY DEF DebounceInv
  <2> QED BY <1>t, <2>2, <2>3, <2>4, <2>5, <2>6, <2>7, StillServed
<1>8. DebouncedCallsAreFresh'
  BY <1>2, <1>t DEF DebounceInv, FieldsTyped, Counters, CallsAreNumbered, DebouncedCallsAreFresh
<1> QED BY <1>3, <1>4, <1>5, <1>6, <1>7, <1>8 DEF DebounceInv

LEMMA ReleaseKeeps ==
  ASSUME DebounceInv, NEW t \in Tasks, NEW ok \in BOOLEAN, Release(t, ok)
  PROVE  DebounceInv'
<1> USE SlotsAssumption
<1>1. DebounceTypeOK
  BY DEF DebounceInv
<1>t. FieldsTyped /\ ParkedSlots \subseteq Slots
  BY <1>1, Fields DEF ParkedSlots
<1>2. /\ \A u \in Tasks :
           /\ call'[u].slot = call[u].slot
           /\ call'[u].next = call[u].next
           /\ call'[u].asked = call[u].asked
           /\ u # t => call'[u].at = call[u].at
      /\ call[t].at = "run" /\ call'[t].at = "done"
      /\ \A s \in Slots :
           /\ slot'[s].id = slot[s].id
           /\ s # call[t].slot => slot'[s].settled_id = slot[s].settled_id
           /\ s # call[t].slot => slot'[s].last = slot[s].last
           /\ s # call[t].slot => ended'[s] = ended[s]
           /\ s = call[t].slot =>
                /\ slot'[s].last \in {slot[s].last, slot[s].id}
                /\ slot'[s].settled_id >= slot[s].settled_id
                /\ slot'[s].settled_id >= call[t].next
                /\ slot'[s].settled_id \in {slot[s].settled_id, call[t].next}
                /\ ended'[s] = slot[s].id
  <2>1. \A s \in Slots : slot[s].id \in Nat /\ slot[s].last \in Nat /\ slot[s].settled_id \in Nat
    BY <1>1 DEF DebounceTypeOK, SlotStates
  <2>2. call[t].next \in Nat
    BY <1>1 DEF DebounceTypeOK, CallStates
  <2>3. ASSUME NEW s \in Slots, s # call[t].slot
        PROVE  slot'[s] = slot[s] /\ ended'[s] = ended[s]
    BY <1>1, <2>3 DEF DebounceTypeOK, Release
  <2>4. ASSUME NEW s \in Slots, s = call[t].slot
        PROVE  /\ slot'[s].id = slot[s].id
               /\ slot'[s].last \in {slot[s].last, slot[s].id}
               /\ slot'[s].settled_id = Larger(slot[s].settled_id, call[t].next)
               /\ ended'[s] = slot[s].id
    <3> DEFINE r == [slot[s] EXCEPT !.last = IF ok THEN slot[s].id ELSE slot[s].last]
    <3>1. DOMAIN slot[s] = {"id", "last", "parked", "settled_id"}
      BY <1>1 DEF DebounceTypeOK, SlotStates
    <3>4. ended'[s] = slot[s].id
      BY <2>4 DEF Release
    <3>2. slot'[s] = SettledFor(r, call[t].next)
      BY <2>4 DEF Release
    <3>3. /\ DOMAIN r = {"id", "last", "parked", "settled_id"}
          /\ r.id = slot[s].id /\ r.last \in {slot[s].last, slot[s].id}
          /\ r.settled_id = slot[s].settled_id
      BY <3>1
    <3> HIDE DEF r
    <3> QED BY <3>2, <3>3, <3>4 DEF SettledFor
  <2>5. ASSUME NEW m \in Nat, NEW n \in Nat
        PROVE  Larger(m, n) >= m /\ Larger(m, n) >= n /\ Larger(m, n) \in {m, n}
    BY DEF Larger
  <2>6. /\ \A u \in Tasks :
             /\ call'[u].slot = call[u].slot
             /\ call'[u].next = call[u].next
             /\ call'[u].asked = call[u].asked
             /\ u # t => call'[u].at = call[u].at
        /\ call[t].at = "run" /\ call'[t].at = "done"
    BY <1>1 DEF DebounceTypeOK, CallStates, Release
  <2>7. ASSUME NEW s \in Slots
        PROVE  /\ slot'[s].id = slot[s].id
               /\ s # call[t].slot => slot'[s].settled_id = slot[s].settled_id
               /\ s # call[t].slot => slot'[s].last = slot[s].last
               /\ s # call[t].slot => ended'[s] = ended[s]
    BY <2>3, <2>4
  <2>8. ASSUME NEW s \in Slots, s = call[t].slot
        PROVE  /\ slot'[s].last \in {slot[s].last, slot[s].id}
               /\ slot'[s].settled_id >= slot[s].settled_id
               /\ slot'[s].settled_id >= call[t].next
               /\ slot'[s].settled_id \in {slot[s].settled_id, call[t].next}
               /\ ended'[s] = slot[s].id
    <3>1. slot[s].settled_id \in Nat
      BY <2>1
    <3>2. /\ Larger(slot[s].settled_id, call[t].next) >= slot[s].settled_id
          /\ Larger(slot[s].settled_id, call[t].next) >= call[t].next
          /\ Larger(slot[s].settled_id, call[t].next) \in {slot[s].settled_id, call[t].next}
      BY <3>1, <2>2, <2>5
    <3> QED BY <2>4, <2>8, <3>2
  <2>9. \A s \in Slots :
           /\ slot'[s].id = slot[s].id
           /\ s # call[t].slot => slot'[s].settled_id = slot[s].settled_id
           /\ s # call[t].slot => slot'[s].last = slot[s].last
           /\ s # call[t].slot => ended'[s] = ended[s]
           /\ s = call[t].slot =>
                /\ slot'[s].last \in {slot[s].last, slot[s].id}
                /\ slot'[s].settled_id >= slot[s].settled_id
                /\ slot'[s].settled_id >= call[t].next
                /\ slot'[s].settled_id \in {slot[s].settled_id, call[t].next}
                /\ ended'[s] = slot[s].id
    <3>1. SUFFICES ASSUME NEW s \in Slots
                   PROVE  /\ slot'[s].id = slot[s].id
                          /\ s # call[t].slot => slot'[s].settled_id = slot[s].settled_id
                          /\ s # call[t].slot => slot'[s].last = slot[s].last
                          /\ s # call[t].slot => ended'[s] = ended[s]
                          /\ s = call[t].slot =>
                               /\ slot'[s].last \in {slot[s].last, slot[s].id}
                               /\ slot'[s].settled_id >= slot[s].settled_id
                               /\ slot'[s].settled_id >= call[t].next
                               /\ slot'[s].settled_id \in {slot[s].settled_id, call[t].next}
                               /\ ended'[s] = slot[s].id
      OBVIOUS
    <3>2. CASE s = call[t].slot
      BY <2>7, <2>8, <3>2
    <3>3. CASE s # call[t].slot
      BY <2>7, <3>3
    <3> QED BY <3>2, <3>3
  <2> QED BY <2>6, <2>9
<1>p. ParkedSlots' = ParkedSlots \ {call[t].slot}
  BY <1>1 DEF DebounceTypeOK, SlotStates, CallStates, ParkedSlots, Release, SettledFor
<1>3. DebounceTypeOK'
  <2>1. [call[t] EXCEPT !.at = "done"] \in CallStates
    BY <1>1 DEF DebounceTypeOK, CallStates
  <2>2. call' \in [Tasks -> CallStates]
    BY <1>1, <2>1 DEF DebounceTypeOK, Release
  <2>3. call[t].next \in Nat
    BY <1>1 DEF DebounceTypeOK, CallStates
  <2>4. ASSUME NEW s \in Slots
        PROVE  SettledFor([slot[s] EXCEPT !.last = IF ok THEN slot[s].id ELSE @], call[t].next) \in SlotStates
    <3>1. slot[s] \in SlotStates
      BY <1>1 DEF DebounceTypeOK
    <3> QED BY <2>3, <3>1, SlotSucceeds, SlotSettles
  <2>5. slot' \in [Slots -> SlotStates]
    BY <1>1, <2>4 DEF DebounceTypeOK, Release
  <2>6. ended' \in [Slots -> Nat]
    BY <1>1 DEF DebounceTypeOK, SlotStates, Release
  <2> QED BY <1>1, <1>2, <2>2, <2>5, <2>6 DEF DebounceTypeOK, Release
<1>4. Counters'
  BY <1>2, <1>t DEF DebounceInv, FieldsTyped, Counters, CallsAreNumbered
<1>5. CallsAreNumbered'
  BY <1>2, <1>t DEF DebounceInv, FieldsTyped, CallsAreNumbered, Waits
<1>6. ParkedQueues'
  BY <1>2, <1>p, <1>t DEF DebounceInv, FieldsTyped, ParkedQueues
<1>7. NobodyIsStranded'
  <2>1. SUFFICES ASSUME NEW w \in Tasks, call'[w].at = "settle"
                 PROVE  \/ slot'[call'[w].slot].settled_id >= call'[w].next
                        \/ \E u \in Tasks : /\ call'[u].at \in {"mutex", "run"}
                                            /\ call'[u].slot = call'[w].slot
                                            /\ call'[u].next >= call'[w].next
    BY DEF NobodyIsStranded
  <2>2. FieldsTyped'
    BY <1>3, Fields, PTL
  <2>3. w # t /\ call[w].at = "settle" /\ call[w].slot \in Slots
    BY <1>1, <1>2, <2>1 DEF DebounceTypeOK
  <2>4. \A s \in Slots : slot'[s].settled_id >= slot[s].settled_id
    BY <1>2, <1>t DEF FieldsTyped
  <2>5. \A u \in Tasks : call[u].at \in {"mutex", "run"} /\ call[u].slot \in Slots =>
           \/ /\ call'[u].at \in {"mutex", "run"}
              /\ call'[u].slot = call[u].slot
              /\ call'[u].next = call[u].next
           \/ slot'[call[u].slot].settled_id >= call[u].next
    BY <1>2, <1>t DEF FieldsTyped
  <2>6. call'[w].slot = call[w].slot /\ call'[w].next = call[w].next
    BY <1>2
  <2>7. NobodyIsStranded
    BY DEF DebounceInv
  <2> QED BY <1>t, <2>2, <2>3, <2>4, <2>5, <2>6, <2>7, StillServed
<1>8. DebouncedCallsAreFresh'
  BY <1>2, <1>t DEF DebounceInv, FieldsTyped, Counters, CallsAreNumbered, DebouncedCallsAreFresh
<1> QED BY <1>3, <1>4, <1>5, <1>6, <1>7, <1>8 DEF DebounceInv

LEMMA SettledKeeps ==
  ASSUME DebounceInv, NEW t \in Tasks, Settled(t)
  PROVE  DebounceInv'
<1> USE SlotsAssumption
<1>1. DebounceTypeOK
  BY DEF DebounceInv
<1>t. FieldsTyped /\ ParkedSlots \subseteq Slots
  BY <1>1, Fields DEF ParkedSlots
<1>2. /\ \A u \in Tasks :
           /\ call'[u].slot = call[u].slot
           /\ call'[u].next = call[u].next
           /\ call'[u].asked = call[u].asked
           /\ u # t => call'[u].at = call[u].at
      /\ call[t].at = "settle" /\ call'[t].at = "done"
      /\ call[t].slot \in Slots /\ slot[call[t].slot].settled_id >= call[t].next
      /\ slot' = slot /\ ended' = ended
  BY <1>1 DEF DebounceTypeOK, SlotStates, CallStates, Settled
<1>p. ParkedSlots' = ParkedSlots
  BY <1>1 DEF DebounceTypeOK, SlotStates, CallStates, ParkedSlots, Settled
<1>3. DebounceTypeOK'
  <2>1. [call[t] EXCEPT !.at = "done"] \in CallStates
    BY <1>1 DEF DebounceTypeOK, CallStates
  <2>2. call' \in [Tasks -> CallStates]
    BY <1>1, <2>1 DEF DebounceTypeOK, Settled
  <2> QED BY <1>1, <1>2, <2>2 DEF DebounceTypeOK, Settled
<1>4. Counters'
  BY <1>2, <1>t DEF DebounceInv, FieldsTyped, Counters, CallsAreNumbered
<1>5. CallsAreNumbered'
  BY <1>2, <1>t DEF DebounceInv, FieldsTyped, CallsAreNumbered, Waits
<1>6. ParkedQueues'
  BY <1>2, <1>p, <1>t DEF DebounceInv, FieldsTyped, ParkedQueues
<1>7. NobodyIsStranded'
  BY <1>2, <1>t DEF DebounceInv, FieldsTyped, ParkedQueues, NobodyIsStranded
<1>8. DebouncedCallsAreFresh'
  BY <1>2, <1>t DEF DebounceInv, FieldsTyped, Counters, CallsAreNumbered, DebouncedCallsAreFresh
<1> QED BY <1>3, <1>4, <1>5, <1>6, <1>7, <1>8 DEF DebounceInv

LEMMA ReturnKeeps ==
  ASSUME DebounceInv, NEW t \in Tasks, Return(t)
  PROVE  DebounceInv'
<1> USE SlotsAssumption
<1>1. DebounceTypeOK
  BY DEF DebounceInv
<1>t. FieldsTyped /\ ParkedSlots \subseteq Slots
  BY <1>1, Fields DEF ParkedSlots
<1>2. /\ \A u \in Tasks \ {t} : call'[u] = call[u]
      /\ call'[t].slot = NoSlot /\ call[t].at = "done" /\ call'[t].at = "idle"
      /\ slot' = slot /\ ended' = ended
  BY <1>1 DEF DebounceTypeOK, SlotStates, CallStates, Return, NoCall
<1>p. ParkedSlots' = ParkedSlots
  BY <1>1 DEF DebounceTypeOK, SlotStates, CallStates, ParkedSlots, Return
<1>3. DebounceTypeOK'
  <2>1. NoCall \in CallStates
    BY DEF NoCall, CallStates
  <2> QED BY <1>1, <1>2, <2>1 DEF DebounceTypeOK, Return
<1>4. Counters'
  BY <1>2, <1>t DEF DebounceInv, FieldsTyped, Counters, CallsAreNumbered
<1>5. CallsAreNumbered'
  BY <1>2, <1>t DEF DebounceInv, FieldsTyped, CallsAreNumbered, Waits
<1>6. ParkedQueues'
  BY <1>2, <1>p, <1>t DEF DebounceInv, FieldsTyped, ParkedQueues
<1>7. NobodyIsStranded'
  BY <1>2, <1>t DEF DebounceInv, FieldsTyped, ParkedQueues, NobodyIsStranded
<1>8. DebouncedCallsAreFresh'
  BY <1>2, <1>t DEF DebounceInv, FieldsTyped, Counters, CallsAreNumbered, DebouncedCallsAreFresh
<1> QED BY <1>3, <1>4, <1>5, <1>6, <1>7, <1>8 DEF DebounceInv

----------------------------------------------------------------------------
\* Any step of the lock keeps the invariant, and so does any step that leaves
\* the lock alone.
LEMMA NextDebounce == DebounceInv /\ [DebounceNext]_debounceVars => DebounceInv'
<1> SUFFICES ASSUME DebounceInv, [DebounceNext]_debounceVars PROVE DebounceInv'
  OBVIOUS
<1>1. CASE DebounceNext
  <2>1. PICK t \in Tasks :
          \/ Lock(t) \/ Acquire(t) \/ Skip(t) \/ Settled(t) \/ Return(t)
          \/ \E s \in Slots : Debounce(t, s)
          \/ \E ok \in BOOLEAN : Release(t, ok)
    BY <1>1 DEF DebounceNext
  <2> QED BY <2>1, LockKeeps, AcquireKeeps, SkipKeeps, SettledKeeps, ReturnKeeps, DebounceKeeps, ReleaseKeeps
<1>2. CASE UNCHANGED debounceVars
  BY <1>2 DEF debounceVars, DebounceInv, DebounceTypeOK, Counters, CallsAreNumbered, ParkedQueues,
              ParkedSlots, NobodyIsStranded, DebouncedCallsAreFresh, Waits
<1> QED BY <1>1, <1>2

\* The strengthened invariant of the draw lock (debounce.rs).
THEOREM DebounceInvariant == DebounceSpec => []DebounceInv
  BY InitDebounce, NextDebounce, PTL DEF DebounceSpec

\* No caller waits for a number that nobody will settle, whatever fails or is
\* skipped (debounce.rs:225-231).
THEOREM NoStrandedCaller == DebounceSpec => []NobodyIsStranded
<1>1. DebounceInv => NobodyIsStranded
  BY DEF DebounceInv
<1> QED BY <1>1, DebounceInvariant, PTL

\* A debounced call ends after an evaluation that began no earlier than it
\* (debounce.rs:189-223).
THEOREM FreshCalls == DebounceSpec => []DebouncedCallsAreFresh
<1>1. DebounceInv => DebouncedCallsAreFresh
  BY DEF DebounceInv
<1> QED BY <1>1, DebounceInvariant, PTL

----------------------------------------------------------------------------
(* A panel's steps are steps of its lock.                                  *)

Locks == [DebounceNext]_debounceVars

\* The steps of the lock.
LEMMA LockSteps ==
  ASSUME NEW t \in Tasks
  PROVE  /\ (Lock(t) \/ Acquire(t) \/ Skip(t) \/ Settled(t) \/ Return(t)) => Locks
         /\ \A s \in Slots : Debounce(t, s) => Locks
         /\ \A ok \in BOOLEAN : Release(t, ok) => Locks
         /\ UNCHANGED debounceVars => Locks
BY DEF Locks, DebounceNext

LEMMA SlotsOfPanel == DrawSlot \in Slots /\ GeometrySlot \in Slots
BY PanelAssumption

LEMMA EndsLocks ==
  ASSUME NEW t \in Tasks, NEW ok, NEW s, NEW r, NEW live, NEW lost, Ends(t, ok, s, r, live, lost), ok \in BOOLEAN
  PROVE  Locks
BY LockSteps DEF Ends

LEMMA SnapshotsLocks ==
  ASSUME NEW t \in Tasks, NEW s, NEW live, Snapshots(t, s, live)
  PROVE  Locks
<1> DEFINE r == Swapped(renderer, job[t].plugin)
<1>1. CASE Ends(t, ~job[t].public, s, r, live, lapses)
  <2>1. (~job[t].public) \in BOOLEAN
    OBVIOUS
  <2> QED BY <1>1, <2>1, EndsLocks
<1>2. CASE Ends(t, TRUE, s, r, live, lapses \cup {"deferred"})
  BY <1>2, EndsLocks
<1>3. CASE Ends(t, TRUE, s, r, live, lapses)
  BY <1>3, EndsLocks
<1>4. CASE UNCHANGED debounceVars
  BY <1>4, LockSteps
<1> QED BY <1>1, <1>2, <1>3, <1>4 DEF Snapshots

LEMMA DispatchesLocks ==
  ASSUME NEW t \in Tasks, NEW how, NEW s, NEW live, NEW lost, Dispatches(t, how, s, live, lost)
  PROVE  Locks
<1> DEFINE pinned == Pinned(renderer, [view |-> s.sub, config |-> s.build])
<1>1. CASE Ends(t, FALSE, s, renderer, live, lost)
  BY <1>1, EndsLocks
<1>2. CASE Ends(t, TRUE, s, pinned, live, lost)
  BY <1>2, EndsLocks
<1>3. CASE UNCHANGED debounceVars
  BY <1>3, LockSteps
<1> QED BY <1>1, <1>2, <1>3 DEF Dispatches

----------------------------------------------------------------------------
(* The steps under the lock.                                               *)

LEMMA BeginLocks == ASSUME NEW t \in Tasks, Begin(t) PROVE Locks
BY EndsLocks, SnapshotsLocks, DispatchesLocks, LockSteps DEF Begin

LEMMA BeginLoadLocks == ASSUME NEW t \in Tasks, BeginLoad(t) PROVE Locks
BY EndsLocks, SnapshotsLocks, DispatchesLocks, LockSteps DEF BeginLoad

LEMMA BeginActivationLocks == ASSUME NEW t \in Tasks, BeginActivation(t) PROVE Locks
BY EndsLocks, SnapshotsLocks, DispatchesLocks, LockSteps DEF BeginActivation

LEMMA BeginUpdateLocks == ASSUME NEW t \in Tasks, BeginUpdate(t) PROVE Locks
BY EndsLocks, SnapshotsLocks, DispatchesLocks, LockSteps DEF BeginUpdate

LEMMA BeginGeometryLocks == ASSUME NEW t \in Tasks, BeginGeometry(t) PROVE Locks
BY EndsLocks, SnapshotsLocks, DispatchesLocks, LockSteps DEF BeginGeometry

LEMMA BeginSuspendLocks == ASSUME NEW t \in Tasks, BeginSuspend(t) PROVE Locks
BY EndsLocks, SnapshotsLocks, DispatchesLocks, LockSteps DEF BeginSuspend

LEMMA BeginEjectLocks == ASSUME NEW t \in Tasks, BeginEject(t) PROVE Locks
BY EndsLocks, SnapshotsLocks, DispatchesLocks, LockSteps DEF BeginEject

LEMMA OpenLocks == ASSUME NEW t \in Tasks, Open(t) PROVE Locks
BY EndsLocks, SnapshotsLocks, DispatchesLocks, LockSteps DEF Open

LEMMA DecideLocks == ASSUME NEW t \in Tasks, Decide(t) PROVE Locks
BY EndsLocks, SnapshotsLocks, DispatchesLocks, LockSteps DEF Decide

LEMMA MakeViewLocks == ASSUME NEW t \in Tasks, MakeView(t) PROVE Locks
BY EndsLocks, SnapshotsLocks, DispatchesLocks, LockSteps DEF MakeView

LEMMA SubscribeLocks == ASSUME NEW t \in Tasks, Subscribe(t) PROVE Locks
BY EndsLocks, DispatchesLocks, LockSteps DEF Subscribe, BindsNew

LEMMA DrawLocks == ASSUME NEW t \in Tasks, Draw(t) PROVE Locks
BY EndsLocks, SnapshotsLocks, DispatchesLocks, LockSteps DEF Draw

LEMMA PayloadIsTableLocks == ASSUME NEW t \in Tasks, PayloadIsTable(t) PROVE Locks
BY EndsLocks, SnapshotsLocks, DispatchesLocks, LockSteps DEF PayloadIsTable

LEMMA PayloadIsOtherLocks == ASSUME NEW t \in Tasks, PayloadIsOther(t) PROVE Locks
BY EndsLocks, SnapshotsLocks, DispatchesLocks, LockSteps DEF PayloadIsOther

----------------------------------------------------------------------------
(* The steps without it, and the operations.                               *)

LEMMA QueueLocks ==
  ASSUME NEW t \in Tasks, NEW kind, NEW update, Queue(t, kind, update)
  PROVE  Locks
BY LockSteps DEF Queue

LEMMA TakeLocks == ASSUME NEW t \in Tasks, Take(t) PROVE Locks
BY QueueLocks, LockSteps, SlotsOfPanel DEF Take

LEMMA RestoreCommitLocks == ASSUME NEW t \in Tasks, RestoreCommit(t) PROVE Locks
BY QueueLocks, LockSteps, SlotsOfPanel DEF RestoreCommit

LEMMA SweepLocks == ASSUME NEW t \in Tasks, Sweep(t) PROVE Locks
BY QueueLocks, LockSteps, SlotsOfPanel DEF Sweep

LEMMA CoalescedLocks == ASSUME NEW t \in Tasks, Coalesced(t) PROVE Locks
BY QueueLocks, LockSteps, SlotsOfPanel DEF Coalesced

LEMMA ReturnsLocks == ASSUME NEW t \in Tasks, Returns(t) PROVE Locks
BY QueueLocks, LockSteps, SlotsOfPanel DEF Returns

LEMMA ApplyLocks == ASSUME NEW t \in Tasks, Apply(t) PROVE Locks
BY QueueLocks, LockSteps, SlotsOfPanel DEF Apply

LEMMA ApplyGlobalFiltersLocks == ASSUME NEW t \in Tasks, ApplyGlobalFilters(t) PROVE Locks
BY QueueLocks, LockSteps, SlotsOfPanel DEF ApplyGlobalFilters

LEMMA RestoreLocks == ASSUME NEW t \in Tasks, Restore(t) PROVE Locks
BY QueueLocks, LockSteps, SlotsOfPanel DEF Restore

LEMMA LoadLocks == ASSUME NEW t \in Tasks, Load(t) PROVE Locks
BY QueueLocks, LockSteps, SlotsOfPanel DEF Load

LEMMA ResetAllLocks == ASSUME NEW t \in Tasks, ResetAll(t) PROVE Locks
BY QueueLocks, LockSteps, SlotsOfPanel DEF ResetAll

LEMMA ResetErrorLocks == ASSUME NEW t \in Tasks, ResetError(t) PROVE Locks
BY QueueLocks, LockSteps, SlotsOfPanel DEF ResetError

LEMMA ResumeLocks == ASSUME NEW t \in Tasks, Resume(t) PROVE Locks
BY QueueLocks, LockSteps, SlotsOfPanel DEF Resume

LEMMA ActivateLocks == ASSUME NEW t \in Tasks, Activate(t) PROVE Locks
BY QueueLocks, LockSteps, SlotsOfPanel DEF Activate

LEMMA ResizeLocks == ASSUME NEW t \in Tasks, Resize(t) PROVE Locks
BY QueueLocks, LockSteps, SlotsOfPanel DEF Resize

LEMMA EjectLocks == ASSUME NEW t \in Tasks, Eject(t) PROVE Locks
BY QueueLocks, LockSteps, SlotsOfPanel DEF Eject

LEMMA HostedChangeLocks == ASSUME NEW t \in Tasks, HostedChange(t) PROVE Locks
BY QueueLocks, LockSteps, SlotsOfPanel DEF HostedChange

LEMMA TableUpdatedLocks == ASSUME NEW t \in Tasks, TableUpdated(t) PROVE Locks
BY QueueLocks, LockSteps, SlotsOfPanel DEF TableUpdated

LEMMA EventsLock == Pause \/ Hide \/ ClientError \/ Update => Locks
BY DEF Pause, Hide, ClientError, Update, Locks

----------------------------------------------------------------------------
LEMMA PanelStepLocks == [PanelNext]_panelVars => Locks
<1> SUFFICES ASSUME [PanelNext]_panelVars PROVE Locks
  OBVIOUS
<1>1. ASSUME NEW t \in Tasks, Starting(t)
      PROVE  Locks
  BY <1>1, BeginLocks, BeginLoadLocks, BeginActivationLocks, BeginUpdateLocks, BeginGeometryLocks,
     BeginSuspendLocks, BeginEjectLocks DEF Starting
<1>2. ASSUME NEW t \in Tasks, Locked(t)
      PROVE  Locks
  BY <1>2, OpenLocks, DecideLocks, MakeViewLocks, SubscribeLocks, DrawLocks, PayloadIsTableLocks,
     PayloadIsOtherLocks DEF Locked
<1>3. ASSUME NEW t \in Tasks, TaskStep(t)
      PROVE  Locks
  BY <1>2, <1>3, TakeLocks, RestoreCommitLocks, SweepLocks, CoalescedLocks DEF TaskStep
<1>4. ASSUME NEW t \in Tasks, Operation(t)
      PROVE  Locks
  BY <1>4, ApplyLocks, ApplyGlobalFiltersLocks, RestoreLocks, LoadLocks, ResetAllLocks, ResetErrorLocks,
     ResumeLocks, ActivateLocks, ResizeLocks, EjectLocks, HostedChangeLocks DEF Operation
<1>5. CASE PanelNext
  <2>1. CASE \E t \in Tasks : Polled(t) /\ (Starting(t) \/ Returns(t))
    BY <2>1, <1>1, ReturnsLocks
  <2>2. CASE \E t \in Tasks : Operation(t) \/ TaskStep(t) \/ TableUpdated(t)
    BY <2>2, <1>3, <1>4, TableUpdatedLocks
  <2>3. CASE Pause \/ Hide \/ ClientError \/ Update
    BY <2>3, EventsLock
  <2> QED BY <1>5, <2>1, <2>2, <2>3 DEF PanelNext
<1>6. CASE UNCHANGED panelVars
  BY <1>6 DEF panelVars, Locks
<1> QED BY <1>5, <1>6

\* A panel implements the specification of its draw lock: the runs, presizes,
\* updates and geometry of renderer.rs and dispatch.rs take and release it only
\* through lock_with and debounce_with.
THEOREM PanelImplementsDebounce == PanelSpec => DebounceSpec
<1>1. PanelInit => DebounceInit
  BY DEF PanelInit
<1>2. [PanelNext]_panelVars => [DebounceNext]_debounceVars
  BY PanelStepLocks DEF Locks
<1> QED BY <1>1, <1>2, PTL DEF PanelSpec, DebounceSpec

\* In every panel, a debounced call waits for nobody but a task that will
\* settle it.
THEOREM PanelStrandsNobody == PanelSpec => []NobodyIsStranded
  BY PanelImplementsDebounce, NoStrandedCaller, PTL

\* In every panel, a debounced redraw or resize is served by an evaluation that
\* began no earlier than the call.
THEOREM PanelCallsAreFresh == PanelSpec => []DebouncedCallsAreFresh
  BY PanelImplementsDebounce, FreshCalls, PTL
----------------------------------------------------------------------------
(* What a panel binds, draws and holds. Whoever has the lock is alone with *)
(* the View and the context that the plugin reads back; everybody else can *)
(* take the View away, but binds none.                                     *)

\* The stages of a run under the lock.
Inside == {"open", "payload", "validate", "view", "subscribe", "draw"}

OneRuns == \A t, u \in Tasks : call[t].at = "run" /\ call[u].at = "run" => t = u /\ held

Shapes ==
    /\ DOMAIN session = DOMAIN NewSession
    /\ DOMAIN renderer = DOMAIN NewRenderer
    /\ DOMAIN job = Tasks
    /\ \A t \in Tasks : DOMAIN job[t] = DOMAIN Idle

InsideRuns == \A t \in Tasks : job[t].stage \in Inside => call[t].at = "run"

\* A View is made for a panel that has a Table, unless it is removed meanwhile.
Bindable == \A t \in Tasks : job[t].stage \in {"view", "subscribe"} /\ ~session.ejected => session.table # NoTable

\* The View that is to be bound is that of the snapshot.
MadeFromSnap == \A t \in Tasks : job[t].stage = "subscribe" => job[t].view # NoView /\ job[t].view.config = job[t].snap

\* What is bound was built from an equivalent config, and is what the plugin
\* reads back.
Built(s) == ~s.ejected /\ s.sub # NoView => Equivalent(s.build, s.sub.config)
Cached(s, r) ==
    ~s.ejected /\ s.sub # NoView =>
      r.cached.view = s.sub /\ Equivalent(r.cached.config, s.sub.config)

\* The server has no View but the one that is bound and the one that is to be.
ViewsAreHeld ==
    /\ views \subseteq {session.sub} \cup {job[t].view : t \in {u \in Tasks : job[u].stage = "subscribe"}}
    /\ NoView \notin views

\* Nothing is bound to a panel that is paused or removed, but by a run that
\* was too late to see it.
InTime(s, lost) == "late" \notin lost /\ (s.paused \/ s.ejected) => s.sub = NoView

PanelInv ==
    /\ Shapes
    /\ InsideRuns
    /\ Bindable
    /\ MadeFromSnap
    /\ Built(session)
    /\ Cached(session, renderer)
    /\ PinnedIsDrawn
    /\ ViewsAreHeld
    /\ InTime(session, lapses)

PanelIInv == DebounceInv /\ OneRuns /\ PanelInv

LEMMA SessionFields ==
  {"config", "filter", "table", "pending", "meta", "error", "paused", "sub", "build", "load", "loads",
   "journal", "ejected", "views"} = DOMAIN NewSession
BY DEF NewSession

LEMMA RendererFields ==
  {"plugin", "drawn", "cached", "active", "stale", "hidden", "presizing"} = DOMAIN NewRenderer
BY DEF NewRenderer

LEMMA JobFields ==
  /\ {"kind", "stage", "update", "table", "plugin", "public", "gated", "suppress", "old", "err", "payload",
      "gen", "journal", "snap", "view"} = DOMAIN Idle
  /\ Idle.stage = "idle"
BY DEF Idle

\* Only one task has the lock.
LEMMA OneStillRuns ==
  ASSUME DebounceTypeOK, OneRuns, Locks
  PROVE  OneRuns'
<1>1. DOMAIN call = Tasks /\ held \in BOOLEAN
  BY DEF DebounceTypeOK
<1>f. \A t \in Tasks : DOMAIN call[t] = {"slot", "next", "asked", "at"}
  BY DEF DebounceTypeOK, CallStates
<1>2. CASE UNCHANGED debounceVars
  BY <1>2 DEF OneRuns, debounceVars
<1>3. ASSUME NEW t \in Tasks, Acquire(t)
      PROVE  OneRuns'
  BY <1>1, <1>f, <1>3 DEF Acquire, OneRuns
<1>4. ASSUME NEW t \in Tasks, Lock(t) \/ Skip(t) \/ Settled(t) \/ Return(t) \/ \E s \in Slots : Debounce(t, s)
      PROVE  OneRuns'
  <2>1. /\ held' = held
        /\ \E c : call' = [call EXCEPT ![t] = c] /\ c.at # "run"
    <3>1. [NoCall EXCEPT !.at = "mutex"].at # "run" /\ NoCall.at # "run" /\ [call[t] EXCEPT !.at = "done"].at # "run"
      BY <1>f DEF NoCall
    <3>2. CASE Lock(t)
      BY <3>1, <3>2 DEF Lock
    <3>3. CASE Skip(t) \/ Settled(t)
      BY <3>1, <3>3 DEF Skip, Settled
    <3>4. CASE Return(t)
      BY <3>1, <3>4 DEF Return
    <3>5. CASE \E s \in Slots : Debounce(t, s)
      BY <3>5 DEF Debounce
    <3> QED BY <1>4, <3>2, <3>3, <3>4, <3>5
  <2> QED BY <1>1, <2>1 DEF OneRuns
<1>5. ASSUME NEW t \in Tasks, NEW ok \in BOOLEAN, Release(t, ok)
      PROVE  OneRuns'
  <2>1. \A u \in Tasks : call'[u].at # "run"
    BY <1>1, <1>f, <1>5 DEF Release, OneRuns
  <2> QED BY <2>1 DEF OneRuns
<1> QED BY <1>2, <1>3, <1>4, <1>5 DEF Locks, DebounceNext

----------------------------------------------------------------------------
(* The steps of who has the lock.                                          *)

\* The others are not under the lock.
Alone(t) == call[t].at = "run" /\ \A u \in Tasks \ {t} : job[u].stage \notin Inside

LEMMA HoldersAreAlone ==
  ASSUME InsideRuns, OneRuns, NEW t \in Tasks, call[t].at = "run"
  PROVE  Alone(t)
BY DEF InsideRuns, OneRuns, Alone

\* What a run has made of the panel, when no other View is to be bound.
Rests(s, r, live, lost) ==
    /\ DOMAIN s = DOMAIN NewSession /\ DOMAIN r = DOMAIN NewRenderer
    /\ Built(s) /\ Cached(s, r) /\ InTime(s, lost)
    /\ live \subseteq {s.sub} /\ NoView \notin live

LEMMA RestsNow ==
  ASSUME PanelInv, NEW t \in Tasks, Alone(t), job[t].stage # "subscribe"
  PROVE  Rests(session, renderer, views, lapses)
<1>1. {u \in Tasks : job[u].stage = "subscribe"} = {}
  BY DEF Alone, Inside
<1>2. views \subseteq {session.sub} /\ NoView \notin views
  BY <1>1 DEF PanelInv, ViewsAreHeld
<1> QED BY <1>2 DEF PanelInv, Shapes, Rests

\* The View stays bound, or goes; the rest is of no concern.
LEMMA RestsStill ==
  ASSUME NEW s, NEW r, NEW live, NEW lost, Rests(s, r, live, lost),
         NEW s2, NEW r2, NEW live2, NEW lost2,
         DOMAIN s2 = DOMAIN NewSession, DOMAIN r2 = DOMAIN NewRenderer,
         r2.cached = r.cached, s2.build = s.build, s2.paused = s.paused, s2.ejected = s.ejected,
         \/ s2.sub = s.sub /\ live2 \subseteq live
         \/ s2.sub = NoView /\ live2 \subseteq live \ {s.sub},
         "late" \in lost => "late" \in lost2
  PROVE  Rests(s2, r2, live2, lost2)
<1>1. Built(s2)
  BY DEF Rests, Built
<1>2. Cached(s2, r2)
  BY DEF Rests, Cached
<1>3. InTime(s2, lost2)
  BY DEF Rests, InTime
<1>4. live2 \subseteq {s2.sub} /\ NoView \notin live2
  BY DEF Rests
<1> QED BY <1>1, <1>2, <1>3, <1>4 DEF Rests

\* A run goes on to its next stage.
LEMMA GoesOn ==
  ASSUME Shapes, NEW t \in Tasks, Alone(t), NEW j, DOMAIN j = DOMAIN Idle,
         job' = [job EXCEPT ![t] = j], UNCHANGED debounceVars,
         Rests(session', renderer', IF j.stage = "subscribe" THEN views' \ {j.view} ELSE views', lapses'),
         j.stage \in {"view", "subscribe"} /\ ~session'.ejected => session'.table # NoTable,
         j.stage = "subscribe" => j.view # NoView /\ j.view.config = j.snap,
         j.stage = "draw" /\ ~session'.ejected =>
           renderer'.active.view = j.view /\ Equivalent(renderer'.active.config, j.view.config)
  PROVE  PanelInv'
<1>1. Shapes'
  BY DEF Shapes, Rests
<1>2. job'[t] = j /\ \A u \in Tasks \ {t} : job'[u].stage \notin Inside
  BY DEF Shapes, Alone
<1>3. InsideRuns'
  BY <1>2 DEF InsideRuns, Alone, debounceVars
<1>4. Bindable' /\ MadeFromSnap'
  BY <1>2 DEF Bindable, MadeFromSnap, Inside
<1>5. PinnedIsDrawn'
  BY <1>2 DEF PinnedIsDrawn, Inside
<1>6. ViewsAreHeld'
  <2>1. CASE j.stage = "subscribe"
    <3>1. views' \ {j.view} \subseteq {session'.sub} /\ NoView \notin views' \ {j.view} /\ j.view # NoView
      BY <2>1 DEF Rests
    <3>2. j.view \in {job'[u].view : u \in {w \in Tasks : job'[w].stage = "subscribe"}}
      BY <1>2, <2>1
    <3> QED BY <3>1, <3>2 DEF ViewsAreHeld
  <2>2. CASE j.stage # "subscribe"
    BY <2>2 DEF ViewsAreHeld, Rests
  <2> QED BY <2>1, <2>2
<1>7. (Built(session) /\ Cached(session, renderer) /\ InTime(session, lapses))'
  BY DEF Rests, Built, Cached, InTime
<1> QED BY <1>1, <1>3, <1>4, <1>5, <1>6, <1>7 DEF PanelInv

\* What is made of a failure takes the View, or leaves it alone.
LEMMA FailureKeeps ==
  ASSUME NEW t \in Tasks, NEW s, DOMAIN s = DOMAIN NewSession
  PROVE  /\ DOMAIN AfterFailure(t, s) = DOMAIN NewSession
         /\ AfterFailure(t, s).build = s.build
         /\ AfterFailure(t, s).table = s.table
         /\ AfterFailure(t, s).paused = s.paused
         /\ AfterFailure(t, s).ejected = s.ejected
         /\ AfterFailure(t, s).sub = IF TakesView(t) THEN NoView ELSE s.sub
<1> DEFINE back == [field |-> "all", value |-> job[t].old]
<1>1. CASE TakesView(t)
  <2>1. AfterFailure(t, s) = [s EXCEPT !.error = TRUE, !.sub = NoView,
                                       !.load = IF job[t].kind = "load" /\ @ = job[t].gen THEN 0 ELSE @]
    BY <1>1 DEF AfterFailure, TakesView, Suppresses
  <2> QED BY <1>1, <2>1, SessionFields
<1>2. CASE ~TakesView(t) /\ Suppresses(t)
  <2>1. AfterFailure(t, s) = IF Commits(s, back) THEN Committed(s, back) ELSE s
    BY <1>2 DEF AfterFailure, TakesView, Suppresses
  <2> HIDE DEF back
  <2>2. /\ DOMAIN Committed(s, back) = DOMAIN NewSession
        /\ Committed(s, back).build = s.build
        /\ Committed(s, back).table = s.table
        /\ Committed(s, back).paused = s.paused
        /\ Committed(s, back).ejected = s.ejected
        /\ Committed(s, back).sub = s.sub
    BY SessionFields DEF Committed
  <2> QED BY <1>2, <2>1, <2>2
<1>3. CASE ~TakesView(t) /\ ~Suppresses(t) /\ job[t].kind \in {"render", "resume"}
  <2>1. AfterFailure(t, s) = [s EXCEPT !.error = TRUE]
    BY <1>3 DEF AfterFailure
  <2> QED BY <1>3, <2>1, SessionFields
<1>4. CASE ~TakesView(t) /\ ~Suppresses(t) /\ job[t].kind \notin {"render", "resume"}
  <2>1. AfterFailure(t, s) = s
    BY <1>4 DEF AfterFailure
  <2> QED BY <1>4, <2>1
<1> QED BY <1>1, <1>2, <1>3, <1>4

LEMMA EndsKeeps ==
  ASSUME Shapes, NEW t \in Tasks, Alone(t), NEW ok \in BOOLEAN, NEW s, NEW r, NEW live, NEW lost,
         Rests(s, r, live, lost), Ends(t, ok, s, r, live, lost)
  PROVE  PanelInv'
<1>1. \A u \in Tasks : job'[u].stage \notin Inside /\ DOMAIN job'[u] = DOMAIN Idle
  <2>1. job' = [job EXCEPT ![t] = [Idle EXCEPT !.kind = job[t].kind, !.stage = "ended"]]
    BY DEF Ends
  <2>2. [Idle EXCEPT !.kind = job[t].kind, !.stage = "ended"].stage = "ended"
    BY JobFields
  <2> QED BY <2>1, <2>2 DEF Shapes, Alone, Inside
<1>2. DOMAIN job' = Tasks
  BY DEF Ends, Shapes
<1>3. Rests(session', renderer', views', lapses')
  <2>1. /\ renderer' = [r EXCEPT !.active = NoUpdate]
        /\ session' = IF ok THEN s ELSE AfterFailure(t, s)
        /\ views' = IF ~ok /\ TakesView(t) THEN live \ {s.sub} ELSE live
        /\ lapses' = IF ~ok /\ Undrawn(t) THEN lost \cup {"undrawn"} ELSE lost
    BY DEF Ends
  <2>2. DOMAIN s = DOMAIN NewSession /\ DOMAIN r = DOMAIN NewRenderer
    BY DEF Rests
  <2>3. /\ DOMAIN session' = DOMAIN NewSession
        /\ session'.build = s.build /\ session'.paused = s.paused /\ session'.ejected = s.ejected
        /\ session'.sub = IF ~ok /\ TakesView(t) THEN NoView ELSE s.sub
    BY <2>1, <2>2, FailureKeeps
  <2>4. DOMAIN renderer' = DOMAIN NewRenderer /\ renderer'.cached = r.cached
    BY <2>1, <2>2, RendererFields
  <2>5. \/ session'.sub = s.sub /\ views' \subseteq live
        \/ session'.sub = NoView /\ views' \subseteq live \ {s.sub}
    BY <2>1, <2>3
  <2>6. "late" \in lost => "late" \in lapses'
    BY <2>1
  <2> QED BY <2>3, <2>4, <2>5, <2>6, RestsStill
<1>4. Shapes'
  BY <1>1, <1>2, <1>3 DEF Shapes, Rests
<1>5. InsideRuns' /\ Bindable' /\ MadeFromSnap' /\ PinnedIsDrawn'
  BY <1>1 DEF InsideRuns, Bindable, MadeFromSnap, PinnedIsDrawn, Inside
<1>6. ViewsAreHeld'
  BY <1>3 DEF ViewsAreHeld, Rests
<1>7. (Built(session) /\ Cached(session, renderer) /\ InTime(session, lapses))'
  BY <1>3 DEF Rests, Built, Cached, InTime
<1> QED BY <1>4, <1>5, <1>6, <1>7 DEF PanelInv

LEMMA SwappedKeeps ==
  ASSUME NEW r, NEW p, DOMAIN r = DOMAIN NewRenderer
  PROVE  /\ DOMAIN Swapped(r, p) = DOMAIN NewRenderer
         /\ Swapped(r, p).cached = r.cached
         /\ Swapped(r, p).active = r.active
BY RendererFields DEF Swapped

LEMMA SnapshotsKeeps ==
  ASSUME Shapes, NEW t \in Tasks, Alone(t), NEW s, NEW live, Rests(s, renderer, live, lapses),
         Snapshots(t, s, live)
  PROVE  PanelInv'
<1> DEFINE r == Swapped(renderer, job[t].plugin)
<1>1. DOMAIN r = DOMAIN NewRenderer /\ r.cached = renderer.cached
  BY SwappedKeeps DEF Shapes
<1> HIDE DEF r
<1>2. Rests(s, r, live, lapses) /\ Rests(s, r, live, lapses \cup {"deferred"})
  <2>1. "late" \in lapses => "late" \in lapses \cup {"deferred"}
    OBVIOUS
  <2>2. DOMAIN s = DOMAIN NewSession
    BY DEF Rests
  <2> QED BY <1>1, <2>1, <2>2, RestsStill
<1>3. CASE Ends(t, ~job[t].public, s, r, live, lapses)
  <2>1. (~job[t].public) \in BOOLEAN
    OBVIOUS
  <2> QED BY <1>2, <1>3, <2>1, EndsKeeps
<1>4. CASE Ends(t, TRUE, s, r, live, lapses \cup {"deferred"})
  BY <1>2, <1>4, EndsKeeps
<1>5. CASE Ends(t, TRUE, s, r, live, lapses)
  BY <1>2, <1>5, EndsKeeps
<1>6. CASE /\ session' = s /\ renderer' = r /\ views' = live
           /\ job' = [job EXCEPT ![t].stage = "validate",
                        ![t].snap = [q |-> s.config.q, needs |-> s.config.needs,
                                     face |-> s.config.face, filter |-> s.filter]]
           /\ lapses' = lapses \ {"deferred", "undrawn"}
           /\ UNCHANGED debounceVars
  <2> DEFINE snap == [q |-> s.config.q, needs |-> s.config.needs, face |-> s.config.face, filter |-> s.filter]
             j == [job[t] EXCEPT !.stage = "validate", !.snap = snap]
  <2>1. job' = [job EXCEPT ![t] = j]
    BY <1>6
  <2>2. DOMAIN j = DOMAIN Idle /\ j.stage = "validate"
    BY JobFields DEF Shapes
  <2>3. Rests(session', renderer', views', lapses')
    <3>1. "late" \in lapses => "late" \in lapses'
      BY <1>6
    <3>2. DOMAIN s = DOMAIN NewSession
      BY DEF Rests
    <3> QED BY <1>1, <1>6, <3>1, <3>2, RestsStill
  <2> HIDE DEF j
  <2> QED BY <1>6, <2>1, <2>2, <2>3, GoesOn
<1> QED BY <1>3, <1>4, <1>5, <1>6 DEF Snapshots, r

LEMMA DispatchesKeeps ==
  ASSUME Shapes, NEW t \in Tasks, Alone(t), NEW how, NEW s, NEW live, NEW lost,
         DOMAIN s = DOMAIN NewSession, Built(s), InTime(s, lost), live \subseteq {s.sub}, NoView \notin live,
         s.sub # NoView, s.table = NoTable => Cached(s, renderer),
         Dispatches(t, how, s, live, lost)
  PROVE  PanelInv'
<1> DEFINE ctx == [view |-> s.sub, config |-> s.build]
           pinned == Pinned(renderer, ctx)
           j == [job[t] EXCEPT !.stage = "draw", !.view = s.sub]
<1>0. DOMAIN renderer = DOMAIN NewRenderer
  BY DEF Shapes
<1>1. DOMAIN pinned = DOMAIN NewRenderer /\ pinned.cached = ctx /\ pinned.active = ctx
  BY <1>0, RendererFields DEF Pinned
<1>c. ctx.view = s.sub /\ ctx.config = s.build
  OBVIOUS
<1>j. DOMAIN j = DOMAIN Idle /\ j.stage = "draw" /\ j.view = s.sub
  BY JobFields DEF Shapes
<1>2. Cached(s, pinned)
  BY <1>1, <1>c DEF Cached, Built
<1>3. Rests(s, pinned, live, lost)
  BY <1>1, <1>2 DEF Rests
<1>4. CASE s.table = NoTable /\ Ends(t, FALSE, s, renderer, live, lost)
  <2>1. Rests(s, renderer, live, lost)
    BY <1>0, <1>4 DEF Rests
  <2> QED BY <1>4, <2>1, EndsKeeps
<1>5. CASE Ends(t, TRUE, s, pinned, live, lost)
  BY <1>3, <1>5, EndsKeeps
<1>6. CASE /\ session' = s /\ renderer' = pinned /\ views' = live /\ lapses' = lost
           /\ job' = [job EXCEPT ![t].stage = "draw", ![t].view = s.sub]
           /\ UNCHANGED debounceVars
  <2>1. job' = [job EXCEPT ![t] = j]
    BY <1>6
  <2>2. Rests(session', renderer', views', lapses')
    BY <1>3, <1>6
  <2>3. ~session'.ejected => renderer'.active.view = j.view /\ Equivalent(renderer'.active.config, j.view.config)
    BY <1>1, <1>c, <1>j, <1>6 DEF Built
  <2> HIDE DEF j
  <2> QED BY <1>6, <1>j, <2>1, <2>2, <2>3, GoesOn
<1> HIDE DEF j
<1> QED BY <1>4, <1>5, <1>6 DEF Dispatches

----------------------------------------------------------------------------
(* From one stage to the next.                                             *)

LEMMA DecideKeeps ==
  ASSUME PanelInv, OneRuns, NEW t \in Tasks, Decide(t)
  PROVE  PanelInv'
<1> DEFINE snap == job[t].snap
           has == session.sub # NoView
<1>1. Shapes /\ Alone(t) /\ job[t].stage # "subscribe"
  BY HoldersAreAlone DEF PanelInv, InsideRuns, Decide, Inside
<1>2. Rests(session, renderer, views, lapses)
  BY <1>1, RestsNow
<1>3. CASE Ends(t, TRUE, session, renderer, views, lapses)
  BY <1>1, <1>2, <1>3, EndsKeeps
<1>4. CASE has /\ Dispatches(t, "unchanged", session, views, lapses)
  BY <1>1, <1>2, <1>4, DispatchesKeeps DEF Rests
<1>5. CASE has /\ Equivalent(session.build, snap) /\ Dispatches(t, "adopted", [session EXCEPT !.build = snap], views, lapses)
  <2> DEFINE s == [session EXCEPT !.build = snap]
  <2>1. /\ DOMAIN s = DOMAIN NewSession /\ s.build = snap /\ s.sub = session.sub /\ s.ejected = session.ejected
        /\ s.paused = session.paused
    BY <1>1, SessionFields DEF Shapes
  <2>2. Dispatches(t, "adopted", s, views, lapses)
    BY <1>5
  <2> HIDE DEF s
  <2>3. Built(s)
    BY <1>2, <1>5, <2>1 DEF Rests, Built, Equivalent
  <2>4. InTime(s, lapses) /\ Cached(s, renderer)
    BY <1>2, <2>1 DEF Rests, InTime, Cached
  <2>5. views \subseteq {s.sub} /\ NoView \notin views
    BY <1>2, <2>1 DEF Rests
  <2> QED BY <1>1, <1>5, <2>1, <2>2, <2>3, <2>4, <2>5, DispatchesKeeps
<1>6. CASE session.table = NoTable /\ Ends(t, FALSE, session, renderer, views, lapses)
  BY <1>1, <1>2, <1>6, EndsKeeps
<1>7. CASE /\ session.table # NoTable
           /\ job' = [job EXCEPT ![t].stage = "view", ![t].table = session.table]
           /\ UNCHANGED <<session, renderer, views, lapses, debounceVars>>
  <2> DEFINE j == [job[t] EXCEPT !.stage = "view", !.table = session.table]
  <2>1. job' = [job EXCEPT ![t] = j]
    BY <1>7
  <2>2. DOMAIN j = DOMAIN Idle /\ j.stage = "view"
    BY <1>1, JobFields DEF Shapes
  <2> HIDE DEF j
  <2>3. Rests(session', renderer', views', lapses') /\ session'.table # NoTable
    BY <1>2, <1>7
  <2> QED BY <1>1, <1>7, <2>1, <2>2, <2>3, GoesOn
<1> QED BY <1>3, <1>4, <1>5, <1>6, <1>7 DEF Decide

LEMMA MakeViewKeeps ==
  ASSUME PanelInv, OneRuns, NEW t \in Tasks, MakeView(t)
  PROVE  PanelInv'
<1> DEFINE v == [id |-> session.views + 1, table |-> job[t].table, config |-> job[t].snap]
           j == [job[t] EXCEPT !.stage = "subscribe", !.view = v]
<1>1. Shapes /\ Alone(t) /\ job[t].stage = "view"
  BY HoldersAreAlone DEF PanelInv, InsideRuns, MakeView, Inside
<1>2. Rests(session, renderer, views, lapses)
  BY <1>1, RestsNow
<1>3. CASE Ends(t, FALSE, session, renderer, views, lapses)
  BY <1>1, <1>2, <1>3, EndsKeeps
<1>4. CASE /\ views' = views \cup {v}
           /\ session' = [session EXCEPT !.views = @ + 1]
           /\ job' = [job EXCEPT ![t].stage = "subscribe", ![t].view = v]
           /\ UNCHANGED <<renderer, lapses, debounceVars>>
  <2>1. job' = [job EXCEPT ![t] = j]
    BY <1>4
  <2>2. DOMAIN j = DOMAIN Idle /\ j.stage = "subscribe" /\ j.view = v /\ j.snap = job[t].snap
    BY <1>1, JobFields DEF Shapes
  <2>3. v # NoView /\ v.config = job[t].snap
    <3>1. "table" \in DOMAIN v /\ "table" \notin DOMAIN NoView
      BY DEF NoView
    <3> QED BY <3>1
  <2>4. /\ DOMAIN session' = DOMAIN NewSession /\ session'.sub = session.sub /\ session'.build = session.build
        /\ session'.paused = session.paused /\ session'.ejected = session.ejected /\ session'.table = session.table
    BY <1>1, <1>4, SessionFields DEF Shapes
  <2>5. Rests(session', renderer', views' \ {v}, lapses')
    <3>1. views' \ {v} \subseteq views /\ renderer' = renderer /\ lapses' = lapses
      BY <1>4
    <3> QED BY <1>1, <1>2, <2>4, <3>1, RestsStill DEF Shapes
  <2>6. ~session'.ejected => session'.table # NoTable
    BY <1>1, <2>4 DEF PanelInv, Bindable
  <2>7. UNCHANGED debounceVars
    BY <1>4
  <2> HIDE DEF j, v
  <2>8. Rests(session', renderer', IF j.stage = "subscribe" THEN views' \ {j.view} ELSE views', lapses')
    BY <2>2, <2>5
  <2>9. j.stage = "subscribe" => j.view # NoView /\ j.view.config = j.snap
    BY <2>2, <2>3
  <2> QED BY <1>1, <2>1, <2>2, <2>6, <2>7, <2>8, <2>9, GoesOn
<1> QED BY <1>3, <1>4 DEF MakeView

LEMMA SubscribeKeeps ==
  ASSUME PanelInv, OneRuns, NEW t \in Tasks, Subscribe(t)
  PROVE  PanelInv'
<1> DEFINE v == job[t].view
           s == [session EXCEPT !.sub = v, !.build = job[t].snap]
           live == Deleted(session.sub)
<1>1. Shapes /\ Alone(t) /\ job[t].stage = "subscribe"
  BY HoldersAreAlone DEF PanelInv, InsideRuns, Subscribe, BindsNew, Inside
<1>2. v # NoView /\ v.config = job[t].snap
  BY <1>1 DEF PanelInv, MadeFromSnap
<1>3. views \subseteq {session.sub, v} /\ NoView \notin views
  <2>1. {u \in Tasks : job[u].stage = "subscribe"} = {t}
    BY <1>1 DEF Alone, Inside
  <2> QED BY <2>1 DEF PanelInv, ViewsAreHeld
<1>4. CASE v \notin views /\ Ends(t, FALSE, session, renderer, views, lapses)
  <2>1. Rests(session, renderer, views, lapses)
    BY <1>1, <1>3, <1>4 DEF PanelInv, Shapes, Rests
  <2> QED BY <1>1, <1>4, <2>1, EndsKeeps
<1>5. ASSUME NEW lost, "late" \notin lost => ~(session.paused \/ session.ejected),
             Dispatches(t, "rebuilt", s, live, lost)
      PROVE  PanelInv'
  <2>1. /\ DOMAIN s = DOMAIN NewSession /\ s.sub = v /\ s.build = job[t].snap /\ s.table = session.table
        /\ s.paused = session.paused /\ s.ejected = session.ejected
    BY <1>1, SessionFields DEF Shapes
  <2> HIDE DEF s
  <2>2. Built(s) /\ InTime(s, lost)
    BY <1>2, <1>5, <2>1 DEF Built, InTime, Equivalent
  <2>3. live \subseteq {s.sub} /\ NoView \notin live
    BY <1>3, <2>1 DEF Deleted
  <2>4. s.table = NoTable => Cached(s, renderer)
    BY <1>1, <2>1 DEF PanelInv, Bindable, Cached
  <2> HIDE DEF live, v
  <2> QED BY <1>1, <1>2, <1>5, <2>1, <2>2, <2>3, <2>4, DispatchesKeeps
<1>6. CASE Dispatches(t, "rebuilt", s, live,
                      IF session.paused \/ session.ejected THEN lapses \cup {"late"} ELSE lapses \ {"late"})
  BY <1>5, <1>6
<1> QED BY <1>4, <1>6 DEF Subscribe, BindsNew

LEMMA DrawKeeps ==
  ASSUME PanelInv, OneRuns, NEW t \in Tasks, Draw(t)
  PROVE  PanelInv'
<1> DEFINE r == [Swapped(renderer, NoPlugin) EXCEPT !.stale = FALSE]
           drawn == [r EXCEPT !.drawn = TRUE]
<1>1. Shapes /\ Alone(t) /\ job[t].stage # "subscribe"
  BY HoldersAreAlone DEF PanelInv, InsideRuns, Draw, Inside
<1>2. Rests(session, renderer, views, lapses)
  BY <1>1, RestsNow
<1>3. /\ DOMAIN r = DOMAIN NewRenderer /\ r.cached = renderer.cached
      /\ DOMAIN drawn = DOMAIN NewRenderer /\ drawn.cached = renderer.cached
  BY <1>1, SwappedKeeps, RendererFields DEF Shapes
<1>4. Ends(t, TRUE, session, drawn, views, lapses \ {"presize"}) \/ Ends(t, TRUE, session, r, views, lapses)
  BY DEF Draw
<1> HIDE DEF r, drawn
<1>5. Rests(session, drawn, views, lapses \ {"presize"}) /\ Rests(session, r, views, lapses)
  <2>1. "late" \in lapses => "late" \in lapses \ {"presize"}
    OBVIOUS
  <2> QED BY <1>1, <1>2, <1>3, <2>1, RestsStill DEF Shapes
<1> QED BY <1>1, <1>4, <1>5, EndsKeeps

----------------------------------------------------------------------------
(* The first steps under the lock, and those of opening a Table.           *)

LEMMA BoundKeeps ==
  ASSUME NEW table, DOMAIN session = DOMAIN NewSession
  PROVE  /\ DOMAIN Bound(session, table) = DOMAIN NewSession
         /\ Bound(session, table).build = session.build
         /\ Bound(session, table).paused = session.paused
         /\ Bound(session, table).ejected = session.ejected
         /\ Bound(session, table).sub \in {session.sub, NoView}
<1>1. CASE session.table = table
  <2>1. Bound(session, table) = [session EXCEPT !.pending = NoTable]
    BY <1>1 DEF Bound
  <2> QED BY <2>1, SessionFields
<1>2. CASE session.table # table /\ table \in hosted
  <2>1. Bound(session, table) =
          [session EXCEPT !.table = table, !.meta = table, !.pending = NoTable, !.sub = NoView]
    BY <1>2 DEF Bound
  <2> QED BY <2>1, SessionFields
<1>3. CASE session.table # table /\ table \notin hosted
  <2>1. Bound(session, table) = [session EXCEPT !.pending = table]
    BY <1>3 DEF Bound
  <2> QED BY <2>1, SessionFields
<1> QED BY <1>1, <1>2, <1>3

LEMMA ReplayedKeeps ==
  ASSUME NEW s, NEW journal, DOMAIN s = DOMAIN NewSession
  PROVE  /\ DOMAIN Replayed(s, journal) = DOMAIN NewSession
         /\ Replayed(s, journal).sub = s.sub
         /\ Replayed(s, journal).build = s.build
         /\ Replayed(s, journal).paused = s.paused
         /\ Replayed(s, journal).ejected = s.ejected
BY SessionFields DEF Replayed

LEMMA OpenKeeps ==
  ASSUME PanelInv, OneRuns, NEW t \in Tasks, Open(t)
  PROVE  PanelInv'
<1> DEFINE s == Bound(session, job[t].table)
           live == IF s.sub = session.sub THEN views ELSE Deleted(session.sub)
           z == Replayed(s, job[t].journal)
<1>1. Shapes /\ Alone(t) /\ job[t].stage # "subscribe"
  BY HoldersAreAlone DEF PanelInv, InsideRuns, Open, Inside
<1>2. Rests(session, renderer, views, lapses)
  BY <1>1, RestsNow
<1>3. /\ DOMAIN s = DOMAIN NewSession /\ s.build = session.build /\ s.paused = session.paused
      /\ s.ejected = session.ejected /\ s.sub \in {session.sub, NoView}
  BY <1>1, BoundKeeps DEF Shapes
<1>4. /\ DOMAIN z = DOMAIN NewSession /\ z.build = s.build /\ z.paused = s.paused
      /\ z.ejected = s.ejected /\ z.sub = s.sub
  BY <1>3, ReplayedKeeps
<1>5. Snapshots(t, z, live) \/ Ends(t, FALSE, s, renderer, live, lapses)
  BY DEF Open
<1>6. \/ s.sub = session.sub /\ live \subseteq views
      \/ s.sub = NoView /\ live \subseteq views \ {session.sub}
  BY <1>3 DEF Deleted
<1> HIDE DEF s, live, z
<1>7. Rests(s, renderer, live, lapses)
  BY <1>1, <1>2, <1>3, <1>6, RestsStill DEF Shapes
<1>8. Rests(z, renderer, live, lapses)
  BY <1>1, <1>7, <1>4, RestsStill DEF Shapes
<1> QED BY <1>1, <1>5, <1>7, <1>8, SnapshotsKeeps, EndsKeeps

LEMMA BeginKeeps ==
  ASSUME PanelInv, OneRuns, NEW t \in Tasks, Begin(t)
  PROVE  PanelInv'
<1> DEFINE table == IF job[t].kind = "bind" THEN session.pending ELSE job[t].table
           j == [job[t] EXCEPT !.stage = "open", !.table = table]
<1>1. Shapes /\ Alone(t) /\ job[t].stage = "queued"
  BY HoldersAreAlone DEF PanelInv, Begin, Begins
<1>2. Rests(session, renderer, views, lapses)
  BY <1>1, RestsNow
<1>3. CASE Snapshots(t, session, views)
  BY <1>1, <1>2, <1>3, SnapshotsKeeps
<1>4. CASE Ends(t, FALSE, session, renderer, views, lapses)
  BY <1>1, <1>2, <1>4, EndsKeeps
<1>5. CASE /\ job' = [job EXCEPT ![t].stage = "open", ![t].table = table]
           /\ UNCHANGED <<session, renderer, views, lapses, debounceVars>>
  <2>1. job' = [job EXCEPT ![t] = j]
    BY <1>5
  <2>2. DOMAIN j = DOMAIN Idle /\ j.stage = "open"
    BY <1>1, JobFields DEF Shapes
  <2> HIDE DEF j
  <2>3. Rests(session', renderer', views', lapses')
    BY <1>2, <1>5
  <2> QED BY <1>1, <1>5, <2>1, <2>2, <2>3, GoesOn
<1> QED BY <1>3, <1>4, <1>5 DEF Begin

LEMMA BeginLoadKeeps ==
  ASSUME PanelInv, OneRuns, NEW t \in Tasks, BeginLoad(t)
  PROVE  PanelInv'
<1> DEFINE j == [job[t] EXCEPT !.stage = "payload"]
<1>1. Shapes /\ Alone(t) /\ job[t].stage = "queued"
  BY HoldersAreAlone DEF PanelInv, BeginLoad, Begins
<1>2. Rests(session', renderer', views', lapses')
  BY <1>1, RestsNow DEF BeginLoad, server
<1>3. job' = [job EXCEPT ![t] = j] /\ UNCHANGED debounceVars
  BY DEF BeginLoad
<1>4. DOMAIN j = DOMAIN Idle /\ j.stage = "payload"
  BY <1>1, JobFields DEF Shapes
<1> HIDE DEF j
<1> QED BY <1>1, <1>2, <1>3, <1>4, GoesOn

LEMMA PayloadIsTableKeeps ==
  ASSUME PanelInv, OneRuns, NEW t \in Tasks, PayloadIsTable(t)
  PROVE  PanelInv'
<1> DEFINE s == Unloaded(Reset(session, TRUE))
           z == [s EXCEPT !.load = 0, !.journal = <<>>]
           j == [job[t] EXCEPT !.stage = "open", !.journal = session.journal]
<1>1. Shapes /\ Alone(t) /\ job[t].stage # "subscribe"
  BY HoldersAreAlone DEF PanelInv, InsideRuns, PayloadIsTable, Inside
<1>2. Rests(session, renderer, views, lapses)
  BY <1>1, RestsNow
<1>3. CASE Ends(t, TRUE, session, renderer, views, lapses)
  BY <1>1, <1>2, <1>3, EndsKeeps
<1>4. CASE /\ session' = z
           /\ views' = Deleted(session.sub)
           /\ renderer' = Swapped(renderer, NoPlugin)
           /\ job' = [job EXCEPT ![t].stage = "open", ![t].journal = session.journal]
           /\ UNCHANGED <<lapses, debounceVars>>
  <2>1. job' = [job EXCEPT ![t] = j]
    BY <1>4
  <2>2. DOMAIN j = DOMAIN Idle /\ j.stage = "open"
    BY <1>1, JobFields DEF Shapes
  <2> HIDE DEF j
  <2>3. /\ DOMAIN z = DOMAIN NewSession /\ z.sub = NoView /\ z.build = session.build
        /\ z.paused = session.paused /\ z.ejected = session.ejected
    BY <1>1, SessionFields DEF Shapes, Reset, Unloaded
  <2>4. DOMAIN renderer' = DOMAIN NewRenderer /\ renderer'.cached = renderer.cached
    BY <1>1, <1>4, SwappedKeeps DEF Shapes
  <2>5. Rests(session', renderer', views', lapses')
    <3>1. session' = z /\ views' \subseteq views \ {session.sub} /\ lapses' = lapses
      BY <1>4 DEF Deleted
    <3> HIDE DEF z
    <3> QED BY <1>2, <2>3, <2>4, <3>1, RestsStill
  <2> QED BY <1>1, <1>4, <2>1, <2>2, <2>5, GoesOn
<1> QED BY <1>3, <1>4 DEF PayloadIsTable

LEMMA PayloadIsOtherKeeps ==
  ASSUME PanelInv, OneRuns, NEW t \in Tasks, PayloadIsOther(t)
  PROVE  PanelInv'
<1> DEFINE z == IF session.load = job[t].gen THEN [session EXCEPT !.load = 0, !.journal = <<>>] ELSE session
           ok == job[t].payload = "client"
<1>1. Shapes /\ Alone(t) /\ job[t].stage # "subscribe"
  BY HoldersAreAlone DEF PanelInv, InsideRuns, PayloadIsOther, Inside
<1>2. Rests(session, renderer, views, lapses)
  BY <1>1, RestsNow
<1>3. /\ DOMAIN z = DOMAIN NewSession /\ z.sub = session.sub /\ z.build = session.build
      /\ z.paused = session.paused /\ z.ejected = session.ejected
  BY <1>1, SessionFields DEF Shapes
<1>4. Ends(t, ok, z, renderer, views, lapses) /\ ok \in BOOLEAN
  BY DEF PayloadIsOther
<1> HIDE DEF z, ok
<1>5. Rests(z, renderer, views, lapses)
  BY <1>1, <1>2, <1>3, RestsStill DEF Shapes
<1> QED BY <1>1, <1>4, <1>5, EndsKeeps

\* What an activation or an update draws is the View that is bound, in the
\* context that was pinned with it.
LEMMA RedrawKeeps ==
  ASSUME PanelInv, NEW t \in Tasks, Alone(t), job[t].stage = "queued", session.sub # NoView,
         DOMAIN renderer' = DOMAIN NewRenderer, renderer'.cached = renderer.cached,
         renderer'.active = renderer.cached,
         job' = [job EXCEPT ![t].stage = "draw", ![t].view = session.sub],
         UNCHANGED <<session, views, lapses, debounceVars>>
  PROVE  PanelInv'
<1> DEFINE j == [job[t] EXCEPT !.stage = "draw", !.view = session.sub]
<1>1. Shapes
  BY DEF PanelInv
<1>2. job' = [job EXCEPT ![t] = j]
  OBVIOUS
<1>3. DOMAIN j = DOMAIN Idle /\ j.stage = "draw" /\ j.view = session.sub
  BY <1>1, JobFields DEF Shapes
<1> HIDE DEF j
<1>4. Rests(session', renderer', views', lapses')
  <2>1. Rests(session, renderer, views, lapses)
    BY RestsNow
  <2> QED BY <1>1, <2>1, RestsStill DEF Shapes
<1>5. ~session'.ejected => renderer'.active.view = j.view /\ Equivalent(renderer'.active.config, j.view.config)
  BY <1>3 DEF PanelInv, Cached
<1> QED BY <1>1, <1>2, <1>3, <1>4, <1>5, GoesOn

LEMMA BeginActivationKeeps ==
  ASSUME PanelInv, OneRuns, NEW t \in Tasks, BeginActivation(t)
  PROVE  PanelInv'
<1>1. Shapes /\ Alone(t) /\ job[t].stage = "queued"
  BY HoldersAreAlone DEF PanelInv, BeginActivation, Begins
<1>2. CASE Ends(t, TRUE, session, renderer, views, lapses)
  BY <1>1, <1>2, RestsNow, EndsKeeps
<1>3. CASE /\ session.sub # NoView
           /\ renderer' = [renderer EXCEPT !.active = renderer.cached, !.stale = FALSE]
           /\ job' = [job EXCEPT ![t].stage = "draw", ![t].view = session.sub]
           /\ UNCHANGED <<session, views, lapses, debounceVars>>
  <2>1. DOMAIN renderer' = DOMAIN NewRenderer /\ renderer'.cached = renderer.cached /\ renderer'.active = renderer.cached
    BY <1>1, <1>3, RendererFields DEF Shapes
  <2> QED BY <1>1, <1>3, <2>1, RedrawKeeps
<1> QED BY <1>2, <1>3 DEF BeginActivation

LEMMA BeginUpdateKeeps ==
  ASSUME PanelInv, OneRuns, NEW t \in Tasks, BeginUpdate(t)
  PROVE  PanelInv'
<1>1. Shapes /\ Alone(t) /\ job[t].stage = "queued"
  BY HoldersAreAlone DEF PanelInv, BeginUpdate, Begins
<1>2. CASE Ends(t, TRUE, session, renderer, views, lapses)
  BY <1>1, <1>2, RestsNow, EndsKeeps
<1>3. CASE Ends(t, TRUE, session, renderer, views, lapses \cup {"presize"})
  <2>1. Rests(session, renderer, views, lapses)
    BY <1>1, RestsNow
  <2>2. "late" \in lapses => "late" \in lapses \cup {"presize"}
    OBVIOUS
  <2>3. Rests(session, renderer, views, lapses \cup {"presize"})
    BY <1>1, <2>1, <2>2, RestsStill DEF Shapes
  <2> QED BY <1>1, <1>3, <2>3, EndsKeeps
<1>4. CASE /\ session.sub # NoView
           /\ renderer' = [renderer EXCEPT !.active = renderer.cached]
           /\ job' = [job EXCEPT ![t].stage = "draw", ![t].view = session.sub]
           /\ UNCHANGED <<session, views, lapses, debounceVars>>
  <2>1. DOMAIN renderer' = DOMAIN NewRenderer /\ renderer'.cached = renderer.cached /\ renderer'.active = renderer.cached
    BY <1>1, <1>4, RendererFields DEF Shapes
  <2> QED BY <1>1, <1>4, <2>1, RedrawKeeps
<1> QED BY <1>2, <1>3, <1>4 DEF BeginUpdate

LEMMA BeginSuspendKeeps ==
  ASSUME PanelInv, OneRuns, NEW t \in Tasks, BeginSuspend(t)
  PROVE  PanelInv'
<1> DEFINE z == [Unloaded(Reset(session, FALSE)) EXCEPT !.pending = session.table]
           live == Deleted(session.sub)
<1>1. Shapes /\ Alone(t) /\ job[t].stage = "queued"
  BY HoldersAreAlone DEF PanelInv, BeginSuspend, Begins
<1>2. Rests(session, renderer, views, lapses)
  BY <1>1, RestsNow
<1>3. CASE Ends(t, TRUE, session, renderer, views, lapses)
  BY <1>1, <1>2, <1>3, EndsKeeps
<1>4. CASE Ends(t, TRUE, z, renderer, live, lapses)
  <2>1. /\ DOMAIN z = DOMAIN NewSession /\ z.sub = NoView /\ z.build = session.build
        /\ z.paused = session.paused /\ z.ejected = session.ejected
    BY <1>1, SessionFields DEF Shapes, Reset, Unloaded
  <2>2. live \subseteq views \ {session.sub}
    BY DEF Deleted
  <2> HIDE DEF z, live
  <2>3. Rests(z, renderer, live, lapses)
    BY <1>1, <1>2, <2>1, <2>2, RestsStill DEF Shapes
  <2> QED BY <1>1, <1>4, <2>3, EndsKeeps
<1> QED BY <1>3, <1>4 DEF BeginSuspend

LEMMA BeginOtherKeeps ==
  ASSUME PanelInv, OneRuns, NEW t \in Tasks, BeginGeometry(t) \/ BeginEject(t)
  PROVE  PanelInv'
<1>1. Shapes /\ Alone(t) /\ job[t].stage = "queued"
  BY HoldersAreAlone DEF PanelInv, BeginGeometry, BeginEject, Begins
<1>2. Ends(t, TRUE, session, renderer, views, lapses)
  BY DEF BeginGeometry, BeginEject
<1> QED BY <1>1, <1>2, RestsNow, EndsKeeps

----------------------------------------------------------------------------
(* The steps of those who do not have the lock.                            *)

\* They leave alone what a run under the lock is at.
LEMMA OutsideKeeps ==
  ASSUME PanelInv, Shapes', InsideRuns',
         \A u \in Tasks : job[u].stage \in Inside \/ job'[u].stage \in Inside => job'[u] = job[u],
         renderer'.active = renderer.active,
         session.ejected => session'.ejected,
         ~session'.ejected => /\ session'.table = session.table /\ session'.build = session.build
                              /\ renderer'.cached = renderer.cached,
         \/ session'.sub = session.sub /\ views' \subseteq views
         \/ session'.sub = NoView /\ views' \subseteq views \ {session.sub},
         \/ session'.sub = NoView
         \/ (session'.paused => session.paused) /\ (session'.ejected => session.ejected),
         "late" \in lapses => "late" \in lapses'
  PROVE  PanelInv'
<1>1. \A u \in Tasks : job'[u].stage \in Inside => job'[u] = job[u]
  OBVIOUS
<1>2. Bindable' /\ MadeFromSnap' /\ PinnedIsDrawn'
  BY <1>1 DEF PanelInv, Bindable, MadeFromSnap, PinnedIsDrawn, Inside
<1>3. (Built(session) /\ Cached(session, renderer))'
  BY DEF PanelInv, Built, Cached
<1>4. InTime(session, lapses)'
  BY DEF PanelInv, InTime
<1>5. ViewsAreHeld'
  <2>1. {job'[t].view : t \in {u \in Tasks : job'[u].stage = "subscribe"}}
          = {job[t].view : t \in {u \in Tasks : job[u].stage = "subscribe"}}
    BY DEF Inside
  <2> QED BY <2>1 DEF PanelInv, ViewsAreHeld
<1> QED BY <1>2, <1>3, <1>4, <1>5 DEF PanelInv

\* What becomes of the task, and of the calls of the others.
LEMMA TaskOutside ==
  ASSUME Shapes, InsideRuns, NEW t \in Tasks, job[t].stage \notin Inside,
         NEW j, DOMAIN j = DOMAIN Idle, j.stage \notin Inside, job' = [job EXCEPT ![t] = j],
         DOMAIN session' = DOMAIN NewSession, DOMAIN renderer' = DOMAIN NewRenderer,
         \A u \in Tasks \ {t} : call'[u] = call[u]
  PROVE  /\ Shapes' /\ InsideRuns'
         /\ \A u \in Tasks : job[u].stage \in Inside \/ job'[u].stage \in Inside => job'[u] = job[u]
<1>1. job'[t] = j /\ \A u \in Tasks \ {t} : job'[u] = job[u]
  BY DEF Shapes
<1>2. Shapes'
  BY <1>1 DEF Shapes
<1>3. InsideRuns'
  BY <1>1 DEF InsideRuns
<1> QED BY <1>1, <1>2, <1>3

LEMMA TasksStay ==
  ASSUME Shapes, InsideRuns, job' = job, UNCHANGED debounceVars,
         DOMAIN session' = DOMAIN NewSession, DOMAIN renderer' = DOMAIN NewRenderer
  PROVE  /\ Shapes' /\ InsideRuns'
         /\ \A u \in Tasks : job[u].stage \in Inside \/ job'[u].stage \in Inside => job'[u] = job[u]
BY DEF Shapes, InsideRuns, debounceVars

\* A call of the lock is one task's.
LEMMA CallsOfOthers ==
  ASSUME DOMAIN call = Tasks, NEW t \in Tasks,
         \/ Lock(t) \/ Acquire(t) \/ Skip(t) \/ Settled(t) \/ Return(t) \/ \E s \in Slots : Debounce(t, s)
         \/ UNCHANGED debounceVars
  PROVE  \A u \in Tasks \ {t} : call'[u] = call[u]
BY DEF Lock, Acquire, Skip, Settled, Return, Debounce, debounceVars

LEMMA QueueOutside ==
  ASSUME Shapes, InsideRuns, DOMAIN call = Tasks, NEW t \in Tasks, job[t].stage \notin Inside,
         NEW kind, NEW update, DOMAIN update = DOMAIN Idle, Queue(t, kind, update),
         DOMAIN session' = DOMAIN NewSession, DOMAIN renderer' = DOMAIN NewRenderer
  PROVE  /\ Shapes' /\ InsideRuns'
         /\ \A u \in Tasks : job[u].stage \in Inside \/ job'[u].stage \in Inside => job'[u] = job[u]
<1> DEFINE j == [update EXCEPT !.kind = kind, !.stage = "queued"]
<1>1. DOMAIN j = DOMAIN Idle /\ j.stage \notin Inside
  BY JobFields DEF Inside
<1>2. job' = [job EXCEPT ![t] = j] /\ Lock(t)
  BY DEF Queue
<1> HIDE DEF j
<1>3. \A u \in Tasks \ {t} : call'[u] = call[u]
  BY <1>2, CallsOfOthers
<1> QED BY <1>1, <1>2, <1>3, TaskOutside

\* The panel as it was, or with its View taken.
Untouched ==
    /\ renderer'.active = renderer.active /\ renderer'.cached = renderer.cached
    /\ DOMAIN session' = DOMAIN NewSession /\ DOMAIN renderer' = DOMAIN NewRenderer
    /\ session'.table = session.table /\ session'.build = session.build
    /\ session'.ejected = session.ejected
    /\ session'.sub = NoView \/ (session'.paused => session.paused)
    /\ \/ session'.sub = session.sub /\ views' \subseteq views
       \/ session'.sub = NoView /\ views' \subseteq views \ {session.sub}
    /\ "late" \in lapses => "late" \in lapses'

LEMMA UntouchedKeeps ==
  ASSUME PanelInv, Shapes', InsideRuns', Untouched,
         \A u \in Tasks : job[u].stage \in Inside \/ job'[u].stage \in Inside => job'[u] = job[u]
  PROVE  PanelInv'
<1>1. /\ renderer'.active = renderer.active
      /\ session.ejected => session'.ejected
      /\ ~session'.ejected => /\ session'.table = session.table /\ session'.build = session.build
                              /\ renderer'.cached = renderer.cached
      /\ \/ session'.sub = session.sub /\ views' \subseteq views
         \/ session'.sub = NoView /\ views' \subseteq views \ {session.sub}
      /\ \/ session'.sub = NoView
         \/ (session'.paused => session.paused) /\ (session'.ejected => session.ejected)
      /\ "late" \in lapses => "late" \in lapses'
  BY DEF Untouched
<1> QED BY <1>1, OutsideKeeps

LEMMA TheSamePanel ==
  ASSUME Shapes, UNCHANGED <<session, renderer, views, lapses>>
  PROVE  Untouched
BY DEF Untouched, Shapes

LEMMA CommittedKeeps ==
  ASSUME NEW s, NEW u, DOMAIN s = DOMAIN NewSession
  PROVE  /\ DOMAIN Committed(s, u) = DOMAIN NewSession
         /\ Committed(s, u).table = s.table
         /\ Committed(s, u).build = s.build
         /\ Committed(s, u).sub = s.sub
         /\ Committed(s, u).paused = s.paused
         /\ Committed(s, u).ejected = s.ejected
BY SessionFields DEF Committed

LEMMA ResetKeeps ==
  ASSUME NEW s, NEW config, DOMAIN s = DOMAIN NewSession
  PROVE  /\ DOMAIN Reset(s, config) = DOMAIN NewSession
         /\ Reset(s, config).table = s.table
         /\ Reset(s, config).build = s.build
         /\ Reset(s, config).sub = NoView
         /\ Reset(s, config).paused = s.paused
         /\ Reset(s, config).ejected = s.ejected
BY SessionFields DEF Reset

LEMMA CoalescedKeeps ==
  ASSUME PanelInv, DOMAIN call = Tasks, NEW t \in Tasks, Take(t) \/ Coalesced(t)
  PROVE  PanelInv'
<1>1. Shapes /\ InsideRuns
  BY DEF PanelInv
<1>2. UNCHANGED <<session, renderer, job, views, lapses>>
  BY DEF Take, Coalesced, server
<1>3. Acquire(t) \/ Skip(t) \/ Settled(t)
  BY DEF Take, Coalesced
<1>4. call[t].at # "run" /\ \A u \in Tasks \ {t} : call'[u] = call[u]
  BY <1>3, CallsOfOthers DEF Acquire, Skip, Settled
<1>5. Shapes' /\ InsideRuns'
  BY <1>1, <1>2, <1>4 DEF Shapes, InsideRuns
<1> QED BY <1>1, <1>2, <1>5, TheSamePanel, UntouchedKeeps

LEMMA RestoreCommitKeeps ==
  ASSUME PanelInv, DOMAIN call = Tasks, NEW t \in Tasks, RestoreCommit(t)
  PROVE  PanelInv'
<1>1. Shapes /\ InsideRuns /\ job[t].stage \notin Inside /\ DOMAIN job[t] = DOMAIN Idle
  BY DEF PanelInv, RestoreCommit, Inside, Shapes
<1>2. CASE /\ Queue(t, job[t].kind, job[t])
           /\ session' = Committed(session, job[t].update)
           /\ UNCHANGED <<views, lapses, renderer>>
  <2>1. Untouched
    BY <1>1, <1>2, CommittedKeeps DEF Untouched, Shapes
  <2> QED BY <1>1, <1>2, <2>1, QueueOutside, UntouchedKeeps DEF Untouched
<1>3. CASE /\ job' = [job EXCEPT ![t] = Idle]
           /\ session' = AfterFailure(t, session)
           /\ views' = IF TakesView(t) THEN Deleted(session.sub) ELSE views
           /\ lapses' = IF Suppresses(t) THEN lapses \cup {"undrawn"} ELSE lapses
           /\ UNCHANGED <<debounceVars, renderer>>
  <2>1. Untouched
    BY <1>1, <1>3, FailureKeeps DEF Untouched, Shapes, Deleted
  <2>2. \A u \in Tasks \ {t} : call'[u] = call[u]
    BY <1>3 DEF debounceVars
  <2>3. Idle.stage \notin Inside
    BY JobFields DEF Inside
  <2> QED BY <1>1, <1>3, <2>1, <2>2, <2>3, TaskOutside, UntouchedKeeps DEF Untouched
<1> QED BY <1>2, <1>3 DEF RestoreCommit

\* A task that the lock does not know yet, or no more.
LEMMA StagesOutside ==
  /\ Idle.stage \notin Inside
  /\ \A j : DOMAIN j = DOMAIN Idle =>
       /\ DOMAIN [j EXCEPT !.stage = "theme"] = DOMAIN Idle
       /\ [j EXCEPT !.stage = "theme"].stage \notin Inside
BY JobFields DEF Inside

LEMMA SweepKeeps ==
  ASSUME PanelInv, DOMAIN call = Tasks, NEW t \in Tasks, Sweep(t)
  PROVE  PanelInv'
<1> DEFINE bind == [Idle EXCEPT !.kind = "bind", !.stage = "theme", !.gated = TRUE]
           j == IF session.pending = NoTable THEN Idle ELSE bind
<1>1. Shapes /\ InsideRuns /\ job[t].stage \notin Inside
  BY DEF PanelInv, Sweep, Inside
<1>2. UNCHANGED <<session, renderer, views, lapses>>
  BY DEF Sweep, server
<1>3. Untouched
  BY <1>1, <1>2, TheSamePanel
<1>4. CASE Queue(t, "suspend", Idle)
  BY <1>1, <1>3, <1>4, QueueOutside, UntouchedKeeps DEF Untouched
<1>5. CASE job' = [job EXCEPT ![t] = j] /\ UNCHANGED debounceVars
  <2>1. DOMAIN j = DOMAIN Idle /\ j.stage \notin Inside
    BY JobFields DEF Inside
  <2> HIDE DEF j
  <2>2. \A u \in Tasks \ {t} : call'[u] = call[u]
    BY <1>5 DEF debounceVars
  <2> QED BY <1>1, <1>3, <1>5, <2>1, <2>2, TaskOutside, UntouchedKeeps DEF Untouched
<1> QED BY <1>4, <1>5 DEF Sweep

LEMMA ReturnsKeeps ==
  ASSUME PanelInv, DOMAIN call = Tasks, NEW t \in Tasks, Returns(t)
  PROVE  PanelInv'
<1> DEFINE bind == [Idle EXCEPT !.kind = "bind", !.stage = "theme", !.gated = TRUE]
           j == IF job[t].kind = "suspend" /\ session.pending # NoTable THEN bind ELSE Idle
<1>1. Shapes /\ InsideRuns /\ job[t].stage \notin Inside
  BY DEF PanelInv, Returns, Return, InsideRuns
<1>2. Untouched
  BY <1>1, RendererFields DEF Returns, server, Untouched, Shapes
<1>3. job' = [job EXCEPT ![t] = j] /\ Return(t)
  BY DEF Returns
<1>4. DOMAIN j = DOMAIN Idle /\ j.stage \notin Inside
  BY JobFields DEF Inside
<1> HIDE DEF j
<1>5. \A u \in Tasks \ {t} : call'[u] = call[u]
  BY <1>3, CallsOfOthers
<1> QED BY <1>1, <1>2, <1>3, <1>4, <1>5, TaskOutside, UntouchedKeeps DEF Untouched

----------------------------------------------------------------------------
(* The operations.                                                         *)

LEMMA ApplyKeeps ==
  ASSUME PanelInv, DOMAIN call = Tasks, NEW t \in Tasks, Apply(t)
  PROVE  PanelInv'
<1>1. Shapes /\ InsideRuns /\ job[t].stage \notin Inside
  BY JobFields DEF PanelInv, Apply, StartsTask, Inside
<1>2. PICK u, p : /\ session' = Committed(session, u)
                  /\ Queue(t, "render", [Idle EXCEPT !.plugin = p])
  BY DEF Apply
<1>3. UNCHANGED <<renderer, views, lapses>>
  BY DEF Apply, server
<1>4. Untouched
  BY <1>1, <1>2, <1>3, CommittedKeeps DEF Untouched, Shapes
<1>5. DOMAIN [Idle EXCEPT !.plugin = p] = DOMAIN Idle
  OBVIOUS
<1> QED BY <1>1, <1>2, <1>4, <1>5, QueueOutside, UntouchedKeeps DEF Untouched

LEMMA ApplyGlobalFiltersKeeps ==
  ASSUME PanelInv, DOMAIN call = Tasks, NEW t \in Tasks, ApplyGlobalFilters(t)
  PROVE  PanelInv'
<1>1. Shapes /\ InsideRuns /\ job[t].stage \notin Inside
  BY JobFields DEF PanelInv, ApplyGlobalFilters, StartsTask, Inside
<1>2. session' = [session EXCEPT !.filter = ops + 1] /\ UNCHANGED <<renderer, views, lapses>>
  BY DEF ApplyGlobalFilters, server
<1>3. Untouched
  BY <1>1, <1>2, SessionFields DEF Untouched, Shapes
<1>4. CASE UNCHANGED <<job, debounceVars>>
  BY <1>1, <1>3, <1>4, TasksStay, UntouchedKeeps DEF Untouched
<1>5. CASE Queue(t, "render", Idle)
  BY <1>1, <1>3, <1>5, QueueOutside, UntouchedKeeps DEF Untouched
<1> QED BY <1>4, <1>5 DEF ApplyGlobalFilters

\* A task that does not call the lock yet.
LEMMA ThemedOutside ==
  ASSUME Shapes, InsideRuns, NEW t \in Tasks, job[t].stage \notin Inside,
         NEW j, DOMAIN j = DOMAIN Idle, j.stage \in {"theme", "list"}, job' = [job EXCEPT ![t] = j],
         UNCHANGED debounceVars,
         DOMAIN session' = DOMAIN NewSession, DOMAIN renderer' = DOMAIN NewRenderer
  PROVE  /\ Shapes' /\ InsideRuns'
         /\ \A u \in Tasks : job[u].stage \in Inside \/ job'[u].stage \in Inside => job'[u] = job[u]
<1>1. j.stage \notin Inside
  BY DEF Inside
<1>2. \A u \in Tasks \ {t} : call'[u] = call[u]
  BY DEF debounceVars
<1> QED BY <1>1, <1>2, TaskOutside

LEMMA RestoreKeeps ==
  ASSUME PanelInv, DOMAIN call = Tasks, NEW t \in Tasks, Restore(t)
  PROVE  PanelInv'
<1>1. Shapes /\ InsideRuns /\ job[t].stage \notin Inside
  BY JobFields DEF PanelInv, Restore, StartsTask, Inside
<1>2. PICK j :
        /\ \/ session' = session /\ views' = views
           \/ session' = Reset(session, TRUE) /\ views' = Deleted(session.sub)
        /\ job' = [job EXCEPT ![t] = j] /\ DOMAIN j = DOMAIN Idle /\ j.stage = "theme"
  <2>1. PICK u \in ViewConfigUpdates, table \in Tables \cup {NoTable}, suppress \in BOOLEAN :
          LET resets == table # NoTable /\ (table # session.table \/ session.error)
          IN /\ session' = IF resets THEN Reset(session, TRUE) ELSE session
             /\ views' = IF resets THEN Deleted(session.sub) ELSE views
             /\ job' = [job EXCEPT ![t] =
                  [Idle EXCEPT !.kind = "restore", !.stage = "theme", !.update = u, !.table = table,
                               !.public = TRUE, !.gated = TRUE, !.suppress = suppress,
                               !.old = IF suppress THEN session.config ELSE Default,
                               !.err = resets /\ session.error]]
    BY DEF Restore
  <2> DEFINE resets == table # NoTable /\ (table # session.table \/ session.error)
             j == [Idle EXCEPT !.kind = "restore", !.stage = "theme", !.update = u, !.table = table,
                               !.public = TRUE, !.gated = TRUE, !.suppress = suppress,
                               !.old = IF suppress THEN session.config ELSE Default,
                               !.err = resets /\ session.error]
  <2>2. DOMAIN j = DOMAIN Idle /\ j.stage = "theme"
    BY JobFields
  <2>3. /\ session' = IF resets THEN Reset(session, TRUE) ELSE session
        /\ views' = IF resets THEN Deleted(session.sub) ELSE views
        /\ job' = [job EXCEPT ![t] = j]
    BY <2>1
  <2> HIDE DEF j, resets
  <2>4. \/ session' = session /\ views' = views
        \/ session' = Reset(session, TRUE) /\ views' = Deleted(session.sub)
    BY <2>3
  <2>5. job' = [job EXCEPT ![t] = j]
    BY <2>3
  <2> QED BY <2>2, <2>4, <2>5
<1>3. UNCHANGED <<renderer, lapses, debounceVars>>
  BY DEF Restore
<1>4. Untouched
  <2>1. CASE session' = session /\ views' = views
    BY <1>1, <1>3, <2>1, TheSamePanel
  <2>2. CASE session' = Reset(session, TRUE) /\ views' = Deleted(session.sub)
    BY <1>1, <1>3, <2>2, ResetKeeps DEF Untouched, Shapes, Deleted
  <2> QED BY <1>2, <2>1, <2>2
<1> QED BY <1>1, <1>2, <1>3, <1>4, ThemedOutside, UntouchedKeeps DEF Untouched

LEMMA LoadKeeps ==
  ASSUME PanelInv, DOMAIN call = Tasks, NEW t \in Tasks, Load(t)
  PROVE  PanelInv'
<1>1. Shapes /\ InsideRuns /\ job[t].stage \notin Inside
  BY JobFields DEF PanelInv, Load, StartsTask, Inside
<1>2. PICK payload, table :
        /\ session' = [session EXCEPT !.loads = @ + 1, !.load = session.loads + 1, !.journal = <<>>]
        /\ Queue(t, "load", [Idle EXCEPT !.public = TRUE, !.payload = payload, !.table = table,
                                         !.gen = session.loads + 1])
  BY DEF Load
<1>3. UNCHANGED <<renderer, views, lapses>>
  BY DEF Load, server
<1>4. Untouched
  BY <1>1, <1>2, <1>3, SessionFields DEF Untouched, Shapes
<1>5. DOMAIN [Idle EXCEPT !.public = TRUE, !.payload = payload, !.table = table, !.gen = session.loads + 1] = DOMAIN Idle
  OBVIOUS
<1> QED BY <1>1, <1>2, <1>4, <1>5, QueueOutside, UntouchedKeeps DEF Untouched

LEMMA ResetAllKeeps ==
  ASSUME PanelInv, DOMAIN call = Tasks, NEW t \in Tasks, ResetAll(t)
  PROVE  PanelInv'
<1> DEFINE j == [Idle EXCEPT !.kind = "reset", !.stage = "theme", !.public = TRUE, !.gated = TRUE,
                             !.plugin = DefaultPlugin]
<1>1. Shapes /\ InsideRuns /\ job[t].stage \notin Inside
  BY JobFields DEF PanelInv, ResetAll, StartsTask, Inside
<1>2. /\ session' = Reset(session, TRUE) /\ views' = Deleted(session.sub)
      /\ UNCHANGED <<renderer, debounceVars>>
  BY DEF ResetAll
<1>3. \/ lapses' = lapses \cup {"undrawn"} /\ job' = job
      \/ lapses' = lapses /\ job' = [job EXCEPT ![t] = j]
  BY DEF ResetAll
<1>4. Untouched
  BY <1>1, <1>2, <1>3, ResetKeeps DEF Untouched, Shapes, Deleted
<1>5. DOMAIN j = DOMAIN Idle /\ j.stage = "theme"
  BY JobFields
<1> HIDE DEF j
<1>6. CASE job' = job
  BY <1>1, <1>2, <1>4, <1>6, TasksStay, UntouchedKeeps DEF Untouched
<1>7. CASE job' = [job EXCEPT ![t] = j]
  BY <1>1, <1>2, <1>4, <1>5, <1>7, ThemedOutside, UntouchedKeeps DEF Untouched
<1> QED BY <1>3, <1>6, <1>7

LEMMA ResetErrorKeeps ==
  ASSUME PanelInv, DOMAIN call = Tasks, NEW t \in Tasks, ResetError(t)
  PROVE  PanelInv'
<1>1. Shapes /\ InsideRuns /\ job[t].stage \notin Inside
  BY JobFields DEF PanelInv, ResetError, StartsTask, Inside
<1>2. /\ session' = Reset(session, FALSE) /\ views' = Deleted(session.sub)
      /\ UNCHANGED <<renderer, lapses>> /\ Queue(t, "render", Idle)
  BY DEF ResetError
<1>3. Untouched
  BY <1>1, <1>2, ResetKeeps DEF Untouched, Shapes, Deleted
<1> QED BY <1>1, <1>2, <1>3, QueueOutside, UntouchedKeeps DEF Untouched

LEMMA ResumeKeeps ==
  ASSUME PanelInv, DOMAIN call = Tasks, NEW t \in Tasks, Resume(t)
  PROVE  PanelInv'
<1> DEFINE j == [Idle EXCEPT !.kind = "resume", !.stage = "theme", !.gated = TRUE]
<1>1. Shapes /\ InsideRuns /\ job[t].stage \notin Inside
  BY JobFields DEF PanelInv, Resume, Inside
<1>2. /\ session' = [session EXCEPT !.paused = FALSE] /\ job' = [job EXCEPT ![t] = j]
      /\ UNCHANGED <<renderer, views, lapses, debounceVars>>
  BY DEF Resume, server
<1>3. Untouched
  BY <1>1, <1>2, SessionFields DEF Untouched, Shapes
<1>4. DOMAIN j = DOMAIN Idle /\ j.stage = "theme"
  BY JobFields
<1> HIDE DEF j
<1> QED BY <1>1, <1>2, <1>3, <1>4, ThemedOutside, UntouchedKeeps DEF Untouched

LEMMA ActivateKeeps ==
  ASSUME PanelInv, DOMAIN call = Tasks, NEW t \in Tasks, Activate(t)
  PROVE  PanelInv'
<1>1. Shapes /\ InsideRuns /\ job[t].stage \notin Inside
  BY JobFields DEF PanelInv, Activate, Inside
<1>2. /\ renderer' = [renderer EXCEPT !.hidden = FALSE] /\ Queue(t, "activate", Idle)
      /\ UNCHANGED <<session, views, lapses>>
  BY DEF Activate, server
<1>3. Untouched
  BY <1>1, <1>2, RendererFields DEF Untouched, Shapes
<1> QED BY <1>1, <1>2, <1>3, QueueOutside, UntouchedKeeps DEF Untouched

\* A task that waits for its turn in a slot.
LEMMA DebouncedOutside ==
  ASSUME Shapes, InsideRuns, DOMAIN call = Tasks, NEW t \in Tasks, job[t].stage \notin Inside,
         NEW s \in Slots, Debounce(t, s), NEW kind,
         job' = [job EXCEPT ![t] = [Idle EXCEPT !.kind = kind, !.stage = "queued"]],
         DOMAIN session' = DOMAIN NewSession, DOMAIN renderer' = DOMAIN NewRenderer
  PROVE  /\ Shapes' /\ InsideRuns'
         /\ \A u \in Tasks : job[u].stage \in Inside \/ job'[u].stage \in Inside => job'[u] = job[u]
<1> DEFINE j == [Idle EXCEPT !.kind = kind, !.stage = "queued"]
<1>1. DOMAIN j = DOMAIN Idle /\ j.stage \notin Inside
  BY JobFields DEF Inside
<1>2. job' = [job EXCEPT ![t] = j]
  OBVIOUS
<1> HIDE DEF j
<1>3. \A u \in Tasks \ {t} : call'[u] = call[u]
  BY CallsOfOthers
<1> QED BY <1>1, <1>2, <1>3, TaskOutside

LEMMA ResizeKeeps ==
  ASSUME PanelInv, DOMAIN call = Tasks, NEW t \in Tasks, Resize(t)
  PROVE  PanelInv'
<1>1. Shapes /\ InsideRuns /\ job[t].stage \notin Inside
  BY JobFields DEF PanelInv, Resize, StartsTask, Inside
<1>2. PICK kind \in {"resize", "presize"} :
        /\ Debounce(t, GeometrySlot)
        /\ job' = [job EXCEPT ![t] = [Idle EXCEPT !.kind = kind, !.stage = "queued"]]
        /\ renderer' = [renderer EXCEPT !.presizing = @ \/ kind = "presize"]
  BY DEF Resize
<1>3. UNCHANGED <<session, views, lapses>>
  BY DEF Resize, server
<1>4. Untouched
  BY <1>1, <1>2, <1>3, RendererFields DEF Untouched, Shapes
<1> QED BY <1>1, <1>2, <1>4, SlotsOfPanel, DebouncedOutside, UntouchedKeeps DEF Untouched

LEMMA EjectKeeps ==
  ASSUME PanelInv, DOMAIN call = Tasks, NEW t \in Tasks, Eject(t)
  PROVE  PanelInv'
<1>1. Shapes /\ InsideRuns /\ job[t].stage \notin Inside
  BY JobFields DEF PanelInv, Eject, StartsTask, Inside
<1>2. /\ session' = [Unloaded(Reset(session, TRUE)) EXCEPT !.ejected = TRUE]
      /\ renderer' = [renderer EXCEPT !.drawn = FALSE, !.cached = NoUpdate]
      /\ views' = Deleted(session.sub)
      /\ Queue(t, "eject", Idle)
      /\ lapses' = lapses
  BY DEF Eject
<1>3. DOMAIN session' = DOMAIN NewSession /\ session'.sub = NoView /\ session'.ejected
  BY <1>1, <1>2, SessionFields DEF Shapes, Reset, Unloaded
<1>4. DOMAIN renderer' = DOMAIN NewRenderer /\ renderer'.active = renderer.active
  BY <1>1, <1>2, RendererFields DEF Shapes
<1>5. views' \subseteq views \ {session.sub}
  BY <1>2 DEF Deleted
<1>6. /\ Shapes' /\ InsideRuns'
      /\ \A u \in Tasks : job[u].stage \in Inside \/ job'[u].stage \in Inside => job'[u] = job[u]
  BY <1>1, <1>2, <1>3, <1>4, QueueOutside
<1>7. "late" \in lapses => "late" \in lapses'
  BY <1>2
<1> QED BY <1>3, <1>4, <1>5, <1>6, <1>7, OutsideKeeps

LEMMA HostedChangeKeeps ==
  ASSUME PanelInv, DOMAIN call = Tasks, NEW t \in Tasks, HostedChange(t)
  PROVE  PanelInv'
<1> DEFINE j == [Idle EXCEPT !.kind = "sweep", !.stage = "list", !.table = session.table]
<1>1. Shapes /\ InsideRuns /\ job[t].stage \notin Inside
  BY JobFields DEF PanelInv, HostedChange, StartsTask, Inside
<1>2. job' = [job EXCEPT ![t] = j] /\ UNCHANGED <<session, renderer, views, lapses, debounceVars>>
  BY DEF HostedChange
<1>3. Untouched
  BY <1>1, <1>2, TheSamePanel
<1>4. DOMAIN j = DOMAIN Idle /\ j.stage = "list"
  BY JobFields
<1> HIDE DEF j
<1> QED BY <1>1, <1>2, <1>3, <1>4, ThemedOutside, UntouchedKeeps DEF Untouched

LEMMA TableUpdatedKeeps ==
  ASSUME PanelInv, DOMAIN call = Tasks, NEW t \in Tasks, TableUpdated(t)
  PROVE  PanelInv'
<1>1. Shapes /\ InsideRuns
  BY DEF PanelInv
<1>2. UNCHANGED <<session, views, lapses>>
  BY DEF TableUpdated
<1>3. CASE UNCHANGED <<renderer, job, debounceVars>>
  BY <1>1, <1>2, <1>3, TheSamePanel, TasksStay, UntouchedKeeps DEF Untouched
<1>4. CASE renderer' = Dropped(renderer) /\ UNCHANGED <<job, debounceVars>>
  <2>1. Untouched
    BY <1>1, <1>2, <1>4, RendererFields DEF Untouched, Shapes, Dropped
  <2> QED BY <1>1, <1>4, <2>1, TasksStay, UntouchedKeeps DEF Untouched
<1>5. CASE /\ job[t] = Idle
           /\ Debounce(t, DrawSlot)
           /\ job' = [job EXCEPT ![t] = [Idle EXCEPT !.kind = "update", !.stage = "queued"]]
           /\ UNCHANGED renderer
  <2>1. Untouched
    BY <1>1, <1>2, <1>5, TheSamePanel
  <2>2. job[t].stage \notin Inside
    BY <1>5, JobFields DEF Inside
  <2> QED BY <1>1, <1>5, <2>1, <2>2, SlotsOfPanel, DebouncedOutside, UntouchedKeeps DEF Untouched
<1> QED BY <1>3, <1>4, <1>5 DEF TableUpdated

LEMMA EventsKeep ==
  ASSUME PanelInv, DOMAIN call = Tasks, Pause \/ Hide \/ ClientError \/ Update
  PROVE  PanelInv'
<1>1. Shapes /\ InsideRuns /\ UNCHANGED <<job, debounceVars>>
  BY DEF PanelInv, Pause, Hide, ClientError, Update
<1>2. CASE Pause
  <2>1. Untouched
    BY <1>1, <1>2, SessionFields DEF Pause, Untouched, Shapes, Deleted
  <2> QED BY <1>1, <2>1, TasksStay, UntouchedKeeps DEF Untouched
<1>3. CASE Hide
  <2>1. Untouched
    BY <1>1, <1>3, RendererFields DEF Hide, Untouched, Shapes, server
  <2> QED BY <1>1, <2>1, TasksStay, UntouchedKeeps DEF Untouched
<1>4. CASE ClientError
  <2>1. Untouched
    BY <1>1, <1>4, SessionFields DEF ClientError, Untouched, Shapes
  <2> QED BY <1>1, <2>1, TasksStay, UntouchedKeeps DEF Untouched
<1>5. CASE Update
  <2>1. Untouched
    BY <1>1, <1>5, TheSamePanel DEF Update
  <2> QED BY <1>1, <2>1, TasksStay, UntouchedKeeps DEF Untouched
<1> QED BY <1>2, <1>3, <1>4, <1>5

----------------------------------------------------------------------------
LEMMA PanelInitInv == PanelInit => PanelIInv
<1> SUFFICES ASSUME PanelInit PROVE PanelIInv
  OBVIOUS
<1>1. DebounceInv
  BY InitDebounce DEF PanelInit
<1>2. OneRuns
  BY DEF PanelInit, DebounceInit, NoCall, OneRuns
<1>3. job = [t \in Tasks |-> Idle] /\ lapses = {}
  BY DEF PanelInit
<1>4. \A t \in Tasks : job[t].stage = "idle" /\ DOMAIN job[t] = DOMAIN Idle
  BY <1>3, JobFields
<1>5. InsideRuns /\ Bindable /\ MadeFromSnap /\ PinnedIsDrawn
  BY <1>4 DEF InsideRuns, Bindable, MadeFromSnap, PinnedIsDrawn, Inside
<1>6. CASE session = NewSession /\ renderer = NewRenderer /\ views = {}
  <2>1. session.sub = NoView
    BY <1>6 DEF NewSession
  <2> QED BY <1>1, <1>2, <1>3, <1>4, <1>5, <1>6, <2>1
          DEF PanelIInv, PanelInv, Shapes, Built, Cached, ViewsAreHeld, InTime
<1>7. ASSUME NEW table, NEW config, NEW v,
             v = [id |-> 1, table |-> table, config |-> config],
             session = [NewSession EXCEPT !.table = table, !.meta = table, !.loads = 1, !.views = 1,
                                          !.sub = v, !.build = config],
             renderer = [NewRenderer EXCEPT !.plugin = DefaultPlugin, !.drawn = TRUE,
                                            !.cached = [view |-> v, config |-> config]],
             views = {v}
      PROVE  PanelIInv
  <2>1. DOMAIN session = DOMAIN NewSession /\ session.sub = v /\ session.build = config
    BY <1>7, SessionFields
  <2>2. ~session.paused /\ ~session.ejected
    BY <1>7, SessionFields DEF NewSession
  <2>3. DOMAIN renderer = DOMAIN NewRenderer /\ renderer.cached = [view |-> v, config |-> config]
    BY <1>7, RendererFields
  <2>4. v # NoView /\ v.config = config
    <3>1. "table" \in DOMAIN v /\ "table" \notin DOMAIN NoView
      BY <1>7 DEF NoView
    <3> QED BY <1>7, <3>1
  <2>5. Built(session) /\ Cached(session, renderer) /\ InTime(session, lapses)
    BY <2>1, <2>2, <2>3, <2>4 DEF Built, Cached, InTime, Equivalent
  <2>6. ViewsAreHeld /\ Shapes
    BY <1>3, <1>4, <1>7, <2>1, <2>3, <2>4 DEF ViewsAreHeld, Shapes
  <2> QED BY <1>1, <1>2, <1>5, <2>5, <2>6 DEF PanelIInv, PanelInv
<1> DEFINE first == CHOOSE any \in Tables : TRUE
           plain == [q |-> 0, needs |-> AnyTable, face |-> 0, filter |-> 0]
           view == [id |-> 1, table |-> first, config |-> plain]
<1>8. CASE /\ session = [NewSession EXCEPT !.table = first, !.meta = first, !.loads = 1, !.views = 1,
                                          !.sub = view, !.build = plain]
           /\ renderer = [NewRenderer EXCEPT !.plugin = DefaultPlugin, !.drawn = TRUE,
                                            !.cached = [view |-> view, config |-> plain]]
           /\ views = {view}
  <2>1. view = [id |-> 1, table |-> first, config |-> plain]
    OBVIOUS
  <2> HIDE DEF view, first, plain
  <2> QED BY <1>7, <1>8, <2>1
<1> QED BY <1>6, <1>8 DEF PanelInit

LEMMA PanelStepInv == PanelIInv /\ [PanelNext]_panelVars => PanelIInv'
<1> SUFFICES ASSUME PanelIInv, [PanelNext]_panelVars PROVE PanelIInv'
  OBVIOUS
<1>1. DebounceInv /\ OneRuns /\ PanelInv /\ DebounceTypeOK /\ DOMAIN call = Tasks
  BY DEF PanelIInv, DebounceInv, DebounceTypeOK
<1>2. Locks
  BY PanelStepLocks
<1>3. DebounceInv' /\ OneRuns'
  BY <1>1, <1>2, NextDebounce, OneStillRuns DEF Locks
<1>4. ASSUME NEW t \in Tasks, Starting(t)
      PROVE  PanelInv'
  BY <1>1, <1>4, BeginKeeps, BeginLoadKeeps, BeginActivationKeeps, BeginUpdateKeeps, BeginSuspendKeeps,
     BeginOtherKeeps DEF Starting
<1>5. ASSUME NEW t \in Tasks, TaskStep(t)
      PROVE  PanelInv'
  <2>1. CASE Locked(t)
    BY <1>1, <2>1, OpenKeeps, DecideKeeps, MakeViewKeeps, SubscribeKeeps, DrawKeeps, PayloadIsTableKeeps,
       PayloadIsOtherKeeps DEF Locked
  <2>2. CASE Take(t) \/ RestoreCommit(t) \/ Sweep(t) \/ Coalesced(t)
    BY <1>1, <2>2, CoalescedKeeps, RestoreCommitKeeps, SweepKeeps
  <2> QED BY <1>5, <2>1, <2>2 DEF TaskStep
<1>6. ASSUME NEW t \in Tasks, Operation(t)
      PROVE  PanelInv'
  <2>1. CASE Apply(t) \/ ApplyGlobalFilters(t) \/ Restore(t) \/ Load(t)
    BY <1>1, <2>1, ApplyKeeps, ApplyGlobalFiltersKeeps, RestoreKeeps, LoadKeeps
  <2>2. CASE ResetAll(t) \/ ResetError(t) \/ Resume(t) \/ Activate(t)
    BY <1>1, <2>2, ResetAllKeeps, ResetErrorKeeps, ResumeKeeps, ActivateKeeps
  <2>3. CASE Resize(t) \/ Eject(t) \/ HostedChange(t)
    BY <1>1, <2>3, ResizeKeeps, EjectKeeps, HostedChangeKeeps
  <2> QED BY <1>6, <2>1, <2>2, <2>3 DEF Operation
<1>7. CASE PanelNext
  <2> SUFFICES PanelInv'
    BY <1>3 DEF PanelIInv
  <2>1. CASE \E t \in Tasks : Polled(t) /\ (Starting(t) \/ Returns(t))
    BY <1>1, <1>4, <2>1, ReturnsKeeps
  <2>2. CASE \E t \in Tasks : Operation(t) \/ TaskStep(t) \/ TableUpdated(t)
    BY <1>1, <1>5, <1>6, <2>2, TableUpdatedKeeps
  <2>3. CASE Pause \/ Hide \/ ClientError \/ Update
    BY <1>1, <2>3, EventsKeep
  <2> QED BY <1>7, <2>1, <2>2, <2>3 DEF PanelNext
<1>8. CASE UNCHANGED panelVars
  <2>1. Shapes /\ InsideRuns /\ UNCHANGED <<session, renderer, job, views, lapses, debounceVars>>
    BY <1>1, <1>8 DEF panelVars, PanelInv
  <2>2. PanelInv'
    BY <1>1, <2>1, TheSamePanel, TasksStay, UntouchedKeeps DEF Untouched
  <2> QED BY <1>3, <2>2 DEF PanelIInv
<1> QED BY <1>7, <1>8

\* The View, the config that it was built from and the context pinned for the
\* plugin agree, whatever pauses, errors, resets and removals come between the
\* awaits of a run (bind_view, pin_context).
THEOREM PanelInvariant == PanelSpec => []PanelInv
<1>1. PanelIInv => PanelInv
  BY DEF PanelIInv
<1> QED BY <1>1, PanelInitInv, PanelStepInv, PTL DEF PanelSpec

\* A plugin that reads back its context while it draws finds the View that it
\* draws, for any Tables, plugins, tasks and number of operations.
THEOREM PinnedStaysDrawn == PanelSpec => []PinnedIsDrawn
<1>1. PanelInv => PinnedIsDrawn
  BY DEF PanelInv
<1> QED BY <1>1, PanelInvariant, PTL

\* Once every task of a panel has ended, the server has at most the View that
\* is bound, and none for a panel that is paused or removed, unless a run that
\* was under way bound one too late.
THEOREM ViewsGetReleased == PanelSpec => []ViewsAreReleased
<1>1. ASSUME PanelInv
      PROVE  ViewsAreReleased
  <2>1. SUFFICES ASSUME Quiet, "late" \notin lapses
                 PROVE  /\ views \subseteq {session.sub}
                        /\ session.paused \/ session.ejected => views = {}
    BY DEF ViewsAreReleased
  <2>2. {u \in Tasks : job[u].stage = "subscribe"} = {}
    BY <2>1, JobFields DEF Quiet
  <2>3. views \subseteq {session.sub} /\ NoView \notin views
    BY <1>1, <2>2 DEF PanelInv, ViewsAreHeld
  <2>4. session.paused \/ session.ejected => session.sub = NoView
    BY <1>1, <2>1 DEF PanelInv, InTime
  <2> QED BY <2>3, <2>4
<1> QED BY <1>1, PanelInvariant, PTL
----------------------------------------------------------------------------
(* What a panel shows. Somebody who has yet to take a snapshot owes every  *)
(* commit; a run that has taken one has that of the last commit; when      *)
(* nobody runs, what is bound was built from it, and is what the frame     *)
(* shows.                                                                  *)

RunKinds == {"render", "restore", "reset", "resume", "bind"}
Snapped == {"validate", "view", "subscribe"}

\* A config with the filters of the workspace.
Config(c) == c = [q |-> c.q, needs |-> c.needs, face |-> c.face, filter |-> c.filter]
Query(s) == [q |-> s.config.q, needs |-> s.config.needs, face |-> s.config.face, filter |-> s.filter]
Context(s) == [view |-> s.sub, config |-> s.build]

\* Who will take a snapshot.
Due(t) ==
    \/ job[t].stage \in {"theme", "open"}
    \/ job[t].stage = "queued" /\ job[t].kind \in RunKinds
NobodyDue == \A t \in Tasks : ~Due(t)

\* What a task does at a stage, and where its call of the lock is.
SlotOf(kind) ==
    IF kind = "update" THEN DrawSlot ELSE IF kind \in {"resize", "presize"} THEN GeometrySlot ELSE NoSlot
Fits(j, c, gone) ==
    /\ j.stage \in {"open", "payload"} \cup Snapped => j.kind \in RunKinds \cup {"load"}
    /\ j.stage = "theme" => /\ j.kind \in {"restore", "reset", "resume", "bind"}
                            /\ j.kind = "restore" \/ j.update = NoUpdate
    /\ j.stage = "queued" /\ j.kind = "eject" => gone
    /\ j.stage \in {"idle", "theme", "list"} => c.at = "idle"
    /\ j.stage = "ended" => c.at = "done"
    /\ c.at \in {"mutex", "settle"} => j.stage = "queued"
    /\ j.stage = "queued" => /\ c.slot = SlotOf(j.kind)
                             /\ c.slot = NoSlot => c.at \in {"mutex", "run"}
    /\ j.stage \in Snapped => Config(j.snap)
TasksFit == \A t \in Tasks : Fits(job[t], call[t], session.ejected)

\* What is bound is of the Table, is what the plugin reads back, and the server
\* has it; Views are numbered.
Fine(s, r, live) ==
    /\ ~s.ejected /\ s.sub # NoView =>
         /\ s.table # NoTable /\ s.sub.table = s.table
         /\ Config(s.build) /\ Config(s.sub.config)
         /\ r.cached = Context(s)
    /\ s.sub # NoView => s.sub \in live
    /\ s.views \in Nat /\ s.sub.id \in Nat /\ s.sub.id <= s.views

\* ... and so is what a run is about to bind, or draws.
Meant(j, s, r) ==
    /\ j.stage = "view" /\ ~s.ejected => j.table = s.table
    /\ j.stage = "subscribe" => /\ ~s.ejected => j.view.table = s.table
                                /\ j.view.id \in Nat /\ s.sub.id < j.view.id /\ j.view.id <= s.views
    /\ j.stage = "draw" /\ ~s.ejected /\ s.sub # NoView => j.view = s.sub /\ r.active = Context(s)

\* A panel that should show its config, as far as it is known to lapse.
Wants(s, lost) ==
    ~s.ejected /\ ~s.error /\ ~s.paused /\ s.table # NoTable /\ "deferred" \notin lost /\ "undrawn" \notin lost
BindsQuery(s) == s.sub # NoView /\ s.build = Query(s)
Current ==
    Wants(session, lapses) /\ NobodyDue =>
      /\ \A t \in Tasks : job[t].stage \in Snapped => job[t].snap = Query(session)
      /\ (\A t \in Tasks : job[t].stage \notin Snapped) =>
           BindsQuery(session) /\ (renderer.drawn \/ \E t \in Tasks : job[t].stage = "draw")

\* A frame that was drawn shows what is bound.
ShowsBuild(s, r, lost, frame) ==
    ~s.ejected /\ "late" \notin lost /\ r.drawn /\ s.sub # NoView =>
      frame = [plugin |-> r.plugin, table |-> s.sub.table, config |-> s.build, data |-> frame.data]
NobodyDraws == \A t \in Tasks : job[t].stage # "draw"
FrameIsBuild == NobodyDraws => ShowsBuild(session, renderer, lapses, shown)

\* ... and the last update, or a notice or a task will draw it.
Unserved(t) ==
    /\ job[t].kind = "update" /\ job[t].stage = "queued"
    /\ call[t].at = "run" \/ (call[t].at \in {"mutex", "settle"} /\ call[t].next > slot[DrawSlot].id)
Activates(t) == job[t].kind = "activate" /\ job[t].stage = "queued"
Told ==
    \/ shown.data = version
    \/ session.sub \in told
    \/ renderer.stale /\ (renderer.hidden \/ \E t \in Tasks : Activates(t))
    \/ \E t \in Tasks : Unserved(t)
MayLag(s, r, lost) == ~s.ejected /\ "late" \notin lost /\ "presize" \notin lost /\ r.drawn /\ s.sub # NoView
UpdatesAreDue == NobodyDraws /\ MayLag(session, renderer, lapses) => Told

ShownInv ==
    /\ TasksFit
    /\ Fine(session, renderer, views)
    /\ \A t \in Tasks : Meant(job[t], session, renderer)
    /\ Current
    /\ FrameIsBuild
    /\ UpdatesAreDue

\* At rest, that is what the properties say.
LEMMA ShownAtRest ==
  ASSUME ShownInv, Shapes
  PROVE  FinalRenderIsFinalCommit /\ UpdatesAreShown
<1> SUFFICES ASSUME Quiet, OnScreen, lapses = {}
             PROVE  ShowsConfig /\ (shown.data = version \/ (renderer.hidden /\ renderer.stale))
  BY DEF FinalRenderIsFinalCommit, UpdatesAreShown
<1>1. told = {} /\ \A t \in Tasks : job[t].stage = "idle"
  BY JobFields DEF Quiet
<1>2. NobodyDue /\ NobodyDraws
  BY <1>1 DEF NobodyDue, Due, NobodyDraws
<1>3. Wants(session, lapses)
  BY DEF OnScreen, Wants
<1>4. BindsQuery(session) /\ renderer.drawn
  <2>1. \A t \in Tasks : job[t].stage \notin Snapped /\ job[t].stage # "draw"
    BY <1>1 DEF Snapped
  <2> QED BY <1>2, <1>3, <2>1 DEF ShownInv, Current
<1>5. shown = [plugin |-> renderer.plugin, table |-> session.sub.table, config |-> session.build, data |-> shown.data]
  BY <1>2, <1>3, <1>4 DEF ShownInv, FrameIsBuild, ShowsBuild, Wants, BindsQuery
<1>6. session.sub.table = session.table
  BY <1>3, <1>4 DEF ShownInv, Fine, Wants, BindsQuery
<1>7. session.build = Effective
  BY <1>4 DEF BindsQuery, Query, Effective
<1>8. ShowsConfig
  BY <1>4, <1>5, <1>6, <1>7 DEF ShowsConfig, BindsQuery
<1>9. Told
  BY <1>2, <1>3, <1>4 DEF ShownInv, UpdatesAreDue, MayLag, Wants, BindsQuery
<1>10. shown.data = version \/ (renderer.hidden /\ renderer.stale)
  BY <1>1, <1>9 DEF Told, Activates, Unserved
<1> QED BY <1>8, <1>10

----------------------------------------------------------------------------
(* Steps of who has the lock.                                              *)

LEMMA FitsStill ==
  ASSUME TasksFit, DOMAIN job = Tasks, NEW t \in Tasks, NEW j, job' = [job EXCEPT ![t] = j],
         \A u \in Tasks \ {t} : call'[u] = call[u],
         session.ejected => session'.ejected, Fits(j, call'[t], session'.ejected)
  PROVE  TasksFit'
<1> SUFFICES ASSUME NEW u \in Tasks PROVE Fits(job'[u], call'[u], session'.ejected)
  BY DEF TasksFit
<1>1. CASE u = t
  BY <1>1
<1>2. CASE u # t
  <2>1. job'[u] = job[u] /\ call'[u] = call[u]
    BY <1>2
  <2>2. Fits(job[u], call[u], session.ejected)
    BY DEF TasksFit
  <2> QED BY <2>1, <2>2 DEF Fits
<1> QED BY <1>1, <1>2

\* The last update is owed as before, when nothing but t has moved.
LEMMA StillOwed ==
  ASSUME UpdatesAreDue, NobodyDraws, NEW t \in Tasks,
         \A u \in Tasks \ {t} : job'[u] = job[u] /\ call'[u] = call[u],
         slot'[DrawSlot].id = slot[DrawSlot].id,
         ~Unserved(t), Activates(t) => ~renderer.stale,
         shown'.data = shown.data, told' = told, version' = version,
         renderer'.stale = renderer.stale, renderer'.hidden = renderer.hidden,
         session'.sub \in {session.sub, NoView}, renderer'.drawn => renderer.drawn,
         session.ejected => session'.ejected,
         "late" \in lapses => "late" \in lapses', "presize" \in lapses => "presize" \in lapses'
  PROVE  UpdatesAreDue'
<1> SUFFICES ASSUME MayLag(session', renderer', lapses')
             PROVE  Told'
  BY DEF UpdatesAreDue
<1>1. session'.sub = session.sub /\ MayLag(session, renderer, lapses)
  BY DEF MayLag
<1>2. Told
  BY <1>1 DEF UpdatesAreDue
<1>3. \A u \in Tasks : Unserved(u) => Unserved(u)'
  BY DEF Unserved
<1>4. \A u \in Tasks : Activates(u) /\ renderer.stale => Activates(u)'
  BY DEF Activates
<1>5. CASE shown.data = version \/ session.sub \in told
  BY <1>1, <1>5 DEF Told
<1>6. CASE renderer.stale /\ (renderer.hidden \/ \E u \in Tasks : Activates(u))
  BY <1>4, <1>6 DEF Told
<1>7. CASE \E u \in Tasks : Unserved(u)
  BY <1>3, <1>7 DEF Told
<1> QED BY <1>2, <1>5, <1>6, <1>7 DEF Told

\* A run goes on to its next stage.
LEMMA GoesOnShows ==
  ASSUME ShownInv, Shapes, NEW t \in Tasks, Alone(t), NEW j, job' = [job EXCEPT ![t] = j],
         UNCHANGED debounceVars, j.stage \in Inside, session.ejected => session'.ejected,
         Fits(j, call[t], session'.ejected), Fine(session', renderer', views'), Meant(j, session', renderer'),
         Wants(session', lapses') /\ j.stage # "open" /\ (\A u \in Tasks \ {t} : ~Due(u)) =>
           /\ j.stage \in Snapped => j.snap = Query(session')
           /\ j.stage \notin Snapped => BindsQuery(session') /\ (renderer'.drawn \/ j.stage = "draw"),
         j.stage # "draw" => ShowsBuild(session', renderer', lapses', shown'),
         UpdatesAreDue'
  PROVE  ShownInv'
<1>1. job'[t] = j /\ \A u \in Tasks \ {t} : job'[u] = job[u]
  BY DEF Shapes
<1>2. TasksFit'
  BY FitsStill DEF ShownInv, Shapes, debounceVars
<1>3. \A u \in Tasks : Meant(job'[u], session', renderer')
  BY <1>1 DEF Meant, Alone, Inside
<1>4. Current'
  <2> SUFFICES ASSUME Wants(session', lapses'), NobodyDue'
               PROVE  /\ \A u \in Tasks : job'[u].stage \in Snapped => job'[u].snap = Query(session')
                      /\ (\A u \in Tasks : job'[u].stage \notin Snapped) =>
                           BindsQuery(session') /\ (renderer'.drawn \/ \E u \in Tasks : job'[u].stage = "draw")
    BY DEF Current
  <2>1. j.stage # "open" /\ \A u \in Tasks \ {t} : ~Due(u)
    BY <1>1 DEF NobodyDue, Due
  <2>2. \A u \in Tasks \ {t} : job'[u].stage \notin Snapped
    BY <1>1 DEF Alone, Inside, Snapped
  <2> QED BY <1>1, <2>1, <2>2
<1>5. FrameIsBuild'
  BY <1>1 DEF FrameIsBuild, NobodyDraws
<1> QED BY <1>2, <1>3, <1>4, <1>5 DEF ShownInv


LEMMA EndsStages ==
  ASSUME Shapes, DebounceTypeOK, NEW t \in Tasks, Alone(t),
         NEW ok \in BOOLEAN, NEW s, NEW r, NEW live, NEW lost, Ends(t, ok, s, r, live, lost)
  PROVE  /\ \A u \in Tasks : job'[u].stage \notin Inside
         /\ job' = [job EXCEPT ![t] = job'[t]] /\ job'[t].stage = "ended"
         /\ \A u \in Tasks \ {t} : job'[u] = job[u] /\ call'[u] = call[u]
         /\ call'[t].at = "done"
         /\ \A z \in Slots : slot'[z].id = slot[z].id
<1>1. job' = [job EXCEPT ![t] = [Idle EXCEPT !.kind = job[t].kind, !.stage = "ended"]]
  BY DEF Ends
<1>2. [Idle EXCEPT !.kind = job[t].kind, !.stage = "ended"].stage = "ended"
  BY JobFields
<1>3. /\ job'[t] = [Idle EXCEPT !.kind = job[t].kind, !.stage = "ended"]
      /\ \A u \in Tasks \ {t} : job'[u] = job[u]
  BY <1>1 DEF Shapes
<1>4. DOMAIN call = Tasks /\ "at" \in DOMAIN call[t]
  BY DEF DebounceTypeOK, CallStates
<1>5. Release(t, ok)
  BY DEF Ends
<1>6. call'[t].at = "done" /\ \A u \in Tasks \ {t} : call'[u] = call[u]
  BY <1>4, <1>5 DEF Release
<1>7. ASSUME NEW z \in Slots PROVE slot'[z].id = slot[z].id
  <2>1. DOMAIN slot[z] = {"id", "last", "parked", "settled_id"}
    BY DEF DebounceTypeOK, SlotStates
  <2> QED BY <1>5, <2>1 DEF Release, SettledFor
<1>8. \A u \in Tasks : job'[u].stage \notin Inside
  BY <1>2, <1>3 DEF Alone, Inside
<1> QED BY <1>1, <1>2, <1>3, <1>6, <1>7, <1>8

\* A failure leaves the panel in error, or is known to leave a commit undrawn.
LEMMA FailureIsKnown ==
  ASSUME NEW t \in Tasks, NEW s, DOMAIN s = DOMAIN NewSession, job[t].kind \in RunKinds \cup {"load"},
         NEW lost, Undrawn(t) => "undrawn" \in lost
  PROVE  ~Wants(AfterFailure(t, s), lost)
<1>1. CASE TakesView(t)
  <2>1. AfterFailure(t, s) = [s EXCEPT !.error = TRUE, !.sub = NoView,
                                       !.load = IF job[t].kind = "load" /\ @ = job[t].gen THEN 0 ELSE @]
    BY <1>1 DEF AfterFailure, TakesView, Suppresses
  <2> QED BY <2>1, SessionFields DEF Wants
<1>2. CASE ~TakesView(t) /\ job[t].kind \in {"render", "resume"}
  <2>1. AfterFailure(t, s) = [s EXCEPT !.error = TRUE]
    BY <1>2 DEF AfterFailure, Suppresses
  <2> QED BY <2>1, SessionFields DEF Wants
<1>3. CASE ~TakesView(t) /\ job[t].kind \notin {"render", "resume"}
  <2>1. Undrawn(t)
    BY <1>3 DEF Undrawn, Suppresses, TakesView, RunKinds
  <2> QED BY <2>1 DEF Wants
<1> QED BY <1>1, <1>2, <1>3

LEMMA FailureIsFine ==
  ASSUME NEW t \in Tasks, NEW s, DOMAIN s = DOMAIN NewSession
  PROVE  /\ AfterFailure(t, s).views = s.views
         /\ AfterFailure(t, s).build = s.build
         /\ AfterFailure(t, s).table = s.table
         /\ AfterFailure(t, s).ejected = s.ejected
         /\ AfterFailure(t, s).sub \in {s.sub, NoView}
         /\ ~TakesView(t) => AfterFailure(t, s).sub = s.sub
<1>1. AfterFailure(t, s).views = s.views
  <2> DEFINE back == [field |-> "all", value |-> job[t].old]
  <2>1. CASE TakesView(t)
    <3>1. AfterFailure(t, s) = [s EXCEPT !.error = TRUE, !.sub = NoView,
                                         !.load = IF job[t].kind = "load" /\ @ = job[t].gen THEN 0 ELSE @]
      BY <2>1 DEF AfterFailure, TakesView, Suppresses
    <3> QED BY <3>1, SessionFields
  <2>2. CASE ~TakesView(t) /\ Suppresses(t)
    <3>1. AfterFailure(t, s) = IF Commits(s, back) THEN Committed(s, back) ELSE s
      BY <2>2 DEF AfterFailure, TakesView, Suppresses
    <3> HIDE DEF back
    <3>2. Committed(s, back).views = s.views
      BY SessionFields DEF Committed
    <3> QED BY <3>1, <3>2
  <2>3. CASE ~TakesView(t) /\ ~Suppresses(t)
    <3>1. AfterFailure(t, s) \in {s, [s EXCEPT !.error = TRUE]}
      BY <2>3 DEF AfterFailure
    <3> QED BY <3>1, SessionFields
  <2> QED BY <2>1, <2>2, <2>3
<1> QED BY <1>1, FailureKeeps

\* What is fine stays so without its View, and with another frame around it.
LEMMA FineStill ==
  ASSUME NEW s, NEW r, NEW live, Fine(s, r, live), NEW z, NEW y, NEW more,
         z.views = s.views, z.table = s.table, z.build = s.build, z.ejected = s.ejected, y.cached = r.cached,
         \/ z.sub = NoView
         \/ z.sub = s.sub /\ (s.sub \in live => s.sub \in more)
  PROVE  Fine(z, y, more)
<1>1. NoView.id = 0
  BY DEF NoView
<1>2. CASE z.sub = NoView
  BY <1>1, <1>2 DEF Fine
<1>3. CASE z.sub = s.sub /\ (s.sub \in live => s.sub \in more)
  BY <1>3 DEF Fine, Context
<1> QED BY <1>2, <1>3

LEMMA EndsShows ==
  ASSUME ShownInv, Shapes, DebounceTypeOK, NEW t \in Tasks, Alone(t),
         NEW ok \in BOOLEAN, NEW s, NEW r, NEW live, NEW lost, Ends(t, ok, s, r, live, lost),
         DOMAIN s = DOMAIN NewSession, DOMAIN r = DOMAIN NewRenderer,
         session.ejected => s.ejected, Fine(s, r, live), ShowsBuild(s, r, lost, shown'),
         ok \/ job[t].kind \in RunKinds \cup {"load"},
         ok /\ Wants(s, lost) /\ (\A u \in Tasks \ {t} : ~Due(u)) => BindsQuery(s) /\ r.drawn,
         UpdatesAreDue'
  PROVE  ShownInv'
<1>1. /\ \A u \in Tasks : job'[u].stage \notin Inside
      /\ job' = [job EXCEPT ![t] = job'[t]] /\ job'[t].stage = "ended"
      /\ \A u \in Tasks \ {t} : job'[u] = job[u] /\ call'[u] = call[u]
      /\ call'[t].at = "done"
  BY EndsStages
<1>2. /\ renderer' = [r EXCEPT !.active = NoUpdate]
      /\ session' = IF ok THEN s ELSE AfterFailure(t, s)
      /\ views' = IF ~ok /\ TakesView(t) THEN live \ {s.sub} ELSE live
      /\ lapses' = IF ~ok /\ Undrawn(t) THEN lost \cup {"undrawn"} ELSE lost
  BY DEF Ends
<1>3. renderer'.cached = r.cached /\ renderer'.plugin = r.plugin /\ renderer'.drawn = r.drawn
  BY <1>2, RendererFields
<1>4. /\ session'.views = s.views /\ session'.build = s.build /\ session'.table = s.table
      /\ session'.ejected = s.ejected
      /\ \/ session'.sub = s.sub /\ views' = live
         \/ session'.sub = NoView
  <2>1. CASE ok
    BY <1>2, <2>1
  <2>2. CASE ~ok
    <3>1. AfterFailure(t, s).sub = IF TakesView(t) THEN NoView ELSE s.sub
      BY FailureKeeps
    <3> QED BY <1>2, <2>2, <3>1, FailureIsFine
  <2> QED BY <2>1, <2>2
<1>5. Fine(session', renderer', views')
  BY <1>3, <1>4, FineStill
<1>6. TasksFit'
  <2>1. Fits(job'[t], call'[t], session'.ejected)
    BY <1>1 DEF Fits, Snapped
  <2>2. session.ejected => session'.ejected
    BY <1>4
  <2> QED BY <1>1, <2>1, <2>2, FitsStill DEF ShownInv, Shapes
<1>7. \A u \in Tasks : Meant(job'[u], session', renderer')
  BY <1>1 DEF Meant, Inside
<1>8. Current'
  <2> SUFFICES ASSUME Wants(session', lapses'), NobodyDue'
               PROVE  /\ \A u \in Tasks : job'[u].stage \in Snapped => job'[u].snap = Query(session')
                      /\ BindsQuery(session') /\ renderer'.drawn
    BY DEF Current
  <2>1. \A u \in Tasks : job'[u].stage \notin Snapped
    BY <1>1 DEF Inside, Snapped
  <2>2. \A u \in Tasks \ {t} : ~Due(u)
    BY <1>1 DEF NobodyDue, Due
  <2>3. ok
    <3> SUFFICES ASSUME ~ok PROVE FALSE
      OBVIOUS
    <3>1. session' = AfterFailure(t, s) /\ (Undrawn(t) => "undrawn" \in lapses')
      BY <1>2
    <3>2. ~Wants(AfterFailure(t, s), lapses')
      BY <3>1, FailureIsKnown
    <3> QED BY <3>1, <3>2
  <2>4. session' = s /\ lapses' = lost
    BY <1>2, <2>3
  <2>5. BindsQuery(s) /\ r.drawn
    BY <2>2, <2>3, <2>4
  <2> QED BY <1>3, <2>1, <2>4, <2>5
<1>9. FrameIsBuild'
  <2>1. "late" \in lost => "late" \in lapses'
    BY <1>2
  <2>2. ShowsBuild(session', renderer', lapses', shown')
    BY <1>3, <1>4, <2>1 DEF ShowsBuild
  <2> QED BY <2>2 DEF FrameIsBuild
<1> QED BY <1>5, <1>6, <1>7, <1>8, <1>9 DEF ShownInv

\* The last update is owed as before, if the run has not drawn.
LEMMA EndsOwes ==
  ASSUME UpdatesAreDue, Shapes, DebounceTypeOK, NEW t \in Tasks, Alone(t), job[t].stage # "draw",
         NEW ok \in BOOLEAN, NEW s, NEW r, NEW live, NEW lost, Ends(t, ok, s, r, live, lost),
         DOMAIN s = DOMAIN NewSession, DOMAIN r = DOMAIN NewRenderer,
         ~Unserved(t), Activates(t) => ~renderer.stale,
         shown'.data = shown.data, told' = told, version' = version,
         r.stale = renderer.stale, r.hidden = renderer.hidden, s.sub \in {session.sub, NoView},
         r.drawn => renderer.drawn, session.ejected => s.ejected, lapses \subseteq lost
  PROVE  UpdatesAreDue'
<1>1. /\ \A u \in Tasks \ {t} : job'[u] = job[u] /\ call'[u] = call[u]
      /\ slot'[DrawSlot].id = slot[DrawSlot].id
  BY EndsStages, SlotsOfPanel
<1>2. /\ renderer' = [r EXCEPT !.active = NoUpdate]
      /\ session' = IF ok THEN s ELSE AfterFailure(t, s)
      /\ lapses' = IF ~ok /\ Undrawn(t) THEN lost \cup {"undrawn"} ELSE lost
  BY DEF Ends
<1>3. renderer'.stale = r.stale /\ renderer'.hidden = r.hidden /\ renderer'.drawn = r.drawn
  BY <1>2, RendererFields
<1>4. session'.sub \in {s.sub, NoView} /\ session'.ejected = s.ejected
  BY <1>2, FailureIsFine
<1>5. lapses \subseteq lapses'
  BY <1>2
<1>6. NobodyDraws
  BY DEF NobodyDraws, Alone, Inside
<1> QED BY <1>1, <1>3, <1>4, <1>5, <1>6, StillOwed

\* A panel without its View owes no update, nor does one that was removed.
LEMMA NothingOwed ==
  ASSUME \/ session'.sub = NoView \/ session'.ejected \/ "late" \in lapses' \/ "presize" \in lapses'
         \/ ~renderer'.drawn \/ \E t \in Tasks : job'[t].stage = "draw"
  PROVE  UpdatesAreDue'
BY DEF UpdatesAreDue, MayLag, NobodyDraws


LEMMA FineWithout ==
  ASSUME NEW s, NEW r, NEW live, Fine(s, r, live), NEW z, NEW y, NEW more, z.views = s.views, z.sub = NoView
  PROVE  Fine(z, y, more)
BY DEF Fine, NoView

\* Of two equivalent configs, one with the face of the other is the other.
LEMMA FaceOf ==
  ASSUME NEW a, NEW b, Config(a), Config(b), Equivalent(a, b)
  PROVE  [b EXCEPT !.face = a.face] = a
<1>1. [a EXCEPT !.face = 0] = [q |-> a.q, needs |-> a.needs, face |-> 0, filter |-> a.filter]
  BY DEF Config
<1>2. [b EXCEPT !.face = 0] = [q |-> b.q, needs |-> b.needs, face |-> 0, filter |-> b.filter]
  BY DEF Config
<1>3. a.q = b.q /\ a.needs = b.needs /\ a.filter = b.filter
  BY <1>1, <1>2 DEF Equivalent
<1>4. [b EXCEPT !.face = a.face] = [q |-> b.q, needs |-> b.needs, face |-> a.face, filter |-> b.filter]
  BY DEF Config
<1> QED BY <1>3, <1>4 DEF Config

LEMMA SwappedShows ==
  ASSUME NEW r, NEW p, DOMAIN r = DOMAIN NewRenderer
  PROVE  /\ Swapped(r, p).stale = r.stale /\ Swapped(r, p).hidden = r.hidden
         /\ Swapped(r, p).drawn => r.drawn /\ Swapped(r, p).plugin = r.plugin
BY RendererFields DEF Swapped

LEMMA QueryIsConfig == ASSUME NEW s PROVE Config(Query(s))
BY DEF Config, Query

\* A run that is neither due nor about to bind finds what should be drawn.
LEMMA BoundIsCurrent ==
  ASSUME Current, NEW t \in Tasks, Alone(t), ~Due(t), job[t].stage \notin Snapped,
         Wants(session, lapses), \A u \in Tasks \ {t} : ~Due(u)
  PROVE  BindsQuery(session) /\ (job[t].stage # "draw" => renderer.drawn)
<1>1. NobodyDue
  BY DEF NobodyDue
<1>2. \A u \in Tasks : job[u].stage \notin Snapped
  BY DEF Alone, Inside, Snapped
<1>3. \A u \in Tasks \ {t} : job[u].stage # "draw"
  BY DEF Alone, Inside
<1> QED BY <1>1, <1>2, <1>3 DEF Current

\* The frame is as it was, if nobody draws.
LEMMA FrameStays ==
  ASSUME FrameIsBuild, NobodyDraws, NEW s, NEW r, NEW lost,
         s.sub \in {session.sub, NoView}, s.build = session.build, s.ejected = session.ejected,
         r.drawn => renderer.drawn /\ r.plugin = renderer.plugin, "late" \in lapses => "late" \in lost
  PROVE  ShowsBuild(s, r, lost, shown)
BY DEF FrameIsBuild, ShowsBuild

LEMMA NobodyElseDraws ==
  ASSUME NEW t \in Tasks, Alone(t), job[t].stage # "draw"
  PROVE  NobodyDraws
BY DEF NobodyDraws, Alone, Inside

LEMMA SnapshotsShows ==
  ASSUME ShownInv, Shapes, DebounceTypeOK, NEW t \in Tasks, Alone(t), job[t].stage \in {"queued", "open"},
         job[t].kind \in RunKinds \cup {"load"}, NEW s, NEW live, DOMAIN s = DOMAIN NewSession,
         Fine(s, renderer, live), s.sub \in {session.sub, NoView}, s.build = session.build,
         s.ejected = session.ejected, Snapshots(t, s, live), UNCHANGED <<shown, told, version>>
  PROVE  ShownInv'
<1> DEFINE r == Swapped(renderer, job[t].plugin)
           snap == [q |-> s.config.q, needs |-> s.config.needs, face |-> s.config.face, filter |-> s.filter]
           j == [job[t] EXCEPT !.stage = "validate", !.snap = snap]
<1>1. /\ DOMAIN r = DOMAIN NewRenderer /\ r.cached = renderer.cached
      /\ r.stale = renderer.stale /\ r.hidden = renderer.hidden
      /\ r.drawn => renderer.drawn /\ r.plugin = renderer.plugin
  BY SwappedKeeps, SwappedShows DEF Shapes
<1>2. NobodyDraws
  BY NobodyElseDraws
<1>3. ~Unserved(t) /\ ~Activates(t)
  BY DEF Unserved, Activates, RunKinds
<1>j. job[t].stage # "draw"
  OBVIOUS
<1> HIDE DEF r
<1>4. Fine(s, r, live)
  BY <1>1, FineStill
<1>5. ASSUME NEW ok \in BOOLEAN, NEW lost, lapses \subseteq lost, ok => ~Wants(s, lost),
             Ends(t, ok, s, r, live, lost)
      PROVE  ShownInv'
  <2>1. ShowsBuild(s, r, lost, shown')
    BY <1>1, <1>2, <1>5, FrameStays DEF ShownInv
  <2>2. UpdatesAreDue'
    <3>1. UpdatesAreDue /\ shown'.data = shown.data /\ (session.ejected => s.ejected)
      BY DEF ShownInv
    <3> QED BY <1>1, <1>3, <1>j, <1>5, <3>1, EndsOwes
  <2>3. session.ejected => s.ejected
    OBVIOUS
  <2> QED BY <1>1, <1>4, <1>5, <2>1, <2>2, <2>3, EndsShows
<1>6. CASE s.error /\ Ends(t, ~job[t].public, s, r, live, lapses)
  <2>1. (~job[t].public) \in BOOLEAN /\ ~Wants(s, lapses)
    BY <1>6 DEF Wants
  <2> QED BY <1>5, <1>6, <2>1
<1>7. CASE Ends(t, TRUE, s, r, live, lapses \cup {"deferred"})
  <2>1. ~Wants(s, lapses \cup {"deferred"}) /\ lapses \subseteq lapses \cup {"deferred"}
    BY DEF Wants
  <2> QED BY <1>5, <1>7, <2>1
<1>8. CASE s.table = NoTable /\ Ends(t, TRUE, s, r, live, lapses)
  <2>1. ~Wants(s, lapses)
    BY <1>8 DEF Wants
  <2> QED BY <1>5, <1>8, <2>1
<1>9. CASE /\ session' = s /\ renderer' = r /\ views' = live
           /\ job' = [job EXCEPT ![t].stage = "validate", ![t].snap = snap]
           /\ lapses' = lapses \ {"deferred", "undrawn"}
           /\ UNCHANGED debounceVars
  <2>1. job' = [job EXCEPT ![t] = j]
    BY <1>9
  <2>2. j.stage = "validate" /\ j.snap = Query(s) /\ j.kind = job[t].kind
    BY JobFields DEF Shapes, Query
  <2> HIDE DEF j, snap
  <2>3. "late" \in lapses => "late" \in lapses'
    BY <1>9
  <2>4. "presize" \in lapses => "presize" \in lapses'
    BY <1>9
  <2>5. Fits(j, call[t], session'.ejected)
    BY <2>2, QueryIsConfig DEF Fits, Alone, Snapped
  <2>6. Meant(j, session', renderer')
    BY <2>2 DEF Meant
  <2>7. ShowsBuild(session', renderer', lapses', shown')
    <3>1. ShowsBuild(s, r, lapses', shown)
      BY <1>1, <1>2, <2>3, FrameStays DEF ShownInv
    <3> QED BY <1>9, <3>1
  <2>8. UpdatesAreDue'
    <3>1. \A u \in Tasks \ {t} : job'[u] = job[u] /\ call'[u] = call[u]
      BY <1>9, <2>1 DEF debounceVars, Shapes
    <3>2. slot'[DrawSlot].id = slot[DrawSlot].id
      BY <1>9 DEF debounceVars
    <3>3. /\ shown'.data = shown.data /\ told' = told /\ version' = version
          /\ renderer'.stale = renderer.stale /\ renderer'.hidden = renderer.hidden
          /\ session'.sub \in {session.sub, NoView} /\ (renderer'.drawn => renderer.drawn)
          /\ session.ejected => session'.ejected
      BY <1>1, <1>9
    <3>4. UpdatesAreDue
      BY DEF ShownInv
    <3> QED BY <1>2, <1>3, <2>3, <2>4, <3>1, <3>2, <3>3, <3>4, StillOwed
  <2>9. Fine(session', renderer', views')
    BY <1>4, <1>9
  <2>10. j.stage \in Inside /\ j.stage \in Snapped
    BY <2>2 DEF Inside, Snapped
  <2>11. session.ejected => session'.ejected
    BY <1>9
  <2>12. j.snap = Query(session')
    BY <1>9, <2>2
  <2> QED BY <1>9, <2>1, <2>5, <2>6, <2>7, <2>8, <2>9, <2>10, <2>11, <2>12, GoesOnShows
<1> QED BY <1>6, <1>7, <1>8, <1>9 DEF Snapshots, r

\* What is dispatched is what the session has bound.
LEMMA DispatchesShows ==
  ASSUME ShownInv, Shapes, DebounceTypeOK, NEW t \in Tasks, Alone(t), job[t].stage \in Snapped,
         NEW how, NEW s, NEW live, NEW lost,
         DOMAIN s = DOMAIN NewSession, s.ejected = session.ejected, s.sub # NoView,
         Fine(s, Pinned(renderer, Context(s)), live),
         how = "unchanged" => s = session /\ lost = lapses,
         how # "unchanged" => ~s.paused \/ "late" \in lost,
         Wants(s, lost) /\ (\A u \in Tasks \ {t} : ~Due(u)) => s.build = Query(s),
         Dispatches(t, how, s, live, lost), UNCHANGED <<shown, told, version>>
  PROVE  ShownInv'
<1> DEFINE ctx == [view |-> s.sub, config |-> s.build]
           pinned == Pinned(renderer, ctx)
           j == [job[t] EXCEPT !.stage = "draw", !.view = s.sub]
<1>c. ctx = Context(s)
  BY DEF Context
<1>1. /\ DOMAIN pinned = DOMAIN NewRenderer /\ pinned.cached = ctx /\ pinned.active = ctx
      /\ pinned.stale = renderer.stale /\ pinned.hidden = renderer.hidden
      /\ pinned.drawn = renderer.drawn /\ pinned.plugin = renderer.plugin
  BY RendererFields DEF Pinned, Shapes
<1>2. Fine(s, pinned, live)
  BY <1>c
<1>3. NobodyDraws /\ ~Unserved(t) /\ ~Activates(t) /\ job[t].stage # "draw"
  BY NobodyElseDraws DEF Unserved, Activates, Snapped
<1>4. job[t].kind \in RunKinds \cup {"load"}
  BY DEF ShownInv, TasksFit, Fits
<1>5. j.stage = "draw" /\ j.view = s.sub
  BY JobFields DEF Shapes
<1>d. Dispatches(t, how, s, live, lost) /\ DOMAIN renderer = DOMAIN NewRenderer
  BY DEF Shapes
<1>6. CASE s.table = NoTable /\ Ends(t, FALSE, s, renderer, live, lost)
  <2>1. s.ejected
    BY <1>2, <1>6 DEF Fine
  <2>2. Fine(s, renderer, live) /\ ShowsBuild(s, renderer, lost, shown')
    BY <1>2, <2>1 DEF Fine, ShowsBuild
  <2>3. session'.ejected
    <3>1. session' = AfterFailure(t, s)
      BY <1>6 DEF Ends
    <3> QED BY <2>1, <3>1, FailureIsFine
  <2>4. UpdatesAreDue'
    BY <2>3, NothingOwed
  <2>5. session.ejected => s.ejected
    OBVIOUS
  <2> QED BY <1>4, <1>6, <1>d, <2>2, <2>4, <2>5, EndsShows
<1> HIDE DEF pinned, j
<1>7. CASE /\ (job[t].gated /\ s.paused) \/ ~(how # "unchanged" \/ job[t].public \/ ~renderer.drawn)
           /\ Ends(t, TRUE, s, pinned, live, lost)
  <2>1. CASE how = "unchanged"
    <3>1. s = session /\ lost = lapses /\ (session.ejected => s.ejected) /\ s.sub \in {session.sub, NoView}
      BY <2>1
    <3>2. ShowsBuild(s, pinned, lost, shown')
      BY <1>1, <1>3, <3>1, FrameStays DEF ShownInv
    <3>3. UpdatesAreDue'
      <4>1. UpdatesAreDue /\ shown'.data = shown.data /\ lapses \subseteq lost
        BY <3>1 DEF ShownInv
      <4>2. /\ DOMAIN pinned = DOMAIN NewRenderer
            /\ pinned.stale = renderer.stale /\ pinned.hidden = renderer.hidden
            /\ pinned.drawn => renderer.drawn
        BY <1>1
      <4> QED BY <1>3, <1>7, <3>1, <4>1, <4>2, EndsOwes
    <3>4. Wants(s, lost) /\ (\A u \in Tasks \ {t} : ~Due(u)) => BindsQuery(s) /\ pinned.drawn
      BY <1>1, <1>7, <2>1 DEF BindsQuery, Wants
    <3> QED BY <1>1, <1>2, <1>7, <3>1, <3>2, <3>3, <3>4, EndsShows
  <2>2. CASE how # "unchanged"
    <3>1. s.paused /\ "late" \in lost
      BY <1>7, <2>2
    <3>2. ShowsBuild(s, pinned, lost, shown') /\ ~Wants(s, lost)
      BY <3>1 DEF ShowsBuild, Wants
    <3>3. "late" \in lapses'
      BY <1>7, <3>1 DEF Ends
    <3>4. UpdatesAreDue'
      BY <3>3, NothingOwed
    <3>5. session.ejected => s.ejected
      OBVIOUS
    <3> QED BY <1>1, <1>2, <1>7, <3>2, <3>4, <3>5, EndsShows
  <2> QED BY <2>1, <2>2
<1>8. CASE /\ session' = s /\ renderer' = pinned /\ views' = live /\ lapses' = lost
           /\ job' = [job EXCEPT ![t] = j]
           /\ UNCHANGED debounceVars
  <2>1. Fits(j, call[t], session'.ejected)
    BY <1>5 DEF Fits, Alone, Snapped
  <2>2. Meant(j, session', renderer')
    BY <1>1, <1>5, <1>8, <1>c DEF Meant
  <2>3. job'[t].stage = "draw"
    BY <1>5, <1>8 DEF Shapes
  <2>4. UpdatesAreDue'
    BY <2>3, NothingOwed
  <2>5. j.stage \in Inside /\ j.stage \notin Snapped
    BY <1>5 DEF Inside, Snapped
  <2>6. /\ Fine(session', renderer', views') /\ (session.ejected => session'.ejected)
        /\ Wants(session', lapses') /\ (\A u \in Tasks \ {t} : ~Due(u)) => BindsQuery(session')
    BY <1>2, <1>8 DEF BindsQuery
  <2> QED BY <1>5, <1>8, <2>1, <2>2, <2>4, <2>5, <2>6, GoesOnShows
<1>9. job' = [job EXCEPT ![t] = j] <=> job' = [job EXCEPT ![t].stage = "draw", ![t].view = s.sub]
  BY DEF j
<1> QED BY <1>6, <1>7, <1>8, <1>9, <1>d DEF Dispatches, pinned


----------------------------------------------------------------------------
LEMMA DecideShows ==
  ASSUME PanelInv, OneRuns, DebounceTypeOK, ShownInv, NEW t \in Tasks, Decide(t)
  PROVE  ShownInv'
<1> DEFINE snap == job[t].snap
           has == session.sub # NoView
<1>1. /\ Shapes /\ Alone(t) /\ job[t].stage = "validate" /\ job[t].stage \in Snapped
      /\ UNCHANGED <<shown, told, version>>
  BY HoldersAreAlone DEF PanelInv, InsideRuns, Decide, Inside, Snapped
<1>2. /\ Fine(session, renderer, views) /\ Config(snap) /\ job[t].kind \in RunKinds \cup {"load"}
      /\ UpdatesAreDue
  BY <1>1 DEF ShownInv, TasksFit, Fits
<1>3. NobodyDraws /\ ~Unserved(t) /\ ~Activates(t) /\ ~Due(t)
  BY <1>1, NobodyElseDraws DEF Unserved, Activates, Due
<1>4. Wants(session, lapses) /\ (\A u \in Tasks \ {t} : ~Due(u)) => snap = Query(session)
  BY <1>1, <1>3 DEF ShownInv, Current, NobodyDue
<1>f. ShowsBuild(session, renderer, lapses, shown)
  BY <1>3 DEF ShownInv, FrameIsBuild
<1>5. ASSUME NEW ok \in BOOLEAN, ok => ~Wants(session, lapses), Ends(t, ok, session, renderer, views, lapses)
      PROVE  ShownInv'
  <2>1. ShowsBuild(session, renderer, lapses, shown')
    BY <1>1, <1>f
  <2>2. DOMAIN session = DOMAIN NewSession /\ DOMAIN renderer = DOMAIN NewRenderer
    BY <1>1 DEF Shapes
  <2>3. UpdatesAreDue'
    BY <1>1, <1>2, <1>3, <1>5, <2>2, EndsOwes
  <2> QED BY <1>1, <1>2, <1>5, <2>1, <2>2, <2>3, EndsShows
<1>6. ASSUME NEW s, DOMAIN s = DOMAIN NewSession, s.ejected = session.ejected, s.sub = session.sub, has,
             s.views = session.views, s.table = session.table, Config(s.build)
      PROVE  Fine(s, Pinned(renderer, Context(s)), views)
  <2>1. Pinned(renderer, Context(s)).cached = Context(s)
    BY <1>1, RendererFields DEF Pinned, Shapes
  <2> QED BY <1>2, <1>6, <2>1 DEF Fine
<1>7. CASE session.paused /\ ~has /\ Ends(t, TRUE, session, renderer, views, lapses)
  BY <1>5, <1>7 DEF Wants
<1>8. CASE has /\ (session.paused \/ session.build = snap) /\ Dispatches(t, "unchanged", session, views, lapses)
  <2>1. Wants(session, lapses) /\ (\A u \in Tasks \ {t} : ~Due(u)) => session.build = Query(session)
    BY <1>4, <1>8 DEF Wants
  <2>2. Fine(session, Pinned(renderer, Context(session)), views)
    <3>1. Pinned(renderer, Context(session)).cached = Context(session)
      BY <1>1, RendererFields DEF Pinned, Shapes
    <3> QED BY <1>2, <3>1 DEF Fine
  <2>3. DOMAIN session = DOMAIN NewSession
    BY <1>1 DEF Shapes
  <2> QED BY <1>1, <1>8, <2>1, <2>2, <2>3, DispatchesShows
<1>9. CASE /\ has /\ ~session.paused /\ Equivalent(session.build, snap)
           /\ Dispatches(t, "adopted", [session EXCEPT !.build = snap], views, lapses)
  <2> DEFINE s == [session EXCEPT !.build = snap]
  <2>1. /\ DOMAIN s = DOMAIN NewSession /\ s.build = snap /\ s.sub = session.sub /\ s.ejected = session.ejected
        /\ s.paused = session.paused /\ s.table = session.table /\ s.views = session.views
        /\ s.config = session.config /\ s.filter = session.filter /\ s.error = session.error
    BY <1>1, SessionFields DEF Shapes
  <2>2. Dispatches(t, "adopted", s, views, lapses)
    BY <1>9
  <2> HIDE DEF s
  <2>3. Fine(s, Pinned(renderer, Context(s)), views)
    BY <1>2, <1>6, <1>9, <2>1
  <2>4. Wants(s, lapses) /\ (\A u \in Tasks \ {t} : ~Due(u)) => s.build = Query(s)
    BY <1>4, <2>1 DEF Wants, Query
  <2>5. "adopted" # "unchanged"
    OBVIOUS
  <2> QED BY <1>1, <1>9, <2>1, <2>2, <2>3, <2>4, <2>5, DispatchesShows
<1>10. CASE session.table = NoTable /\ Ends(t, FALSE, session, renderer, views, lapses)
  BY <1>5, <1>10
<1>11. CASE /\ job' = [job EXCEPT ![t].stage = "view", ![t].table = session.table]
            /\ UNCHANGED <<session, renderer, views, lapses, debounceVars>>
  <2> DEFINE j == [job[t] EXCEPT !.stage = "view", !.table = session.table]
  <2>1. job' = [job EXCEPT ![t] = j]
    BY <1>11
  <2>2. j.stage = "view" /\ j.table = session.table /\ j.snap = snap /\ j.kind = job[t].kind
    BY <1>1, JobFields DEF Shapes
  <2> HIDE DEF j
  <2>3. Fits(j, call[t], session'.ejected)
    BY <1>1, <1>2, <2>2 DEF Fits, Alone, Snapped
  <2>4. Meant(j, session', renderer')
    BY <1>11, <2>2 DEF Meant
  <2>5. UpdatesAreDue'
    <3>1. \A u \in Tasks \ {t} : job'[u] = job[u] /\ call'[u] = call[u]
      BY <1>1, <1>11, <2>1 DEF debounceVars, Shapes
    <3>2. slot' = slot /\ UNCHANGED <<session, renderer, lapses>>
      BY <1>11 DEF debounceVars
    <3> QED BY <1>1, <1>2, <1>3, <3>1, <3>2, StillOwed
  <2>6. j.stage \in Inside /\ j.stage \in Snapped
    BY <2>2 DEF Inside, Snapped
  <2>7. /\ Fine(session', renderer', views') /\ ShowsBuild(session', renderer', lapses', shown')
        /\ Wants(session', lapses') /\ (\A u \in Tasks \ {t} : ~Due(u)) => snap = Query(session')
        /\ session.ejected => session'.ejected
    BY <1>1, <1>2, <1>4, <1>f, <1>11
  <2> QED BY <1>1, <1>11, <2>1, <2>2, <2>3, <2>4, <2>5, <2>6, <2>7, GoesOnShows
<1> QED BY <1>7, <1>8, <1>9, <1>10, <1>11 DEF Decide

LEMMA MakeViewShows ==
  ASSUME PanelInv, OneRuns, DebounceTypeOK, ShownInv, NEW t \in Tasks, MakeView(t)
  PROVE  ShownInv'
<1> DEFINE v == [id |-> session.views + 1, table |-> job[t].table, config |-> job[t].snap]
           j == [job[t] EXCEPT !.stage = "subscribe", !.view = v]
<1>1. /\ Shapes /\ Alone(t) /\ job[t].stage = "view" /\ job[t].stage \in Snapped
      /\ UNCHANGED <<shown, told, version>>
      /\ DOMAIN session = DOMAIN NewSession /\ DOMAIN renderer = DOMAIN NewRenderer
  BY HoldersAreAlone DEF PanelInv, InsideRuns, MakeView, Inside, Snapped, Shapes
<1>2. /\ Fine(session, renderer, views) /\ job[t].kind \in RunKinds \cup {"load"} /\ Config(job[t].snap)
      /\ UpdatesAreDue /\ (~session.ejected => job[t].table = session.table)
  BY <1>1 DEF ShownInv, TasksFit, Fits, Meant
<1>3. NobodyDraws /\ ~Unserved(t) /\ ~Activates(t) /\ ~Due(t)
  BY <1>1, NobodyElseDraws DEF Unserved, Activates, Due
<1>4. Wants(session, lapses) /\ (\A u \in Tasks \ {t} : ~Due(u)) => job[t].snap = Query(session)
  BY <1>1, <1>3 DEF ShownInv, Current, NobodyDue
<1>f. ShowsBuild(session, renderer, lapses, shown)
  BY <1>3 DEF ShownInv, FrameIsBuild
<1>5. CASE Ends(t, FALSE, session, renderer, views, lapses)
  <2>1. ShowsBuild(session, renderer, lapses, shown')
    BY <1>1, <1>f
  <2>2. UpdatesAreDue'
    BY <1>1, <1>2, <1>3, <1>5, EndsOwes
  <2> QED BY <1>1, <1>2, <1>5, <2>1, <2>2, EndsShows
<1>6. CASE /\ views' = views \cup {v}
           /\ session' = [session EXCEPT !.views = @ + 1]
           /\ job' = [job EXCEPT ![t].stage = "subscribe", ![t].view = v]
           /\ UNCHANGED <<renderer, lapses, debounceVars>>
  <2>1. job' = [job EXCEPT ![t] = j]
    BY <1>6
  <2>2. j.stage = "subscribe" /\ j.view = v /\ j.snap = job[t].snap /\ j.kind = job[t].kind
    BY <1>1, JobFields DEF Shapes
  <2>3. /\ session'.sub = session.sub /\ session'.build = session.build /\ session'.views = session.views + 1
        /\ session'.paused = session.paused /\ session'.ejected = session.ejected
        /\ session'.table = session.table /\ session'.error = session.error
        /\ session'.config = session.config /\ session'.filter = session.filter
    BY <1>1, <1>6, SessionFields
  <2>4. v.id = session.views + 1 /\ v.table = job[t].table
    OBVIOUS
  <2>5. views' = views \cup {v} /\ UNCHANGED <<renderer, lapses, debounceVars>>
    BY <1>6
  <2> HIDE DEF j, v
  <2>6. Fine(session', renderer', views')
    BY <1>2, <2>3, <2>5 DEF Fine, Context
  <2>7. Meant(j, session', renderer')
    BY <1>2, <2>2, <2>3, <2>4 DEF Meant, Fine
  <2>8. Fits(j, call[t], session'.ejected)
    BY <1>1, <1>2, <2>2 DEF Fits, Alone, Snapped
  <2>9. UpdatesAreDue'
    <3>1. \A u \in Tasks \ {t} : job'[u] = job[u] /\ call'[u] = call[u]
      BY <1>1, <2>1, <2>5 DEF debounceVars, Shapes
    <3>2. slot' = slot
      BY <2>5 DEF debounceVars
    <3> QED BY <1>1, <1>2, <1>3, <2>3, <2>5, <3>1, <3>2, StillOwed
  <2>10. j.stage \in Inside /\ j.stage \in Snapped
    BY <2>2 DEF Inside, Snapped
  <2>11. Wants(session', lapses') /\ (\A u \in Tasks \ {t} : ~Due(u)) => j.snap = Query(session')
    BY <1>4, <2>2, <2>3, <2>5 DEF Wants, Query
  <2>12. ShowsBuild(session', renderer', lapses', shown')
    BY <1>1, <1>f, <2>3, <2>5 DEF ShowsBuild
  <2>13. session.ejected => session'.ejected
    BY <2>3
  <2> QED BY <1>1, <2>1, <2>5, <2>6, <2>7, <2>8, <2>9, <2>10, <2>11, <2>12, <2>13, GoesOnShows
<1> QED BY <1>5, <1>6 DEF MakeView

LEMMA SubscribeShows ==
  ASSUME PanelInv, OneRuns, DebounceTypeOK, ShownInv, NEW t \in Tasks, Subscribe(t)
  PROVE  ShownInv'
<1> DEFINE v == job[t].view
           s == [session EXCEPT !.sub = v, !.build = job[t].snap]
           live == Deleted(session.sub)
           lost == IF session.paused \/ session.ejected THEN lapses \cup {"late"} ELSE lapses \ {"late"}
<1>1. /\ Shapes /\ Alone(t) /\ job[t].stage = "subscribe" /\ job[t].stage \in Snapped
      /\ UNCHANGED <<shown, told, version>>
      /\ DOMAIN session = DOMAIN NewSession /\ DOMAIN renderer = DOMAIN NewRenderer
  BY HoldersAreAlone DEF PanelInv, InsideRuns, Subscribe, BindsNew, Inside, Snapped, Shapes
<1>2. /\ Fine(session, renderer, views) /\ job[t].kind \in RunKinds \cup {"load"} /\ Config(job[t].snap)
      /\ UpdatesAreDue
  BY <1>1 DEF ShownInv, TasksFit, Fits
<1>3. NobodyDraws /\ ~Unserved(t) /\ ~Activates(t) /\ ~Due(t)
  BY <1>1, NobodyElseDraws DEF Unserved, Activates, Due
<1>4. Wants(session, lapses) /\ (\A u \in Tasks \ {t} : ~Due(u)) => job[t].snap = Query(session)
  BY <1>1, <1>3 DEF ShownInv, Current, NobodyDue
<1>v. /\ v # NoView /\ v.config = job[t].snap /\ v.id \in Nat /\ session.sub.id < v.id /\ v.id <= session.views
      /\ ~session.ejected => v.table = session.table /\ session.table # NoTable
  BY <1>1 DEF PanelInv, MadeFromSnap, Bindable, ShownInv, Meant
<1>5. CASE Ends(t, FALSE, session, renderer, views, lapses)
  <2>1. ShowsBuild(session, renderer, lapses, shown')
    BY <1>1, <1>3 DEF ShownInv, FrameIsBuild
  <2>2. UpdatesAreDue'
    BY <1>1, <1>2, <1>3, <1>5, EndsOwes
  <2> QED BY <1>1, <1>2, <1>5, <2>1, <2>2, EndsShows
<1>6. CASE v \in views /\ Dispatches(t, "rebuilt", s, live, lost)
  <2>1. /\ DOMAIN s = DOMAIN NewSession /\ s.sub = v /\ s.build = job[t].snap /\ s.table = session.table
        /\ s.paused = session.paused /\ s.ejected = session.ejected /\ s.views = session.views
        /\ s.error = session.error /\ s.config = session.config /\ s.filter = session.filter
    BY <1>1, SessionFields
  <2> HIDE DEF s
  <2>2. Fine(s, Pinned(renderer, Context(s)), live)
    <3>1. Pinned(renderer, Context(s)).cached = Context(s)
      BY <1>1, RendererFields DEF Pinned
    <3>2. v # session.sub
      BY <1>2, <1>v DEF Fine
    <3>3. v \in live
      BY <1>6, <3>2 DEF Deleted
    <3> HIDE DEF v, live
    <3>4. s.sub # NoView => s.sub \in live
      BY <2>1, <3>3
    <3>5. s.views \in Nat /\ s.sub.id \in Nat /\ s.sub.id <= s.views
      BY <1>2, <1>v, <2>1 DEF Fine
    <3>6. ~s.ejected /\ s.sub # NoView =>
             /\ s.table # NoTable /\ s.sub.table = s.table
             /\ Config(s.build) /\ Config(s.sub.config)
      BY <1>2, <1>v, <2>1
    <3> QED BY <3>1, <3>4, <3>5, <3>6 DEF Fine
  <2>3. Wants(s, lost) => Wants(session, lapses)
    BY <2>1 DEF Wants
  <2>4. Wants(s, lost) /\ (\A u \in Tasks \ {t} : ~Due(u)) => s.build = Query(s)
    BY <1>4, <2>1, <2>3 DEF Query
  <2>5. ~s.paused \/ "late" \in lost
    BY <2>1
  <2>6. "rebuilt" # "unchanged"
    OBVIOUS
  <2> HIDE DEF live, lost
  <2> QED BY <1>1, <1>6, <1>v, <2>1, <2>2, <2>4, <2>5, <2>6, DispatchesShows
<1> QED BY <1>5, <1>6 DEF Subscribe, BindsNew

LEMMA DrawShows ==
  ASSUME PanelInv, OneRuns, DebounceTypeOK, ShownInv, NEW t \in Tasks, Draw(t)
  PROVE  ShownInv'
<1> DEFINE v == job[t].view
           r == [Swapped(renderer, NoPlugin) EXCEPT !.stale = FALSE]
           drawn == [r EXCEPT !.drawn = TRUE]
           face == IF renderer.active = NoUpdate THEN v.config.face ELSE renderer.active.config.face
<1>1. /\ Shapes /\ Alone(t) /\ job[t].stage = "draw" /\ job[t].stage \notin Snapped
      /\ UNCHANGED <<told, version>>
      /\ DOMAIN session = DOMAIN NewSession /\ DOMAIN renderer = DOMAIN NewRenderer
  BY HoldersAreAlone DEF PanelInv, InsideRuns, Draw, Inside, Snapped, Shapes
<1>2. Fine(session, renderer, views)
  BY DEF ShownInv
<1>3. /\ DOMAIN r = DOMAIN NewRenderer /\ r.cached = renderer.cached
      /\ DOMAIN drawn = DOMAIN NewRenderer /\ drawn.cached = renderer.cached
      /\ drawn.drawn /\ drawn.plugin = r.plugin
  BY <1>1, SwappedKeeps, RendererFields
<1>4. ~session.ejected /\ session.sub # NoView => v = session.sub /\ renderer.active = Context(session)
  BY <1>1 DEF ShownInv, Meant
<1>5. Wants(session, lapses) /\ (\A u \in Tasks \ {t} : ~Due(u)) => BindsQuery(session)
  BY <1>1, BoundIsCurrent DEF ShownInv, Due
<1>6. Fine(session, drawn, views) /\ Fine(session, r, views)
  <2> HIDE DEF drawn, r
  <2> QED BY <1>2, <1>3, FineStill
<1>7. CASE /\ shown' = [plugin |-> r.plugin, table |-> v.table, data |-> version, config |-> [v.config EXCEPT !.face = face]]
           /\ Ends(t, TRUE, session, drawn, views, lapses \ {"presize"})
  <2>1. ASSUME ~session.ejected, session.sub # NoView
        PROVE  shown' = [plugin |-> drawn.plugin, table |-> session.sub.table, config |-> session.build, data |-> shown'.data]
    <3>1. Context(session) # NoUpdate /\ Context(session).config = session.build
      <4>1. "view" \in DOMAIN Context(session) /\ "view" \notin DOMAIN NoUpdate
        BY DEF Context, NoUpdate
      <4> QED BY <4>1 DEF Context
    <3>2. face = session.build.face
      BY <1>4, <2>1, <3>1
    <3>3. [session.sub.config EXCEPT !.face = session.build.face] = session.build
      <4>1. Config(session.build) /\ Config(session.sub.config)
        BY <1>2, <2>1 DEF Fine
      <4>2. Equivalent(session.build, session.sub.config)
        BY <2>1 DEF PanelInv, Built
      <4> QED BY <4>1, <4>2, FaceOf
    <3>4. shown' = [plugin |-> r.plugin, table |-> v.table, data |-> version, config |-> [v.config EXCEPT !.face = face]]
      BY <1>7
    <3>5. [v.config EXCEPT !.face = face] = session.build
      BY <1>4, <2>1, <3>2, <3>3
    <3> HIDE DEF face, r, drawn
    <3> QED BY <1>3, <1>4, <2>1, <3>4, <3>5
  <2>2. ShowsBuild(session, drawn, lapses \ {"presize"}, shown')
    BY <2>1 DEF ShowsBuild
  <2>3. UpdatesAreDue'
    <3>1. shown'.data = version'
      BY <1>1, <1>7
    <3> QED BY <3>1 DEF UpdatesAreDue, Told
  <2>4. Wants(session, lapses \ {"presize"}) => Wants(session, lapses)
    BY DEF Wants
  <2> HIDE DEF drawn, r
  <2> QED BY <1>1, <1>3, <1>5, <1>6, <1>7, <2>2, <2>3, <2>4, EndsShows
<1>8. CASE v \notin views /\ Ends(t, TRUE, session, r, views, lapses)
  <2>1. session.ejected \/ session.sub = NoView
    BY <1>2, <1>4, <1>8 DEF Fine
  <2>2. ShowsBuild(session, r, lapses, shown')
    BY <2>1 DEF ShowsBuild
  <2>3. UpdatesAreDue'
    <3>1. session' = session
      BY <1>8 DEF Ends
    <3> QED BY <2>1, <3>1, NothingOwed
  <2>4. ~(Wants(session, lapses) /\ (\A u \in Tasks \ {t} : ~Due(u)))
    BY <1>5, <2>1 DEF Wants, BindsQuery
  <2> HIDE DEF r
  <2> QED BY <1>1, <1>3, <1>6, <1>8, <2>2, <2>3, <2>4, EndsShows
<1> HIDE DEF face
<1> QED BY <1>7, <1>8 DEF Draw, face


----------------------------------------------------------------------------
LEMMA BoundFine ==
  ASSUME NEW table, DOMAIN session = DOMAIN NewSession, NEW r, NEW live, Fine(session, r, live),
         NEW y, NEW more, y.cached = r.cached,
         Bound(session, table).sub = session.sub => live \subseteq more
  PROVE  Fine(Bound(session, table), y, more)
<1>1. Bound(session, table).views = session.views
  BY SessionFields DEF Bound
<1>2. \/ Bound(session, table).sub = NoView
      \/ Bound(session, table).sub = session.sub /\ Bound(session, table).table = session.table
  BY SessionFields DEF Bound
<1>3. Bound(session, table).build = session.build /\ Bound(session, table).ejected = session.ejected
  BY BoundKeeps
<1>4. CASE Bound(session, table).sub = NoView
  BY <1>1, <1>4, FineWithout
<1>5. CASE Bound(session, table).sub = session.sub /\ Bound(session, table).table = session.table
  BY <1>1, <1>3, <1>5, FineStill
<1> QED BY <1>2, <1>4, <1>5

LEMMA ReplayedFine ==
  ASSUME NEW s, NEW journal, DOMAIN s = DOMAIN NewSession, NEW r, NEW live, Fine(s, r, live)
  PROVE  Fine(Replayed(s, journal), r, live)
<1>1. Replayed(s, journal).views = s.views /\ Replayed(s, journal).table = s.table
  BY SessionFields DEF Replayed
<1> QED BY <1>1, ReplayedKeeps, FineStill

LEMMA OpenShows ==
  ASSUME PanelInv, OneRuns, DebounceTypeOK, ShownInv, NEW t \in Tasks, Open(t)
  PROVE  ShownInv'
<1> DEFINE s == Bound(session, job[t].table)
           live == IF s.sub = session.sub THEN views ELSE Deleted(session.sub)
           z == Replayed(s, job[t].journal)
<1>1. /\ Shapes /\ Alone(t) /\ job[t].stage = "open" /\ UNCHANGED <<shown, told, version>>
      /\ DOMAIN session = DOMAIN NewSession /\ DOMAIN renderer = DOMAIN NewRenderer
  BY HoldersAreAlone DEF PanelInv, InsideRuns, Open, Inside, Shapes
<1>2. Fine(session, renderer, views) /\ job[t].kind \in RunKinds \cup {"load"} /\ UpdatesAreDue
  BY <1>1 DEF ShownInv, TasksFit, Fits
<1>3. /\ DOMAIN s = DOMAIN NewSession /\ s.build = session.build
      /\ s.ejected = session.ejected /\ s.sub \in {session.sub, NoView}
  BY <1>1, BoundKeeps
<1>4. Fine(s, renderer, live)
  BY <1>1, <1>2, BoundFine
<1>5. Snapshots(t, z, live) \/ Ends(t, FALSE, s, renderer, live, lapses)
  BY DEF Open
<1> HIDE DEF s, live
<1>6. /\ DOMAIN z = DOMAIN NewSession /\ z.build = session.build /\ z.ejected = session.ejected
      /\ z.sub \in {session.sub, NoView} /\ Fine(z, renderer, live)
  BY <1>3, <1>4, ReplayedKeeps, ReplayedFine
<1> HIDE DEF z
<1>7. CASE Snapshots(t, z, live)
  BY <1>1, <1>2, <1>6, <1>7, SnapshotsShows
<1>8. CASE Ends(t, FALSE, s, renderer, live, lapses)
  <2>1. NobodyDraws /\ ~Unserved(t) /\ ~Activates(t) /\ job[t].stage # "draw"
    BY <1>1, NobodyElseDraws DEF Unserved, Activates
  <2>2. ShowsBuild(s, renderer, lapses, shown')
    BY <1>1, <1>3, <2>1, FrameStays DEF ShownInv
  <2>3. UpdatesAreDue'
    BY <1>1, <1>2, <1>3, <1>8, <2>1, EndsOwes
  <2> QED BY <1>1, <1>2, <1>3, <1>4, <1>8, <2>2, <2>3, EndsShows
<1> QED BY <1>5, <1>7, <1>8

\* A run ends and has done nothing.
LEMMA EndsIdleShows ==
  ASSUME ShownInv, Shapes, DebounceTypeOK, NEW t \in Tasks, Alone(t), job[t].stage \notin Snapped \cup {"draw"},
         NEW ok \in BOOLEAN, NEW s, Ends(t, ok, s, renderer, views, lapses), UNCHANGED <<shown, told, version>>,
         DOMAIN s = DOMAIN NewSession, s.sub = session.sub, s.build = session.build, s.table = session.table,
         s.ejected = session.ejected, s.views = session.views,
         ok \/ job[t].kind \in RunKinds \cup {"load"},
         ok => s.config = session.config /\ s.filter = session.filter /\ s.error = session.error
               /\ s.paused = session.paused,
         ok => ~Due(t),
         UpdatesAreDue' \/ (~Unserved(t) /\ (Activates(t) => ~renderer.stale))
  PROVE  ShownInv'
<1>1. NobodyDraws /\ Fine(session, renderer, views) /\ DOMAIN renderer = DOMAIN NewRenderer /\ UpdatesAreDue
  BY NobodyElseDraws DEF ShownInv, Shapes
<1>2. Fine(s, renderer, views)
  BY <1>1, FineStill
<1>3. ShowsBuild(s, renderer, lapses, shown')
  BY <1>1, FrameStays DEF ShownInv
<1>4. UpdatesAreDue'
  BY <1>1, EndsOwes
<1>5. ASSUME ok, Wants(s, lapses), \A u \in Tasks \ {t} : ~Due(u)
      PROVE  BindsQuery(s) /\ renderer.drawn
  <2>1. Wants(session, lapses)
    BY <1>5 DEF Wants
  <2>2. BindsQuery(session) /\ renderer.drawn
    BY <1>5, <2>1, BoundIsCurrent DEF ShownInv
  <2> QED BY <1>5, <2>2 DEF BindsQuery, Query
<1>6. session.ejected => s.ejected
  OBVIOUS
<1> QED BY <1>1, <1>2, <1>3, <1>4, <1>5, <1>6, EndsShows

LEMMA BeginShows ==
  ASSUME PanelInv, OneRuns, DebounceTypeOK, ShownInv, NEW t \in Tasks, Begin(t)
  PROVE  ShownInv'
<1> DEFINE table == IF job[t].kind = "bind" THEN session.pending ELSE job[t].table
           j == [job[t] EXCEPT !.stage = "open", !.table = table]
<1>1. /\ Shapes /\ Alone(t) /\ job[t].stage = "queued" /\ job[t].kind \in RunKinds
      /\ UNCHANGED <<shown, told, version>>
      /\ DOMAIN session = DOMAIN NewSession /\ DOMAIN renderer = DOMAIN NewRenderer
  BY HoldersAreAlone DEF PanelInv, Begin, Begins, Shapes, RunKinds
<1>2. Fine(session, renderer, views) /\ UpdatesAreDue
  BY DEF ShownInv
<1>3. NobodyDraws /\ ~Unserved(t) /\ ~Activates(t) /\ job[t].stage # "draw" /\ job[t].stage \notin Snapped
  BY <1>1, NobodyElseDraws DEF Unserved, Activates, RunKinds, Snapped
<1>4. CASE Snapshots(t, session, views)
  BY <1>1, <1>2, <1>4, SnapshotsShows
<1>5. CASE Ends(t, FALSE, session, renderer, views, lapses)
  BY <1>1, <1>3, <1>5, EndsIdleShows
<1>6. CASE /\ job' = [job EXCEPT ![t].stage = "open", ![t].table = table]
           /\ UNCHANGED <<session, renderer, views, lapses, debounceVars>>
  <2>1. job' = [job EXCEPT ![t] = j]
    BY <1>6
  <2>2. j.stage = "open" /\ j.kind = job[t].kind
    BY <1>1, JobFields DEF Shapes
  <2>3. UNCHANGED <<session, renderer, views, lapses, debounceVars>>
    BY <1>6
  <2> HIDE DEF j, table
  <2>4. Fits(j, call[t], session'.ejected)
    BY <1>1, <2>2 DEF Fits, Alone, Snapped
  <2>5. Meant(j, session', renderer')
    BY <2>2 DEF Meant
  <2>6. UpdatesAreDue'
    <3>1. \A u \in Tasks \ {t} : job'[u] = job[u] /\ call'[u] = call[u]
      BY <1>1, <2>1, <2>3 DEF debounceVars, Shapes
    <3>2. slot' = slot
      BY <2>3 DEF debounceVars
    <3> QED BY <1>1, <1>2, <1>3, <2>3, <3>1, <3>2, StillOwed
  <2>7. ShowsBuild(session', renderer', lapses', shown') /\ Fine(session', renderer', views')
    BY <1>1, <1>2, <1>3, <2>3 DEF ShownInv, FrameIsBuild
  <2>8. j.stage \in Inside
    BY <2>2 DEF Inside
  <2> QED BY <1>1, <2>1, <2>2, <2>3, <2>4, <2>5, <2>6, <2>7, <2>8, GoesOnShows
<1> QED BY <1>4, <1>5, <1>6 DEF Begin

LEMMA BeginLoadShows ==
  ASSUME PanelInv, OneRuns, DebounceTypeOK, ShownInv, NEW t \in Tasks, BeginLoad(t)
  PROVE  ShownInv'
<1> DEFINE j == [job[t] EXCEPT !.stage = "payload"]
<1>1. /\ Shapes /\ Alone(t) /\ job[t].stage = "queued" /\ job[t].kind = "load"
      /\ UNCHANGED <<session, renderer, shown, views, told, version, lapses, debounceVars>>
  BY HoldersAreAlone DEF PanelInv, BeginLoad, Begins, server
<1>2. Fine(session, renderer, views) /\ UpdatesAreDue
  BY DEF ShownInv
<1>3. NobodyDraws /\ ~Unserved(t) /\ ~Activates(t) /\ job[t].stage \notin Snapped \cup {"draw"} /\ ~Due(t)
  BY <1>1, NobodyElseDraws DEF Unserved, Activates, RunKinds, Snapped, Due
<1>4. job' = [job EXCEPT ![t] = j]
  BY DEF BeginLoad
<1>5. j.stage = "payload" /\ j.kind = job[t].kind
  BY <1>1, JobFields DEF Shapes
<1> HIDE DEF j
<1>6. Fits(j, call[t], session'.ejected)
  BY <1>1, <1>5 DEF Fits, Alone, Snapped
<1>7. Meant(j, session', renderer')
  BY <1>5 DEF Meant
<1>8. UpdatesAreDue'
  <2>1. \A u \in Tasks \ {t} : job'[u] = job[u] /\ call'[u] = call[u]
    BY <1>1, <1>4 DEF debounceVars, Shapes
  <2>2. slot' = slot
    BY <1>1 DEF debounceVars
  <2> QED BY <1>1, <1>2, <1>3, <2>1, <2>2, StillOwed
<1>9. ShowsBuild(session', renderer', lapses', shown') /\ Fine(session', renderer', views')
  BY <1>1, <1>2, <1>3 DEF ShownInv, FrameIsBuild
<1>10. j.stage \in Inside /\ j.stage \notin Snapped
  BY <1>5 DEF Inside, Snapped
<1>11. Wants(session', lapses') /\ (\A u \in Tasks \ {t} : ~Due(u)) => BindsQuery(session') /\ renderer'.drawn
  BY <1>1, <1>3, BoundIsCurrent DEF ShownInv
<1> QED BY <1>1, <1>4, <1>5, <1>6, <1>7, <1>8, <1>9, <1>10, <1>11, GoesOnShows

LEMMA PayloadIsTableShows ==
  ASSUME PanelInv, OneRuns, DebounceTypeOK, ShownInv, NEW t \in Tasks, PayloadIsTable(t)
  PROVE  ShownInv'
<1> DEFINE s == Unloaded(Reset(session, TRUE))
           z == [s EXCEPT !.load = 0, !.journal = <<>>]
           j == [job[t] EXCEPT !.stage = "open", !.journal = session.journal]
<1>1. /\ Shapes /\ Alone(t) /\ job[t].stage = "payload" /\ UNCHANGED <<shown, told, version>>
      /\ DOMAIN session = DOMAIN NewSession
  BY HoldersAreAlone DEF PanelInv, InsideRuns, PayloadIsTable, Inside, Shapes
<1>2. Fine(session, renderer, views) /\ job[t].kind \in RunKinds \cup {"load"}
  BY <1>1 DEF ShownInv, TasksFit, Fits
<1>3. job[t].stage \notin Snapped \cup {"draw"} /\ ~Due(t) /\ ~Unserved(t) /\ ~Activates(t)
  BY <1>1 DEF Unserved, Activates, Snapped, Due
<1>4. CASE Ends(t, TRUE, session, renderer, views, lapses)
  BY <1>1, <1>2, <1>3, <1>4, EndsIdleShows
<1>5. CASE /\ session' = z
           /\ views' = Deleted(session.sub)
           /\ renderer' = Swapped(renderer, NoPlugin)
           /\ job' = [job EXCEPT ![t].stage = "open", ![t].journal = session.journal]
           /\ UNCHANGED <<lapses, debounceVars>>
  <2>1. job' = [job EXCEPT ![t] = j]
    BY <1>5
  <2>2. j.stage = "open" /\ j.kind = job[t].kind
    BY <1>1, JobFields DEF Shapes
  <2>3. session'.sub = NoView /\ session'.views = session.views /\ session'.ejected = session.ejected
    BY <1>1, <1>5, SessionFields DEF Reset, Unloaded
  <2> HIDE DEF j, z
  <2>4. Fits(j, call[t], session'.ejected)
    BY <1>1, <1>2, <2>2 DEF Fits, Alone, Snapped
  <2>5. Meant(j, session', renderer')
    BY <2>2 DEF Meant
  <2>6. UpdatesAreDue'
    BY <2>3, NothingOwed
  <2>7. ShowsBuild(session', renderer', lapses', shown')
    BY <2>3 DEF ShowsBuild
  <2>8. Fine(session', renderer', views')
    BY <1>2, <2>3, FineWithout
  <2>9. j.stage \in Inside /\ UNCHANGED debounceVars /\ (session.ejected => session'.ejected)
    BY <1>5, <2>2, <2>3 DEF Inside
  <2> QED BY <1>1, <2>1, <2>2, <2>4, <2>5, <2>6, <2>7, <2>8, <2>9, GoesOnShows
<1> QED BY <1>4, <1>5 DEF PayloadIsTable

LEMMA PayloadIsOtherShows ==
  ASSUME PanelInv, OneRuns, DebounceTypeOK, ShownInv, NEW t \in Tasks, PayloadIsOther(t)
  PROVE  ShownInv'
<1> DEFINE z == IF session.load = job[t].gen THEN [session EXCEPT !.load = 0, !.journal = <<>>] ELSE session
           ok == job[t].payload = "client"
<1>1. /\ Shapes /\ Alone(t) /\ job[t].stage = "payload" /\ UNCHANGED <<shown, told, version>>
      /\ DOMAIN session = DOMAIN NewSession
  BY HoldersAreAlone DEF PanelInv, InsideRuns, PayloadIsOther, Inside, Shapes
<1>2. job[t].kind \in RunKinds \cup {"load"}
  BY <1>1 DEF ShownInv, TasksFit, Fits
<1>3. job[t].stage \notin Snapped \cup {"draw"} /\ ~Due(t) /\ ~Unserved(t) /\ ~Activates(t)
  BY <1>1 DEF Unserved, Activates, Snapped, Due
<1>4. /\ DOMAIN z = DOMAIN NewSession /\ z.sub = session.sub /\ z.build = session.build
      /\ z.table = session.table /\ z.ejected = session.ejected /\ z.views = session.views
      /\ z.config = session.config /\ z.filter = session.filter /\ z.error = session.error
      /\ z.paused = session.paused
  BY <1>1, SessionFields
<1>5. Ends(t, ok, z, renderer, views, lapses) /\ ok \in BOOLEAN
  BY DEF PayloadIsOther
<1> HIDE DEF z, ok
<1> QED BY <1>1, <1>2, <1>3, <1>4, <1>5, EndsIdleShows

\* What an activation or an update draws is what is bound.
LEMMA RedrawShows ==
  ASSUME ShownInv, Shapes, NEW t \in Tasks, Alone(t), job[t].stage = "queued", ~Due(t), session.sub # NoView,
         renderer'.cached = renderer.cached, renderer'.active = renderer.cached,
         job' = [job EXCEPT ![t].stage = "draw", ![t].view = session.sub],
         UNCHANGED <<session, views, lapses, debounceVars>>
  PROVE  ShownInv'
<1> DEFINE j == [job[t] EXCEPT !.stage = "draw", !.view = session.sub]
<1>1. job' = [job EXCEPT ![t] = j]
  OBVIOUS
<1>2. j.stage = "draw" /\ j.view = session.sub
  BY JobFields DEF Shapes
<1> HIDE DEF j
<1>3. job'[t].stage = "draw"
  BY <1>1, <1>2 DEF Shapes
<1>4. UpdatesAreDue'
  BY <1>3, NothingOwed
<1>5. Fine(session, renderer, views)
  BY DEF ShownInv
<1>6. Fine(session', renderer', views')
  <2>1. Fine(session, renderer', views)
    BY <1>5, FineStill
  <2> QED BY <2>1
<1>7. Meant(j, session', renderer')
  BY <1>2, <1>5 DEF Meant, Fine
<1>8. Fits(j, call[t], session'.ejected)
  BY <1>2 DEF Fits, Alone, Snapped
<1>9. j.stage \in Inside /\ j.stage \notin Snapped /\ job[t].stage \notin Snapped
  BY <1>2 DEF Inside, Snapped
<1>10. Wants(session', lapses') /\ (\A u \in Tasks \ {t} : ~Due(u)) => BindsQuery(session')
  BY <1>9, BoundIsCurrent DEF ShownInv
<1>11. UNCHANGED debounceVars /\ (session.ejected => session'.ejected)
  OBVIOUS
<1> QED BY <1>1, <1>2, <1>4, <1>6, <1>7, <1>8, <1>9, <1>10, <1>11, GoesOnShows

LEMMA BeginActivationShows ==
  ASSUME PanelInv, OneRuns, DebounceTypeOK, ShownInv, NEW t \in Tasks, BeginActivation(t)
  PROVE  ShownInv'
<1>1. /\ Shapes /\ Alone(t) /\ job[t].stage = "queued" /\ job[t].kind = "activate"
      /\ UNCHANGED <<shown, told, version>> /\ DOMAIN session = DOMAIN NewSession
  BY HoldersAreAlone DEF PanelInv, BeginActivation, Begins, Shapes
<1>2. job[t].stage \notin Snapped \cup {"draw"} /\ ~Due(t) /\ ~Unserved(t)
  BY <1>1 DEF Unserved, Snapped, Due, RunKinds
<1>3. CASE (session.sub = NoView \/ ~renderer.stale) /\ Ends(t, TRUE, session, renderer, views, lapses)
  <2>1. session' = session
    BY <1>3 DEF Ends
  <2>2. UpdatesAreDue' \/ (Activates(t) => ~renderer.stale)
    BY <1>3, <2>1, NothingOwed
  <2> QED BY <1>1, <1>2, <1>3, <2>2, EndsIdleShows
<1>4. CASE /\ session.sub # NoView
           /\ renderer' = [renderer EXCEPT !.active = renderer.cached, !.stale = FALSE]
           /\ job' = [job EXCEPT ![t].stage = "draw", ![t].view = session.sub]
           /\ UNCHANGED <<session, views, lapses, debounceVars>>
  <2>1. renderer'.cached = renderer.cached /\ renderer'.active = renderer.cached
    BY <1>1, <1>4, RendererFields DEF Shapes
  <2> QED BY <1>1, <1>2, <1>4, <2>1, RedrawShows
<1> QED BY <1>3, <1>4 DEF BeginActivation

LEMMA BeginUpdateShows ==
  ASSUME PanelInv, OneRuns, DebounceTypeOK, ShownInv, NEW t \in Tasks, BeginUpdate(t)
  PROVE  ShownInv'
<1>1. /\ Shapes /\ Alone(t) /\ job[t].stage = "queued" /\ job[t].kind = "update"
      /\ UNCHANGED <<shown, told, version>>
      /\ DOMAIN session = DOMAIN NewSession /\ DOMAIN renderer = DOMAIN NewRenderer
  BY HoldersAreAlone DEF PanelInv, BeginUpdate, Begins, Shapes
<1>2. job[t].stage \notin Snapped \cup {"draw"} /\ ~Due(t)
  BY <1>1 DEF Snapped, Due, RunKinds
<1>3. CASE session.sub = NoView /\ Ends(t, TRUE, session, renderer, views, lapses)
  <2>1. session' = session
    BY <1>3 DEF Ends
  <2>2. UpdatesAreDue'
    BY <1>3, <2>1, NothingOwed
  <2> QED BY <1>1, <1>2, <1>3, <2>2, EndsIdleShows
<1>4. CASE Ends(t, TRUE, session, renderer, views, lapses \cup {"presize"})
  <2>1. Fine(session, renderer, views) /\ NobodyDraws
    BY <1>1, <1>2, NobodyElseDraws DEF ShownInv
  <2>2. ShowsBuild(session, renderer, lapses \cup {"presize"}, shown')
    BY <1>1, <2>1 DEF ShownInv, FrameIsBuild, ShowsBuild
  <2>3. "presize" \in lapses'
    BY <1>4 DEF Ends
  <2>4. UpdatesAreDue'
    BY <2>3, NothingOwed
  <2>5. ASSUME Wants(session, lapses \cup {"presize"}), \A u \in Tasks \ {t} : ~Due(u)
        PROVE  BindsQuery(session) /\ renderer.drawn
    <3>1. Wants(session, lapses)
      BY <2>5 DEF Wants
    <3> QED BY <1>1, <1>2, <2>5, <3>1, BoundIsCurrent DEF ShownInv
  <2> QED BY <1>1, <1>4, <2>1, <2>2, <2>4, <2>5, EndsShows
<1>5. CASE /\ session.sub # NoView
           /\ renderer' = [renderer EXCEPT !.active = renderer.cached]
           /\ job' = [job EXCEPT ![t].stage = "draw", ![t].view = session.sub]
           /\ UNCHANGED <<session, views, lapses, debounceVars>>
  <2>1. renderer'.cached = renderer.cached /\ renderer'.active = renderer.cached
    BY <1>1, <1>5, RendererFields
  <2> QED BY <1>1, <1>2, <1>5, <2>1, RedrawShows
<1> QED BY <1>3, <1>4, <1>5 DEF BeginUpdate

LEMMA BeginGeometryShows ==
  ASSUME PanelInv, OneRuns, DebounceTypeOK, ShownInv, NEW t \in Tasks, BeginGeometry(t)
  PROVE  ShownInv'
<1>1. /\ Shapes /\ Alone(t) /\ job[t].stage = "queued" /\ job[t].kind \in {"resize", "presize"}
      /\ UNCHANGED <<shown, told, version>> /\ DOMAIN session = DOMAIN NewSession
  BY HoldersAreAlone DEF PanelInv, BeginGeometry, Begins, Shapes
<1>2. job[t].stage \notin Snapped \cup {"draw"} /\ ~Due(t) /\ ~Unserved(t) /\ ~Activates(t)
  BY <1>1 DEF Unserved, Activates, Snapped, Due, RunKinds
<1>3. Ends(t, TRUE, session, renderer, views, lapses)
  BY DEF BeginGeometry
<1> QED BY <1>1, <1>2, <1>3, EndsIdleShows

LEMMA BeginSuspendShows ==
  ASSUME PanelInv, OneRuns, DebounceTypeOK, ShownInv, NEW t \in Tasks, BeginSuspend(t)
  PROVE  ShownInv'
<1> DEFINE z == [Unloaded(Reset(session, FALSE)) EXCEPT !.pending = session.table]
           live == Deleted(session.sub)
<1>1. /\ Shapes /\ Alone(t) /\ job[t].stage = "queued" /\ job[t].kind = "suspend"
      /\ UNCHANGED <<told, version>>
      /\ DOMAIN session = DOMAIN NewSession /\ DOMAIN renderer = DOMAIN NewRenderer
  BY HoldersAreAlone DEF PanelInv, BeginSuspend, Begins, Shapes
<1>2. job[t].stage \notin Snapped \cup {"draw"} /\ ~Due(t) /\ ~Unserved(t) /\ ~Activates(t)
  BY <1>1 DEF Unserved, Activates, Snapped, Due, RunKinds
<1>3. CASE Ends(t, TRUE, session, renderer, views, lapses) /\ UNCHANGED shown
  BY <1>1, <1>2, <1>3, EndsIdleShows
<1>4. CASE Ends(t, TRUE, z, renderer, live, lapses)
  <2>1. /\ DOMAIN z = DOMAIN NewSession /\ z.sub = NoView /\ z.views = session.views /\ z.table = NoTable
        /\ z.ejected = session.ejected
    BY <1>1, SessionFields DEF Reset, Unloaded
  <2> HIDE DEF z, live
  <2>2. Fine(z, renderer, live)
    BY <2>1, FineWithout DEF ShownInv
  <2>3. ShowsBuild(z, renderer, lapses, shown') /\ ~Wants(z, lapses)
    BY <2>1 DEF ShowsBuild, Wants
  <2>4. session' = z
    BY <1>4 DEF Ends
  <2>5. UpdatesAreDue'
    BY <2>1, <2>4, NothingOwed
  <2> QED BY <1>1, <1>4, <2>1, <2>2, <2>3, <2>5, EndsShows
<1> QED BY <1>3, <1>4 DEF BeginSuspend

LEMMA BeginEjectShows ==
  ASSUME PanelInv, OneRuns, DebounceTypeOK, ShownInv, NEW t \in Tasks, BeginEject(t)
  PROVE  ShownInv'
<1>1. /\ Shapes /\ Alone(t) /\ job[t].stage = "queued" /\ job[t].kind = "eject"
      /\ DOMAIN session = DOMAIN NewSession /\ DOMAIN renderer = DOMAIN NewRenderer
  BY HoldersAreAlone DEF PanelInv, BeginEject, Begins, Shapes
<1>2. session.ejected
  BY <1>1 DEF ShownInv, TasksFit, Fits
<1>3. Ends(t, TRUE, session, renderer, views, lapses)
  BY DEF BeginEject
<1>4. session' = session
  BY <1>3 DEF Ends
<1>5. UpdatesAreDue'
  BY <1>2, <1>4, NothingOwed
<1>6. ShowsBuild(session, renderer, lapses, shown') /\ ~Wants(session, lapses)
  BY <1>2 DEF ShowsBuild, Wants
<1>7. Fine(session, renderer, views)
  BY DEF ShownInv
<1> QED BY <1>1, <1>2, <1>3, <1>5, <1>6, <1>7, EndsShows


----------------------------------------------------------------------------
(* Steps of those who do not have the lock.                                *)

\* What they leave alone.
Leaves ==
    /\ \A u \in Tasks : job[u].stage \in Inside \/ job'[u].stage \in Inside => job'[u] = job[u]
    /\ session.ejected => session'.ejected
    /\ renderer'.active = renderer.active
    /\ ~session'.ejected => /\ session'.table = session.table /\ session'.build = session.build
                            /\ renderer'.cached = renderer.cached /\ renderer'.drawn = renderer.drawn
                            /\ renderer'.plugin = renderer.plugin
    /\ session'.views = session.views
    /\ session'.sub = NoView \/ (session'.sub = session.sub /\ (session.sub \in views => session.sub \in views'))
    /\ shown' = shown
    /\ "late" \in lapses => "late" \in lapses'
    /\ "presize" \in lapses => "presize" \in lapses'

\* They leave a commit to be drawn, or do not commit.
Accounted ==
    Wants(session', lapses') /\ NobodyDue' =>
      /\ Wants(session, lapses) /\ NobodyDue
      /\ session'.sub = session.sub /\ Query(session') = Query(session)

LEMMA OutsideShows ==
  ASSUME ShownInv, Leaves, Accounted, TasksFit', UpdatesAreDue'
  PROVE  ShownInv'
<1>1. \A u \in Tasks : job'[u].stage \in Inside \/ job[u].stage \in Inside => job'[u] = job[u]
  BY DEF Leaves
<1>2. /\ session.ejected => session'.ejected
      /\ ~session'.ejected => /\ session'.table = session.table /\ session'.build = session.build
                              /\ renderer'.cached = renderer.cached /\ renderer'.drawn = renderer.drawn
                              /\ renderer'.plugin = renderer.plugin
      /\ renderer'.active = renderer.active /\ session'.views = session.views /\ shown' = shown
      /\ "late" \in lapses => "late" \in lapses'
      /\ session'.sub = NoView \/ (session'.sub = session.sub /\ (session.sub \in views => session.sub \in views'))
  BY DEF Leaves
<1>3. Fine(session, renderer, views) /\ \A u \in Tasks : Meant(job[u], session, renderer)
  BY DEF ShownInv
<1>4. Fine(session', renderer', views')
  <2>1. CASE session'.sub = NoView
    BY <1>2, <1>3, <2>1, FineWithout
  <2>2. CASE session'.sub # NoView /\ session'.ejected
    BY <1>2, <1>3, <2>2 DEF Fine
  <2>3. CASE session'.sub # NoView /\ ~session'.ejected
    <3>1. session'.ejected = session.ejected \/ (~session.ejected /\ ~session'.ejected)
      BY <1>2, <2>3
    <3> QED BY <1>2, <1>3, <2>3, <3>1 DEF Fine, Context
  <2> QED BY <2>1, <2>2, <2>3
<1>5. ASSUME NEW u \in Tasks
      PROVE  Meant(job'[u], session', renderer')
  <2>1. CASE job'[u].stage \notin Inside
    BY <2>1 DEF Meant, Inside
  <2>2. CASE job'[u] = job[u]
    <3>1. job[u].stage = "view" /\ ~session'.ejected => job[u].table = session'.table
      BY <1>2, <1>3 DEF Meant
    <3>2. job[u].stage = "subscribe" => /\ ~session'.ejected => job[u].view.table = session'.table
                                        /\ job[u].view.id \in Nat /\ job[u].view.id <= session'.views
      BY <1>2, <1>3 DEF Meant
    <3>3. job[u].stage = "subscribe" => session'.sub.id < job[u].view.id
      <4>1. NoView.id = 0
        BY DEF NoView
      <4> QED BY <1>2, <1>3, <4>1 DEF Meant, Fine
    <3>4. job[u].stage = "draw" /\ ~session'.ejected /\ session'.sub # NoView =>
            job[u].view = session'.sub /\ renderer'.active = Context(session')
      BY <1>2, <1>3 DEF Meant, Context
    <3> QED BY <2>2, <3>1, <3>2, <3>3, <3>4 DEF Meant
  <2> QED BY <1>1, <2>1, <2>2
<1>6. Current'
  <2> SUFFICES ASSUME Wants(session', lapses'), NobodyDue'
               PROVE  /\ \A u \in Tasks : job'[u].stage \in Snapped => job'[u].snap = Query(session')
                      /\ (\A u \in Tasks : job'[u].stage \notin Snapped) =>
                           BindsQuery(session') /\ (renderer'.drawn \/ \E u \in Tasks : job'[u].stage = "draw")
    BY DEF Current
  <2>1. /\ Wants(session, lapses) /\ NobodyDue
        /\ session'.sub = session.sub /\ Query(session') = Query(session) /\ ~session'.ejected
    BY DEF Accounted, Wants
  <2>2. \A u \in Tasks : job'[u].stage \in Snapped => job'[u] = job[u]
    BY <1>1 DEF Inside, Snapped
  <2>3. \A u \in Tasks : job[u].stage \in Snapped \cup {"draw"} => job'[u] = job[u]
    BY <1>1 DEF Inside, Snapped
  <2>4. \A u \in Tasks : job'[u].stage \in Snapped => job'[u].snap = Query(session')
    BY <2>1, <2>2 DEF ShownInv, Current
  <2>5. ASSUME \A u \in Tasks : job'[u].stage \notin Snapped
        PROVE  BindsQuery(session') /\ (renderer'.drawn \/ \E u \in Tasks : job'[u].stage = "draw")
    <3>1. \A u \in Tasks : job[u].stage \notin Snapped
      BY <2>3, <2>5
    <3>2. BindsQuery(session) /\ (renderer.drawn \/ \E u \in Tasks : job[u].stage = "draw")
      BY <2>1, <3>1 DEF ShownInv, Current
    <3>3. BindsQuery(session')
      BY <1>2, <2>1, <3>2 DEF BindsQuery
    <3> QED BY <1>2, <2>1, <2>3, <3>2, <3>3
  <2> QED BY <2>4, <2>5
<1>7. FrameIsBuild'
  <2> SUFFICES ASSUME NobodyDraws' PROVE ShowsBuild(session', renderer', lapses', shown')
    BY DEF FrameIsBuild
  <2>1. NobodyDraws
    BY <1>1 DEF NobodyDraws, Inside
  <2>2. ShowsBuild(session, renderer, lapses, shown)
    BY <2>1 DEF ShownInv, FrameIsBuild
  <2> QED BY <1>2, <2>2 DEF ShowsBuild
<1> QED BY <1>4, <1>5, <1>6, <1>7 DEF ShownInv

\* The last update is owed as before.
LEMMA OutsideOwes ==
  ASSUME UpdatesAreDue, Leaves, version' = version, session.sub \in told => session.sub \in told',
         renderer.stale => renderer'.stale,
         renderer.hidden => renderer'.hidden \/ \E u \in Tasks : Activates(u)',
         \A u \in Tasks : (Unserved(u) => Unserved(u)') /\ (Activates(u) => Activates(u)')
  PROVE  UpdatesAreDue'
<1>1. CASE session'.ejected \/ session'.sub = NoView
  BY <1>1, NothingOwed
<1>2. CASE ~session'.ejected /\ session'.sub # NoView
  <2> SUFFICES ASSUME NobodyDraws', MayLag(session', renderer', lapses') PROVE Told'
    BY DEF UpdatesAreDue
  <2>1. session'.sub = session.sub /\ shown' = shown /\ renderer'.drawn = renderer.drawn /\ ~session.ejected
    BY <1>2 DEF Leaves
  <2>2. MayLag(session, renderer, lapses)
    BY <2>1 DEF MayLag, Leaves
  <2>3. NobodyDraws
    BY DEF NobodyDraws, Leaves, Inside
  <2>4. Told
    BY <2>2, <2>3 DEF UpdatesAreDue
  <2>5. CASE shown.data = version \/ session.sub \in told
    BY <2>1, <2>5 DEF Told
  <2>6. CASE renderer.stale /\ (renderer.hidden \/ \E u \in Tasks : Activates(u))
    BY <2>6 DEF Told
  <2>7. CASE \E u \in Tasks : Unserved(u)
    BY <2>7 DEF Told
  <2> QED BY <2>4, <2>5, <2>6, <2>7 DEF Told
<1> QED BY <1>1, <1>2

\* Who waits for the slot goes on waiting when another task moves.
LEMMA OthersWait ==
  ASSUME NEW t \in Tasks, \A u \in Tasks \ {t} : job'[u] = job[u] /\ call'[u] = call[u],
         slot'[DrawSlot].id = slot[DrawSlot].id, ~Unserved(t), ~Activates(t)
  PROVE  \A u \in Tasks : (Unserved(u) => Unserved(u)') /\ (Activates(u) => Activates(u)')
BY DEF Unserved, Activates

\* Nobody else has become due, and the panel is as it was.
LEMMA StillAccounted ==
  ASSUME NEW t \in Tasks, \A u \in Tasks \ {t} : job'[u] = job[u], ~Due(t),
         Wants(session', lapses') => Wants(session, lapses),
         session'.sub = session.sub, Query(session') = Query(session)
  PROVE  Accounted
<1>1. NobodyDue' => NobodyDue
  BY DEF NobodyDue, Due
<1> QED BY <1>1 DEF Accounted

LEMMA DueIsAccounted ==
  ASSUME NEW t \in Tasks, Due(t)'
  PROVE  Accounted
BY DEF Accounted, NobodyDue

LEMMA FitsAll ==
  ASSUME TasksFit, job' = job, call' = call, session'.ejected = session.ejected
  PROVE  TasksFit'
BY DEF TasksFit

\* A task calls the lock.
LEMMA QueueShows ==
  ASSUME Shapes, InsideRuns, DOMAIN call = Tasks, TasksFit, NEW t \in Tasks,
         job[t].stage \in {"idle", "theme", "list"}, NEW kind, NEW update, DOMAIN update = DOMAIN Idle,
         Queue(t, kind, update), kind \notin {"update", "resize", "presize"},
         session.ejected => session'.ejected, kind = "eject" => session'.ejected
  PROVE  /\ TasksFit'
         /\ \A u \in Tasks : job[u].stage \in Inside \/ job'[u].stage \in Inside => job'[u] = job[u]
         /\ \A u \in Tasks : (Unserved(u) => Unserved(u)') /\ (Activates(u) => Activates(u)')
         /\ \A u \in Tasks \ {t} : job'[u] = job[u]
         /\ job'[t].stage = "queued" /\ job'[t].kind = kind
         /\ ~Due(t) \/ job[t].stage = "theme"
         /\ kind \in RunKinds => Due(t)'
<1> DEFINE j == [update EXCEPT !.kind = kind, !.stage = "queued"]
<1>1. j.stage = "queued" /\ j.kind = kind
  BY JobFields
<1>2. job' = [job EXCEPT ![t] = j] /\ Lock(t)
  BY DEF Queue
<1> HIDE DEF j
<1>3. job'[t] = j /\ \A u \in Tasks \ {t} : job'[u] = job[u] /\ call'[u] = call[u]
  BY <1>2, CallsOfOthers DEF Shapes
<1>4. call'[t].at = "mutex" /\ call'[t].slot = NoSlot /\ slot' = slot
  BY <1>2 DEF Lock, NoCall
<1>5. Fits(j, call'[t], session'.ejected)
  BY <1>1, <1>4 DEF Fits, Snapped, SlotOf
<1>6. TasksFit'
  BY <1>2, <1>3, <1>5, FitsStill DEF Shapes
<1>7. \A u \in Tasks : job[u].stage \in Inside \/ job'[u].stage \in Inside => job'[u] = job[u]
  BY <1>1, <1>3 DEF Inside
<1>8. \A u \in Tasks : (Unserved(u) => Unserved(u)') /\ (Activates(u) => Activates(u)')
  BY <1>3, <1>4, OthersWait DEF Unserved, Activates
<1>9. ~Due(t) \/ job[t].stage = "theme"
  BY DEF Due
<1>10. kind \in RunKinds => Due(t)'
  BY <1>1, <1>3 DEF Due
<1> QED BY <1>1, <1>3, <1>6, <1>7, <1>8, <1>9, <1>10

\* A task without a call of the lock becomes another.
LEMMA ThemedShows ==
  ASSUME Shapes, InsideRuns, TasksFit, NEW t \in Tasks, job[t].stage \in {"idle", "theme", "list"},
         NEW j, job' = [job EXCEPT ![t] = j], UNCHANGED debounceVars, j.stage \in {"idle", "theme", "list"},
         j.stage = "theme" => /\ j.kind \in {"restore", "reset", "resume", "bind"}
                              /\ j.kind = "restore" \/ j.update = NoUpdate,
         session.ejected => session'.ejected
  PROVE  /\ TasksFit'
         /\ \A u \in Tasks : job[u].stage \in Inside \/ job'[u].stage \in Inside => job'[u] = job[u]
         /\ \A u \in Tasks : (Unserved(u) => Unserved(u)') /\ (Activates(u) => Activates(u)')
         /\ \A u \in Tasks \ {t} : job'[u] = job[u]
         /\ job'[t] = j
         /\ j.stage = "theme" => Due(t)'
<1>1. job'[t] = j /\ \A u \in Tasks \ {t} : job'[u] = job[u] /\ call'[u] = call[u]
  BY DEF Shapes, debounceVars
<1>2. call[t].at = "idle" /\ call' = call /\ slot' = slot
  BY DEF TasksFit, Fits, debounceVars
<1>3. Fits(j, call'[t], session'.ejected)
  BY <1>2 DEF Fits, Snapped
<1>4. TasksFit'
  BY <1>1, <1>3, FitsStill DEF Shapes
<1>5. \A u \in Tasks : job[u].stage \in Inside \/ job'[u].stage \in Inside => job'[u] = job[u]
  BY <1>1 DEF Inside
<1>6. \A u \in Tasks : (Unserved(u) => Unserved(u)') /\ (Activates(u) => Activates(u)')
  BY <1>1, <1>2, OthersWait DEF Unserved, Activates
<1>7. j.stage = "theme" => Due(t)'
  BY <1>1 DEF Due
<1> QED BY <1>1, <1>4, <1>5, <1>6, <1>7


LEMMA LeavesAll ==
  ASSUME UNCHANGED <<session, renderer, views, lapses, shown>>,
         \A u \in Tasks : job[u].stage \in Inside \/ job'[u].stage \in Inside => job'[u] = job[u]
  PROVE  Leaves
BY DEF Leaves

\* Of the renderer, what is drawn stays; of the session, what is bound, or the
\* View is gone.
LEMMA LeavesBound ==
  ASSUME \A u \in Tasks : job[u].stage \in Inside \/ job'[u].stage \in Inside => job'[u] = job[u],
         renderer'.active = renderer.active, renderer'.cached = renderer.cached,
         renderer'.drawn = renderer.drawn, renderer'.plugin = renderer.plugin,
         session'.ejected = session.ejected, session'.table = session.table, session'.build = session.build,
         session'.views = session.views, shown' = shown,
         session'.sub = NoView \/ (session'.sub = session.sub /\ views' = views),
         lapses \subseteq lapses'
  PROVE  Leaves
BY DEF Leaves

LEMMA FitsMoved ==
  ASSUME TasksFit, NEW t \in Tasks, UNCHANGED <<job, session>>, \A u \in Tasks \ {t} : call'[u] = call[u],
         Fits(job[t], call'[t], session.ejected)
  PROVE  TasksFit'
BY DEF TasksFit

\* The lock is taken: who waited for the slot runs.
LEMMA TakeShows ==
  ASSUME PanelInv, DebounceTypeOK, ShownInv, NEW t \in Tasks, Take(t)
  PROVE  ShownInv'
<1>1. UNCHANGED <<session, renderer, job, shown, told, version, views, lapses>> /\ Acquire(t)
  BY DEF Take, server
<1>2. /\ DOMAIN call = Tasks /\ \A u \in Tasks : DOMAIN call[u] = {"slot", "next", "asked", "at"}
      /\ DOMAIN slot = Slots /\ DOMAIN slot[DrawSlot] = {"id", "last", "parked", "settled_id"}
  BY SlotsOfPanel DEF DebounceTypeOK, CallStates, SlotStates
<1>3. /\ \A u \in Tasks \ {t} : call'[u] = call[u]
      /\ call[t].at = "mutex" /\ call'[t].at = "run" /\ call'[t].slot = call[t].slot
      /\ slot' = [z \in Slots |-> IF z = call[t].slot THEN [slot[z] EXCEPT !.parked = FALSE, !.id = @ + 1]
                                  ELSE slot[z]]
  BY <1>1, <1>2 DEF Acquire
<1>4. Fits(job[t], call[t], session.ejected)
  BY DEF ShownInv, TasksFit
<1>5. job[t].stage = "queued"
  BY <1>3, <1>4 DEF Fits
<1>6. TasksFit'
  <2>1. Fits(job[t], call'[t], session.ejected)
    BY <1>3, <1>4, <1>5 DEF Fits, Snapped
  <2> QED BY <1>1, <1>3, <2>1, FitsMoved DEF ShownInv
<1>7. Leaves
  BY <1>1, LeavesAll
<1>8. Accounted
  <2>1. NobodyDue' => NobodyDue
    BY <1>1 DEF NobodyDue, Due
  <2> QED BY <1>1, <2>1 DEF Accounted
<1>9. UpdatesAreDue'
  <2>1. CASE job[t].kind = "update"
    <3>1. Unserved(t)'
      BY <1>1, <1>3, <1>5, <2>1 DEF Unserved
    <3> QED BY <3>1 DEF UpdatesAreDue, Told
  <2>2. CASE job[t].kind # "update"
    <3>1. call[t].slot # DrawSlot
      BY <1>4, <1>5, <2>2, SlotsOfPanel, SlotsAssumption DEF Fits, SlotOf, DrawSlot, GeometrySlot
    <3>2. slot'[DrawSlot].id = slot[DrawSlot].id
      BY <1>3, <3>1, SlotsOfPanel
    <3>3. \A u \in Tasks : (Unserved(u) => Unserved(u)') /\ (Activates(u) => Activates(u)')
      BY <1>1, <1>3, <2>2, <3>2 DEF Unserved, Activates
    <3>4. UpdatesAreDue
      BY DEF ShownInv
    <3> QED BY <1>1, <1>7, <3>3, <3>4, OutsideOwes
  <2> QED BY <2>1, <2>2
<1> QED BY <1>6, <1>7, <1>8, <1>9, OutsideShows

\* A task that finds its work done does not owe an update.
LEMMA CoalescedShows ==
  ASSUME PanelInv, DebounceInv, ShownInv, NEW t \in Tasks, Coalesced(t)
  PROVE  ShownInv'
<1>1. UNCHANGED <<session, renderer, job, shown, told, version, views, lapses>> /\ (Skip(t) \/ Settled(t))
  BY DEF Coalesced, server
<1>2. /\ DOMAIN call = Tasks /\ \A u \in Tasks : DOMAIN call[u] = {"slot", "next", "asked", "at"}
      /\ DOMAIN slot = Slots /\ \A z \in Slots : DOMAIN slot[z] = {"id", "last", "parked", "settled_id"}
      /\ \A z \in Slots : slot[z].id \in Nat /\ slot[z].last \in Nat /\ slot[z].settled_id \in Nat /\ ended[z] \in Nat
      /\ \A u \in Tasks : call[u].next \in Nat /\ call[u].slot \in Slots \cup {NoSlot}
      /\ call[t].at = "settle" => call[t].slot \in Slots
  BY DEF DebounceInv, DebounceTypeOK, CallStates, SlotStates
<1>3. /\ \A u \in Tasks \ {t} : call'[u] = call[u]
      /\ call[t].at \in {"mutex", "settle"} /\ call'[t].at = "done" /\ call'[t].slot = call[t].slot
      /\ call[t].slot \in Slots
  BY <1>1, <1>2 DEF Skip, Settled, Covered
<1>4. slot[call[t].slot].id >= call[t].next
  <2>1. slot[call[t].slot].last >= call[t].next \/ slot[call[t].slot].settled_id >= call[t].next
    BY <1>1 DEF Skip, Settled, Covered
  <2>2. \A z \in Slots : slot[z].settled_id <= ended[z] /\ slot[z].last <= ended[z] /\ ended[z] <= slot[z].id
    BY DEF DebounceInv, Counters
  <2> QED BY <1>2, <1>3, <2>1, <2>2
<1>5. slot'[DrawSlot].id = slot[DrawSlot].id
  <2>1. CASE Skip(t)
    <3>1. slot' = [slot EXCEPT ![call[t].slot] = SettledFor(slot[call[t].slot], call[t].next)]
      BY <2>1 DEF Skip
    <3>2. SettledFor(slot[call[t].slot], call[t].next).id = slot[call[t].slot].id
      BY <1>2, <1>3 DEF SettledFor
    <3> QED BY <1>2, <1>3, <3>1, <3>2, SlotsOfPanel
  <2>2. CASE Settled(t)
    BY <2>2 DEF Settled
  <2> QED BY <1>1, <2>1, <2>2
<1>6. Fits(job[t], call[t], session.ejected)
  BY DEF ShownInv, TasksFit
<1>7. job[t].stage = "queued" /\ call[t].slot = SlotOf(job[t].kind)
  BY <1>3, <1>6 DEF Fits
<1>8. ~Unserved(t) /\ ~Activates(t)
  <2>1. job[t].kind = "update" => call[t].slot = DrawSlot
    BY <1>7 DEF SlotOf
  <2>2. ~Unserved(t)
    BY <1>2, <1>3, <1>4, <2>1, SlotsOfPanel DEF Unserved
  <2>3. job[t].kind = "activate" => call[t].slot = NoSlot
    BY <1>7 DEF SlotOf
  <2>4. ~Activates(t)
    BY <1>3, <2>3, SlotsAssumption DEF Activates
  <2> QED BY <2>2, <2>4
<1>9. TasksFit'
  <2>1. Fits(job[t], call'[t], session.ejected)
    BY <1>3, <1>6, <1>7, SlotsAssumption DEF Fits, Snapped
  <2> QED BY <1>1, <1>3, <2>1, FitsMoved DEF ShownInv
<1>10. Leaves
  BY <1>1, LeavesAll
<1>11. Accounted
  <2>1. NobodyDue' => NobodyDue
    BY <1>1 DEF NobodyDue, Due
  <2> QED BY <1>1, <2>1 DEF Accounted
<1>12. UpdatesAreDue'
  <2>1. \A u \in Tasks \ {t} : job'[u] = job[u] /\ call'[u] = call[u]
    BY <1>1, <1>3
  <2>2. \A u \in Tasks : (Unserved(u) => Unserved(u)') /\ (Activates(u) => Activates(u)')
    BY <1>5, <1>8, <2>1, OthersWait
  <2>3. UpdatesAreDue
    BY DEF ShownInv
  <2> QED BY <1>1, <1>10, <2>2, <2>3, OutsideOwes
<1> QED BY <1>9, <1>10, <1>11, <1>12, OutsideShows

LEMMA ReturnsShows ==
  ASSUME PanelInv, DebounceTypeOK, ShownInv, NEW t \in Tasks, Returns(t)
  PROVE  ShownInv'
<1> DEFINE bind == [Idle EXCEPT !.kind = "bind", !.stage = "theme", !.gated = TRUE]
           j == IF job[t].kind = "suspend" /\ session.pending # NoTable THEN bind ELSE Idle
<1>1. /\ UNCHANGED <<session, shown, told, version, views, lapses>> /\ Return(t)
      /\ job' = [job EXCEPT ![t] = j]
      /\ renderer' = [renderer EXCEPT !.presizing = @ /\ job[t].kind # "presize"]
  BY DEF Returns, server
<1>2. Shapes /\ InsideRuns /\ DOMAIN call = Tasks /\ DOMAIN job = Tasks
  BY DEF PanelInv, DebounceTypeOK, Shapes
<1>3. call[t].at = "done" /\ slot' = slot /\ call'[t].at = "idle" /\ \A u \in Tasks \ {t} : call'[u] = call[u]
  BY <1>1, <1>2 DEF Return, NoCall
<1>4. Fits(job[t], call[t], session.ejected)
  BY DEF ShownInv, TasksFit
<1>5. /\ job[t].stage \notin Inside /\ job[t].stage # "theme"
      /\ job[t].stage = "queued" => SlotOf(job[t].kind) # NoSlot
  BY <1>2, <1>3, <1>4 DEF Fits, InsideRuns
<1>6. ~Due(t) /\ ~Unserved(t) /\ ~Activates(t)
  BY <1>3, <1>5 DEF Due, Unserved, Activates, SlotOf, RunKinds, Inside
<1>7. j = bind \/ j = Idle
  OBVIOUS
<1>8. /\ bind.stage = "theme" /\ bind.kind = "bind" /\ bind.update = NoUpdate
      /\ Idle.stage = "idle"
  BY JobFields DEF Idle
<1>9. /\ j.stage \in {"theme", "idle"} /\ (j.stage = "theme" => j.kind = "bind" /\ j.update = NoUpdate)
  BY <1>7, <1>8
<1>10. /\ renderer'.active = renderer.active /\ renderer'.cached = renderer.cached
       /\ renderer'.drawn = renderer.drawn /\ renderer'.plugin = renderer.plugin
       /\ renderer'.stale = renderer.stale /\ renderer'.hidden = renderer.hidden
  BY <1>1, <1>2, RendererFields DEF Shapes
<1> HIDE DEF j
<1>11. job'[t] = j /\ \A u \in Tasks \ {t} : job'[u] = job[u]
  BY <1>1, <1>2
<1>12. TasksFit'
  <2>1. Fits(j, call'[t], session'.ejected)
    BY <1>3, <1>9 DEF Fits, Snapped
  <2> QED BY <1>1, <1>2, <1>3, <2>1, FitsStill DEF ShownInv
<1>13. Leaves
  <2>1. \A u \in Tasks : job[u].stage \in Inside \/ job'[u].stage \in Inside => job'[u] = job[u]
    BY <1>5, <1>9, <1>11 DEF Inside
  <2> QED BY <1>1, <1>10, <2>1, LeavesBound
<1>14. Accounted
  BY <1>1, <1>6, <1>11, StillAccounted
<1>15. UpdatesAreDue'
  <2>1. \A u \in Tasks : (Unserved(u) => Unserved(u)') /\ (Activates(u) => Activates(u)')
    BY <1>3, <1>6, <1>11, OthersWait
  <2>2. UpdatesAreDue
    BY DEF ShownInv
  <2> QED BY <1>1, <1>10, <1>13, <2>1, <2>2, OutsideOwes
<1> QED BY <1>12, <1>13, <1>14, <1>15, OutsideShows

\* A commit that is refused leaves the panel in error, or is known to be undrawn.
LEMMA RefusalIsKnown ==
  ASSUME NEW t \in Tasks, DOMAIN session = DOMAIN NewSession, ~Commits(session, job[t].update),
         job[t].kind \in {"restore", "reset", "resume", "bind"}, job[t].kind = "restore" \/ job[t].update = NoUpdate,
         NEW lost, Suppresses(t) => "undrawn" \in lost
  PROVE  ~Wants(AfterFailure(t, session), lost)
<1>1. CASE job[t].kind = "restore"
  <2>1. CASE Suppresses(t)
    BY <2>1 DEF Wants
  <2>2. CASE ~Suppresses(t)
    <3>1. Undrawn(t) => "undrawn" \in lost
      BY <1>1, <2>2 DEF Undrawn
    <3> QED BY <1>1, <3>1, FailureIsKnown DEF RunKinds
  <2> QED BY <2>1, <2>2
<1>2. CASE job[t].kind # "restore"
  <2>1. Applied(session.config, NoUpdate) = session.config
    BY DEF Applied, NoUpdate
  <2>2. session.error
    BY <1>2, <2>1 DEF Commits
  <2>3. AfterFailure(t, session) \in {session, [session EXCEPT !.error = TRUE]}
    BY <1>2 DEF AfterFailure, TakesView, Suppresses
  <2>4. AfterFailure(t, session).error
    BY <2>2, <2>3, SessionFields
  <2> QED BY <2>4 DEF Wants
<1> QED BY <1>1, <1>2

LEMMA CommittedBound ==
  ASSUME NEW s, NEW u, DOMAIN s = DOMAIN NewSession
  PROVE  Committed(s, u).views = s.views
BY SessionFields DEF Committed

LEMMA RestoreCommitShows ==
  ASSUME PanelInv, DebounceTypeOK, ShownInv, NEW t \in Tasks, RestoreCommit(t)
  PROVE  ShownInv'
<1>1. /\ UNCHANGED <<renderer, shown, told, version>> /\ job[t].stage = "theme"
      /\ Shapes /\ InsideRuns /\ DOMAIN call = Tasks
      /\ DOMAIN session = DOMAIN NewSession /\ DOMAIN job[t] = DOMAIN Idle
      /\ TasksFit /\ UpdatesAreDue
  BY DEF RestoreCommit, PanelInv, DebounceTypeOK, Shapes, ShownInv
<1>2. job[t].kind \in {"restore", "reset", "resume", "bind"} /\ (job[t].kind = "restore" \/ job[t].update = NoUpdate)
  BY <1>1 DEF TasksFit, Fits
<1>3. CASE /\ Queue(t, job[t].kind, job[t])
           /\ session' = Committed(session, job[t].update)
           /\ UNCHANGED <<views, lapses>>
  <2>1. /\ session'.ejected = session.ejected /\ session'.table = session.table /\ session'.build = session.build
        /\ session'.views = session.views /\ session'.sub = session.sub
    BY <1>1, <1>3, CommittedKeeps, CommittedBound
  <2>2. /\ TasksFit'
        /\ \A u \in Tasks : job[u].stage \in Inside \/ job'[u].stage \in Inside => job'[u] = job[u]
        /\ \A u \in Tasks : (Unserved(u) => Unserved(u)') /\ (Activates(u) => Activates(u)')
        /\ Due(t)'
    <3> DEFINE kind == job[t].kind
    <3>1. kind \in RunKinds /\ kind \notin {"update", "resize", "presize"} /\ kind # "eject"
      BY <1>2 DEF RunKinds
    <3>2. Queue(t, kind, job[t]) /\ (session.ejected => session'.ejected)
      BY <1>3, <2>1
    <3> HIDE DEF kind
    <3> QED BY <1>1, <3>1, <3>2, QueueShows
  <2>3. Leaves
    BY <1>1, <1>3, <2>1, <2>2, LeavesBound
  <2>4. UpdatesAreDue'
    BY <1>1, <2>2, <2>3, OutsideOwes
  <2> QED BY <2>2, <2>3, <2>4, DueIsAccounted, OutsideShows
<1>4. CASE /\ ~Commits(session, job[t].update)
           /\ job' = [job EXCEPT ![t] = Idle]
           /\ session' = AfterFailure(t, session)
           /\ views' = IF TakesView(t) THEN Deleted(session.sub) ELSE views
           /\ lapses' = IF Suppresses(t) THEN lapses \cup {"undrawn"} ELSE lapses
           /\ UNCHANGED debounceVars
  <2>1. /\ session'.ejected = session.ejected /\ session'.table = session.table /\ session'.build = session.build
        /\ session'.views = session.views
        /\ session'.sub = NoView \/ (session'.sub = session.sub /\ views' = views)
    <3>1. AfterFailure(t, session).sub = IF TakesView(t) THEN NoView ELSE session.sub
      BY <1>1, FailureKeeps
    <3> QED BY <1>1, <1>4, <3>1, FailureIsFine
  <2>2. /\ TasksFit'
        /\ \A u \in Tasks : job[u].stage \in Inside \/ job'[u].stage \in Inside => job'[u] = job[u]
        /\ \A u \in Tasks : (Unserved(u) => Unserved(u)') /\ (Activates(u) => Activates(u)')
    <3>1. Idle.stage \in {"idle", "theme", "list"} /\ Idle.stage # "theme"
      BY JobFields
    <3>2. job[t].stage \in {"idle", "theme", "list"} /\ (session.ejected => session'.ejected)
      BY <1>1, <2>1
    <3> QED BY <1>1, <1>4, <3>1, <3>2, ThemedShows
  <2>3. Leaves
    <3>1. lapses \subseteq lapses'
      BY <1>4
    <3> QED BY <1>1, <2>1, <2>2, <3>1, LeavesBound
  <2>4. UpdatesAreDue'
    BY <1>1, <2>2, <2>3, OutsideOwes
  <2>5. Accounted
    <3>1. Suppresses(t) => "undrawn" \in lapses'
      BY <1>4
    <3>2. ~Wants(AfterFailure(t, session), lapses')
      BY <1>1, <1>2, <1>4, <3>1, RefusalIsKnown
    <3>3. ~Wants(session', lapses')
      BY <1>4, <3>2
    <3> QED BY <3>3 DEF Accounted
  <2> QED BY <2>2, <2>3, <2>4, <2>5, OutsideShows
<1> QED BY <1>3, <1>4 DEF RestoreCommit

LEMMA SweepShows ==
  ASSUME PanelInv, DebounceTypeOK, ShownInv, NEW t \in Tasks, Sweep(t)
  PROVE  ShownInv'
<1> DEFINE bind == [Idle EXCEPT !.kind = "bind", !.stage = "theme", !.gated = TRUE]
           j == IF session.pending = NoTable THEN Idle ELSE bind
<1>1. /\ UNCHANGED <<session, renderer, shown, told, version, views, lapses>> /\ job[t].stage = "list"
      /\ Shapes /\ InsideRuns /\ DOMAIN call = Tasks
      /\ TasksFit /\ UpdatesAreDue /\ (session.ejected => session'.ejected)
  BY DEF Sweep, server, PanelInv, DebounceTypeOK, ShownInv
<1>2. ~Due(t)
  BY <1>1 DEF Due
<1>3. ASSUME /\ TasksFit'
             /\ \A u \in Tasks : job[u].stage \in Inside \/ job'[u].stage \in Inside => job'[u] = job[u]
             /\ \A u \in Tasks : (Unserved(u) => Unserved(u)') /\ (Activates(u) => Activates(u)')
             /\ \A u \in Tasks \ {t} : job'[u] = job[u]
      PROVE  ShownInv'
  <2>1. Leaves
    BY <1>1, <1>3, LeavesAll
  <2>2. UpdatesAreDue'
    BY <1>1, <1>3, <2>1, OutsideOwes
  <2>3. Accounted
    BY <1>1, <1>2, <1>3, StillAccounted
  <2> QED BY <1>3, <2>1, <2>2, <2>3, OutsideShows
<1>4. CASE Queue(t, "suspend", Idle)
  BY <1>1, <1>3, <1>4, QueueShows
<1>5. CASE job' = [job EXCEPT ![t] = j] /\ UNCHANGED debounceVars
  <2>1. /\ j.stage \in {"idle", "theme"}
        /\ j.stage = "theme" => j.kind = "bind" /\ j.update = NoUpdate
    BY JobFields DEF Idle
  <2> HIDE DEF j
  <2> QED BY <1>1, <1>3, <1>5, <2>1, ThemedShows
<1> QED BY <1>4, <1>5 DEF Sweep


----------------------------------------------------------------------------
(* The operations.                                                         *)

LEMMA StartsIdle ==
  ASSUME Shapes, TasksFit, NEW t \in Tasks, job[t] = Idle
  PROVE  job[t].stage = "idle" /\ ~Due(t) /\ ~Unserved(t) /\ ~Activates(t) /\ job[t].stage \notin Inside
BY JobFields DEF Due, Unserved, Activates, Inside

\* An operation that a task will draw, or that needs no draw.
LEMMA OperationShows ==
  ASSUME ShownInv, NEW t \in Tasks, TasksFit',
         \A u \in Tasks : job[u].stage \in Inside \/ job'[u].stage \in Inside => job'[u] = job[u],
         \A u \in Tasks : (Unserved(u) => Unserved(u)') /\ (Activates(u) => Activates(u)'),
         renderer' = renderer, shown' = shown, told' = told, version' = version,
         session'.ejected = session.ejected, session'.table = session.table, session'.build = session.build,
         session'.views = session.views, lapses \subseteq lapses',
         session'.sub = NoView \/ (session'.sub = session.sub /\ views' = views), Accounted
  PROVE  ShownInv'
<1>1. Leaves
  BY LeavesBound
<1>2. UpdatesAreDue'
  BY <1>1, OutsideOwes DEF ShownInv
<1> QED BY <1>1, <1>2, OutsideShows

LEMMA ApplyShows ==
  ASSUME PanelInv, DebounceTypeOK, ShownInv, NEW t \in Tasks, Apply(t)
  PROVE  ShownInv'
<1>1. /\ UNCHANGED <<renderer, shown, told, version, views, lapses>> /\ job[t] = Idle
      /\ Shapes /\ InsideRuns /\ DOMAIN call = Tasks /\ DOMAIN session = DOMAIN NewSession /\ TasksFit
  BY DEF Apply, StartsTask, server, PanelInv, DebounceTypeOK, ShownInv, Shapes
<1>2. job[t].stage = "idle"
  BY <1>1, StartsIdle
<1>3. PICK u, p : /\ session' = Committed(session, u)
                  /\ Queue(t, "render", [Idle EXCEPT !.plugin = p])
  BY DEF Apply
<1>4. /\ session'.ejected = session.ejected /\ session'.table = session.table /\ session'.build = session.build
      /\ session'.views = session.views /\ session'.sub = session.sub
  BY <1>1, <1>3, CommittedKeeps, CommittedBound
<1>5. DOMAIN [Idle EXCEPT !.plugin = p] = DOMAIN Idle
  OBVIOUS
<1>6. /\ TasksFit'
      /\ \A w \in Tasks : job[w].stage \in Inside \/ job'[w].stage \in Inside => job'[w] = job[w]
      /\ \A w \in Tasks : (Unserved(w) => Unserved(w)') /\ (Activates(w) => Activates(w)')
      /\ Due(t)'
  BY <1>1, <1>2, <1>3, <1>4, <1>5, QueueShows DEF RunKinds
<1>7. Accounted
  BY <1>6, DueIsAccounted
<1> QED BY <1>1, <1>4, <1>6, <1>7, OperationShows

LEMMA ApplyGlobalFiltersShows ==
  ASSUME PanelInv, DebounceTypeOK, ShownInv, NEW t \in Tasks, ApplyGlobalFilters(t)
  PROVE  ShownInv'
<1>1. /\ UNCHANGED <<renderer, shown, told, version, views, lapses>> /\ job[t] = Idle
      /\ Shapes /\ InsideRuns /\ DOMAIN call = Tasks /\ DOMAIN session = DOMAIN NewSession /\ TasksFit
      /\ session' = [session EXCEPT !.filter = ops + 1]
  BY DEF ApplyGlobalFilters, StartsTask, server, PanelInv, DebounceTypeOK, ShownInv, Shapes
<1>2. job[t].stage = "idle"
  BY <1>1, StartsIdle
<1>3. /\ session'.ejected = session.ejected /\ session'.table = session.table /\ session'.build = session.build
      /\ session'.views = session.views /\ session'.sub = session.sub /\ session'.error = session.error
  BY <1>1, SessionFields
<1>4. CASE session.error /\ UNCHANGED <<job, debounceVars>>
  <2>1. Accounted
    BY <1>3, <1>4 DEF Accounted, Wants
  <2>2. job' = job /\ call' = call /\ slot' = slot
    BY <1>4 DEF debounceVars
  <2>3. /\ TasksFit'
        /\ \A w \in Tasks : job[w].stage \in Inside \/ job'[w].stage \in Inside => job'[w] = job[w]
        /\ \A w \in Tasks : (Unserved(w) => Unserved(w)') /\ (Activates(w) => Activates(w)')
    BY <1>1, <1>3, <2>2, FitsAll DEF Unserved, Activates
  <2> QED BY <1>1, <1>3, <2>1, <2>3, OperationShows
<1>5. CASE Queue(t, "render", Idle)
  <2>1. /\ TasksFit'
        /\ \A w \in Tasks : job[w].stage \in Inside \/ job'[w].stage \in Inside => job'[w] = job[w]
        /\ \A w \in Tasks : (Unserved(w) => Unserved(w)') /\ (Activates(w) => Activates(w)')
        /\ Due(t)'
    BY <1>1, <1>2, <1>3, <1>5, QueueShows DEF RunKinds
  <2>2. Accounted
    BY <2>1, DueIsAccounted
  <2> QED BY <1>1, <1>3, <2>1, <2>2, OperationShows
<1> QED BY <1>4, <1>5 DEF ApplyGlobalFilters

LEMMA ResetBound ==
  ASSUME NEW s, NEW config, DOMAIN s = DOMAIN NewSession
  PROVE  Reset(s, config).views = s.views
BY SessionFields DEF Reset

LEMMA RestoreShows ==
  ASSUME PanelInv, DebounceTypeOK, ShownInv, NEW t \in Tasks, Restore(t)
  PROVE  ShownInv'
<1>1. /\ UNCHANGED <<renderer, shown, told, version, lapses, debounceVars>> /\ job[t] = Idle
      /\ Shapes /\ InsideRuns /\ DOMAIN session = DOMAIN NewSession /\ TasksFit
  BY DEF Restore, StartsTask, PanelInv, ShownInv, Shapes
<1>2. job[t].stage = "idle"
  BY <1>1, StartsIdle
<1>3. PICK j :
        /\ \/ session' = session /\ views' = views
           \/ session' = Reset(session, TRUE) /\ views' = Deleted(session.sub)
        /\ job' = [job EXCEPT ![t] = j] /\ j.kind = "restore" /\ j.stage = "theme"
  <2>1. PICK u \in ViewConfigUpdates, table \in Tables \cup {NoTable}, suppress \in BOOLEAN :
          LET resets == table # NoTable /\ (table # session.table \/ session.error)
          IN /\ session' = IF resets THEN Reset(session, TRUE) ELSE session
             /\ views' = IF resets THEN Deleted(session.sub) ELSE views
             /\ job' = [job EXCEPT ![t] =
                  [Idle EXCEPT !.kind = "restore", !.stage = "theme", !.update = u, !.table = table,
                               !.public = TRUE, !.gated = TRUE, !.suppress = suppress,
                               !.old = IF suppress THEN session.config ELSE Default,
                               !.err = resets /\ session.error]]
    BY DEF Restore
  <2> DEFINE resets == table # NoTable /\ (table # session.table \/ session.error)
             j == [Idle EXCEPT !.kind = "restore", !.stage = "theme", !.update = u, !.table = table,
                               !.public = TRUE, !.gated = TRUE, !.suppress = suppress,
                               !.old = IF suppress THEN session.config ELSE Default,
                               !.err = resets /\ session.error]
  <2>2. j.kind = "restore" /\ j.stage = "theme"
    BY JobFields
  <2>3. /\ session' = IF resets THEN Reset(session, TRUE) ELSE session
        /\ views' = IF resets THEN Deleted(session.sub) ELSE views
        /\ job' = [job EXCEPT ![t] = j]
    BY <2>1
  <2> HIDE DEF j, resets
  <2>4. \/ session' = session /\ views' = views
        \/ session' = Reset(session, TRUE) /\ views' = Deleted(session.sub)
    BY <2>3
  <2>5. job' = [job EXCEPT ![t] = j]
    BY <2>3
  <2> QED BY <2>2, <2>4, <2>5
<1>4. /\ session'.ejected = session.ejected /\ session'.table = session.table /\ session'.build = session.build
      /\ session'.views = session.views
      /\ session'.sub = NoView \/ (session'.sub = session.sub /\ views' = views)
  <2>1. CASE session' = session /\ views' = views
    BY <2>1
  <2>2. CASE session' = Reset(session, TRUE)
    BY <1>1, <2>2, ResetKeeps, ResetBound
  <2> QED BY <1>3, <2>1, <2>2
<1>5. /\ TasksFit'
      /\ \A w \in Tasks : job[w].stage \in Inside \/ job'[w].stage \in Inside => job'[w] = job[w]
      /\ \A w \in Tasks : (Unserved(w) => Unserved(w)') /\ (Activates(w) => Activates(w)')
      /\ Due(t)'
  BY <1>1, <1>2, <1>3, <1>4, ThemedShows
<1>6. Accounted
  BY <1>5, DueIsAccounted
<1> QED BY <1>1, <1>4, <1>5, <1>6, OperationShows

LEMMA LoadShows ==
  ASSUME PanelInv, DebounceTypeOK, ShownInv, NEW t \in Tasks, Load(t)
  PROVE  ShownInv'
<1>1. /\ UNCHANGED <<renderer, shown, told, version, views, lapses>> /\ job[t] = Idle
      /\ Shapes /\ InsideRuns /\ DOMAIN call = Tasks /\ DOMAIN session = DOMAIN NewSession /\ TasksFit
  BY DEF Load, StartsTask, server, PanelInv, DebounceTypeOK, ShownInv, Shapes
<1>2. job[t].stage = "idle" /\ ~Due(t)
  BY <1>1, StartsIdle
<1>3. PICK payload, table :
        /\ session' = [session EXCEPT !.loads = @ + 1, !.load = session.loads + 1, !.journal = <<>>]
        /\ Queue(t, "load", [Idle EXCEPT !.public = TRUE, !.payload = payload, !.table = table,
                                         !.gen = session.loads + 1])
  BY DEF Load
<1>4. /\ session'.ejected = session.ejected /\ session'.table = session.table /\ session'.build = session.build
      /\ session'.views = session.views /\ session'.sub = session.sub /\ session'.error = session.error
      /\ session'.paused = session.paused /\ session'.config = session.config /\ session'.filter = session.filter
  BY <1>1, <1>3, SessionFields
<1> DEFINE base == [Idle EXCEPT !.public = TRUE, !.payload = payload, !.table = table, !.gen = session.loads + 1]
<1>5. DOMAIN base = DOMAIN Idle /\ Queue(t, "load", base)
  BY <1>3
<1> HIDE DEF base
<1>6. /\ TasksFit'
      /\ \A w \in Tasks : job[w].stage \in Inside \/ job'[w].stage \in Inside => job'[w] = job[w]
      /\ \A w \in Tasks : (Unserved(w) => Unserved(w)') /\ (Activates(w) => Activates(w)')
      /\ \A w \in Tasks \ {t} : job'[w] = job[w]
  BY <1>1, <1>2, <1>4, <1>5, QueueShows
<1>7. Accounted
  <2>1. Wants(session', lapses') => Wants(session, lapses)
    BY <1>1, <1>4 DEF Wants
  <2>2. Query(session') = Query(session)
    BY <1>4 DEF Query
  <2> QED BY <1>2, <1>4, <1>6, <2>1, <2>2, StillAccounted
<1> QED BY <1>1, <1>4, <1>6, <1>7, OperationShows

LEMMA ResetAllShows ==
  ASSUME PanelInv, DebounceTypeOK, ShownInv, NEW t \in Tasks, ResetAll(t)
  PROVE  ShownInv'
<1> DEFINE j == [Idle EXCEPT !.kind = "reset", !.stage = "theme", !.public = TRUE, !.gated = TRUE,
                             !.plugin = DefaultPlugin]
<1>1. /\ UNCHANGED <<renderer, shown, told, version, debounceVars>> /\ job[t] = Idle
      /\ session' = Reset(session, TRUE) /\ views' = Deleted(session.sub)
      /\ Shapes /\ InsideRuns /\ DOMAIN session = DOMAIN NewSession /\ TasksFit
  BY DEF ResetAll, StartsTask, PanelInv, ShownInv, Shapes
<1>2. job[t].stage = "idle"
  BY <1>1, StartsIdle
<1>3. /\ session'.ejected = session.ejected /\ session'.table = session.table /\ session'.build = session.build
      /\ session'.views = session.views /\ session'.sub = NoView
  BY <1>1, ResetKeeps, ResetBound
<1>4. CASE lapses' = lapses \cup {"undrawn"} /\ job' = job
  <2>1. Accounted
    BY <1>4 DEF Accounted, Wants
  <2>2. job' = job /\ call' = call /\ slot' = slot
    BY <1>1, <1>4 DEF debounceVars
  <2>3. /\ TasksFit'
        /\ \A w \in Tasks : job[w].stage \in Inside \/ job'[w].stage \in Inside => job'[w] = job[w]
        /\ \A w \in Tasks : (Unserved(w) => Unserved(w)') /\ (Activates(w) => Activates(w)')
    BY <1>1, <1>3, <2>2, FitsAll DEF Unserved, Activates
  <2>4. lapses \subseteq lapses'
    BY <1>4
  <2> QED BY <1>1, <1>3, <2>1, <2>3, <2>4, OperationShows
<1>5. CASE lapses' = lapses /\ job' = [job EXCEPT ![t] = j]
  <2>1. j.stage = "theme" /\ j.kind = "reset" /\ j.update = NoUpdate
    BY JobFields DEF Idle
  <2> HIDE DEF j
  <2>2. /\ TasksFit'
        /\ \A w \in Tasks : job[w].stage \in Inside \/ job'[w].stage \in Inside => job'[w] = job[w]
        /\ \A w \in Tasks : (Unserved(w) => Unserved(w)') /\ (Activates(w) => Activates(w)')
        /\ Due(t)'
    BY <1>1, <1>2, <1>3, <1>5, <2>1, ThemedShows
  <2>3. Accounted
    BY <2>2, DueIsAccounted
  <2> QED BY <1>1, <1>3, <1>5, <2>2, <2>3, OperationShows
<1> QED BY <1>4, <1>5 DEF ResetAll

LEMMA ResetErrorShows ==
  ASSUME PanelInv, DebounceTypeOK, ShownInv, NEW t \in Tasks, ResetError(t)
  PROVE  ShownInv'
<1>1. /\ UNCHANGED <<renderer, shown, told, version, lapses>> /\ job[t] = Idle /\ Queue(t, "render", Idle)
      /\ session' = Reset(session, FALSE) /\ views' = Deleted(session.sub)
      /\ Shapes /\ InsideRuns /\ DOMAIN call = Tasks /\ DOMAIN session = DOMAIN NewSession /\ TasksFit
  BY DEF ResetError, StartsTask, PanelInv, DebounceTypeOK, ShownInv, Shapes
<1>2. job[t].stage = "idle"
  BY <1>1, StartsIdle
<1>3. /\ session'.ejected = session.ejected /\ session'.table = session.table /\ session'.build = session.build
      /\ session'.views = session.views /\ session'.sub = NoView
  BY <1>1, ResetKeeps, ResetBound
<1>4. /\ TasksFit'
      /\ \A w \in Tasks : job[w].stage \in Inside \/ job'[w].stage \in Inside => job'[w] = job[w]
      /\ \A w \in Tasks : (Unserved(w) => Unserved(w)') /\ (Activates(w) => Activates(w)')
      /\ Due(t)'
  BY <1>1, <1>2, <1>3, QueueShows DEF RunKinds
<1>5. Accounted
  BY <1>4, DueIsAccounted
<1> QED BY <1>1, <1>3, <1>4, <1>5, OperationShows

LEMMA ResumeShows ==
  ASSUME PanelInv, DebounceTypeOK, ShownInv, NEW t \in Tasks, Resume(t)
  PROVE  ShownInv'
<1> DEFINE j == [Idle EXCEPT !.kind = "resume", !.stage = "theme", !.gated = TRUE]
<1>1. /\ UNCHANGED <<renderer, shown, told, version, views, lapses, debounceVars>> /\ job[t] = Idle
      /\ session' = [session EXCEPT !.paused = FALSE] /\ job' = [job EXCEPT ![t] = j]
      /\ Shapes /\ InsideRuns /\ DOMAIN session = DOMAIN NewSession /\ TasksFit
  BY DEF Resume, server, PanelInv, ShownInv, Shapes
<1>2. job[t].stage = "idle"
  BY <1>1, StartsIdle
<1>3. /\ session'.ejected = session.ejected /\ session'.table = session.table /\ session'.build = session.build
      /\ session'.views = session.views /\ session'.sub = session.sub
  BY <1>1, SessionFields
<1>4. j.stage = "theme" /\ j.kind = "resume" /\ j.update = NoUpdate
  BY JobFields DEF Idle
<1> HIDE DEF j
<1>5. /\ TasksFit'
      /\ \A w \in Tasks : job[w].stage \in Inside \/ job'[w].stage \in Inside => job'[w] = job[w]
      /\ \A w \in Tasks : (Unserved(w) => Unserved(w)') /\ (Activates(w) => Activates(w)')
      /\ Due(t)'
  BY <1>1, <1>2, <1>3, <1>4, ThemedShows
<1>6. Accounted
  BY <1>5, DueIsAccounted
<1> QED BY <1>1, <1>3, <1>5, <1>6, OperationShows


\* A hidden panel that was told of an update is activated: the activation owes it.
LEMMA ActivateShows ==
  ASSUME PanelInv, DebounceTypeOK, ShownInv, NEW t \in Tasks, Activate(t)
  PROVE  ShownInv'
<1>1. /\ UNCHANGED <<session, shown, told, version, views, lapses>> /\ job[t] = Idle
      /\ renderer' = [renderer EXCEPT !.hidden = FALSE] /\ Queue(t, "activate", Idle)
      /\ Shapes /\ InsideRuns /\ DOMAIN call = Tasks /\ TasksFit /\ UpdatesAreDue
      /\ session.ejected => session'.ejected
  BY DEF Activate, server, PanelInv, DebounceTypeOK, ShownInv
<1>2. job[t].stage = "idle" /\ ~Due(t)
  BY <1>1, StartsIdle
<1>3. /\ renderer'.active = renderer.active /\ renderer'.cached = renderer.cached
      /\ renderer'.drawn = renderer.drawn /\ renderer'.plugin = renderer.plugin
      /\ renderer'.stale = renderer.stale
  BY <1>1, RendererFields DEF Shapes
<1>4. /\ TasksFit'
      /\ \A w \in Tasks : job[w].stage \in Inside \/ job'[w].stage \in Inside => job'[w] = job[w]
      /\ \A w \in Tasks : (Unserved(w) => Unserved(w)') /\ (Activates(w) => Activates(w)')
      /\ \A w \in Tasks \ {t} : job'[w] = job[w]
      /\ job'[t].stage = "queued" /\ job'[t].kind = "activate"
  BY <1>1, <1>2, QueueShows
<1>5. Leaves
  BY <1>1, <1>3, <1>4, LeavesBound
<1>6. UpdatesAreDue'
  <2>1. Activates(t)'
    BY <1>4 DEF Activates
  <2> QED BY <1>1, <1>3, <1>4, <1>5, <2>1, OutsideOwes
<1>7. Accounted
  BY <1>1, <1>2, <1>4, StillAccounted
<1> QED BY <1>4, <1>5, <1>6, <1>7, OutsideShows

\* A task waits for its turn in a slot.
LEMMA DebounceShows ==
  ASSUME Shapes, TasksFit, DebounceTypeOK, NEW t \in Tasks, job[t] = Idle,
         NEW z \in Slots, Debounce(t, z), NEW kind, SlotOf(kind) = z, session' = session,
         job' = [job EXCEPT ![t] = [Idle EXCEPT !.kind = kind, !.stage = "queued"]]
  PROVE  /\ TasksFit'
         /\ \A w \in Tasks : job[w].stage \in Inside \/ job'[w].stage \in Inside => job'[w] = job[w]
         /\ \A w \in Tasks : (Unserved(w) => Unserved(w)') /\ (Activates(w) => Activates(w)')
         /\ \A w \in Tasks \ {t} : job'[w] = job[w]
         /\ kind = "update" => Unserved(t)'
<1> DEFINE j == [Idle EXCEPT !.kind = kind, !.stage = "queued"]
<1>1. j.stage = "queued" /\ j.kind = kind
  BY JobFields
<1>2. job' = [job EXCEPT ![t] = j]
  OBVIOUS
<1> HIDE DEF j
<1>3. DOMAIN call = Tasks /\ DOMAIN slot = Slots /\ DOMAIN slot[z] = {"id", "last", "parked", "settled_id"}
  BY DEF DebounceTypeOK, SlotStates
<1>4. job'[t] = j /\ \A u \in Tasks \ {t} : job'[u] = job[u] /\ call'[u] = call[u]
  BY <1>2, <1>3, CallsOfOthers DEF Shapes
<1>5. /\ call'[t].slot = z /\ call'[t].at \in {"settle", "mutex"} /\ call'[t].next = slot[z].id + 1
      /\ slot' = [slot EXCEPT ![z].parked = TRUE]
  BY <1>3 DEF Debounce
<1>6. \A y \in Slots : slot'[y].id = slot[y].id
  BY <1>3, <1>5
<1>7. job[t].stage = "idle" /\ ~Unserved(t) /\ ~Activates(t)
  BY StartsIdle
<1>8. Fits(j, call'[t], session'.ejected)
  <2>1. z # NoSlot /\ kind # "eject"
    BY SlotsAssumption DEF SlotOf
  <2> QED BY <1>1, <1>5, <2>1 DEF Fits, Snapped
<1>9. TasksFit'
  BY <1>2, <1>4, <1>8, FitsStill DEF Shapes
<1>10. \A w \in Tasks : job[w].stage \in Inside \/ job'[w].stage \in Inside => job'[w] = job[w]
  BY <1>1, <1>4, <1>7 DEF Inside
<1>11. \A w \in Tasks : (Unserved(w) => Unserved(w)') /\ (Activates(w) => Activates(w)')
  BY <1>4, <1>6, <1>7, SlotsOfPanel, OthersWait
<1>12. ASSUME kind = "update" PROVE Unserved(t)'
  <2>1. z = DrawSlot /\ slot[z].id \in Nat
    BY <1>12 DEF SlotOf, DebounceTypeOK, SlotStates
  <2>2. call'[t].next > slot'[DrawSlot].id
    BY <1>5, <1>6, <2>1
  <2> QED BY <1>1, <1>4, <1>5, <1>12, <2>2 DEF Unserved
<1> QED BY <1>4, <1>9, <1>10, <1>11, <1>12

LEMMA ResizeShows ==
  ASSUME PanelInv, DebounceTypeOK, ShownInv, NEW t \in Tasks, Resize(t)
  PROVE  ShownInv'
<1>1. /\ UNCHANGED <<session, shown, told, version, views, lapses>> /\ job[t] = Idle
      /\ Shapes /\ InsideRuns /\ TasksFit /\ UpdatesAreDue
  BY JobFields DEF Resize, StartsTask, server, PanelInv, ShownInv
<1>2. PICK kind \in {"resize", "presize"} :
        /\ Debounce(t, GeometrySlot)
        /\ job' = [job EXCEPT ![t] = [Idle EXCEPT !.kind = kind, !.stage = "queued"]]
        /\ renderer' = [renderer EXCEPT !.presizing = @ \/ kind = "presize"]
  BY DEF Resize
<1>3. /\ renderer'.active = renderer.active /\ renderer'.cached = renderer.cached
      /\ renderer'.drawn = renderer.drawn /\ renderer'.plugin = renderer.plugin
      /\ renderer'.stale = renderer.stale /\ renderer'.hidden = renderer.hidden
  BY <1>1, <1>2, RendererFields DEF Shapes
<1>4. SlotOf(kind) = GeometrySlot
  BY DEF SlotOf
<1>5. /\ TasksFit'
      /\ \A w \in Tasks : job[w].stage \in Inside \/ job'[w].stage \in Inside => job'[w] = job[w]
      /\ \A w \in Tasks : (Unserved(w) => Unserved(w)') /\ (Activates(w) => Activates(w)')
      /\ \A w \in Tasks \ {t} : job'[w] = job[w]
  BY <1>1, <1>2, <1>4, SlotsOfPanel, DebounceShows
<1>6. Leaves
  BY <1>1, <1>3, <1>5, LeavesBound
<1>7. UpdatesAreDue'
  BY <1>1, <1>3, <1>5, <1>6, OutsideOwes
<1>8. Accounted
  <2>1. ~Due(t)
    BY <1>1, StartsIdle
  <2> QED BY <1>1, <1>5, <2>1, StillAccounted
<1> QED BY <1>5, <1>6, <1>7, <1>8, OutsideShows

LEMMA EjectShows ==
  ASSUME PanelInv, DebounceTypeOK, ShownInv, NEW t \in Tasks, Eject(t)
  PROVE  ShownInv'
<1>1. /\ UNCHANGED <<shown, told, version, lapses>> /\ job[t] = Idle /\ Queue(t, "eject", Idle)
      /\ session' = [Unloaded(Reset(session, TRUE)) EXCEPT !.ejected = TRUE]
      /\ renderer' = [renderer EXCEPT !.drawn = FALSE, !.cached = NoUpdate]
      /\ Shapes /\ InsideRuns /\ DOMAIN call = Tasks /\ DOMAIN session = DOMAIN NewSession /\ TasksFit
  BY DEF Eject, StartsTask, PanelInv, DebounceTypeOK, ShownInv, Shapes
<1>2. job[t].stage = "idle"
  BY <1>1, StartsIdle
<1>3. session'.ejected /\ session'.views = session.views /\ session'.sub = NoView
  BY <1>1, SessionFields DEF Reset, Unloaded
<1>4. renderer'.active = renderer.active
  BY <1>1, RendererFields DEF Shapes
<1>5. /\ TasksFit'
      /\ \A w \in Tasks : job[w].stage \in Inside \/ job'[w].stage \in Inside => job'[w] = job[w]
  BY <1>1, <1>2, <1>3, QueueShows
<1>6. Leaves
  BY <1>1, <1>3, <1>4, <1>5 DEF Leaves
<1>7. Accounted /\ UpdatesAreDue'
  BY <1>3, NothingOwed DEF Accounted, Wants
<1> QED BY <1>5, <1>6, <1>7, OutsideShows

LEMMA HostedChangeShows ==
  ASSUME PanelInv, DebounceTypeOK, ShownInv, NEW t \in Tasks, HostedChange(t)
  PROVE  ShownInv'
<1> DEFINE j == [Idle EXCEPT !.kind = "sweep", !.stage = "list", !.table = session.table]
<1>1. /\ UNCHANGED <<session, renderer, shown, views, told, version, lapses, debounceVars>> /\ job[t] = Idle
      /\ job' = [job EXCEPT ![t] = j]
      /\ Shapes /\ InsideRuns /\ TasksFit
  BY DEF HostedChange, StartsTask, PanelInv, ShownInv
<1>2. job[t].stage = "idle" /\ ~Due(t)
  BY <1>1, StartsIdle
<1>3. j.stage = "list"
  BY JobFields
<1> HIDE DEF j
<1>4. /\ TasksFit'
      /\ \A w \in Tasks : job[w].stage \in Inside \/ job'[w].stage \in Inside => job'[w] = job[w]
      /\ \A w \in Tasks : (Unserved(w) => Unserved(w)') /\ (Activates(w) => Activates(w)')
      /\ \A w \in Tasks \ {t} : job'[w] = job[w]
  BY <1>1, <1>2, <1>3, ThemedShows
<1>5. Accounted
  BY <1>1, <1>2, <1>4, StillAccounted
<1> QED BY <1>1, <1>4, <1>5, OperationShows

\* A notice becomes a task, marks a hidden panel stale, or is of no View of the
\* panel's.
LEMMA TableUpdatedShows ==
  ASSUME PanelInv, DebounceTypeOK, ShownInv, NEW t \in Tasks, TableUpdated(t)
  PROVE  ShownInv'
<1>1. /\ UNCHANGED <<session, shown, views, version, lapses>> /\ Shapes /\ InsideRuns
      /\ TasksFit /\ UpdatesAreDue /\ Fine(session, renderer, views)
  BY DEF TableUpdated, PanelInv, ShownInv
<1>2. PICK v \in told :
        /\ told' = told \ {v}
        /\ \/ /\ session.ejected \/ v \notin views
              /\ UNCHANGED <<renderer, job, debounceVars>>
           \/ /\ ~session.ejected /\ v \in views /\ renderer.hidden
              /\ renderer' = Dropped(renderer)
              /\ UNCHANGED <<job, debounceVars>>
           \/ /\ job[t] = Idle
              /\ Debounce(t, DrawSlot)
              /\ job' = [job EXCEPT ![t] = [Idle EXCEPT !.kind = "update", !.stage = "queued"]]
              /\ UNCHANGED renderer
  BY DEF TableUpdated
<1>3. CASE UNCHANGED <<job, debounceVars>>
  <2>1. job' = job /\ call' = call /\ slot' = slot
    BY <1>3 DEF debounceVars
  <2>2. /\ TasksFit'
        /\ \A w \in Tasks : job[w].stage \in Inside \/ job'[w].stage \in Inside => job'[w] = job[w]
        /\ \A w \in Tasks : (Unserved(w) => Unserved(w)') /\ (Activates(w) => Activates(w)')
    BY <1>1, <2>1, FitsAll DEF Unserved, Activates
  <2>3. Accounted
    BY <1>1, <2>1 DEF Accounted, NobodyDue, Due
  <2>4. CASE (session.ejected \/ v \notin views) /\ UNCHANGED renderer
    <3>1. Leaves
      BY <1>1, <2>2, <2>4, LeavesAll
    <3>2. UpdatesAreDue'
      <4>1. CASE session.ejected \/ session.sub = NoView
        BY <1>1, <4>1, NothingOwed
      <4>2. CASE ~session.ejected /\ session.sub # NoView
        <5>1. v # session.sub
          BY <1>1, <2>4, <4>2 DEF Fine
        <5>2. session.sub \in told => session.sub \in told'
          BY <1>2, <5>1
        <5> QED BY <1>1, <2>2, <2>4, <3>1, <5>2, OutsideOwes
      <4> QED BY <4>1, <4>2
    <3> QED BY <2>2, <2>3, <3>1, <3>2, OutsideShows
  <2>5. CASE renderer.hidden /\ renderer' = Dropped(renderer)
    <3>1. /\ renderer'.active = renderer.active /\ renderer'.cached = renderer.cached
          /\ renderer'.drawn = renderer.drawn /\ renderer'.plugin = renderer.plugin
          /\ renderer'.stale /\ renderer'.hidden
      BY <1>1, <2>5, RendererFields DEF Shapes, Dropped
    <3>2. Leaves
      BY <1>1, <2>2, <3>1, LeavesBound
    <3>3. UpdatesAreDue'
      BY <3>1 DEF UpdatesAreDue, Told
    <3> QED BY <2>2, <2>3, <3>2, <3>3, OutsideShows
  <2>6. job[t] # Idle \/ job' # [job EXCEPT ![t] = [Idle EXCEPT !.kind = "update", !.stage = "queued"]]
    <3>1. Idle.stage # [Idle EXCEPT !.kind = "update", !.stage = "queued"].stage
      BY JobFields
    <3> QED BY <1>1, <2>1, <3>1 DEF Shapes
  <2>7. (session.ejected \/ v \notin views) \/ (renderer.hidden /\ renderer' = Dropped(renderer))
    BY <1>2, <2>6
  <2>8. CASE session.ejected \/ v \notin views
    <3>1. UNCHANGED renderer
      BY <1>2, <2>6, <2>8
    <3> QED BY <2>4, <2>8, <3>1
  <2> QED BY <2>5, <2>7, <2>8
<1>4. CASE /\ job[t] = Idle
           /\ Debounce(t, DrawSlot)
           /\ job' = [job EXCEPT ![t] = [Idle EXCEPT !.kind = "update", !.stage = "queued"]]
           /\ UNCHANGED renderer
  <2>1. SlotOf("update") = DrawSlot
    BY DEF SlotOf
  <2>2. /\ TasksFit'
        /\ \A w \in Tasks : job[w].stage \in Inside \/ job'[w].stage \in Inside => job'[w] = job[w]
        /\ \A w \in Tasks \ {t} : job'[w] = job[w]
        /\ Unserved(t)'
    BY <1>1, <1>4, <2>1, SlotsOfPanel, DebounceShows
  <2>3. Leaves
    BY <1>1, <1>4, <2>2, LeavesAll
  <2>4. UpdatesAreDue'
    BY <2>2 DEF UpdatesAreDue, Told
  <2>5. ~Due(t)
    BY <1>1, <1>4, StartsIdle
  <2>6. Accounted
    BY <1>1, <2>2, <2>5, StillAccounted
  <2> QED BY <2>2, <2>3, <2>4, <2>6, OutsideShows
<1> QED BY <1>2, <1>3, <1>4

LEMMA EventsShow ==
  ASSUME PanelInv, DebounceTypeOK, ShownInv, Pause \/ Hide \/ ClientError \/ Update
  PROVE  ShownInv'
<1>1. UNCHANGED <<job, shown, lapses, debounceVars>> /\ Shapes /\ TasksFit /\ UpdatesAreDue
  BY DEF Pause, Hide, ClientError, Update, PanelInv, ShownInv
<1>2. /\ job' = job /\ call' = call /\ slot' = slot
      /\ DOMAIN session = DOMAIN NewSession /\ DOMAIN renderer = DOMAIN NewRenderer
  BY <1>1 DEF debounceVars, Shapes
<1>3. /\ \A w \in Tasks : job[w].stage \in Inside \/ job'[w].stage \in Inside => job'[w] = job[w]
      /\ \A w \in Tasks : (Unserved(w) => Unserved(w)') /\ (Activates(w) => Activates(w)')
  BY <1>2 DEF Unserved, Activates
<1>4. session'.ejected = session.ejected => TasksFit'
  BY <1>1, <1>2, FitsAll
<1>5. CASE Pause \/ ClientError
  <2>1. /\ session'.ejected = session.ejected /\ session'.table = session.table /\ session'.build = session.build
        /\ session'.views = session.views /\ session'.sub = NoView
        /\ session'.paused \/ session'.error
        /\ renderer' = renderer
    BY <1>2, <1>5, SessionFields DEF Pause, ClientError
  <2>2. Leaves
    BY <1>1, <1>3, <2>1, LeavesBound
  <2>3. Accounted /\ UpdatesAreDue'
    BY <2>1, NothingOwed DEF Accounted, Wants
  <2> QED BY <1>4, <2>1, <2>2, <2>3, OutsideShows
<1>6. CASE Hide
  <2>1. /\ renderer'.active = renderer.active /\ renderer'.cached = renderer.cached
        /\ renderer'.drawn = renderer.drawn /\ renderer'.plugin = renderer.plugin
        /\ renderer'.stale = renderer.stale /\ renderer'.hidden
        /\ UNCHANGED <<session, views, told, version>>
    BY <1>2, <1>6, RendererFields DEF Hide, server
  <2>2. Leaves
    BY <1>1, <1>3, <2>1, LeavesBound
  <2>3. Accounted
    BY <1>1, <1>2, <2>1 DEF Accounted, NobodyDue, Due
  <2>4. UpdatesAreDue'
    BY <1>1, <1>3, <2>1, <2>2, OutsideOwes
  <2> QED BY <1>4, <2>1, <2>2, <2>3, <2>4, OutsideShows
<1>7. CASE Update
  <2>1. /\ UNCHANGED <<session, renderer, views>>
        /\ told' = views \ {job[t].view : t \in {u \in Tasks : job[u].stage = "subscribe"}}
    BY <1>7 DEF Update
  <2>2. Leaves
    BY <1>1, <1>3, <2>1, LeavesAll
  <2>3. Accounted
    BY <1>1, <1>2, <2>1 DEF Accounted, NobodyDue, Due
  <2>4. UpdatesAreDue'
    <3> SUFFICES ASSUME session.sub # NoView PROVE Told'
      BY <2>1 DEF UpdatesAreDue, MayLag
    <3>1. session.sub \in views /\ session.sub.id \in Nat
      BY DEF ShownInv, Fine
    <3>2. \A t \in Tasks : job[t].stage = "subscribe" => job[t].view # session.sub
      BY <3>1 DEF ShownInv, Meant
    <3>3. session'.sub \in told'
      BY <2>1, <3>1, <3>2
    <3> QED BY <3>3 DEF Told
  <2> QED BY <1>4, <2>1, <2>2, <2>3, <2>4, OutsideShows
<1> QED BY <1>5, <1>6, <1>7

----------------------------------------------------------------------------
LEMMA ShownInit == PanelInit => ShownInv
<1> SUFFICES ASSUME PanelInit PROVE ShownInv
  OBVIOUS
<1>1. /\ job = [t \in Tasks |-> Idle] /\ lapses = {} /\ version = 0 /\ call = [t \in Tasks |-> NoCall]
  BY DEF PanelInit, DebounceInit
<1>2. \A t \in Tasks : job[t].stage = "idle" /\ call[t].at = "idle"
  BY <1>1, JobFields DEF NoCall
<1>3. TasksFit
  BY <1>2 DEF TasksFit, Fits, Snapped
<1>4. \A t \in Tasks : Meant(job[t], session, renderer)
  BY <1>2 DEF Meant
<1>5. (\A t \in Tasks : job[t].stage \notin Snapped) /\ NobodyDraws
  BY <1>2 DEF Snapped, NobodyDraws
<1>6. CASE session = NewSession /\ renderer = NewRenderer /\ views = {}
  <2>1. /\ session.sub = NoView /\ session.views = 0 /\ session.table = NoTable /\ NoView.id = 0
    BY <1>6 DEF NewSession, NoView
  <2>2. Fine(session, renderer, views)
    BY <2>1 DEF Fine
  <2>3. ~Wants(session, lapses)
    BY <2>1 DEF Wants
  <2>4. Current /\ FrameIsBuild /\ UpdatesAreDue
    BY <2>1, <2>3 DEF Current, FrameIsBuild, ShowsBuild, UpdatesAreDue, MayLag
  <2> QED BY <1>3, <1>4, <2>2, <2>4 DEF ShownInv
<1>7. ASSUME NEW table, NEW config, NEW v, Config(config), config.q = 0, config.needs = AnyTable,
             config.face = 0, config.filter = 0,
             v = [id |-> 1, table |-> table, config |-> config],
             session = [NewSession EXCEPT !.table = table, !.meta = table, !.loads = 1, !.views = 1,
                                          !.sub = v, !.build = config],
             renderer = [NewRenderer EXCEPT !.plugin = DefaultPlugin, !.drawn = TRUE,
                                            !.cached = [view |-> v, config |-> config]],
             shown = [plugin |-> DefaultPlugin, table |-> table, data |-> 0, config |-> config],
             views = {v}, table # NoTable
      PROVE  ShownInv
  <2>1. /\ session.sub = v /\ session.build = config /\ session.views = 1 /\ session.table = table
        /\ session.config = Default /\ session.filter = 0
    BY <1>7, SessionFields DEF NewSession
  <2>2. renderer.cached = [view |-> v, config |-> config] /\ renderer.drawn /\ renderer.plugin = DefaultPlugin
    BY <1>7, RendererFields
  <2>3. v.id = 1 /\ v.table = table /\ v.config = config
    BY <1>7
  <2>4. v # NoView
    <3>1. "table" \in DOMAIN v /\ "table" \notin DOMAIN NoView
      BY <1>7 DEF NoView
    <3> QED BY <3>1
  <2>5. Fine(session, renderer, views)
    BY <1>7, <2>1, <2>2, <2>3 DEF Fine, Context
  <2>6. BindsQuery(session)
    <3>1. config = [q |-> 0, needs |-> AnyTable, face |-> 0, filter |-> 0]
      BY <1>7 DEF Config
    <3>2. Query(session) = [q |-> 0, needs |-> AnyTable, face |-> 0, filter |-> 0]
      BY <2>1 DEF Query, Default
    <3> QED BY <2>1, <2>4, <3>1, <3>2 DEF BindsQuery
  <2>7. Current
    BY <1>5, <2>2, <2>6 DEF Current
  <2>8. shown = [plugin |-> renderer.plugin, table |-> session.sub.table, config |-> session.build, data |-> shown.data]
    BY <1>7, <2>1, <2>2, <2>3
  <2>9. FrameIsBuild
    BY <2>8 DEF FrameIsBuild, ShowsBuild
  <2>10. shown.data = version
    BY <1>1, <1>7
  <2>11. UpdatesAreDue
    BY <2>10 DEF UpdatesAreDue, Told
  <2> QED BY <1>3, <1>4, <2>5, <2>7, <2>9, <2>11 DEF ShownInv
<1> DEFINE first == CHOOSE any \in Tables : TRUE
           plain == [q |-> 0, needs |-> AnyTable, face |-> 0, filter |-> 0]
           view == [id |-> 1, table |-> first, config |-> plain]
<1>8. CASE /\ session = [NewSession EXCEPT !.table = first, !.meta = first, !.loads = 1, !.views = 1,
                                          !.sub = view, !.build = plain]
           /\ renderer = [NewRenderer EXCEPT !.plugin = DefaultPlugin, !.drawn = TRUE,
                                            !.cached = [view |-> view, config |-> plain]]
           /\ shown = [plugin |-> DefaultPlugin, table |-> first, data |-> 0, config |-> plain]
           /\ views = {view}
  <2>1. /\ view = [id |-> 1, table |-> first, config |-> plain] /\ Config(plain)
        /\ plain.q = 0 /\ plain.needs = AnyTable /\ plain.face = 0 /\ plain.filter = 0
    BY DEF Config
  <2>2. first # NoTable
    BY PanelAssumption
  <2> HIDE DEF view, first, plain
  <2> QED BY <1>7, <1>8, <2>1, <2>2
<1> QED BY <1>6, <1>8 DEF PanelInit

LEMMA ShownStep == PanelIInv /\ ShownInv /\ [PanelNext]_panelVars => ShownInv'
<1> SUFFICES ASSUME PanelIInv, ShownInv, [PanelNext]_panelVars PROVE ShownInv'
  OBVIOUS
<1>1. DebounceInv /\ OneRuns /\ PanelInv /\ DebounceTypeOK
  BY DEF PanelIInv, DebounceInv
<1>2. ASSUME NEW t \in Tasks, Starting(t)
      PROVE  ShownInv'
  BY <1>1, <1>2, BeginShows, BeginLoadShows, BeginActivationShows, BeginUpdateShows, BeginGeometryShows,
     BeginSuspendShows, BeginEjectShows DEF Starting
<1>3. ASSUME NEW t \in Tasks, TaskStep(t)
      PROVE  ShownInv'
  <2>1. CASE Locked(t)
    BY <1>1, <2>1, OpenShows, DecideShows, MakeViewShows, SubscribeShows, DrawShows, PayloadIsTableShows,
       PayloadIsOtherShows DEF Locked
  <2>2. CASE Take(t) \/ RestoreCommit(t) \/ Sweep(t) \/ Coalesced(t)
    BY <1>1, <2>2, TakeShows, RestoreCommitShows, SweepShows, CoalescedShows
  <2> QED BY <1>3, <2>1, <2>2 DEF TaskStep
<1>4. ASSUME NEW t \in Tasks, Operation(t)
      PROVE  ShownInv'
  <2>1. CASE Apply(t) \/ ApplyGlobalFilters(t) \/ Restore(t) \/ Load(t)
    BY <1>1, <2>1, ApplyShows, ApplyGlobalFiltersShows, RestoreShows, LoadShows
  <2>2. CASE ResetAll(t) \/ ResetError(t) \/ Resume(t) \/ Activate(t)
    BY <1>1, <2>2, ResetAllShows, ResetErrorShows, ResumeShows, ActivateShows
  <2>3. CASE Resize(t) \/ Eject(t) \/ HostedChange(t)
    BY <1>1, <2>3, ResizeShows, EjectShows, HostedChangeShows
  <2> QED BY <1>4, <2>1, <2>2, <2>3 DEF Operation
<1>5. CASE PanelNext
  <2>1. CASE \E t \in Tasks : Polled(t) /\ (Starting(t) \/ Returns(t))
    BY <1>1, <1>2, <2>1, ReturnsShows
  <2>2. CASE \E t \in Tasks : Operation(t) \/ TaskStep(t) \/ TableUpdated(t)
    BY <1>1, <1>3, <1>4, <2>2, TableUpdatedShows
  <2>3. CASE Pause \/ Hide \/ ClientError \/ Update
    BY <1>1, <2>3, EventsShow
  <2> QED BY <1>5, <2>1, <2>2, <2>3 DEF PanelNext
<1>6. CASE UNCHANGED panelVars
  <2>1. UNCHANGED <<session, renderer, job, views, told, version, shown, lapses, call, slot>>
    BY <1>6 DEF panelVars, debounceVars
  <2>2. TasksFit'
    BY <2>1, FitsAll DEF ShownInv
  <2>3. Leaves
    BY <2>1, LeavesAll
  <2>4. Accounted
    BY <2>1 DEF Accounted, NobodyDue, Due
  <2>5. UpdatesAreDue'
    <3>1. \A u \in Tasks : (Unserved(u) => Unserved(u)') /\ (Activates(u) => Activates(u)')
      BY <2>1 DEF Unserved, Activates
    <3> QED BY <2>1, <2>3, <3>1, OutsideOwes DEF ShownInv
  <2> QED BY <2>2, <2>3, <2>4, <2>5, OutsideShows
<1> QED BY <1>5, <1>6


\* What a panel has bound, pinned and drawn, and what its tasks still owe it,
\* through every interleaving of runs, notices, commits and lazy activations.
THEOREM ShownInvariant == PanelSpec => [](PanelIInv /\ ShownInv)
<1>1. PanelInit => PanelIInv /\ ShownInv
  BY PanelInitInv, ShownInit
<1>2. (PanelIInv /\ ShownInv) /\ [PanelNext]_panelVars => (PanelIInv /\ ShownInv)'
  BY PanelStepInv, ShownStep
<1> QED BY <1>1, <1>2, PTL DEF PanelSpec

LEMMA ShowsAtRest == PanelIInv /\ ShownInv => FinalRenderIsFinalCommit /\ UpdatesAreShown
<1>1. PanelIInv => Shapes
  BY DEF PanelIInv, PanelInv
<1> QED BY <1>1, ShownAtRest

\* Once every task of a panel on the screen has ended, the frame is of its
\* Table, its plugin and its last commit, unless a commit was left undrawn in
\* one of the ways of lapses (pipeline.rs:24), for any Tables, plugins, tasks
\* and number of operations.
THEOREM FinalRendersAreFinal == PanelSpec => []FinalRenderIsFinalCommit
  BY ShownInvariant, ShowsAtRest, PTL

\* ... and of the last update of its Table, or the panel is hidden and will draw
\* it when it is activated (wire_panel_render_sub).
THEOREM UpdatesStayShown == PanelSpec => []UpdatesAreShown
  BY ShownInvariant, ShowsAtRest, PTL
=============================================================================
