------------------------ MODULE VirtualServer_proofs ------------------------
(***************************************************************************)
(* Proofs about the virtual server: what it keeps of its views, what its   *)
(* store holds and what its clients were told agree, so that every request *)
(* about a living view is answered.                                        *)
(***************************************************************************)
EXTENDS VirtualServer, TLAPS

(***************************************************************************)
(* The maps of a server: an array of slots, of which the first are in use. *)
(***************************************************************************)

\* The slots in use hold different views; those behind them may hold anything.
IsMap(m) ==
    /\ m.len \in Nat /\ m.slots \in Seq(Views \union {Freed}) /\ m.len <= Len(m.slots)
    /\ \A i \in 1 .. m.len : m.slots[i] \in Views
    /\ \A i, j \in 1 .. m.len : m.slots[i] = m.slots[j] => i = j

(* Inserting a view adds its key and no other (IndexMap::insert).          *)
LEMMA InsertKeys ==
    ASSUME NEW m, IsMap(m), NEW v \in Views
    PROVE  IsMap(Insert(m, v)) /\ Keys(Insert(m, v)) = Keys(m) \union {v}
<1>1. CASE v \in Keys(m)
  BY <1>1 DEF Insert
<1>2. CASE v \notin Keys(m)
  <2> DEFINE before == SubSeq(m.slots, 1, m.len)
             behind == SubSeq(m.slots, m.len + 2, Len(m.slots))
             slots == before \o <<v>> \o behind
  <2>1. /\ m.len \in Nat /\ m.slots \in Seq(Views \union {Freed}) /\ m.len <= Len(m.slots)
        /\ \A i \in 1 .. m.len : m.slots[i] \in Views
        /\ \A i, j \in 1 .. m.len : m.slots[i] = m.slots[j] => i = j
    BY DEF IsMap
  <2>2. before \in Seq(Views \union {Freed}) /\ Len(before) = m.len
        /\ \A i \in 1 .. m.len : before[i] = m.slots[i]
    BY <2>1
  <2>3. behind \in Seq(Views \union {Freed})
    BY <2>1
  <2>4. <<v>> \in Seq(Views \union {Freed}) /\ Len(<<v>>) = 1 /\ <<v>>[1] = v
    OBVIOUS
  <2> HIDE DEF before, behind
  <2>5. before \o <<v>> \in Seq(Views \union {Freed}) /\ Len(before \o <<v>>) = m.len + 1
        /\ (before \o <<v>>)[m.len + 1] = v
        /\ \A i \in 1 .. m.len : (before \o <<v>>)[i] = m.slots[i]
    BY <2>1, <2>2, <2>4
  <2>6. slots \in Seq(Views \union {Freed}) /\ m.len + 1 <= Len(slots)
        /\ \A i \in 1 .. m.len + 1 : slots[i] = (before \o <<v>>)[i]
    BY <2>1, <2>3, <2>5
  <2> HIDE DEF slots
  <2>7. Insert(m, v) = [len |-> m.len + 1, slots |-> slots]
    BY <1>2 DEF Insert, slots, before, behind
  <2>8. slots[m.len + 1] = v /\ \A i \in 1 .. m.len : slots[i] = m.slots[i]
    <3>1. m.len + 1 \in 1 .. m.len + 1 /\ \A i \in 1 .. m.len : i \in 1 .. m.len + 1
      BY <2>1
    <3> QED
      BY <2>5, <2>6, <3>1
  <2>9. \A i \in 1 .. m.len : slots[i] # v
    BY <1>2, <2>8 DEF Keys
  <2>10. /\ \A i \in 1 .. m.len + 1 : slots[i] \in Views
         /\ \A i, j \in 1 .. m.len + 1 : slots[i] = slots[j] => i = j
    <3>1. \A i \in 1 .. m.len + 1 : i \in 1 .. m.len \/ i = m.len + 1
      BY <2>1
    <3> QED
      BY <2>1, <2>8, <2>9, <3>1
  <2>11. IsMap(Insert(m, v))
    BY <2>1, <2>6, <2>7, <2>10 DEF IsMap
  <2>12. Keys(Insert(m, v)) = {slots[i] : i \in 1 .. m.len + 1}
    BY <2>7 DEF Keys
  <2>13. {slots[i] : i \in 1 .. m.len + 1} = {m.slots[i] : i \in 1 .. m.len} \union {v}
    <3>1. \A i \in 1 .. m.len + 1 : i \in 1 .. m.len \/ i = m.len + 1
      BY <2>1
    <3>2. m.len + 1 \in 1 .. m.len + 1 /\ \A i \in 1 .. m.len : i \in 1 .. m.len + 1
      BY <2>1
    <3> QED
      BY <2>8, <3>1, <3>2
  <2> QED
    BY <2>11, <2>12, <2>13 DEF Keys
<1> QED
  BY <1>1, <1>2

(* Removing a view takes its key and no other, although the slots of the   *)
(* views behind it move (IndexMap::shift_remove).                          *)
LEMMA RemoveKeys ==
    ASSUME NEW m, IsMap(m), NEW v \in Views
    PROVE  IsMap(Remove(m, v)) /\ Keys(Remove(m, v)) = Keys(m) \ {v}
<1>1. CASE v \notin Keys(m)
  BY <1>1 DEF Remove
<1>2. CASE v \in Keys(m)
  <2> DEFINE k == SlotOf(m, v)
             slots == [i \in DOMAIN m.slots |-> IF i \in k .. m.len - 1 THEN m.slots[i + 1]
                                                ELSE IF m.slots[i] = v THEN Freed ELSE m.slots[i]]
  <2>1. /\ m.len \in Nat /\ m.slots \in Seq(Views \union {Freed}) /\ m.len <= Len(m.slots)
        /\ \A i \in 1 .. m.len : m.slots[i] \in Views
        /\ \A i, j \in 1 .. m.len : m.slots[i] = m.slots[j] => i = j
    BY DEF IsMap
  <2>2. k \in 1 .. m.len /\ m.slots[k] = v
    BY <1>2 DEF SlotOf, Keys
  <2>3. Remove(m, v) = [len |-> m.len - 1, slots |-> slots]
    BY <1>2 DEF Remove
  <2> HIDE DEF k
  <2>4. DOMAIN m.slots = 1 .. Len(m.slots) /\ Len(m.slots) \in Nat
        /\ \A i \in 1 .. Len(m.slots) : m.slots[i] \in Views \union {Freed}
    BY <2>1
  <2>5. \A i \in 1 .. Len(m.slots) : slots[i] \in Views \union {Freed}
    BY <2>1, <2>2, <2>4
  <2>6. /\ \A i \in 1 .. k - 1 : slots[i] = m.slots[i]
        /\ \A i \in k .. m.len - 1 : slots[i] = m.slots[i + 1]
    BY <2>1, <2>2, <2>4
  <2>7. slots \in Seq(Views \union {Freed}) /\ Len(slots) = Len(m.slots)
    <3>1. slots \in [1 .. Len(m.slots) -> Views \union {Freed}]
      BY <2>4, <2>5
    <3> HIDE DEF slots
    <3> QED
      BY <2>4, <3>1
  <2> HIDE DEF slots
  <2>8. /\ \A i \in 1 .. m.len - 1 : slots[i] \in Views
        /\ \A i, j \in 1 .. m.len - 1 : slots[i] = slots[j] => i = j
    <3> DEFINE from(i) == IF i < k THEN i ELSE i + 1
    <3>1. \A i \in 1 .. m.len - 1 : from(i) \in 1 .. m.len /\ slots[i] = m.slots[from(i)]
      <4>1. \A i \in 1 .. m.len - 1 : i < k => i \in 1 .. k - 1 /\ i \in 1 .. m.len
        BY <2>1, <2>2
      <4>2. \A i \in 1 .. m.len - 1 : ~(i < k) => i \in k .. m.len - 1 /\ i + 1 \in 1 .. m.len
        BY <2>1, <2>2
      <4> QED
        BY <2>6, <4>1, <4>2
    <3>2. \A i, j \in 1 .. m.len - 1 : from(i) = from(j) => i = j
      BY <2>1, <2>2
    <3> HIDE DEF from
    <3> QED
      BY <2>1, <3>1, <3>2
  <2>9. IsMap(Remove(m, v))
    BY <2>1, <2>2, <2>3, <2>7, <2>8 DEF IsMap
  <2>10. Keys(Remove(m, v)) = {slots[i] : i \in 1 .. m.len - 1}
    BY <2>3 DEF Keys
  <2>11. ASSUME NEW i \in 1 .. m.len - 1 PROVE slots[i] \in Keys(m) \ {v}
    <3>1. PICK j \in 1 .. m.len : slots[i] = m.slots[j] /\ j # k
      <4>1. CASE i < k
        <5>1. i \in 1 .. k - 1 /\ i \in 1 .. m.len /\ i # k
          BY <2>1, <2>2, <4>1
        <5> QED
          BY <2>6, <5>1
      <4>2. CASE ~(i < k)
        <5>1. i \in k .. m.len - 1 /\ i + 1 \in 1 .. m.len /\ i + 1 # k
          BY <2>1, <2>2, <4>2
        <5> QED
          BY <2>6, <5>1
      <4> QED
        BY <4>1, <4>2
    <3>2. m.slots[j] # v
      BY <2>1, <2>2, <3>1
    <3> QED
      BY <3>1, <3>2 DEF Keys
  <2>12. ASSUME NEW w \in Keys(m) \ {v} PROVE \E i \in 1 .. m.len - 1 : slots[i] = w
    <3>1. PICK j \in 1 .. m.len : m.slots[j] = w
      BY DEF Keys
    <3>2. j # k
      BY <2>2, <3>1
    <3>3. CASE j < k
      <4>1. j \in 1 .. m.len - 1 /\ slots[j] = w
        BY <2>1, <2>2, <2>6, <3>1, <3>3
      <4> QED
        BY <4>1
    <3>4. CASE j > k
      <4>1. j - 1 \in 1 .. m.len - 1 /\ slots[j - 1] = w
        BY <2>1, <2>2, <2>6, <3>1, <3>4
      <4> QED
        BY <4>1
    <3> QED
      BY <2>1, <2>2, <3>2, <3>3, <3>4
  <2>13. Keys(Remove(m, v)) = Keys(m) \ {v}
    <3> HIDE DEF slots
    <3>1. \A w \in Keys(Remove(m, v)) : w \in Keys(m) \ {v}
      BY <2>10, <2>11
    <3>2. \A w \in Keys(m) \ {v} : w \in Keys(Remove(m, v))
      BY <2>10, <2>12
    <3> QED
      BY <3>1, <3>2
  <2> QED
    BY <2>9, <2>13
<1> QED
  BY <1>1, <1>2
-----------------------------------------------------------------------------
(***************************************************************************)
(* The invariant.  The store and view_configs change in the same step, and *)
(* a client uses a view only between the answer that it was made and its   *)
(* own request to delete it.                                               *)
(***************************************************************************)

\* A request waits for one of the calls of its arm.
IsRequest(r) ==
    /\ r.kind \in RequestKinds /\ r.view \in Views
    /\ r.step \in 1 .. Len(CallsOf(r.kind))
    /\ DOMAIN r = {"kind", "view", "step", "saw", "slot"}

VirtualTypeOK ==
    /\ host \in Hosts /\ IsMap(tables) /\ IsMap(configs)
    /\ store \subseteq Views /\ schemas \subseteq Views
    /\ \A r \in pending : IsRequest(r)
    /\ client \in [asked : SUBSET Views, made : SUBSET Views, deleted : SUBSET Views]
    /\ silent \subseteq Views /\ misread \subseteq Views
    /\ requests \in Nat /\ failures \in Nat

\* view_configs is what the store holds; who asks for a view was told of it;
\* a view that was made and not deleted is there; nobody else got no answer.
StoreInv ==
    /\ VirtualTypeOK
    /\ Keys(configs) = store
    /\ \A r \in pending : r.kind \in OfView => r.view \in client.made
    /\ client.made \ client.deleted \subseteq Keys(configs)
    /\ silent \subseteq client.deleted

-----------------------------------------------------------------------------
(* The calls of the arms, as facts: none but the arms that make a view     *)
(* call makeView, and they call it last; none but delete calls viewDelete. *)
LEMMA MakingCalls ==
    ASSUME NEW kind \in Makes
    PROVE  /\ Len(CallsOf(kind)) \in {1, 2} /\ kind # "delete" /\ kind \notin OfView
           /\ \A i \in 1 .. Len(CallsOf(kind)) :
                 (CallsOf(kind)[i] = "makeView") = (i = Len(CallsOf(kind)))
                 /\ CallsOf(kind)[i] \notin {"viewDelete", "validate"}
<1>1. CASE kind = "makeView"
  BY <1>1 DEF CallsOf, MakeViewCalls, OfView
<1>2. CASE kind = "makeWindows"
  BY <1>2 DEF CallsOf, MakeWindowsCalls, OfView
<1> QED
  BY <1>1, <1>2 DEF Makes

LEMMA DeletingCalls ==
    Len(CallsOf("delete")) = 1 /\ CallsOf("delete")[1] = "viewDelete" /\ "delete" \in OfView /\ "delete" \notin Makes
    /\ Unwraps("delete") = {}
BY DEF CallsOf, DeleteCalls, OfView, Makes, Unwraps

LEMMA OtherCalls ==
    ASSUME NEW kind \in RequestKinds, kind \notin Makes, kind # "delete"
    PROVE  /\ Len(CallsOf(kind)) \in Nat
           /\ \A i \in 1 .. Len(CallsOf(kind)) : CallsOf(kind)[i] \notin {"makeView", "viewDelete"}
<1>1. kind \in {"dimensions", "viewExpressions", "viewSchema", "data", "paths", "config", "minMax"} \union OfTable
  BY RequestsAssumption DEF OfView
<1>2. CASE kind = "dimensions"
  BY <1>2 DEF CallsOf, DimensionsCalls
<1>3. CASE kind \in {"viewExpressions", "expressions"}
  BY <1>3 DEF CallsOf, ExpressionCalls
<1>4. CASE kind = "viewSchema"
  BY <1>4 DEF CallsOf, SchemaCalls
<1>5. CASE kind = "data"
  BY <1>5 DEF CallsOf, DataCalls
<1>6. CASE kind = "paths"
  BY <1>6 DEF CallsOf, PathsCalls
<1>7. CASE kind = "minMax"
  BY <1>7 DEF CallsOf, MinMaxCalls
<1>8. CASE kind = "config"
  BY <1>8 DEF CallsOf
<1>9. CASE kind \in OfTable \ {"expressions"}
  <2>1. CallsOf(kind) = <<kind>>
    BY <1>9 DEF CallsOf, OfTable
  <2>2. kind \notin {"makeView", "viewDelete"}
    BY <1>9 DEF OfTable
  <2> QED
    BY <2>1, <2>2
<1> QED
  BY <1>1, <1>2, <1>3, <1>4, <1>5, <1>6, <1>7, <1>8, <1>9

(* The request of a kind has a number of calls, whatever its kind.         *)
LEMMA CallsAreCounted == \A kind \in RequestKinds : Len(CallsOf(kind)) \in Nat
BY MakingCalls, DeletingCalls, OtherCalls

(* Only requests about a view unwrap the entry of one.                     *)
LEMMA UnwrappingIsOfViews ==
    ASSUME NEW kind, Unwraps(kind) # {}
    PROVE  kind \in OfView \ {"delete"} /\ kind \notin Makes
BY DEF Unwraps, OfView, Makes
-----------------------------------------------------------------------------
(* What Proceed leaves, for a request that goes on at step next with the   *)
(* configs cs: the facts of the invariant that do not depend on the maps.  *)

\* What a request may count on when it goes on: it is about a view that its
\* client was told of, and the view is made or deleted if it ends with that.
MayProceed(r, next, cs) ==
    /\ r.kind \in RequestKinds /\ r.view \in Views
    /\ next = [r EXCEPT !.step = next.step] /\ next.step \in Nat \ {0}
    /\ DOMAIN r = {"kind", "view", "step", "saw", "slot"}
    /\ r.kind \in OfView => r.view \in client.made
    /\ Ends(next) /\ r.kind \in Makes => r.view \in Keys(cs)

LEMMA Proceeding ==
    ASSUME StoreInv, NEW r, NEW next, NEW ts, NEW cs, MayProceed(r, next, cs),
           Proceed(r, next, ts, cs),
           client.made \ (client.deleted \union {v \in {r.view} : r.kind = "delete" /\ Ends(next)}) \subseteq Keys(cs)
    PROVE  /\ client' \in [asked : SUBSET Views, made : SUBSET Views, deleted : SUBSET Views]
           /\ \A q \in pending' : IsRequest(q) /\ (q.kind \in OfView => q.view \in client'.made)
           /\ client'.made \ client'.deleted \subseteq Keys(cs)
           /\ silent' \subseteq client'.deleted
           /\ misread' \subseteq Views
<1>1. /\ client \in [asked : SUBSET Views, made : SUBSET Views, deleted : SUBSET Views]
      /\ \A q \in pending : IsRequest(q) /\ (q.kind \in OfView => q.view \in client.made)
      /\ silent \subseteq client.deleted /\ misread \subseteq Views
  BY DEF StoreInv, VirtualTypeOK
<1>2. /\ r.kind \in RequestKinds /\ r.view \in Views /\ next.step \in Nat \ {0}
      /\ DOMAIN r = {"kind", "view", "step", "saw", "slot"}
      /\ r.kind \in OfView => r.view \in client.made
      /\ Ends(next) /\ r.kind \in Makes => r.view \in Keys(cs)
  BY DEF MayProceed
<1>3. next.kind = r.kind /\ next.view = r.view /\ DOMAIN next = DOMAIN r
  BY <1>2 DEF MayProceed
<1> DEFINE panics == next.step \in Unwraps(r.kind) /\ r.view \notin Keys(cs)
<1>4. /\ misread' \in {misread, misread \union {r.view}}
      /\ silent' = IF panics THEN silent \union {r.view} ELSE silent
      /\ pending' = (pending \ {r}) \union
                      (IF panics \/ Ends(next) THEN {} ELSE {[next EXCEPT !.saw = Reads(next, ts, cs)]})
      /\ client' = IF panics \/ ~Ends(next) THEN client
                   ELSE IF r.kind \in Makes THEN [client EXCEPT !.made = @ \union {r.view}]
                   ELSE IF r.kind = "delete" THEN [client EXCEPT !.deleted = @ \union {r.view}]
                   ELSE client
  BY DEF Proceed
<1>5. client' \in [asked : SUBSET Views, made : SUBSET Views, deleted : SUBSET Views]
  BY <1>1, <1>2, <1>4
<1>6. client.made \subseteq client'.made /\ client.deleted \subseteq client'.deleted
  BY <1>1, <1>4
<1>7. panics => r.kind \in OfView \ {"delete"} /\ client' = client
  BY <1>4, UnwrappingIsOfViews
<1>8. client'.made \ client'.deleted \subseteq Keys(cs)
  <2>1. CASE panics \/ ~Ends(next)
    BY <1>4, <1>7, <2>1
  <2>2. CASE ~panics /\ Ends(next) /\ r.kind \in Makes
    <3>1. client'.made = client.made \union {r.view} /\ client'.deleted = client.deleted /\ r.kind # "delete"
      BY <1>1, <1>4, <2>2, MakingCalls
    <3> QED
      BY <1>2, <2>2, <3>1
  <2>3. CASE ~panics /\ Ends(next) /\ r.kind = "delete"
    <3>1. client'.made = client.made /\ client'.deleted = client.deleted \union {r.view}
      BY <1>1, <1>4, <2>3, DeletingCalls
    <3> QED
      BY <2>3, <3>1
  <2>4. CASE ~panics /\ Ends(next) /\ r.kind \notin Makes /\ r.kind # "delete"
    BY <1>4, <2>4
  <2> QED
    BY <2>1, <2>2, <2>3, <2>4
<1>9. silent' \subseteq client'.deleted
  <2>1. CASE panics
    <3>1. r.view \in client.made /\ r.view \notin Keys(cs) /\ r.kind # "delete"
      BY <1>2, <1>7, <2>1
    <3>2. r.view \in client.deleted
      BY <3>1
    <3> QED
      BY <1>1, <1>4, <1>6, <2>1, <3>2
  <2>2. CASE ~panics
    BY <1>1, <1>4, <1>6, <2>2
  <2> QED
    BY <2>1, <2>2
<1>10. \A q \in pending' : IsRequest(q) /\ (q.kind \in OfView => q.view \in client'.made)
  <2> DEFINE left == [next EXCEPT !.saw = Reads(next, ts, cs)]
  <2>1. left.kind = r.kind /\ left.view = r.view /\ left.step = next.step /\ DOMAIN left = DOMAIN r
    BY <1>2, <1>3
  <2> HIDE DEF left
  <2>2. ~Ends(next) => IsRequest(left)
    BY <1>2, <1>3, <2>1, CallsAreCounted DEF IsRequest, Ends
  <2>3. pending' \subseteq pending \union {left} /\ (left \in pending' => left \in pending \/ ~Ends(next))
    BY <1>4 DEF left
  <2> QED
    BY <1>1, <1>2, <1>6, <2>1, <2>2, <2>3
<1> QED
  BY <1>1, <1>2, <1>4, <1>5, <1>8, <1>9, <1>10
-----------------------------------------------------------------------------
(* The steps.                                                              *)

LEMMA StoreInit == VirtualInit => StoreInv
<1> SUFFICES ASSUME VirtualInit PROVE StoreInv
  OBVIOUS
<1>1. IsMap(NoEntries) /\ Keys(NoEntries) = {}
  BY DEF IsMap, NoEntries, Keys
<1> HIDE DEF NoEntries
<1> QED
  BY <1>1 DEF VirtualInit, StoreInv, VirtualTypeOK

\* A message arrives.
LEMMA StoreRequested ==
    ASSUME StoreInv, NEW kind \in RequestKinds, NEW v \in Views, HandleRequest(kind, v)
    PROVE  StoreInv'
<1> DEFINE r == NewRequest(kind, v)
<1>1. /\ VirtualTypeOK /\ Keys(configs) = store
      /\ \A q \in pending : q.kind \in OfView => q.view \in client.made
      /\ client.made \ client.deleted \subseteq Keys(configs)
      /\ silent \subseteq client.deleted
  BY DEF StoreInv
<1>2. r.kind = kind /\ r.view = v /\ r.step \in {1, 2} /\ DOMAIN r = {"kind", "view", "step", "saw", "slot"}
      /\ (kind \in Makes => r.step = 1)
  <2>1. FirstStep(kind, v) \in {1, 2} /\ (kind \in Makes => FirstStep(kind, v) = 1)
    BY DEF FirstStep, Makes
  <2> QED
    BY <2>1 DEF NewRequest
<1>3. /\ requests' \in Nat /\ host' = host /\ configs' = configs /\ schemas' = schemas /\ store' = store
      /\ failures' = failures
  BY <1>1 DEF HandleRequest, VirtualTypeOK
<1>4. IsMap(tables')
  BY <1>1, InsertKeys DEF HandleRequest, VirtualTypeOK
<1>5. IsMap(configs') /\ Keys(configs') = store'
  BY <1>1, <1>3 DEF VirtualTypeOK
<1> HIDE DEF r
<1>6. CASE kind \in Makes
  <2>1. /\ client' = [client EXCEPT !.asked = @ \union {v}] /\ pending' = pending \union {r}
        /\ silent' = silent /\ misread' = misread
    BY <1>6 DEF HandleRequest, r
  <2>2. IsRequest(r) /\ r.kind \notin OfView
    <3>1. Len(CallsOf(kind)) \in {1, 2} /\ kind \notin OfView
      BY <1>6, MakingCalls
    <3> QED
      BY <1>2, <1>6, <3>1 DEF IsRequest
  <2>3. client' \in [asked : SUBSET Views, made : SUBSET Views, deleted : SUBSET Views]
        /\ client'.made = client.made /\ client'.deleted = client.deleted
    BY <1>1, <2>1 DEF VirtualTypeOK
  <2>4. \A q \in pending' : IsRequest(q) /\ (q.kind \in OfView => q.view \in client'.made)
    BY <1>1, <2>1, <2>2, <2>3 DEF VirtualTypeOK
  <2>5. VirtualTypeOK'
    BY <1>1, <1>3, <1>4, <1>5, <2>1, <2>3, <2>4 DEF VirtualTypeOK
  <2> QED
    BY <1>1, <1>3, <1>5, <2>1, <2>3, <2>4, <2>5 DEF StoreInv
<1>7. CASE kind \notin Makes
  <2>1. Proceed(r, r, tables, configs)
    BY <1>7 DEF HandleRequest, r
  <2>2. kind \in OfView => v \in client.made \ client.deleted
    BY <1>7 DEF HandleRequest, MayAsk
  <2>3. kind = "delete" => ~Ends(r)
    <3> SUFFICES ASSUME kind = "delete" PROVE ~Ends(r)
      OBVIOUS
    <3>1. r.step = 1
      BY <1>2 DEF r, NewRequest, FirstStep
    <3> QED
      BY <1>2, <3>1, DeletingCalls DEF Ends
  <2>4. r = [r EXCEPT !.step = r.step]
    BY <1>2 DEF r, NewRequest
  <2>5. MayProceed(r, r, configs)
    BY <1>2, <1>7, <2>2, <2>4 DEF MayProceed
  <2>6. client.made \ (client.deleted \union {w \in {r.view} : r.kind = "delete" /\ Ends(r)}) \subseteq Keys(configs)
    BY <1>1
  <2>7. /\ client' \in [asked : SUBSET Views, made : SUBSET Views, deleted : SUBSET Views]
        /\ \A q \in pending' : IsRequest(q) /\ (q.kind \in OfView => q.view \in client'.made)
        /\ client'.made \ client'.deleted \subseteq Keys(configs)
        /\ silent' \subseteq client'.deleted
        /\ misread' \subseteq Views
    BY <2>1, <2>5, <2>6, Proceeding
  <2>8. VirtualTypeOK'
    BY <1>1, <1>3, <1>4, <1>5, <2>7 DEF VirtualTypeOK
  <2> QED
    BY <1>3, <1>5, <2>7, <2>8 DEF StoreInv
<1> QED
  BY <1>6, <1>7

\* A call of the handler is answered.
LEMMA StoreResponded ==
    ASSUME StoreInv, NEW r \in pending, Respond(r)
    PROVE  StoreInv'
<1> DEFINE next == [r EXCEPT !.step = @ + 1]
<1>1. /\ VirtualTypeOK /\ Keys(configs) = store
      /\ r.kind \in OfView => r.view \in client.made
      /\ client.made \ client.deleted \subseteq Keys(configs)
  BY DEF StoreInv
<1>2. IsRequest(r) /\ IsMap(tables) /\ IsMap(configs) /\ schemas \subseteq Views /\ store \subseteq Views
  BY <1>1 DEF VirtualTypeOK
<1>3. /\ r.kind \in RequestKinds /\ r.view \in Views /\ r.step \in 1 .. Len(CallsOf(r.kind))
      /\ DOMAIN r = {"kind", "view", "step", "saw", "slot"} /\ Len(CallsOf(r.kind)) \in Nat
  BY <1>2, CallsAreCounted DEF IsRequest
<1>4. next.step = r.step + 1 /\ next.kind = r.kind /\ next.view = r.view /\ next = [r EXCEPT !.step = next.step]
  BY <1>3
<1>5. Ends(next) <=> r.step = Len(CallsOf(r.kind))
  BY <1>3, <1>4 DEF Ends
<1> HIDE DEF next
<1>6. /\ tables' = DeletedFrom(tables, r) /\ configs' = DeletedFrom(MadeConfigs(r), r)
      /\ schemas' = CachedSchemas(r) /\ store' = Stored(r)
      /\ Proceed(r, next, tables', configs')
      /\ host' = host /\ requests' = requests /\ failures' = failures
  BY DEF Respond, next
<1>7. IsMap(tables') /\ schemas' \subseteq Views
  BY <1>2, <1>3, <1>6, RemoveKeys DEF DeletedFrom, CachedSchemas
<1>8. /\ IsMap(configs') /\ Keys(configs') = store' /\ store' \subseteq Views
      /\ Ends(next) /\ r.kind \in Makes => r.view \in Keys(configs')
      /\ client.made \ (client.deleted \union {v \in {r.view} : r.kind = "delete" /\ Ends(next)}) \subseteq Keys(configs')
  <2>1. CASE r.kind \in Makes
    <3>1. /\ r.kind # "delete" /\ (Call(r) = "makeView") = (r.step = Len(CallsOf(r.kind)))
          /\ Call(r) # "viewDelete"
      BY <1>3, <2>1, MakingCalls DEF Call
    <3>2. configs' = MadeConfigs(r)
      BY <1>6, <3>1 DEF DeletedFrom
    <3>3. CASE Call(r) = "makeView"
      <4>1. configs' = Insert(configs, r.view) /\ store' = store \union {r.view}
        BY <1>6, <2>1, <3>2, <3>3 DEF MadeConfigs, Stored
      <4>2. IsMap(configs') /\ Keys(configs') = Keys(configs) \union {r.view}
        BY <1>2, <1>3, <4>1, InsertKeys
      <4> QED
        BY <1>1, <1>2, <1>3, <4>1, <4>2
    <3>4. CASE Call(r) # "makeView"
      <4>1. configs' = configs /\ store' = store
        BY <1>6, <3>1, <3>2, <3>4 DEF MadeConfigs, Stored
      <4>2. ~Ends(next)
        BY <1>5, <3>1, <3>4
      <4> QED
        BY <1>1, <1>2, <4>1, <4>2
    <3> QED
      BY <3>3, <3>4
  <2>2. CASE r.kind = "delete"
    <3>1. Call(r) = "viewDelete" /\ r.kind \notin Makes /\ Ends(next)
      <4>1. Len(CallsOf(r.kind)) = 1 /\ CallsOf(r.kind)[1] = "viewDelete" /\ r.kind \notin Makes
        BY <2>2, DeletingCalls
      <4>2. r.step = 1
        BY <1>3, <4>1
      <4> QED
        BY <1>5, <4>1, <4>2 DEF Call
    <3>2. configs' = Remove(configs, r.view) /\ store' = store \ {r.view}
      BY <1>6, <2>2, <3>1 DEF DeletedFrom, MadeConfigs, Stored
    <3>3. IsMap(configs') /\ Keys(configs') = Keys(configs) \ {r.view}
      BY <1>2, <1>3, <3>2, RemoveKeys
    <3> QED
      BY <1>1, <1>2, <2>2, <3>1, <3>2, <3>3
  <2>3. CASE r.kind \notin Makes /\ r.kind # "delete"
    <3>1. Call(r) \notin {"makeView", "viewDelete"}
      BY <1>3, <2>3, OtherCalls DEF Call
    <3>2. configs' = configs /\ store' = store
      BY <1>6, <2>3, <3>1 DEF DeletedFrom, MadeConfigs, Stored
    <3> QED
      BY <1>1, <1>2, <2>3, <3>2
  <2> QED
    BY <2>1, <2>2, <2>3
<1>9. MayProceed(r, next, configs')
  BY <1>1, <1>3, <1>4, <1>8 DEF MayProceed
<1>10. /\ client' \in [asked : SUBSET Views, made : SUBSET Views, deleted : SUBSET Views]
       /\ \A q \in pending' : IsRequest(q) /\ (q.kind \in OfView => q.view \in client'.made)
       /\ client'.made \ client'.deleted \subseteq Keys(configs')
       /\ silent' \subseteq client'.deleted
       /\ misread' \subseteq Views
  BY <1>6, <1>8, <1>9, Proceeding
<1>11. VirtualTypeOK'
  BY <1>1, <1>6, <1>7, <1>8, <1>10 DEF VirtualTypeOK
<1> QED
  BY <1>8, <1>10, <1>11 DEF StoreInv

\* It fails, or is one that the handler cannot answer: the maps stay.
LEMMA StoreRefused ==
    ASSUME StoreInv, NEW r \in pending, Refuse(r) \/ Unimplemented(r)
    PROVE  StoreInv'
<1> DEFINE next == [r EXCEPT !.step = @ + 1]
<1>1. /\ VirtualTypeOK /\ Keys(configs) = store
      /\ \A q \in pending : IsRequest(q) /\ (q.kind \in OfView => q.view \in client.made)
      /\ client.made \ client.deleted \subseteq Keys(configs)
      /\ silent \subseteq client.deleted
  BY DEF StoreInv, VirtualTypeOK
<1>2. /\ host' = host /\ tables' = tables /\ configs' = configs /\ schemas' = schemas /\ store' = store
      /\ requests' = requests /\ failures' \in Nat
  BY <1>1 DEF Refuse, Unimplemented, VirtualTypeOK
<1>3. CASE pending' = pending \ {r} /\ UNCHANGED <<client, silent, misread>>
  <2>1. VirtualTypeOK'
    BY <1>1, <1>2, <1>3 DEF VirtualTypeOK
  <2> QED
    BY <1>1, <1>2, <1>3, <2>1 DEF StoreInv
<1>4. CASE Call(r) = "validate" /\ Proceed(r, next, tables, configs)
  <2>1. /\ r.kind \in RequestKinds /\ r.view \in Views /\ r.step \in 1 .. Len(CallsOf(r.kind))
        /\ DOMAIN r = {"kind", "view", "step", "saw", "slot"} /\ Len(CallsOf(r.kind)) \in Nat
    BY <1>1, CallsAreCounted DEF IsRequest
  <2>2. next.step = r.step + 1 /\ next = [r EXCEPT !.step = next.step]
    BY <2>1
  <2> HIDE DEF next
  <2>3. r.kind \notin Makes /\ r.kind # "delete"
    BY <1>4, <2>1, MakingCalls, DeletingCalls DEF Call
  <2>4. MayProceed(r, next, configs)
    BY <1>1, <2>1, <2>2, <2>3 DEF MayProceed
  <2>5. client.made \ (client.deleted \union {v \in {r.view} : r.kind = "delete" /\ Ends(next)}) \subseteq Keys(configs)
    BY <1>1
  <2>6. /\ client' \in [asked : SUBSET Views, made : SUBSET Views, deleted : SUBSET Views]
        /\ \A q \in pending' : IsRequest(q) /\ (q.kind \in OfView => q.view \in client'.made)
        /\ client'.made \ client'.deleted \subseteq Keys(configs)
        /\ silent' \subseteq client'.deleted
        /\ misread' \subseteq Views
    BY <1>4, <2>4, <2>5, Proceeding
  <2>7. VirtualTypeOK'
    BY <1>1, <1>2, <2>6 DEF VirtualTypeOK
  <2> QED
    BY <1>1, <1>2, <2>6, <2>7 DEF StoreInv
<1> QED
  BY <1>3, <1>4 DEF Refuse, Unimplemented

LEMMA StoreSteps == StoreInv /\ [VirtualNext]_virtualVars => StoreInv'
<1> SUFFICES ASSUME StoreInv, [VirtualNext]_virtualVars PROVE StoreInv'
  OBVIOUS
<1>1. CASE VirtualNext
  BY <1>1, StoreRequested, StoreResponded, StoreRefused DEF VirtualNext
<1>2. CASE UNCHANGED virtualVars
  <2>1. Keys(configs') = Keys(configs) /\ VirtualTypeOK'
    BY <1>2 DEF virtualVars, StoreInv, VirtualTypeOK
  <2> QED
    BY <1>2, <2>1 DEF virtualVars, StoreInv
<1> QED
  BY <1>1, <1>2

(* Whatever the requests are, however they interleave and whichever calls  *)
(* of the handler fail: a request about a view that its client was told of *)
(* and has not deleted is answered, and the server knows exactly the views *)
(* that the store holds (server.rs:80-101, 176-203, 418-423).  It holds    *)
(* between any two steps, not only when no request waits.                  *)
THEOREM StoreServes == VirtualSpec => []StoreIsServed
<1>1. StoreInv => StoreIsServed
  BY DEF StoreInv, StoreIsServed, LiveViewsAnswer, ViewsMatchStore
<1> QED
  BY <1>1, StoreInit, StoreSteps, PTL DEF VirtualSpec
=============================================================================
