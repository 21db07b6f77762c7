--------------------------- MODULE Client_proofs ---------------------------
(***************************************************************************)
(* Proofs about the Client for any number of tasks, calls, updates and     *)
(* failures: nobody waits for a reply that cannot come, no callback of a   *)
(* removed stream runs, and every stream that the server sends to has a    *)
(* callback.                                                               *)
(***************************************************************************)
EXTENDS Client, FiniteSetTheorems, TLAPS

----------------------------------------------------------------------------
(* The inductive invariant.                                                *)

\* The ids given so far: of calls and of the updates of streams.
Given == (0..id_gen) \X Nat

Names == AllOps \cup {"none", "snapshot", "make_table", "follow_update"}
Stages == {"idle", "lock", "unlock", "send", "undo", "wait", "mutex", "next"}

Calls == [op : Names, pc : Stages, id : Given, sub : Given]
Request == [id : Given, op : Names, sub : Given]
Response == [id : Given, update : Nat]

ClientTypeOK ==
    /\ id_gen \in Nat /\ version \in Nat
    /\ task \in [Tasks -> Calls]
    /\ DOMAIN subscriptions_once \subseteq Given
    /\ subscriptions \subseteq Given /\ removed \subseteq Given
    /\ session \subseteq Given /\ IsFiniteSet(session)
    /\ up \in BOOLEAN
    /\ wire \in Seq(Request)
    /\ inbox \in Seq(Response)

\* The stages in which a call has an id that is its own.
Pending == {t \in Tasks : task[t].pc \in {"lock", "unlock", "send", "undo", "wait"}}

\* No two calls have the same id.
IdsAreOwn == \A t, u \in Pending : task[t].id = task[u].id => t = u

\* What is on the wire under the id of a call asks for a reply.
RepliesAreAsked ==
    \A t \in Pending : \A i \in 1..Len(wire) :
      wire[i].id = task[t].id => Waits(wire[i].op)

\* A stream that waits for the lock is new: it has no callback yet, was not
\* removed, and nobody is about to remove it.
NewStreams == {task[t].id : t \in {u \in Tasks : At(u, "lock")}}
NewStreamsAreNew ==
    /\ NewStreams \cap (subscriptions \cup removed) = {}
    /\ \A t \in Tasks : At(t, "unlock") => task[t].sub \notin NewStreams

\* What was removed has no callback.
RemovedAreGone == subscriptions \cap removed = {}

CallInv ==
    /\ ClientTypeOK
    /\ IdsAreOwn
    /\ RepliesAreAsked
    /\ WaitersWillHear

StreamInv ==
    /\ NewStreamsAreNew
    /\ RemovedAreGone
    /\ RemovedStreamsAreSilent

\* Without a connection nothing is under way, and an error is handled before
\* there is another connection.
LostIsLost ==
    /\ ~up => wire = <<>> /\ inbox = <<>> /\ session = {}
    /\ handling # {} => ~up

\* A stream that the server has, or will have, has a callback or had one that
\* was removed.
Announced ==
    session \cup {wire[i].id : i \in {j \in 1..Len(wire) : wire[j].op = "on_update"}}

\* Only on_update subscribes, and to a stream of its own.
SubscribersAreOnUpdate ==
    \A t \in Tasks :
      /\ At(t, "lock") => task[t].sub = task[t].id
      /\ At(t, "mutex") \/ At(t, "unlock") => task[t].op # "on_update"

StreamsAreListed ==
    /\ up => Announced \subseteq subscriptions \cup removed
    /\ \A t \in Tasks : At(t, "send") /\ task[t].op = "on_update" =>
         /\ task[t].sub = task[t].id
         /\ up => task[t].id \in subscriptions
         /\ \A u \in Tasks : At(u, "unlock") => task[u].sub # task[t].id
    /\ \A t \in Tasks : At(t, "undo") => task[t].id \notin Announced

HeardInv == LostIsLost /\ SubscribersAreOnUpdate /\ StreamsAreListed
----------------------------------------------------------------------------
(* What the actions do to the calls.                                       *)

(* All ids that were given stay given.                                     *)
LEMMA GivenGrows ==
    ASSUME id_gen \in Nat, id_gen' \in Nat, id_gen <= id_gen'
    PROVE  Given \subseteq Given'
  BY DEF Given

(* The next id is a new one.                                               *)
LEMMA NextIdIsNew ==
    ASSUME id_gen \in Nat, id_gen' = id_gen + 1
    PROVE  NextId \in Given' /\ NextId \notin Given /\ Given \subseteq Given'
  BY DEF Given, NextId

LEMMA Idles == id_gen \in Nat => Idle \in Calls
  <1>1. id_gen \in Nat => NoId \in Given
    BY DEF Given, NoId
  <1>2. "none" \in Names /\ "idle" \in Stages
    BY DEF Names, Stages
  <1> QED
    BY <1>1, <1>2 DEF Idle, Calls

(* A call that goes on keeps its id.                                       *)
LEMMA GoToEffect ==
    ASSUME task \in [Tasks -> Calls], NEW t \in Tasks, NEW pc \in Stages, task' = GoTo(t, pc)
    PROVE  /\ task' \in [Tasks -> Calls]
           /\ task'[t].pc = pc /\ task'[t].id = task[t].id
           /\ task'[t].op = task[t].op /\ task'[t].sub = task[t].sub
           /\ \A u \in Tasks \ {t} : task'[u] = task[u]
  BY DEF GoTo, Calls

(* A call that begins has a new id, or none.                               *)
LEMMA BeginEffect ==
    ASSUME task \in [Tasks -> Calls], id_gen \in Nat, id_gen' \in Nat, id_gen <= id_gen',
           NEW t \in Tasks, NEW op \in Names, NEW pc \in Stages,
           NEW id \in Given', NEW sub \in Given',
           task' = [task EXCEPT ![t] = [op |-> op, pc |-> pc, id |-> id, sub |-> sub]]
    PROVE  /\ task' \in [Tasks -> Calls']
           /\ task'[t] = [op |-> op, pc |-> pc, id |-> id, sub |-> sub]
           /\ \A u \in Tasks \ {t} : task'[u] = task[u]
  <1>1. Given \subseteq Given'
    BY GivenGrows
  <1>2. Calls \subseteq Calls'
    BY <1>1 DEF Calls
  <1>3. [op |-> op, pc |-> pc, id |-> id, sub |-> sub] \in Calls'
    BY DEF Calls
  <1> QED
    BY <1>2, <1>3

(* A call that ends, or is about to ask its next question, waits no more.  *)
LEMMA AfterEffect ==
    ASSUME task \in [Tasks -> Calls], id_gen \in Nat, NEW t \in Tasks, NEW ok \in BOOLEAN,
           After(t, ok)
    PROVE  /\ task' \in [Tasks -> Calls]
           /\ task'[t].pc \in {"next", "idle"}
           /\ \A u \in Tasks \ {t} : task'[u] = task[u]
  <1>1. [task[t] EXCEPT !.pc = "next"] \in Calls /\ [task[t] EXCEPT !.pc = "next"].pc = "next"
    <2>1. task[t] \in Calls /\ "next" \in Stages
      BY DEF Stages
    <2> QED
      BY <2>1 DEF Calls
  <1>2. Idle \in Calls /\ Idle.pc = "idle"
    BY Idles DEF Idle
  <1>3. \E c \in {[task[t] EXCEPT !.pc = "next"], Idle} : task' = [task EXCEPT ![t] = c]
    BY DEF After
  <1> QED
    BY <1>1, <1>2, <1>3

(* What the calls are named.                                               *)
LEMMA NamesOfCalls ==
    /\ Ops \subseteq Names
    /\ {"on_update", "on_delete", "remove_update", "schema", "features", "expression_schema",
        "snapshot", "make_table", "follow_update"} \subseteq Names
  <1>1. AllOps \subseteq Names
    BY DEF Names
  <1>2. "schema" \in AllOps
    BY DEF AllOps, Requests, TableReads
  <1>3. {"on_update", "on_delete", "remove_update", "features", "expression_schema"} \subseteq AllOps
    BY DEF AllOps
  <1>4. {"snapshot", "make_table", "follow_update"} \subseteq Names
    BY DEF Names
  <1> QED
    BY <1>1, <1>2, <1>3, <1>4, ClientAssumption

(* Requests and responses that are added, or taken from the head.          *)
LEMMA WireGrows ==
    ASSUME wire \in Seq(Request), NEW id \in Given, NEW op \in Names, NEW sub \in Given,
           wire' = Append(wire, [id |-> id, op |-> op, sub |-> sub])
    PROVE  /\ wire' \in Seq(Request) /\ Len(wire') = Len(wire) + 1
           /\ \A i \in 1..Len(wire) : wire'[i] = wire[i]
           /\ wire'[Len(wire) + 1] = [id |-> id, op |-> op, sub |-> sub]
  <1>1. [id |-> id, op |-> op, sub |-> sub] \in Request
    BY DEF Request
  <1> QED
    BY <1>1

LEMMA TakenFromHead ==
    ASSUME NEW S, NEW s \in Seq(S), s # <<>>
    PROVE  /\ Head(s) \in S /\ Head(s) = s[1] /\ 1 \in 1..Len(s)
           /\ Tail(s) \in Seq(S) /\ Len(Tail(s)) = Len(s) - 1
           /\ \A i \in 1..Len(Tail(s)) : Tail(s)[i] = s[i + 1] /\ i + 1 \in 1..Len(s)
           /\ \A i \in 1..Len(s) : i = 1 \/ (i - 1 \in 1..Len(Tail(s)) /\ Tail(s)[i - 1] = s[i])
  OBVIOUS

(* The message that a handler takes.                                       *)
LEMMA ReceivedEffect ==
    ASSUME ClientTypeOK, NEW msg, Received(msg)
    PROVE  /\ msg \in Response /\ msg.id \in Given /\ msg.update \in Nat
           /\ inbox' \in Seq(Response)
           /\ \A i \in 1..Len(inbox') : \E j \in 1..Len(inbox) : inbox'[i] = inbox[j]
           /\ \A i \in 1..Len(inbox) : inbox[i] = msg \/ \E j \in 1..Len(inbox') : inbox'[j] = inbox[i]
  <1>1. inbox \in Seq(Response) /\ inbox # <<>> /\ msg = Head(inbox) /\ inbox' = Tail(inbox)
    BY DEF ClientTypeOK, Received
  <1>2. msg \in Response
    BY <1>1, TakenFromHead
  <1>3. msg.id \in Given /\ msg.update \in Nat
    BY <1>2 DEF Response
  <1>4. inbox' \in Seq(Response) /\ \A i \in 1..Len(inbox') : \E j \in 1..Len(inbox) : inbox'[i] = inbox[j]
    BY <1>1, TakenFromHead
  <1>5. \A i \in 1..Len(inbox) : inbox[i] = msg \/ \E j \in 1..Len(inbox') : inbox'[j] = inbox[i]
    BY <1>1, TakenFromHead
  <1> QED
    BY <1>2, <1>3, <1>4, <1>5

----------------------------------------------------------------------------
(* Types.                                                                  *)

\* What an action does not touch keeps its type.
LEMMA SameIds ==
    ASSUME id_gen' = id_gen
    PROVE  Given' = Given /\ Calls' = Calls /\ Request' = Request /\ Response' = Response
  BY DEF Given, Calls, Request, Response

LEMMA MoreIds ==
    ASSUME ClientTypeOK, id_gen' = id_gen + 1
    PROVE  /\ NextId \in Given' /\ NextId \notin Given /\ Given \subseteq Given'
           /\ Calls \subseteq Calls' /\ wire \in Seq(Request') /\ inbox \in Seq(Response')
           /\ id_gen' \in Nat /\ id_gen <= id_gen' /\ NoId \in Given'
  <1>1. NextId \in Given' /\ NextId \notin Given /\ Given \subseteq Given' /\ id_gen' \in Nat
    BY NextIdIsNew DEF ClientTypeOK
  <1>2. Calls \subseteq Calls' /\ Request \subseteq Request' /\ Response \subseteq Response'
    BY <1>1 DEF Calls, Request, Response
  <1>3. wire \in Seq(Request') /\ inbox \in Seq(Response')
    BY <1>2 DEF ClientTypeOK
  <1>4. NoId \in Given' /\ id_gen <= id_gen'
    BY <1>1 DEF NoId, Given, ClientTypeOK
  <1> QED
    BY <1>1, <1>2, <1>3, <1>4

LEMMA OnceDomains ==
    ASSUME NEW f, NEW id, NEW v
    PROVE  DOMAIN With(f, id, v) = DOMAIN f \cup {id} /\ DOMAIN Without(f, id) = DOMAIN f \ {id}
  BY DEF With, Without

\* A call that begins: a handler under the next id, and the call waits to send.
LEMMA SubscribeOnceType ==
    ASSUME ClientTypeOK, NEW t \in Tasks, NEW op \in Names, NEW handler,
           SubscribeOnce(t, op, NoId, handler),
           UNCHANGED <<subscriptions, removed, link, session, version>>
    PROVE  /\ ClientTypeOK'
           /\ id_gen' = id_gen + 1
           /\ DOMAIN subscriptions_once' = DOMAIN subscriptions_once \cup {NextId}
           /\ task'[t] = [op |-> op, pc |-> "send", id |-> NextId, sub |-> NoId]
           /\ \A u \in Tasks \ {t} : task'[u] = task[u]
  <1>1. id_gen' = id_gen + 1
    BY DEF SubscribeOnce
  <1>2. DOMAIN subscriptions_once' = DOMAIN subscriptions_once \cup {NextId}
    BY OnceDomains DEF SubscribeOnce
  <1>3. "send" \in Stages
    BY DEF Stages
  <1>4. /\ task' \in [Tasks -> Calls']
        /\ task'[t] = [op |-> op, pc |-> "send", id |-> NextId, sub |-> NoId]
        /\ \A u \in Tasks \ {t} : task'[u] = task[u]
    BY <1>1, <1>3, MoreIds, BeginEffect DEF SubscribeOnce, ClientTypeOK
  <1> QED
    BY <1>1, <1>2, <1>4, MoreIds DEF ClientTypeOK, link

----------------------------------------------------------------------------
(* Calls wait for replies that can come.                                   *)

\* The ids of the calls and of the messages were given before.
LEMMA IdsAreGiven ==
    ASSUME ClientTypeOK
    PROVE  /\ \A t \in Tasks : task[t].id \in Given /\ task[t].sub \in Given
           /\ \A i \in 1..Len(wire) : wire[i].id \in Given
  <1>1. \A t \in Tasks : task[t] \in Calls
    BY DEF ClientTypeOK
  <1>2. \A i \in 1..Len(wire) : wire[i] \in Request
    BY DEF ClientTypeOK
  <1> QED
    BY <1>1, <1>2 DEF Calls, Request

\* What is left to show of a step that one call makes and that takes no
\* message away: the call has an id of its own, does not wait yet, or waits
\* with a handler and its request on the wire; no handler of another is taken.
LEMMA OneCallMoves ==
    ASSUME CallInv, ClientTypeOK', NEW t \in Tasks,
           \A u \in Tasks \ {t} : task'[u] = task[u],
           task'[t].pc \in {"lock", "unlock", "send", "undo", "wait"} =>
             \/ t \in Pending /\ task'[t].id = task[t].id
             \/ task'[t].id \notin Given,
           task'[t].pc # "wait",
           DOMAIN subscriptions_once \subseteq DOMAIN subscriptions_once' \cup {task[t].id},
           DOMAIN subscriptions_once \subseteq DOMAIN subscriptions_once' \/ t \in Pending,
           UNCHANGED <<wire, inbox>>, handling = {} \/ handling' # {}
    PROVE  CallInv'
  <1>1. \A u \in Pending' : u \in Tasks /\ (u # t => u \in Pending /\ task'[u] = task[u])
    BY DEF Pending
  <1>2. IdsAreOwn'
    BY <1>1, IdsAreGiven DEF CallInv, IdsAreOwn, Pending
  <1>3. RepliesAreAsked'
    BY <1>1, IdsAreGiven DEF CallInv, RepliesAreAsked, Pending
  <1>4. WaitersWillHear'
    <2> SUFFICES ASSUME NEW u \in Tasks, At(u, "wait")'
                 PROVE  /\ task'[u].id \in DOMAIN subscriptions_once'
                        /\ \/ handling' # {}
                           \/ \E i \in 1..Len(wire') : wire'[i].id = task'[u].id
                           \/ \E i \in 1..Len(inbox') : inbox'[i].id = task'[u].id
      BY DEF WaitersWillHear
    <2>1. u # t /\ task'[u] = task[u] /\ At(u, "wait") /\ u \in Pending
      BY DEF At, Pending
    <2>2. t \in Pending => task[u].id # task[t].id
      BY <2>1 DEF CallInv, IdsAreOwn
    <2> QED
      BY <2>1, <2>2 DEF CallInv, WaitersWillHear
  <1> QED
    BY <1>2, <1>3, <1>4 DEF CallInv

LEMMA SubscribeOnceCall ==
    ASSUME CallInv, NEW t \in Tasks, NEW op \in Names, NEW handler,
           SubscribeOnce(t, op, NoId, handler),
           UNCHANGED <<subscriptions, removed, handling, link, session, version>>
    PROVE  CallInv'
  <1>1. /\ ClientTypeOK'
        /\ DOMAIN subscriptions_once' = DOMAIN subscriptions_once \cup {NextId}
        /\ task'[t] = [op |-> op, pc |-> "send", id |-> NextId, sub |-> NoId]
        /\ \A u \in Tasks \ {t} : task'[u] = task[u]
    BY SubscribeOnceType DEF CallInv
  <1>2. NextId \notin Given
    BY MoreIds DEF CallInv, SubscribeOnce
  <1> QED
    BY <1>1, <1>2, OneCallMoves DEF link

LEMMA AskCall == ASSUME CallInv, NEW t \in Tasks, Ask(t) PROVE CallInv'
  <1>1. PICK op \in Ops \cap Requests : SubscribeOnce(t, op, NoId, "reply")
    BY DEF Ask
  <1> QED
    BY <1>1, NamesOfCalls, SubscribeOnceCall DEF Ask, server

LEMMA OnDeleteCall == ASSUME CallInv, NEW t \in Tasks, OnDelete(t) PROVE CallInv'
  BY NamesOfCalls, SubscribeOnceCall DEF OnDelete, server

LEMMA TableFromViewCall == ASSUME CallInv, NEW t \in Tasks, TableFromView(t) PROVE CallInv'
  BY NamesOfCalls, SubscribeOnceCall DEF TableFromView, server

LEMMA OnUpdateType ==
    ASSUME ClientTypeOK, NEW t \in Tasks, OnUpdate(t)
    PROVE  /\ ClientTypeOK' /\ id_gen' = id_gen + 1
           /\ task'[t] = [op |-> "on_update", pc |-> "lock", id |-> NextId, sub |-> NextId]
           /\ \A u \in Tasks \ {t} : task'[u] = task[u]
  <1>1. id_gen' = id_gen + 1 /\ "lock" \in Stages
    BY DEF OnUpdate, Stages
  <1>2. /\ task' \in [Tasks -> Calls']
        /\ task'[t] = [op |-> "on_update", pc |-> "lock", id |-> NextId, sub |-> NextId]
        /\ \A u \in Tasks \ {t} : task'[u] = task[u]
    BY <1>1, MoreIds, BeginEffect, NamesOfCalls DEF OnUpdate, ClientTypeOK
  <1> QED
    BY <1>1, <1>2, MoreIds DEF ClientTypeOK, OnUpdate, handlers, link, server

LEMMA OnUpdateCall == ASSUME CallInv, NEW t \in Tasks, OnUpdate(t) PROVE CallInv'
  <1>1. NextId \notin Given
    BY MoreIds DEF CallInv, OnUpdate
  <1>2. /\ ClientTypeOK' /\ task'[t].pc = "lock" /\ task'[t].id = NextId
        /\ \A u \in Tasks \ {t} : task'[u] = task[u]
    BY OnUpdateType DEF CallInv
  <1> QED
    BY <1>1, <1>2, OneCallMoves DEF OnUpdate, handlers, link

LEMMA SubscribeType ==
    ASSUME ClientTypeOK, NEW t \in Tasks, Subscribe(t)
    PROVE  /\ ClientTypeOK'
           /\ task'[t].pc = "send" /\ task'[t].id = task[t].id
           /\ task'[t].op = task[t].op /\ task'[t].sub = task[t].sub
           /\ \A u \in Tasks \ {t} : task'[u] = task[u]
  <1>1. id_gen' = id_gen /\ "send" \in Stages
    BY DEF Subscribe, Stages, local
  <1>2. /\ task' \in [Tasks -> Calls]
        /\ task'[t].pc = "send" /\ task'[t].id = task[t].id
        /\ task'[t].op = task[t].op /\ task'[t].sub = task[t].sub
        /\ \A u \in Tasks \ {t} : task'[u] = task[u]
    BY <1>1, GoToEffect DEF Subscribe, ClientTypeOK
  <1> QED
    BY <1>1, <1>2, SameIds, IdsAreGiven DEF ClientTypeOK, Subscribe, link, server

LEMMA SubscribeCall == ASSUME CallInv, NEW t \in Tasks, Subscribe(t) PROVE CallInv'
  <1>1. t \in Pending
    BY DEF Pending, Subscribe, At
  <1> QED
    BY <1>1, SubscribeType, OneCallMoves DEF CallInv, Subscribe, link

LEMMA RemoveUpdateType ==
    ASSUME ClientTypeOK, NEW t \in Tasks, RemoveUpdate(t)
    PROVE  /\ ClientTypeOK' /\ id_gen' = id_gen + 1
           /\ task'[t].pc = "unlock" /\ task'[t].id = NextId /\ task'[t].op = "remove_update"
           /\ task'[t].sub \in subscriptions /\ \A u \in Tasks : task[u].sub # task'[t].sub
           /\ \A u \in Tasks \ {t} : task'[u] = task[u]
  <1>1. id_gen' = id_gen + 1 /\ "unlock" \in Stages
    BY DEF RemoveUpdate, Stages
  <1>2. PICK s \in subscriptions \ {follow} :
          /\ \A u \in Tasks : task[u].sub # s
          /\ task' = [task EXCEPT ![t] = [op |-> "remove_update", pc |-> "unlock", id |-> NextId, sub |-> s]]
    BY DEF RemoveUpdate
  <1>3. s \in Given'
    BY <1>1, MoreIds DEF ClientTypeOK
  <1>4. /\ task' \in [Tasks -> Calls']
        /\ task'[t] = [op |-> "remove_update", pc |-> "unlock", id |-> NextId, sub |-> s]
        /\ \A u \in Tasks \ {t} : task'[u] = task[u]
    BY <1>1, <1>2, <1>3, MoreIds, BeginEffect, NamesOfCalls DEF ClientTypeOK
  <1> QED
    BY <1>1, <1>2, <1>4, MoreIds DEF ClientTypeOK, RemoveUpdate, handlers, link, server

LEMMA RemoveUpdateCall == ASSUME CallInv, NEW t \in Tasks, RemoveUpdate(t) PROVE CallInv'
  <1>1. NextId \notin Given
    BY MoreIds DEF CallInv, RemoveUpdate
  <1>2. /\ ClientTypeOK' /\ task'[t].pc = "unlock" /\ task'[t].id = NextId
        /\ \A u \in Tasks \ {t} : task'[u] = task[u]
    BY RemoveUpdateType DEF CallInv
  <1> QED
    BY <1>1, <1>2, OneCallMoves DEF RemoveUpdate, handlers, link

\* What unsubscribe does to the streams and to the call.
LEMMA UnsubscribeType ==
    ASSUME ClientTypeOK, NEW t \in Tasks, Unsubscribe(t)
    PROVE  /\ ClientTypeOK'
           /\ \/ /\ task'[t].pc = "send" /\ task'[t].op = task[t].op /\ task'[t].sub = task[t].sub
                 /\ task'[t].id = task[t].id
              \/ task'[t].pc = "idle"
           /\ DOMAIN subscriptions_once \subseteq DOMAIN subscriptions_once'
           /\ \A u \in Tasks \ {t} : task'[u] = task[u]
  <1>1. id_gen' = id_gen /\ "send" \in Stages /\ task[t].id \in Given /\ task[t].sub \in Given
    BY IdsAreGiven DEF Unsubscribe, Stages, local
  <1>2. CASE task[t].sub \in subscriptions
    <2>3. task' = GoTo(t, "send") /\ subscriptions_once' = With(subscriptions_once, task[t].id, "reply")
      BY <1>2 DEF Unsubscribe
    <2>1. task' = GoTo(t, "send") /\ DOMAIN subscriptions_once' = DOMAIN subscriptions_once \cup {task[t].id}
      BY <2>3, OnceDomains
    <2>2. /\ task' \in [Tasks -> Calls]
          /\ task'[t].pc = "send" /\ task'[t].id = task[t].id
          /\ task'[t].op = task[t].op /\ task'[t].sub = task[t].sub
          /\ \A u \in Tasks \ {t} : task'[u] = task[u]
      BY <1>1, <2>1, GoToEffect DEF ClientTypeOK
    <2> QED
      BY <1>1, <2>1, <2>2, SameIds DEF ClientTypeOK, Unsubscribe, link, server
  <1>3. CASE task[t].sub \notin subscriptions
    <2>1. task' = [task EXCEPT ![t] = Idle] /\ subscriptions_once' = subscriptions_once
      BY <1>3 DEF Unsubscribe
    <2>2. Idle \in Calls /\ Idle.pc = "idle"
      BY Idles DEF Idle, ClientTypeOK
    <2>3. task' \in [Tasks -> Calls] /\ task'[t].pc = "idle" /\ \A u \in Tasks \ {t} : task'[u] = task[u]
      BY <2>1, <2>2 DEF ClientTypeOK
    <2> QED
      BY <1>1, <2>1, <2>3, SameIds DEF ClientTypeOK, Unsubscribe, link, server
  <1> QED
    BY <1>2, <1>3

LEMMA UnsubscribeCall == ASSUME CallInv, NEW t \in Tasks, Unsubscribe(t) PROVE CallInv'
  <1>1. t \in Pending
    BY DEF Pending, Unsubscribe, At
  <1> QED
    BY <1>1, UnsubscribeType, OneCallMoves DEF CallInv, Unsubscribe, link

LEMMA GetFeaturesType ==
    ASSUME ClientTypeOK, NEW t \in Tasks, GetFeatures(t)
    PROVE  /\ ClientTypeOK' /\ task'[t].pc = "mutex"
           /\ \A u \in Tasks \ {t} : task'[u] = task[u]
  <1>1. id_gen' = id_gen /\ "mutex" \in Stages
    BY DEF GetFeatures, Stages, local
  <1>2. PICK name \in Ops \cap {"features", "expression_schema"} :
          task' = [task EXCEPT ![t] = [Idle EXCEPT !.op = name, !.pc = "mutex"]]
    BY DEF GetFeatures
  <1> DEFINE call == [Idle EXCEPT !.op = name, !.pc = "mutex"]
  <1>3. Idle \in Calls /\ name \in Names
    BY Idles, NamesOfCalls DEF ClientTypeOK
  <1>4. call \in Calls /\ call.pc = "mutex"
    BY <1>1, <1>3 DEF Calls
  <1> HIDE DEF call
  <1>5. task' \in [Tasks -> Calls] /\ task'[t].pc = "mutex" /\ \A u \in Tasks \ {t} : task'[u] = task[u]
    BY <1>2, <1>4 DEF ClientTypeOK, call
  <1> QED
    BY <1>1, <1>5, SameIds DEF ClientTypeOK, GetFeatures, handlers, link, server

LEMMA GetFeaturesCall == ASSUME CallInv, NEW t \in Tasks, GetFeatures(t) PROVE CallInv'
  <1>1. /\ ClientTypeOK' /\ task'[t].pc = "mutex"
        /\ \A u \in Tasks \ {t} : task'[u] = task[u]
    BY GetFeaturesType DEF CallInv
  <1> QED
    BY <1>1, OneCallMoves DEF GetFeatures, handlers, link

\* A call that ends at once.
LEMMA IdleEffect ==
    ASSUME ClientTypeOK, NEW t \in Tasks, task' = [task EXCEPT ![t] = Idle]
    PROVE  task' \in [Tasks -> Calls] /\ task'[t].pc = "idle" /\ \A u \in Tasks \ {t} : task'[u] = task[u]
  <1>1. Idle \in Calls /\ Idle.pc = "idle"
    BY Idles DEF Idle, ClientTypeOK
  <1> QED
    BY <1>1 DEF ClientTypeOK

LEMMA LockFeaturesCall == ASSUME CallInv, NEW t \in Tasks, LockFeatures(t) PROVE CallInv'
  <1>1. CASE features
    <2>1. id_gen' = id_gen /\ subscriptions_once' = subscriptions_once /\ task' = [task EXCEPT ![t] = Idle]
      BY <1>1 DEF LockFeatures
    <2>2. task' \in [Tasks -> Calls] /\ task'[t].pc = "idle" /\ \A u \in Tasks \ {t} : task'[u] = task[u]
      BY <2>1, IdleEffect DEF CallInv
    <2>3. ClientTypeOK'
      BY <2>1, <2>2, SameIds DEF CallInv, ClientTypeOK, LockFeatures, link, server
    <2> QED
      BY <2>1, <2>2, <2>3, OneCallMoves DEF LockFeatures, link
  <1>2. CASE ~features
    <2>1. SubscribeOnce(t, task[t].op, NoId, "reply") /\ task[t].op \in Names
      BY <1>2 DEF LockFeatures, CallInv, ClientTypeOK, Calls
    <2> QED
      BY <2>1, SubscribeOnceCall DEF LockFeatures, server
  <1> QED
    BY <1>1, <1>2

\* The update stream of a Table made from a View.
LEMMA FollowType ==
    ASSUME ClientTypeOK, NEW t \in Tasks, NextCall(t), task[t].op = "make_table"
    PROVE  /\ ClientTypeOK' /\ id_gen' = id_gen + 1 /\ subscriptions_once' = subscriptions_once
           /\ task'[t].pc = "lock" /\ task'[t].id = NextId
           /\ task'[t].op = "on_update" /\ task'[t].sub = NextId
           /\ \A u \in Tasks \ {t} : task'[u] = task[u]
  <1>1. /\ id_gen' = id_gen + 1 /\ "lock" \in Stages /\ subscriptions_once' = subscriptions_once
        /\ task' = [task EXCEPT ![t] = [op |-> "on_update", pc |-> "lock", id |-> NextId, sub |-> NextId]]
    BY DEF NextCall, Stages
  <1>2. /\ task' \in [Tasks -> Calls']
        /\ task'[t] = [op |-> "on_update", pc |-> "lock", id |-> NextId, sub |-> NextId]
        /\ \A u \in Tasks \ {t} : task'[u] = task[u]
    BY <1>1, MoreIds, BeginEffect, NamesOfCalls DEF ClientTypeOK
  <1> QED
    BY <1>1, <1>2, MoreIds DEF ClientTypeOK, NextCall, link

LEMMA NextCallCall == ASSUME CallInv, NEW t \in Tasks, NextCall(t) PROVE CallInv'
  <1>1. CASE task[t].op = "make_table"
    <2>1. NextId \notin Given
      BY <1>1, FollowType, MoreIds DEF CallInv
    <2>2. /\ ClientTypeOK' /\ task'[t].pc = "lock" /\ task'[t].id = NextId
          /\ \A u \in Tasks \ {t} : task'[u] = task[u]
          /\ subscriptions_once' = subscriptions_once
      BY <1>1, FollowType DEF CallInv
    <2> QED
      BY <2>1, <2>2, OneCallMoves DEF NextCall, link
  <1>2. CASE task[t].op # "make_table"
    <2>1. \E op \in Names : SubscribeOnce(t, op, NoId, "reply")
      BY <1>2, NamesOfCalls DEF NextCall
    <2> QED
      BY <2>1, SubscribeOnceCall DEF NextCall
  <1> QED
    BY <1>1, <1>2

----------------------------------------------------------------------------
(* The transport.                                                          *)

LEMMA SendType ==
    ASSUME ClientTypeOK, NEW t \in Tasks, Send(t)
    PROVE  /\ ClientTypeOK'
           /\ \/ /\ Waits(task[t].op) /\ task[t].id \in DOMAIN subscriptions_once
                 /\ task'[t].pc = "wait" /\ task'[t].id = task[t].id
                 /\ task'[t].op = task[t].op
              \/ task'[t].pc \in {"next", "idle"}
           /\ \A u \in Tasks \ {t} : task'[u] = task[u]
           /\ Len(wire') = Len(wire) + 1 /\ Len(wire) \in Nat
           /\ \A i \in 1..Len(wire) : wire'[i] = wire[i]
           /\ wire'[Len(wire) + 1].id = task[t].id /\ wire'[Len(wire) + 1].op = task[t].op
  <1>1. id_gen' = id_gen /\ "wait" \in Stages /\ task[t].id \in Given /\ task[t].sub \in Given
        /\ task[t].op \in Names
    BY IdsAreGiven DEF Send, Stages, ClientTypeOK, Calls
  <1>2. wire' = Append(wire, [id |-> task[t].id, op |-> task[t].op, sub |-> task[t].sub])
    BY DEF Send
  <1>3. /\ wire' \in Seq(Request) /\ Len(wire') = Len(wire) + 1 /\ Len(wire) \in Nat
        /\ \A i \in 1..Len(wire) : wire'[i] = wire[i]
        /\ wire'[Len(wire) + 1].id = task[t].id /\ wire'[Len(wire) + 1].op = task[t].op
    BY <1>1, <1>2, WireGrows DEF ClientTypeOK
  <1>4. CASE Waits(task[t].op) /\ task[t].id \in DOMAIN subscriptions_once
    <2>1. task' = GoTo(t, "wait")
      BY <1>4 DEF Send
    <2>2. /\ task' \in [Tasks -> Calls]
          /\ task'[t].pc = "wait" /\ task'[t].id = task[t].id /\ task'[t].op = task[t].op
          /\ \A u \in Tasks \ {t} : task'[u] = task[u]
      BY <1>1, <2>1, GoToEffect DEF ClientTypeOK
    <2> QED
      BY <1>1, <1>3, <1>4, <2>2, SameIds DEF ClientTypeOK, Send, handlers, server
  <1>5. CASE ~(Waits(task[t].op) /\ task[t].id \in DOMAIN subscriptions_once)
    <2>1. After(t, FALSE)
      BY <1>5 DEF Send
    <2>2. /\ task' \in [Tasks -> Calls] /\ task'[t].pc \in {"next", "idle"}
          /\ \A u \in Tasks \ {t} : task'[u] = task[u]
      BY <2>1, AfterEffect DEF ClientTypeOK
    <2> QED
      BY <1>1, <1>3, <2>2, SameIds DEF ClientTypeOK, Send, handlers, server
  <1> QED
    BY <1>4, <1>5

LEMMA SendCall == ASSUME CallInv, NEW t \in Tasks, Send(t) PROVE CallInv'
  <1> DEFINE n == Len(wire) + 1
  <1>1. /\ ClientTypeOK'
        /\ \/ /\ Waits(task[t].op) /\ task[t].id \in DOMAIN subscriptions_once
              /\ task'[t].pc = "wait" /\ task'[t].id = task[t].id
           \/ task'[t].pc \in {"next", "idle"}
        /\ \A u \in Tasks \ {t} : task'[u] = task[u]
        /\ Len(wire') = n /\ Len(wire) \in Nat
        /\ \A i \in 1..Len(wire) : wire'[i] = wire[i]
        /\ wire'[n].id = task[t].id /\ wire'[n].op = task[t].op
    BY SendType DEF CallInv
  <1>2. t \in Pending /\ subscriptions_once' = subscriptions_once
    BY DEF Pending, Send, At, handlers
  <1>3. \A u \in Pending' : u \in Pending /\ task'[u].id = task[u].id
    BY <1>1, <1>2 DEF Pending
  <1>4. IdsAreOwn'
    BY <1>3 DEF CallInv, IdsAreOwn
  <1>5. RepliesAreAsked'
    <2> SUFFICES ASSUME NEW u \in Pending', NEW i \in 1..n, wire'[i].id = task[u].id
                 PROVE  Waits(wire'[i].op)
      BY <1>1, <1>3 DEF RepliesAreAsked
    <2>1. CASE i = n
      <3>1. u = t
        BY <1>1, <1>2, <1>3, <2>1 DEF CallInv, IdsAreOwn
      <3> QED
        BY <1>1, <2>1, <3>1 DEF Pending
    <2>2. CASE i # n
      <3>1. i \in 1..Len(wire) /\ wire'[i] = wire[i]
        BY <1>1, <2>2
      <3> QED
        BY <1>3, <3>1 DEF CallInv, RepliesAreAsked
    <2> QED
      BY <2>1, <2>2
  <1>6. WaitersWillHear'
    <2> SUFFICES ASSUME NEW u \in Tasks, At(u, "wait")'
                 PROVE  /\ task'[u].id \in DOMAIN subscriptions_once
                        /\ \/ handling' # {}
                           \/ \E i \in 1..n : wire'[i].id = task'[u].id
                           \/ \E i \in 1..Len(inbox') : inbox'[i].id = task'[u].id
      BY <1>1, <1>2 DEF WaitersWillHear
    <2>1. CASE u = t
      BY <1>1, <2>1 DEF At
    <2>2. CASE u # t
      <3>1. At(u, "wait") /\ task'[u] = task[u]
        BY <1>1, <2>2 DEF At
      <3>2. \A i \in 1..Len(wire) : i \in 1..n /\ wire'[i] = wire[i]
        BY <1>1
      <3> HIDE DEF n
      <3> QED
        BY <3>1, <3>2 DEF CallInv, WaitersWillHear, Send
    <2> QED
      BY <2>1, <2>2
  <1> QED
    BY <1>1, <1>4, <1>5, <1>6 DEF CallInv

LEMMA SendFailsType ==
    ASSUME ClientTypeOK, NEW t \in Tasks, SendFails(t)
    PROVE  /\ ClientTypeOK'
           /\ \/ task[t].op = "on_update" /\ task'[t].pc = "undo" /\ task'[t].id = task[t].id
              \/ task'[t].pc \in {"next", "idle"}
           /\ DOMAIN subscriptions_once \subseteq DOMAIN subscriptions_once' \cup {task[t].id}
           /\ \A u \in Tasks \ {t} : task'[u] = task[u]
  <1>1. id_gen' = id_gen /\ "undo" \in Stages
    BY DEF SendFails, Stages
  <1>2. CASE task[t].op = "on_update"
    <2>1. task' = GoTo(t, "undo") /\ subscriptions_once' = subscriptions_once
      BY <1>2 DEF SendFails
    <2>2. /\ task' \in [Tasks -> Calls]
          /\ task'[t].pc = "undo" /\ task'[t].id = task[t].id
          /\ \A u \in Tasks \ {t} : task'[u] = task[u]
      BY <1>1, <2>1, GoToEffect DEF ClientTypeOK
    <2> QED
      BY <1>1, <1>2, <2>1, <2>2, SameIds DEF ClientTypeOK, SendFails, link, server
  <1>3. CASE task[t].op # "on_update"
    <2>1. After(t, FALSE) /\ subscriptions_once' = Without(subscriptions_once, task[t].id)
      BY <1>3 DEF SendFails
    <2>2. /\ task' \in [Tasks -> Calls] /\ task'[t].pc \in {"next", "idle"}
          /\ \A u \in Tasks \ {t} : task'[u] = task[u]
      BY <2>1, AfterEffect DEF ClientTypeOK
    <2>3. DOMAIN subscriptions_once' = DOMAIN subscriptions_once \ {task[t].id}
      BY <2>1, OnceDomains
    <2> QED
      BY <1>1, <2>2, <2>3, SameIds DEF ClientTypeOK, SendFails, link, server
  <1> QED
    BY <1>2, <1>3

LEMMA SendFailsCall == ASSUME CallInv, NEW t \in Tasks, SendFails(t) PROVE CallInv'
  <1>1. t \in Pending
    BY DEF Pending, SendFails, At
  <1> QED
    BY <1>1, SendFailsType, OneCallMoves DEF CallInv, SendFails, link

LEMMA UndoType ==
    ASSUME ClientTypeOK, NEW t \in Tasks, Undo(t)
    PROVE  /\ ClientTypeOK' /\ task'[t].pc \in {"next", "idle"}
           /\ \A u \in Tasks \ {t} : task'[u] = task[u]
  BY AfterEffect, SameIds DEF ClientTypeOK, Undo, link, server

LEMMA UndoCall == ASSUME CallInv, NEW t \in Tasks, Undo(t) PROVE CallInv'
  BY UndoType, OneCallMoves DEF CallInv, Undo, link

\* What is left to show of a step that begins no call: whoever still waits has
\* a handler, and is heard.
LEMMA CallsStay ==
    ASSUME CallInv, ClientTypeOK',
           \A u \in Pending' : u \in Pending /\ task'[u] = task[u],
           \A i \in 1..Len(wire') : Waits(wire'[i].op) \/ \E j \in 1..Len(wire) : wire'[i] = wire[j],
           \A u \in Tasks : At(u, "wait") /\ task'[u] = task[u] =>
             /\ task[u].id \in DOMAIN subscriptions_once'
             /\ \/ handling' # {}
                \/ \E i \in 1..Len(wire') : wire'[i].id = task[u].id
                \/ \E i \in 1..Len(inbox') : inbox'[i].id = task[u].id
    PROVE  CallInv'
  <1>1. IdsAreOwn'
    BY DEF CallInv, IdsAreOwn
  <1>2. RepliesAreAsked'
    BY DEF CallInv, RepliesAreAsked
  <1>3. \A u \in Tasks : At(u, "wait")' => At(u, "wait") /\ task'[u] = task[u]
    BY DEF At, Pending
  <1>4. WaitersWillHear'
    BY <1>3 DEF WaitersWillHear
  <1> QED
    BY <1>1, <1>2, <1>4 DEF CallInv

LEMMA LinkFailsCall == ASSUME CallInv, LinkFails PROVE CallInv'
  <1>1. id_gen' = id_gen /\ task' = task /\ subscriptions_once' = subscriptions_once
    BY DEF LinkFails, local, handlers
  <1>2. wire' = <<>> /\ inbox' = <<>> /\ session' = {} /\ handling' # {} /\ up' \in BOOLEAN
    BY DEF LinkFails
  <1>3. wire' \in Seq(Request) /\ inbox' \in Seq(Response) /\ Len(wire') = 0
    BY <1>2
  <1>4. IsFiniteSet(session')
    BY <1>2, FS_EmptySet
  <1>5. ClientTypeOK'
    BY <1>1, <1>2, <1>3, <1>4, SameIds DEF CallInv, ClientTypeOK, LinkFails, handlers
  <1>6. \A u \in Tasks : At(u, "wait") => task[u].id \in DOMAIN subscriptions_once'
    BY <1>1 DEF CallInv, WaitersWillHear
  <1>7. \A u \in Pending' : u \in Pending /\ task'[u] = task[u]
    BY <1>1 DEF Pending
  <1> QED
    BY <1>2, <1>3, <1>5, <1>6, <1>7, CallsStay

LEMMA ReconnectCall == ASSUME CallInv, Reconnect PROVE CallInv'
  <1>1. ClientTypeOK'
    BY SameIds DEF CallInv, ClientTypeOK, Reconnect, local, handlers, server
  <1>2. \A u \in Pending' : u \in Pending /\ task'[u] = task[u]
    BY DEF Pending, Reconnect
  <1>3. UNCHANGED <<task, subscriptions_once, handling, wire, inbox>>
    BY DEF Reconnect, handlers
  <1> QED
    BY <1>1, <1>2, <1>3, CallsStay DEF CallInv, WaitersWillHear

\* The server takes the oldest request, and answers it if a reply is asked.
LEMMA ServeEffect ==
    ASSUME ClientTypeOK, Serve
    PROVE  /\ ClientTypeOK'
           /\ \A i \in 1..Len(wire') : \E j \in 1..Len(wire) : wire'[i] = wire[j]
           /\ \A i \in 1..Len(wire) :
                \/ \E j \in 1..Len(wire') : wire'[j] = wire[i]
                \/ i = 1 /\ (Waits(wire[1].op) => \E j \in 1..Len(inbox') : inbox'[j].id = wire[1].id)
           /\ \A i \in 1..Len(inbox) : \E j \in 1..Len(inbox') : inbox'[j] = inbox[i]
  <1> DEFINE req == Head(wire)
             reply == [id |-> req.id, update |-> 0]
  <1>1. wire \in Seq(Request) /\ wire # <<>> /\ wire' = Tail(wire) /\ inbox \in Seq(Response)
    BY DEF ClientTypeOK, Serve
  <1>2. /\ req \in Request /\ req = wire[1] /\ 1 \in 1..Len(wire) /\ wire' \in Seq(Request)
        /\ \A i \in 1..Len(wire') : \E j \in 1..Len(wire) : wire'[i] = wire[j]
        /\ \A i \in 1..Len(wire) : i = 1 \/ \E j \in 1..Len(wire') : wire'[j] = wire[i]
    BY <1>1, TakenFromHead
  <1>3. reply \in Response /\ reply.id = req.id /\ req.id \in Given
    BY <1>2 DEF Request, Response
  <1>4. inbox' = IF Waits(req.op) THEN Append(inbox, reply) ELSE inbox
    BY DEF Serve
  <1>5. session' \in {session, session \cup {req.id}, session \ {req.sub}}
    BY DEF Serve
  <1> HIDE DEF req, reply
  <1>6. /\ inbox' \in Seq(Response)
        /\ \A i \in 1..Len(inbox) : \E j \in 1..Len(inbox') : inbox'[j] = inbox[i]
        /\ Waits(req.op) => \E j \in 1..Len(inbox') : inbox'[j].id = req.id
    <2>1. CASE Waits(req.op)
      <3>1. /\ inbox' \in Seq(Response) /\ Len(inbox') = Len(inbox) + 1 /\ Len(inbox) \in Nat
            /\ \A i \in 1..Len(inbox) : inbox'[i] = inbox[i]
            /\ inbox'[Len(inbox) + 1] = reply
        BY <1>1, <1>3, <1>4, <2>1
      <3>2. Len(inbox) + 1 \in 1..Len(inbox') /\ \A i \in 1..Len(inbox) : i \in 1..Len(inbox')
        BY <3>1
      <3> QED
        BY <3>1, <3>2, <1>3
    <2>2. CASE ~Waits(req.op)
      BY <1>1, <1>4, <2>2
    <2> QED
      BY <2>1, <2>2
  <1>7. session' \subseteq Given /\ IsFiniteSet(session')
    <2>1. session \subseteq Given /\ IsFiniteSet(session)
      BY DEF ClientTypeOK
    <2>2. IsFiniteSet(session \cup {req.id}) /\ IsFiniteSet(session \ {req.sub})
      BY <2>1, FS_AddElement, FS_RemoveElement
    <2> QED
      BY <1>3, <1>5, <2>1, <2>2
  <1>8. ClientTypeOK'
    BY <1>2, <1>6, <1>7, SameIds DEF ClientTypeOK, Serve, local, handlers
  <1> QED
    BY <1>2, <1>6, <1>8 DEF req

LEMMA ServeCall == ASSUME CallInv, Serve PROVE CallInv'
  <1>1. /\ ClientTypeOK'
        /\ \A i \in 1..Len(wire') : \E j \in 1..Len(wire) : wire'[i] = wire[j]
        /\ \A i \in 1..Len(wire) :
             \/ \E j \in 1..Len(wire') : wire'[j] = wire[i]
             \/ i = 1 /\ (Waits(wire[1].op) => \E j \in 1..Len(inbox') : inbox'[j].id = wire[1].id)
        /\ \A i \in 1..Len(inbox) : \E j \in 1..Len(inbox') : inbox'[j] = inbox[i]
    BY ServeEffect DEF CallInv
  <1>2. UNCHANGED <<task, subscriptions_once, handling>>
    BY DEF Serve, handlers
  <1>3. \A u \in Pending' : u \in Pending /\ task'[u] = task[u]
    BY <1>2 DEF Pending
  <1>4. ASSUME NEW u \in Tasks, At(u, "wait"), handling' = {}
        PROVE  \/ \E i \in 1..Len(wire') : wire'[i].id = task[u].id
               \/ \E i \in 1..Len(inbox') : inbox'[i].id = task[u].id
    <2>1. u \in Pending
      BY <1>4 DEF At, Pending
    <2>2. CASE \E i \in 1..Len(wire) : wire[i].id = task[u].id
      <3>1. PICK i \in 1..Len(wire) : wire[i].id = task[u].id
        BY <2>2
      <3>2. Waits(wire[i].op)
        BY <2>1, <3>1 DEF CallInv, RepliesAreAsked
      <3>3. CASE \E j \in 1..Len(wire') : wire'[j] = wire[i]
        BY <3>1, <3>3
      <3>4. CASE i = 1
        <4>1. wire[1].id = task[u].id /\ Waits(wire[1].op)
          BY <3>1, <3>2, <3>4
        <4>2. CASE \E j \in 1..Len(wire') : wire'[j] = wire[1]
          BY <4>1, <4>2
        <4>3. CASE \E j \in 1..Len(inbox') : inbox'[j].id = wire[1].id
          BY <4>1, <4>3
        <4> QED
          BY <1>1, <3>4, <4>1, <4>2, <4>3
      <3> QED
        BY <1>1, <3>3, <3>4
    <2>3. CASE \E i \in 1..Len(inbox) : inbox[i].id = task[u].id
      BY <1>1, <2>3
    <2> QED
      BY <1>2, <1>4, <2>2, <2>3 DEF CallInv, WaitersWillHear
  <1>5. \A u \in Tasks : At(u, "wait") => task[u].id \in DOMAIN subscriptions_once'
    BY <1>2 DEF CallInv, WaitersWillHear
  <1> QED
    BY <1>1, <1>3, <1>4, <1>5, CallsStay

LEMMA UpdateEffect ==
    ASSUME ClientTypeOK, Update
    PROVE  /\ ClientTypeOK'
           /\ \A i \in 1..Len(inbox) : \E j \in 1..Len(inbox') : inbox'[j] = inbox[i]
  <1> DEFINE n == Cardinality(session)
  <1>1. PICK order \in Orders(session) :
          inbox' = inbox \o [i \in DOMAIN order |-> [id |-> order[i], update |-> version + 1]]
    BY DEF Update
  <1> DEFINE told == [i \in DOMAIN order |-> [id |-> order[i], update |-> version + 1]]
  <1>2. n \in Nat /\ version \in Nat /\ session \subseteq Given
    BY FS_CardinalityType DEF ClientTypeOK
  <1>3. order \in [1..n -> session]
    BY DEF Orders
  <1>4. \A i \in 1..n : [id |-> order[i], update |-> version + 1] \in Response
    BY <1>2, <1>3 DEF Response
  <1>5. told \in Seq(Response)
    BY <1>2, <1>3, <1>4
  <1>6. inbox' = inbox \o told /\ inbox \in Seq(Response)
    BY <1>1 DEF ClientTypeOK
  <1> HIDE DEF told, n
  <1>7. inbox' \in Seq(Response) /\ \A i \in 1..Len(inbox) : i \in 1..Len(inbox') /\ inbox'[i] = inbox[i]
    BY <1>5, <1>6
  <1>8. ClientTypeOK'
    BY <1>2, <1>7, SameIds DEF ClientTypeOK, Update, local, handlers
  <1> QED
    BY <1>7, <1>8

LEMMA DeleteViewEffect ==
    ASSUME ClientTypeOK, DeleteView
    PROVE  /\ ClientTypeOK'
           /\ \A i \in 1..Len(inbox) : \E j \in 1..Len(inbox') : inbox'[j] = inbox[i]
  <1>1. PICK id \in DOMAIN subscriptions_once : inbox' = Append(inbox, [id |-> id, update |-> 0])
    BY DEF DeleteView
  <1>2. [id |-> id, update |-> 0] \in Response /\ inbox \in Seq(Response)
    BY DEF ClientTypeOK, Response
  <1>3. inbox' \in Seq(Response) /\ \A i \in 1..Len(inbox) : i \in 1..Len(inbox') /\ inbox'[i] = inbox[i]
    BY <1>1, <1>2
  <1>4. ClientTypeOK'
    BY <1>3, SameIds DEF ClientTypeOK, DeleteView, local, handlers, server
  <1> QED
    BY <1>3, <1>4

LEMMA ToldCall == ASSUME CallInv, Update \/ DeleteView PROVE CallInv'
  <1>1. ClientTypeOK' /\ \A i \in 1..Len(inbox) : \E j \in 1..Len(inbox') : inbox'[j] = inbox[i]
    BY UpdateEffect, DeleteViewEffect DEF CallInv
  <1>2. UNCHANGED <<task, subscriptions_once, handling, wire>>
    BY DEF Update, DeleteView, handlers
  <1>3. \A u \in Pending' : u \in Pending /\ task'[u] = task[u]
    BY <1>2 DEF Pending
  <1>4. \A u \in Tasks : At(u, "wait") /\ handling' = {} =>
          \/ \E i \in 1..Len(wire') : wire'[i].id = task[u].id
          \/ \E i \in 1..Len(inbox') : inbox'[i].id = task[u].id
    BY <1>1, <1>2 DEF CallInv, WaitersWillHear
  <1>5. \A u \in Tasks : At(u, "wait") => task[u].id \in DOMAIN subscriptions_once'
    BY <1>2 DEF CallInv, WaitersWillHear
  <1> QED
    BY <1>1, <1>2, <1>3, <1>4, <1>5, CallsStay

----------------------------------------------------------------------------
(* The handlers.                                                           *)

\* A message is taken: a call that waited for another one, and still waits, is
\* heard as it was.
LEMMA TakenCall ==
    ASSUME CallInv, ClientTypeOK', NEW msg, Received(msg),
           \A u \in Pending' : u \in Pending /\ task'[u] = task[u],
           \A i \in 1..Len(wire') : Waits(wire'[i].op) \/ \E j \in 1..Len(wire) : wire'[i] = wire[j],
           \A i \in 1..Len(wire) : \E j \in 1..Len(wire') : wire'[j] = wire[i],
           \A u \in Tasks : At(u, "wait") /\ task'[u] = task[u] =>
             task[u].id \in DOMAIN subscriptions_once' /\ task[u].id # msg.id
    PROVE  CallInv'
  <1>1. \A i \in 1..Len(inbox) : inbox[i] = msg \/ \E j \in 1..Len(inbox') : inbox'[j] = inbox[i]
    BY ReceivedEffect DEF CallInv
  <1>2. handling' = handling
    BY DEF Received
  <1>3. ASSUME NEW u \in Tasks, At(u, "wait"), task'[u] = task[u], handling' = {}
        PROVE  \/ \E i \in 1..Len(wire') : wire'[i].id = task[u].id
               \/ \E i \in 1..Len(inbox') : inbox'[i].id = task[u].id
    <2>1. CASE \E i \in 1..Len(wire) : wire[i].id = task[u].id
      BY <2>1
    <2>2. CASE \E i \in 1..Len(inbox) : inbox[i].id = task[u].id
      <3>1. PICK i \in 1..Len(inbox) : inbox[i].id = task[u].id
        BY <2>2
      <3>2. inbox[i] # msg
        BY <3>1, <1>3
      <3> QED
        BY <1>1, <3>1, <3>2
    <2> QED
      BY <1>2, <1>3, <2>1, <2>2 DEF CallInv, WaitersWillHear
  <1> QED
    BY <1>3, CallsStay

\* A message that has no handler of one response is of nobody who waits.
LEMMA NotForWaiters ==
    ASSUME CallInv, NEW id, id \notin DOMAIN subscriptions_once
    PROVE  \A u \in Tasks : At(u, "wait") => task[u].id # id
  BY DEF CallInv, WaitersWillHear

LEMMA HandleNothingCall == ASSUME CallInv, HandlePanics \/ HandleUnsolicited PROVE CallInv'
  <1>1. PICK msg : /\ Received(msg) /\ msg.id \notin DOMAIN subscriptions_once
                   /\ UNCHANGED <<task, local, subscriptions_once, subscriptions, running, wire>>
    BY DEF HandlePanics, HandleUnsolicited
  <1>2. inbox' \in Seq(Response)
    BY <1>1, ReceivedEffect DEF CallInv
  <1>3. ClientTypeOK'
    BY <1>1, <1>2, SameIds DEF CallInv, ClientTypeOK, Received, local
  <1>4. \A u \in Pending' : u \in Pending /\ task'[u] = task[u]
    BY <1>1 DEF Pending
  <1>5. \A u \in Tasks : At(u, "wait") =>
          task[u].id \in DOMAIN subscriptions_once' /\ task[u].id # msg.id
    BY <1>1, NotForWaiters DEF CallInv, WaitersWillHear
  <1> QED
    BY <1>1, <1>3, <1>4, <1>5, TakenCall

LEMMA HandleOnceEffect ==
    ASSUME ClientTypeOK, HandleOnce
    PROVE  \E msg \in Response :
             /\ Received(msg) /\ msg.id \in DOMAIN subscriptions_once
             /\ DOMAIN subscriptions_once' = DOMAIN subscriptions_once \ {msg.id}
             /\ running' \subseteq running
             /\ ClientTypeOK'
             /\ wire' = wire /\ subscriptions' = subscriptions
             /\ \/ /\ task' = task
                   /\ \A t \in Tasks : At(t, "wait") => task[t].id # msg.id
                \/ \E t \in Tasks :
                     /\ At(t, "wait") /\ task[t].id = msg.id
                     /\ task'[t].pc \in {"next", "idle"}
                     /\ \A u \in Tasks \ {t} : task'[u] = task[u]
  <1>1. PICK msg \in {inbox[i] : i \in 1..Len(inbox)} :
          /\ Received(msg) /\ msg.id \in DOMAIN subscriptions_once
          /\ subscriptions_once' = Without(subscriptions_once, msg.id)
          /\ running' = running \ {<<<<msg.id[1], 0>>, msg.id[2]>>}
          /\ IF \E t \in Tasks : task[t].id = msg.id /\ At(t, "wait")
             THEN \E t \in Tasks, ok \in BOOLEAN : task[t].id = msg.id /\ At(t, "wait") /\ After(t, ok)
             ELSE UNCHANGED <<task, features, features_lock>>
          /\ UNCHANGED <<id_gen, subscriptions, wire>>
    BY DEF HandleOnce
  <1>2. msg \in Response /\ inbox' \in Seq(Response)
    BY <1>1, ReceivedEffect
  <1>3. DOMAIN subscriptions_once' = DOMAIN subscriptions_once \ {msg.id}
    BY <1>1, OnceDomains
  <1>4. /\ task' \in [Tasks -> Calls]
        /\ \/ /\ task' = task
              /\ \A t \in Tasks : At(t, "wait") => task[t].id # msg.id
           \/ \E t \in Tasks :
                /\ At(t, "wait") /\ task[t].id = msg.id
                /\ task'[t].pc \in {"next", "idle"}
                /\ \A u \in Tasks \ {t} : task'[u] = task[u]
    <2>1. CASE \E t \in Tasks : task[t].id = msg.id /\ At(t, "wait")
      <3>1. PICK t \in Tasks, ok \in BOOLEAN : task[t].id = msg.id /\ At(t, "wait") /\ After(t, ok)
        BY <1>1, <2>1
      <3>2. /\ task' \in [Tasks -> Calls]
            /\ task'[t].pc \in {"next", "idle"}
            /\ \A u \in Tasks \ {t} : task'[u] = task[u]
        BY <3>1, AfterEffect DEF ClientTypeOK
      <3> QED
        BY <3>1, <3>2
    <2>2. CASE ~\E t \in Tasks : task[t].id = msg.id /\ At(t, "wait")
      BY <1>1, <2>2 DEF ClientTypeOK
    <2> QED
      BY <2>1, <2>2
  <1>5. ClientTypeOK'
    BY <1>1, <1>2, <1>3, <1>4, SameIds DEF ClientTypeOK, Received
  <1> QED
    BY <1>1, <1>2, <1>3, <1>4, <1>5

LEMMA HandleOnceCall == ASSUME CallInv, HandleOnce PROVE CallInv'
  <1>1. PICK msg \in Response :
          /\ Received(msg) /\ msg.id \in DOMAIN subscriptions_once
          /\ DOMAIN subscriptions_once' = DOMAIN subscriptions_once \ {msg.id}
          /\ ClientTypeOK' /\ wire' = wire
          /\ \/ /\ task' = task
                /\ \A t \in Tasks : At(t, "wait") => task[t].id # msg.id
             \/ \E t \in Tasks :
                  /\ At(t, "wait") /\ task[t].id = msg.id
                  /\ task'[t].pc \in {"next", "idle"}
                  /\ \A u \in Tasks \ {t} : task'[u] = task[u]
    BY HandleOnceEffect DEF CallInv
  <1>2. \A u \in Pending' : u \in Pending /\ task'[u] = task[u]
    BY <1>1 DEF Pending
  <1>3. \A u \in Tasks : At(u, "wait") /\ task'[u] = task[u] => task[u].id # msg.id
    <2> SUFFICES ASSUME NEW u \in Tasks, At(u, "wait"), task'[u] = task[u], task[u].id = msg.id
                 PROVE  FALSE
      OBVIOUS
    <2>1. PICK t \in Tasks : /\ At(t, "wait") /\ task[t].id = msg.id
                             /\ task'[t].pc \in {"next", "idle"}
      BY <1>1
    <2>2. t \in Pending /\ u \in Pending
      BY <2>1 DEF At, Pending
    <2>3. t = u
      BY <2>1, <2>2 DEF CallInv, IdsAreOwn
    <2> QED
      BY <2>1, <2>3 DEF At
  <1>4. \A u \in Tasks : At(u, "wait") /\ task'[u] = task[u] =>
          task[u].id \in DOMAIN subscriptions_once' /\ task[u].id # msg.id
    BY <1>1, <1>3 DEF CallInv, WaitersWillHear
  <1> QED
    BY <1>1, <1>2, <1>4, TakenCall

\* The callback of a stream runs; that of a Table made from a View asks.
LEMMA HandleStreamEffect ==
    ASSUME ClientTypeOK, HandleStream
    PROVE  \E msg \in Response :
             /\ Received(msg) /\ msg.id \in subscriptions \ DOMAIN subscriptions_once
             /\ ~WriterWaits
             /\ running' = running \cup {<<msg.id, msg.update>>}
             /\ DOMAIN subscriptions_once \subseteq DOMAIN subscriptions_once'
             /\ ClientTypeOK'
             /\ \A i \in 1..Len(wire') :
                  \/ wire'[i].op = "follow_update"
                  \/ \E j \in 1..Len(wire) : wire'[i] = wire[j]
             /\ \A i \in 1..Len(wire) : \E j \in 1..Len(wire') : wire'[j] = wire[i]
             /\ task' = task /\ subscriptions' = subscriptions
  <1>1. PICK msg \in {inbox[i] : i \in 1..Len(inbox)} :
          /\ Received(msg) /\ msg.id \in subscriptions \ DOMAIN subscriptions_once
          /\ ~WriterWaits
          /\ running' = running \cup {<<msg.id, msg.update>>}
          /\ IF msg.id = follow
             THEN LET id == <<msg.id[1], msg.update>>
                  IN /\ subscriptions_once' = With(subscriptions_once, id, "reply")
                     /\ wire' = Append(wire, [id |-> id, op |-> "follow_update", sub |-> NoId])
             ELSE UNCHANGED <<subscriptions_once, wire>>
          /\ UNCHANGED <<task, local, subscriptions>>
    BY DEF HandleStream
  <1>2. msg \in Response /\ msg.id \in Given /\ msg.update \in Nat /\ inbox' \in Seq(Response)
    BY <1>1, ReceivedEffect
  <1>3. /\ DOMAIN subscriptions_once \subseteq DOMAIN subscriptions_once'
        /\ DOMAIN subscriptions_once' \subseteq Given
        /\ wire' \in Seq(Request)
        /\ \A i \in 1..Len(wire') :
             wire'[i].op = "follow_update" \/ \E j \in 1..Len(wire) : wire'[i] = wire[j]
        /\ \A i \in 1..Len(wire) : \E j \in 1..Len(wire') : wire'[j] = wire[i]
    <2>1. CASE msg.id = follow
      <3> DEFINE id == <<msg.id[1], msg.update>>
      <3>1. id \in Given /\ NoId \in Given /\ "follow_update" \in Names
        BY <1>2, NamesOfCalls DEF Given, NoId, ClientTypeOK
      <3>2. /\ subscriptions_once' = With(subscriptions_once, id, "reply")
            /\ wire' = Append(wire, [id |-> id, op |-> "follow_update", sub |-> NoId])
        BY <1>1, <2>1
      <3> HIDE DEF id
      <3>3. DOMAIN subscriptions_once' = DOMAIN subscriptions_once \cup {id}
        BY <3>2, OnceDomains
      <3>4. /\ wire' \in Seq(Request) /\ Len(wire') = Len(wire) + 1 /\ Len(wire) \in Nat
            /\ \A i \in 1..Len(wire) : wire'[i] = wire[i]
            /\ wire'[Len(wire) + 1].op = "follow_update"
        BY <3>1, <3>2, WireGrows DEF ClientTypeOK
      <3>5. \A i \in 1..Len(wire') : i = Len(wire) + 1 \/ i \in 1..Len(wire)
        BY <3>4
      <3>6. \A i \in 1..Len(wire) : i \in 1..Len(wire')
        BY <3>4
      <3> QED
        BY <3>1, <3>3, <3>4, <3>5, <3>6 DEF ClientTypeOK
    <2>2. CASE msg.id # follow
      <3>1. UNCHANGED <<subscriptions_once, wire>>
        BY <1>1, <2>2
      <3> QED
        BY <3>1 DEF ClientTypeOK
    <2> QED
      BY <2>1, <2>2
  <1>4. ClientTypeOK'
    BY <1>1, <1>2, <1>3, SameIds DEF ClientTypeOK, Received, local
  <1> QED
    BY <1>1, <1>2, <1>3, <1>4

LEMMA HandleStreamCall == ASSUME CallInv, HandleStream PROVE CallInv'
  <1>1. PICK msg \in Response :
          /\ Received(msg) /\ msg.id \in subscriptions \ DOMAIN subscriptions_once
          /\ DOMAIN subscriptions_once \subseteq DOMAIN subscriptions_once'
          /\ ClientTypeOK'
          /\ \A i \in 1..Len(wire') :
               wire'[i].op = "follow_update" \/ \E j \in 1..Len(wire) : wire'[i] = wire[j]
          /\ \A i \in 1..Len(wire) : \E j \in 1..Len(wire') : wire'[j] = wire[i]
          /\ task' = task
    BY HandleStreamEffect DEF CallInv
  <1>2. \A u \in Pending' : u \in Pending /\ task'[u] = task[u]
    BY <1>1 DEF Pending
  <1>3. \A i \in 1..Len(wire') : Waits(wire'[i].op) \/ \E j \in 1..Len(wire) : wire'[i] = wire[j]
    BY <1>1 DEF Waits
  <1>4. \A u \in Tasks : At(u, "wait") =>
          task[u].id \in DOMAIN subscriptions_once' /\ task[u].id # msg.id
    BY <1>1, NotForWaiters DEF CallInv, WaitersWillHear
  <1> QED
    BY <1>1, <1>2, <1>3, <1>4, TakenCall

\* A callback that returns, and the steps of handle_error before the last.
LEMMA QuietCall ==
    ASSUME CallInv, CallbackEnds \/ ErrorTold \/ ClearStreams
    PROVE  CallInv'
  <1>1. /\ id_gen' = id_gen
        /\ UNCHANGED <<task, subscriptions_once, up, wire, inbox, session, version, removed>>
        /\ subscriptions' \subseteq subscriptions
        /\ handling = {} \/ handling' # {}
    BY DEF CallbackEnds, ErrorTold, ClearStreams, local, handlers, link, server
  <1>2. ClientTypeOK'
    BY <1>1, SameIds DEF CallInv, ClientTypeOK
  <1>3. \A u \in Pending' : u \in Pending /\ task'[u] = task[u]
    BY <1>1 DEF Pending
  <1> QED
    BY <1>1, <1>2, <1>3, CallsStay DEF CallInv, WaitersWillHear

\* The error ends every call that waits.
LEMMA DrainOnceCall == ASSUME CallInv, DrainOnce PROVE CallInv'
  <1>1. /\ id_gen' = id_gen /\ subscriptions_once' = <<>>
        /\ UNCHANGED <<subscriptions, removed, up, wire, inbox, session, version>>
        /\ task' = [t \in Tasks |-> IF At(t, "wait") THEN Idle ELSE task[t]]
    BY DEF DrainOnce, link, server
  <1>2. Idle \in Calls /\ Idle.pc = "idle"
    BY Idles DEF Idle, CallInv, ClientTypeOK
  <1>3. task' \in [Tasks -> Calls]
    BY <1>1, <1>2 DEF CallInv, ClientTypeOK
  <1>4. ClientTypeOK'
    BY <1>1, <1>3, SameIds DEF CallInv, ClientTypeOK
  <1>5. \A u \in Pending' : u \in Pending /\ task'[u] = task[u]
    BY <1>1, <1>2 DEF Pending, At
  <1>6. \A u \in Tasks : At(u, "wait") => task'[u] # task[u]
    BY <1>1, <1>2 DEF At
  <1> QED
    BY <1>1, <1>4, <1>5, <1>6, CallsStay

LEMMA ClientInitCall == ClientInit => CallInv
  <1> SUFFICES ASSUME ClientInit
               PROVE  CallInv
    OBVIOUS
  <1>1. Idle \in Calls /\ Idle.pc = "idle"
    BY Idles DEF Idle, ClientInit
  <1>2. Pending = {}
    BY <1>1 DEF Pending, ClientInit
  <1>3. IsFiniteSet(session)
    BY FS_EmptySet DEF ClientInit
  <1>4. ClientTypeOK
    BY <1>1, <1>3 DEF ClientTypeOK, ClientInit
  <1>5. WaitersWillHear
    BY <1>1 DEF WaitersWillHear, ClientInit, At
  <1> QED
    BY <1>2, <1>4, <1>5 DEF CallInv, IdsAreOwn, RepliesAreAsked

LEMMA ClientNextCall == ASSUME CallInv, [ClientNext]_clientVars PROVE CallInv'
  <1>1. ASSUME NEW t \in Tasks, Call(t) PROVE CallInv'
    BY <1>1, AskCall, OnDeleteCall, OnUpdateCall, RemoveUpdateCall, GetFeaturesCall,
       TableFromViewCall DEF Call
  <1>2. ASSUME NEW t \in Tasks, TaskStep(t) PROVE CallInv'
    BY <1>2, SubscribeCall, UnsubscribeCall, LockFeaturesCall, NextCallCall, SendCall,
       SendFailsCall, UndoCall DEF TaskStep
  <1>3. CASE HandleResponse
    BY <1>3, HandleOnceCall, HandleStreamCall, HandleNothingCall DEF HandleResponse
  <1>4. CASE HandleError \/ CallbackEnds
    BY <1>4, QuietCall, DrainOnceCall DEF HandleError
  <1>5. CASE LinkFails \/ Reconnect \/ Serve \/ Update \/ DeleteView
    BY <1>5, LinkFailsCall, ReconnectCall, ServeCall, ToldCall
  <1>6. CASE UNCHANGED clientVars
    <2>1. id_gen' = id_gen /\ UNCHANGED <<task, subscriptions_once, subscriptions, removed, up, wire, inbox,
                                         handling, session, version>>
      BY <1>6 DEF clientVars
    <2>2. ClientTypeOK'
      BY <2>1, SameIds DEF CallInv, ClientTypeOK
    <2>3. \A u \in Pending' : u \in Pending /\ task'[u] = task[u]
      BY <2>1 DEF Pending
    <2> QED
      BY <2>1, <2>2, <2>3, CallsStay DEF CallInv, WaitersWillHear
  <1> QED
    BY <1>1, <1>2, <1>3, <1>4, <1>5, <1>6 DEF ClientNext

(* The calls of a Client, in every behaviour: their ids are their own, what *)
(* is sent under them asks for a reply, and whoever waits will hear.        *)
THEOREM CallsAreInOrder == ClientSpec => []CallInv
  <1>1. ClientInit => CallInv
    BY ClientInitCall
  <1>2. CallInv /\ [ClientNext]_clientVars => CallInv'
    BY ClientNextCall
  <1> QED
    BY <1>1, <1>2, PTL DEF ClientSpec

(* A call that waits for a reply has a handler and somebody who will call   *)
(* it, however calls, failures and reconnections interleave.                *)
THEOREM NobodyWaitsInVain == ClientSpec => []WaitersWillHear
  <1>1. CallInv => WaitersWillHear
    BY DEF CallInv
  <1> QED
    BY <1>1, CallsAreInOrder, PTL

----------------------------------------------------------------------------
(* Removed streams are silent.                                             *)

LEMMA StreamsStay ==
    ASSUME StreamInv,
           \A t \in Tasks : task'[t].pc \in {"lock", "unlock"} => task'[t] = task[t],
           subscriptions' \subseteq subscriptions, removed' = removed, running' \subseteq running
    PROVE  StreamInv'
  <1>1. NewStreams' \subseteq NewStreams
    BY DEF NewStreams, At
  <1>2. NewStreamsAreNew'
    BY <1>1 DEF StreamInv, NewStreamsAreNew, At
  <1>3. RemovedAreGone' /\ RemovedStreamsAreSilent'
    BY DEF StreamInv, RemovedAreGone, RemovedStreamsAreSilent
  <1> QED
    BY <1>2, <1>3 DEF StreamInv

\* The steps of one call that leave the streams alone: it is then neither
\* before the lock nor at it.
LEMMA OneCallStays ==
    ASSUME StreamInv, NEW t \in Tasks, \A u \in Tasks \ {t} : task'[u] = task[u],
           task'[t].pc \notin {"lock", "unlock"},
           subscriptions' \subseteq subscriptions, removed' = removed, running' \subseteq running
    PROVE  StreamInv'
  BY StreamsStay

LEMMA SubscribeOnceStreams ==
    ASSUME CallInv, StreamInv, NEW t \in Tasks, NEW op \in Names, NEW handler,
           SubscribeOnce(t, op, NoId, handler),
           UNCHANGED <<subscriptions, removed, running, link, session, version>>
    PROVE  StreamInv'
  <1>1. /\ task'[t] = [op |-> op, pc |-> "send", id |-> NextId, sub |-> NoId]
        /\ \A u \in Tasks \ {t} : task'[u] = task[u]
    BY SubscribeOnceType DEF CallInv
  <1> QED
    BY <1>1, OneCallStays

\* A stream with the next id is new.
LEMMA NewStream ==
    ASSUME CallInv, StreamInv, id_gen' = id_gen + 1, NEW t \in Tasks,
           task'[t].pc = "lock", task'[t].id = NextId,
           \A u \in Tasks \ {t} : task'[u] = task[u],
           UNCHANGED <<subscriptions, removed, running>>
    PROVE  StreamInv'
  <1>1. NextId \notin Given
    BY MoreIds DEF CallInv
  <1>2. NewStreams' \subseteq NewStreams \cup {NextId}
    BY DEF NewStreams, At
  <1>3. NextId \notin subscriptions \cup removed /\ \A u \in Tasks : task[u].sub # NextId
    BY <1>1, IdsAreGiven DEF CallInv, ClientTypeOK
  <1>4. NewStreamsAreNew'
    BY <1>2, <1>3 DEF StreamInv, NewStreamsAreNew, At
  <1> QED
    BY <1>4 DEF StreamInv, RemovedAreGone, RemovedStreamsAreSilent

LEMMA CallStreams ==
    ASSUME CallInv, StreamInv, NEW t \in Tasks, Call(t)
    PROVE  StreamInv'
  <1>1. CASE Ask(t)
    <2>1. PICK op \in Ops \cap Requests : SubscribeOnce(t, op, NoId, "reply")
      BY <1>1 DEF Ask
    <2> QED
      BY <1>1, <2>1, NamesOfCalls, SubscribeOnceStreams DEF Ask, server
  <1>2. CASE OnDelete(t)
    BY <1>2, NamesOfCalls, SubscribeOnceStreams DEF OnDelete, server
  <1>3. CASE TableFromView(t)
    BY <1>3, NamesOfCalls, SubscribeOnceStreams DEF TableFromView, server
  <1>4. CASE OnUpdate(t)
    <2>1. /\ id_gen' = id_gen + 1 /\ task'[t].pc = "lock" /\ task'[t].id = NextId
          /\ \A u \in Tasks \ {t} : task'[u] = task[u]
      BY <1>4, OnUpdateType DEF CallInv
    <2> QED
      BY <1>4, <2>1, NewStream DEF OnUpdate, handlers
  <1>5. CASE GetFeatures(t)
    BY <1>5, GetFeaturesType, OneCallStays DEF CallInv, GetFeatures, handlers
  <1>6. CASE RemoveUpdate(t)
    <2>1. /\ task'[t].pc = "unlock" /\ task'[t].sub \in subscriptions
          /\ \A u \in Tasks \ {t} : task'[u] = task[u]
      BY <1>6, RemoveUpdateType DEF CallInv
    <2>2. UNCHANGED <<subscriptions, removed, running>>
      BY <1>6 DEF RemoveUpdate, handlers
    <2>3. NewStreams' \subseteq NewStreams
      BY <2>1 DEF NewStreams, At
    <2>4. NewStreamsAreNew'
      BY <2>1, <2>2, <2>3 DEF StreamInv, NewStreamsAreNew, At
    <2> QED
      BY <2>2, <2>4 DEF StreamInv, RemovedAreGone, RemovedStreamsAreSilent
  <1> QED
    BY <1>1, <1>2, <1>3, <1>4, <1>5, <1>6 DEF Call

LEMMA SubscribeStreams ==
    ASSUME CallInv, StreamInv, NEW t \in Tasks, Subscribe(t)
    PROVE  StreamInv'
  <1>1. /\ task'[t].pc = "send" /\ \A u \in Tasks \ {t} : task'[u] = task[u]
    BY SubscribeType DEF CallInv
  <1>2. /\ subscriptions' = subscriptions \cup {task[t].id}
        /\ UNCHANGED <<removed, running>> /\ task[t].id \in NewStreams
    BY DEF Subscribe, NewStreams
  <1>3. NewStreams' \subseteq NewStreams \ {task[t].id}
    <2> SUFFICES ASSUME NEW u \in Tasks, At(u, "lock")'
                 PROVE  task'[u].id \in NewStreams \ {task[t].id}
      BY DEF NewStreams
    <2>1. u # t /\ task'[u] = task[u] /\ u \in Pending /\ t \in Pending
      BY <1>1 DEF At, Pending, Subscribe
    <2>2. task[u].id # task[t].id
      BY <2>1 DEF CallInv, IdsAreOwn
    <2> QED
      BY <2>1, <2>2 DEF NewStreams, At
  <1>4. NewStreamsAreNew'
    BY <1>1, <1>2, <1>3 DEF StreamInv, NewStreamsAreNew, At
  <1> QED
    BY <1>2, <1>4 DEF StreamInv, NewStreamsAreNew, RemovedAreGone, RemovedStreamsAreSilent

LEMMA UnsubscribeStreams ==
    ASSUME CallInv, StreamInv, NEW t \in Tasks, Unsubscribe(t)
    PROVE  StreamInv'
  <1>1. task'[t].pc \in {"send", "idle"} /\ \A u \in Tasks \ {t} : task'[u] = task[u]
    BY UnsubscribeType DEF CallInv
  <1>2. /\ subscriptions' = subscriptions \ {task[t].sub}
        /\ removed' = removed \cup {task[t].sub}
        /\ running' = {} /\ At(t, "unlock")
    BY DEF Unsubscribe
  <1>3. NewStreams' \subseteq NewStreams
    BY <1>1 DEF NewStreams, At
  <1>4. NewStreamsAreNew'
    BY <1>1, <1>2, <1>3 DEF StreamInv, NewStreamsAreNew, At
  <1> QED
    BY <1>2, <1>4 DEF StreamInv, RemovedAreGone, RemovedStreamsAreSilent

LEMMA TaskStepStreams ==
    ASSUME CallInv, StreamInv, NEW t \in Tasks, TaskStep(t)
    PROVE  StreamInv'
  <1>1. CASE LockFeatures(t)
    <2>1. CASE features
      <3>1. task' = [task EXCEPT ![t] = Idle]
        BY <1>1, <2>1 DEF LockFeatures
      <3>2. task'[t].pc = "idle" /\ \A u \in Tasks \ {t} : task'[u] = task[u]
        BY <3>1, IdleEffect DEF CallInv
      <3> QED
        BY <1>1, <3>2, OneCallStays DEF LockFeatures
    <2>2. CASE ~features
      <3>1. SubscribeOnce(t, task[t].op, NoId, "reply") /\ task[t].op \in Names
        BY <1>1, <2>2 DEF LockFeatures, CallInv, ClientTypeOK, Calls
      <3> QED
        BY <1>1, <3>1, SubscribeOnceStreams DEF LockFeatures, server
    <2> QED
      BY <2>1, <2>2
  <1>2. CASE NextCall(t)
    <2>1. CASE task[t].op = "make_table"
      BY <1>2, <2>1, FollowType, NewStream DEF CallInv, NextCall
    <2>2. CASE task[t].op # "make_table"
      <3>1. \E op \in Names : SubscribeOnce(t, op, NoId, "reply")
        BY <1>2, <2>2, NamesOfCalls DEF NextCall
      <3> QED
        BY <1>2, <3>1, SubscribeOnceStreams DEF NextCall
    <2> QED
      BY <2>1, <2>2
  <1>3. CASE Send(t)
    <2>1. task'[t].pc \in {"wait", "next", "idle"} /\ \A u \in Tasks \ {t} : task'[u] = task[u]
      BY <1>3, SendType DEF CallInv
    <2> QED
      BY <1>3, <2>1, OneCallStays DEF Send, handlers
  <1>4. CASE SendFails(t)
    <2>1. task'[t].pc \in {"undo", "next", "idle"} /\ \A u \in Tasks \ {t} : task'[u] = task[u]
      BY <1>4, SendFailsType DEF CallInv
    <2> QED
      BY <1>4, <2>1, OneCallStays DEF SendFails
  <1>5. CASE Undo(t)
    <2>1. task'[t].pc \in {"next", "idle"} /\ \A u \in Tasks \ {t} : task'[u] = task[u]
      BY <1>5, UndoType DEF CallInv
    <2> QED
      BY <1>5, <2>1, OneCallStays DEF Undo
  <1> QED
    BY <1>1, <1>2, <1>3, <1>4, <1>5, SubscribeStreams, UnsubscribeStreams DEF TaskStep

LEMMA HandleResponseStreams ==
    ASSUME CallInv, StreamInv, HandleResponse
    PROVE  StreamInv'
  <1>1. CASE HandleOnce
    <2>1. PICK msg \in Response :
            /\ Received(msg) /\ running' \subseteq running /\ subscriptions' = subscriptions
            /\ \/ task' = task
               \/ \E t \in Tasks :
                    /\ task'[t].pc \in {"next", "idle"}
                    /\ \A u \in Tasks \ {t} : task'[u] = task[u]
      BY <1>1, HandleOnceEffect DEF CallInv
    <2>2. \A t \in Tasks : task'[t].pc \in {"lock", "unlock"} => task'[t] = task[t]
      BY <2>1
    <2> QED
      BY <2>1, <2>2, StreamsStay DEF Received
  <1>2. CASE HandleStream
    <2>1. PICK msg \in Response :
            /\ Received(msg) /\ msg.id \in subscriptions
            /\ running' = running \cup {<<msg.id, msg.update>>}
            /\ task' = task /\ subscriptions' = subscriptions
      BY <1>2, HandleStreamEffect DEF CallInv
    <2>2. removed' = removed /\ msg.id \notin removed
      BY <2>1 DEF Received, StreamInv, RemovedAreGone
    <2>3. RemovedStreamsAreSilent'
      BY <2>1, <2>2 DEF StreamInv, RemovedStreamsAreSilent
    <2>4. NewStreamsAreNew' /\ RemovedAreGone'
      BY <2>1, <2>2 DEF StreamInv, NewStreamsAreNew, NewStreams, RemovedAreGone, At
    <2> QED
      BY <2>3, <2>4 DEF StreamInv
  <1>3. CASE HandlePanics \/ HandleUnsolicited
    BY <1>3, StreamsStay DEF HandlePanics, HandleUnsolicited, Received
  <1> QED
    BY <1>1, <1>2, <1>3 DEF HandleResponse

LEMMA ClientNextStreams ==
    ASSUME CallInv, StreamInv, [ClientNext]_clientVars
    PROVE  StreamInv'
  <1>1. CASE HandleError
    <2>1. \A t \in Tasks : task'[t].pc \in {"lock", "unlock"} => task'[t] = task[t]
      <3>1. Idle.pc = "idle"
        BY DEF Idle
      <3> QED
        BY <1>1, <3>1 DEF HandleError, ErrorTold, ClearStreams, DrainOnce
    <2>2. subscriptions' \subseteq subscriptions /\ removed' = removed /\ running' \subseteq running
      BY <1>1 DEF HandleError, ErrorTold, ClearStreams, DrainOnce, handlers
    <2> QED
      BY <2>1, <2>2, StreamsStay
  <1>2. CASE CallbackEnds
    BY <1>2, StreamsStay DEF CallbackEnds
  <1>3. CASE LinkFails \/ Reconnect \/ Serve \/ Update \/ DeleteView
    BY <1>3, StreamsStay DEF LinkFails, Reconnect, Serve, Update, DeleteView, handlers
  <1>4. CASE UNCHANGED clientVars
    BY <1>4, StreamsStay DEF clientVars
  <1> QED
    BY <1>1, <1>2, <1>3, <1>4, CallStreams, TaskStepStreams, HandleResponseStreams DEF ClientNext

(* Once remove_update has removed a stream, no callback of it runs or       *)
(* starts: whoever removes waits for those that run, and nothing adds the   *)
(* stream again.                                                            *)
THEOREM RemovedStreamsStayOut == ClientSpec => []StreamInv
  <1>1. ClientInit => StreamInv
    <2> SUFFICES ASSUME ClientInit
                 PROVE  StreamInv
      OBVIOUS
    <2>1. \A t \in Tasks : ~At(t, "lock") /\ ~At(t, "unlock")
      BY DEF ClientInit, At, Idle
    <2>2. subscriptions = {} /\ removed = {} /\ running = {}
      BY DEF ClientInit
    <2> QED
      BY <2>1, <2>2 DEF StreamInv, NewStreamsAreNew, RemovedAreGone, RemovedStreamsAreSilent
  <1>2. CallInv /\ StreamInv /\ [ClientNext]_clientVars => StreamInv'
    BY ClientNextStreams
  <1> QED
    BY <1>1, <1>2, CallsAreInOrder, PTL DEF ClientSpec

(* The part of it that a caller of remove_update relies on.                 *)
THEOREM RemovedStreamsStaySilent == ClientSpec => []RemovedStreamsAreSilent
  <1>1. StreamInv => RemovedStreamsAreSilent
    BY DEF StreamInv
  <1> QED
    BY <1>1, RemovedStreamsStayOut, PTL

----------------------------------------------------------------------------
(* Streams are heard.                                                      *)

\* A step after which there is no connection, or not a new one, and that asks
\* for no stream: no call is about to subscribe that was not, and no stream
\* that the server has, or will have, loses its callback.
LEMMA HeardStay ==
    ASSUME HeardInv, LostIsLost',
           \A t \in Tasks :
             \/ task'[t] = task[t]
             \/ task'[t].pc \in {"idle", "next", "wait"}
             \/ task'[t].pc \in {"send", "mutex"} /\ task'[t].op # "on_update",
           up' => up /\ subscriptions \cup removed \subseteq subscriptions' \cup removed',
           up' => subscriptions \subseteq subscriptions',
           Announced' \subseteq Announced
    PROVE  HeardInv'
  <1>1. SubscribersAreOnUpdate'
    BY DEF HeardInv, SubscribersAreOnUpdate, At
  <1>2. up' => Announced' \subseteq subscriptions' \cup removed'
    BY DEF HeardInv, StreamsAreListed
  <1>3. ASSUME NEW t \in Tasks, At(t, "send")', task'[t].op = "on_update"
        PROVE  /\ task'[t].sub = task'[t].id
               /\ up' => task'[t].id \in subscriptions'
               /\ \A u \in Tasks : At(u, "unlock")' => task'[u].sub # task'[t].id
    <2>1. task'[t] = task[t] /\ At(t, "send") /\ task[t].op = "on_update"
      BY <1>3 DEF At
    <2>2. \A u \in Tasks : At(u, "unlock")' => At(u, "unlock") /\ task'[u] = task[u]
      BY DEF At
    <2> QED
      BY <2>1, <2>2 DEF HeardInv, StreamsAreListed
  <1>4. \A t \in Tasks : At(t, "undo")' => task'[t].id \notin Announced'
    BY DEF HeardInv, StreamsAreListed, At
  <1>5. StreamsAreListed'
    BY <1>2, <1>3, <1>4 DEF StreamsAreListed
  <1> QED
    BY <1>1, <1>5 DEF HeardInv

\* Requests on the wire that are also on it afterwards.
LEMMA AnnouncedStay ==
    ASSUME session' \subseteq session,
           \A i \in 1..Len(wire') :
             wire'[i].op # "on_update" \/ \E j \in 1..Len(wire) : wire'[i] = wire[j]
    PROVE  Announced' \subseteq Announced
  BY DEF Announced

LEMMA SameLink ==
    ASSUME HeardInv, UNCHANGED <<up, wire, inbox, session>>, handling' \subseteq handling \/ ~up
    PROVE  LostIsLost' /\ Announced' = Announced
  BY DEF HeardInv, LostIsLost, Announced

\* A call that asks for no stream begins, or one moves on.
LEMMA OneCallHeard ==
    ASSUME HeardInv, NEW t \in Tasks, \A u \in Tasks \ {t} : task'[u] = task[u],
           \/ task'[t].pc \in {"idle", "next", "wait"}
           \/ task'[t].pc \in {"send", "mutex"} /\ task'[t].op # "on_update",
           UNCHANGED <<subscriptions, removed, handling, up, wire, inbox, session>>
    PROVE  HeardInv'
  <1>1. LostIsLost' /\ Announced' = Announced
    BY SameLink
  <1> QED
    BY <1>1, HeardStay

LEMMA SubscribeOnceHeard ==
    ASSUME CallInv, HeardInv, NEW t \in Tasks, NEW op \in Names, NEW handler, op # "on_update",
           SubscribeOnce(t, op, NoId, handler),
           UNCHANGED <<subscriptions, removed, handling, link, session, version>>
    PROVE  HeardInv'
  <1>1. /\ task'[t] = [op |-> op, pc |-> "send", id |-> NextId, sub |-> NoId]
        /\ \A u \in Tasks \ {t} : task'[u] = task[u]
    BY SubscribeOnceType DEF CallInv
  <1> QED
    BY <1>1, OneCallHeard DEF link

\* A call waits for the lock to add the stream of the next id.
LEMMA NewStreamHeard ==
    ASSUME CallInv, HeardInv, NEW t \in Tasks, id_gen' = id_gen + 1,
           task'[t].pc = "lock", task'[t].id = NextId, task'[t].sub = NextId,
           \A u \in Tasks \ {t} : task'[u] = task[u],
           UNCHANGED <<subscriptions, removed, handling, up, wire, inbox, session>>
    PROVE  HeardInv'
  <1>1. LostIsLost' /\ Announced' = Announced
    BY SameLink
  <1>2. SubscribersAreOnUpdate'
    BY DEF HeardInv, SubscribersAreOnUpdate, At
  <1>3. ASSUME NEW u \in Tasks, At(u, "send")' \/ At(u, "undo")' \/ At(u, "unlock")'
        PROVE  u # t /\ task'[u] = task[u]
    BY <1>3 DEF At
  <1>4. StreamsAreListed'
    BY <1>1, <1>3 DEF HeardInv, StreamsAreListed, At
  <1> QED
    BY <1>1, <1>2, <1>4 DEF HeardInv

LEMMA CallHeard ==
    ASSUME CallInv, HeardInv, NEW t \in Tasks, Call(t)
    PROVE  HeardInv'
  <1>1. CASE Ask(t)
    <2>1. PICK op \in Ops \cap Requests : SubscribeOnce(t, op, NoId, "reply")
      BY <1>1 DEF Ask
    <2>2. op # "on_update"
      BY DEF Requests, ClientRequests, SystemRequests, TableReads, TableWrites, TableQueries,
             ViewReads, ViewExports, ViewRequests
    <2> QED
      BY <1>1, <2>1, <2>2, NamesOfCalls, SubscribeOnceHeard DEF Ask, server
  <1>2. CASE OnDelete(t)
    BY <1>2, NamesOfCalls, SubscribeOnceHeard DEF OnDelete, server
  <1>3. CASE TableFromView(t)
    BY <1>3, NamesOfCalls, SubscribeOnceHeard DEF TableFromView, server
  <1>4. CASE OnUpdate(t)
    <2>1. /\ id_gen' = id_gen + 1
          /\ task'[t].pc = "lock" /\ task'[t].id = NextId /\ task'[t].sub = NextId
          /\ \A u \in Tasks \ {t} : task'[u] = task[u]
      BY <1>4, OnUpdateType DEF CallInv
    <2> QED
      BY <1>4, <2>1, NewStreamHeard DEF OnUpdate, handlers, link, server
  <1>5. CASE GetFeatures(t)
    <2>1. PICK name \in Ops \cap {"features", "expression_schema"} :
            task' = [task EXCEPT ![t] = [Idle EXCEPT !.op = name, !.pc = "mutex"]]
      BY <1>5 DEF GetFeatures
    <2>2. task'[t] = [Idle EXCEPT !.op = name, !.pc = "mutex"] /\ \A u \in Tasks \ {t} : task'[u] = task[u]
      BY <2>1 DEF CallInv, ClientTypeOK
    <2>3. task'[t].pc = "mutex" /\ task'[t].op = name /\ name # "on_update"
      BY <2>2 DEF Idle
    <2> QED
      BY <1>5, <2>2, <2>3, OneCallHeard DEF GetFeatures, handlers, link, server
  <1>6. CASE RemoveUpdate(t)
    <2>1. /\ task'[t].pc = "unlock" /\ task'[t].op = "remove_update"
          /\ \A u \in Tasks : task[u].sub # task'[t].sub
          /\ \A u \in Tasks \ {t} : task'[u] = task[u]
      BY <1>6, RemoveUpdateType DEF CallInv
    <2>2. UNCHANGED <<subscriptions, removed, handling, up, wire, inbox, session>>
      BY <1>6 DEF RemoveUpdate, handlers, link, server
    <2>3. LostIsLost' /\ Announced' = Announced
      BY <2>2, SameLink
    <2>4. SubscribersAreOnUpdate'
      BY <2>1 DEF HeardInv, SubscribersAreOnUpdate, At
    <2>5. ASSUME NEW u \in Tasks, At(u, "send")', task'[u].op = "on_update"
          PROVE  /\ task'[u].sub = task'[u].id
                 /\ up' => task'[u].id \in subscriptions'
                 /\ \A v \in Tasks : At(v, "unlock")' => task'[v].sub # task'[u].id
      <3>1. u # t /\ task'[u] = task[u] /\ At(u, "send") /\ task[u].op = "on_update"
        BY <2>1, <2>5 DEF At
      <3>2. task[u].sub = task[u].id /\ task'[t].sub # task[u].id
        BY <2>1, <3>1 DEF HeardInv, StreamsAreListed
      <3> QED
        BY <2>1, <2>2, <3>1, <3>2 DEF HeardInv, StreamsAreListed, At
    <2>6. \A u \in Tasks : At(u, "undo")' => task'[u].id \notin Announced'
      BY <2>1, <2>3 DEF HeardInv, StreamsAreListed, At
    <2>7. StreamsAreListed'
      BY <2>2, <2>3, <2>5, <2>6 DEF HeardInv, StreamsAreListed
    <2> QED
      BY <2>3, <2>4, <2>7 DEF HeardInv
  <1> QED
    BY <1>1, <1>2, <1>3, <1>4, <1>5, <1>6 DEF Call

LEMMA SubscribeHeard ==
    ASSUME CallInv, StreamInv, HeardInv, NEW t \in Tasks, Subscribe(t)
    PROVE  HeardInv'
  <1>1. /\ task'[t].pc = "send" /\ task'[t].id = task[t].id /\ task'[t].sub = task[t].sub
        /\ \A u \in Tasks \ {t} : task'[u] = task[u]
    BY SubscribeType DEF CallInv
  <1>2. /\ subscriptions' = subscriptions \cup {task[t].id} /\ At(t, "lock")
        /\ UNCHANGED <<removed, handling, up, wire, inbox, session>>
    BY DEF Subscribe, link, server
  <1>3. LostIsLost' /\ Announced' = Announced
    BY <1>2, SameLink
  <1>4. SubscribersAreOnUpdate'
    BY <1>1 DEF HeardInv, SubscribersAreOnUpdate, At
  <1>5. task[t].sub = task[t].id /\ task[t].id \in NewStreams
    BY <1>2 DEF HeardInv, SubscribersAreOnUpdate, NewStreams
  <1>6. ASSUME NEW u \in Tasks, At(u, "send")', task'[u].op = "on_update"
        PROVE  /\ task'[u].sub = task'[u].id
               /\ up' => task'[u].id \in subscriptions'
               /\ \A v \in Tasks : At(v, "unlock")' => task'[v].sub # task'[u].id
    <2>1. \A v \in Tasks : At(v, "unlock")' => task'[v] = task[v] /\ At(v, "unlock")
      BY <1>1 DEF At
    <2>2. CASE u = t
      BY <1>1, <1>2, <1>5, <2>1, <2>2 DEF StreamInv, NewStreamsAreNew
    <2>3. CASE u # t
      <3>1. task'[u] = task[u] /\ At(u, "send")
        BY <1>1, <1>6, <2>3 DEF At
      <3> QED
        BY <1>2, <1>6, <2>1, <3>1 DEF HeardInv, StreamsAreListed
    <2> QED
      BY <2>2, <2>3
  <1>7. \A u \in Tasks : At(u, "undo")' => task'[u].id \notin Announced'
    BY <1>1, <1>3 DEF HeardInv, StreamsAreListed, At
  <1>8. StreamsAreListed'
    BY <1>2, <1>3, <1>6, <1>7 DEF HeardInv, StreamsAreListed
  <1> QED
    BY <1>3, <1>4, <1>8 DEF HeardInv

LEMMA UnsubscribeHeard ==
    ASSUME CallInv, HeardInv, NEW t \in Tasks, Unsubscribe(t)
    PROVE  HeardInv'
  <1>1. /\ At(t, "unlock") /\ subscriptions' = subscriptions \ {task[t].sub}
        /\ removed' = removed \cup {task[t].sub}
        /\ UNCHANGED <<handling, up, wire, inbox, session>>
    BY DEF Unsubscribe, link, server
  <1>2. /\ task'[t].pc = "idle" \/ (task'[t].pc = "send" /\ task'[t].op = task[t].op)
        /\ \A u \in Tasks \ {t} : task'[u] = task[u]
    BY UnsubscribeType DEF CallInv
  <1>3. task[t].op # "on_update"
    BY <1>1 DEF HeardInv, SubscribersAreOnUpdate
  <1>4. LostIsLost' /\ Announced' = Announced
    BY <1>1, SameLink
  <1>5. SubscribersAreOnUpdate'
    BY <1>2 DEF HeardInv, SubscribersAreOnUpdate, At
  <1>6. up' => Announced' \subseteq subscriptions' \cup removed'
    BY <1>1, <1>4 DEF HeardInv, StreamsAreListed
  <1>7. ASSUME NEW u \in Tasks, At(u, "send")', task'[u].op = "on_update"
        PROVE  /\ task'[u].sub = task'[u].id
               /\ up' => task'[u].id \in subscriptions'
               /\ \A v \in Tasks : At(v, "unlock")' => task'[v].sub # task'[u].id
    <2>1. \A v \in Tasks : At(v, "unlock")' => task'[v] = task[v] /\ At(v, "unlock")
      BY <1>2 DEF At
    <2>2. task'[u] = task[u] /\ At(u, "send") /\ task[u].op = "on_update"
      BY <1>2, <1>3, <1>7 DEF At
    <2> QED
      BY <1>1, <2>1, <2>2 DEF HeardInv, StreamsAreListed
  <1>8. \A u \in Tasks : At(u, "undo")' => task'[u].id \notin Announced'
    BY <1>2, <1>4 DEF HeardInv, StreamsAreListed, At
  <1>9. StreamsAreListed'
    BY <1>6, <1>7, <1>8 DEF StreamsAreListed
  <1> QED
    BY <1>4, <1>5, <1>9 DEF HeardInv

LEMMA SendHeard ==
    ASSUME CallInv, HeardInv, NEW t \in Tasks, Send(t)
    PROVE  HeardInv'
  <1> DEFINE n == Len(wire) + 1
  <1>1. /\ task'[t].pc \in {"wait", "next", "idle"}
        /\ \A u \in Tasks \ {t} : task'[u] = task[u]
        /\ Len(wire') = n /\ Len(wire) \in Nat
        /\ \A i \in 1..Len(wire) : wire'[i] = wire[i]
        /\ wire'[n].id = task[t].id /\ wire'[n].op = task[t].op
    BY SendType DEF CallInv
  <1>2. At(t, "send") /\ up /\ UNCHANGED <<subscriptions, removed, handling, up, inbox, session>>
    BY DEF Send, handlers, server
  <1>3. LostIsLost'
    BY <1>2 DEF HeardInv, LostIsLost
  <1>4. SubscribersAreOnUpdate'
    BY <1>1 DEF HeardInv, SubscribersAreOnUpdate, At
  <1>5. Announced' \subseteq Announced \cup {task[t].id}
    <2>1. \A i \in 1..Len(wire') : i = n \/ i \in 1..Len(wire)
      BY <1>1
    <2> HIDE DEF n
    <2> QED
      BY <1>1, <1>2, <2>1 DEF Announced
  <1>6. task[t].op # "on_update" => Announced' \subseteq Announced
    <2>1. \A i \in 1..Len(wire') : i = n \/ i \in 1..Len(wire)
      BY <1>1
    <2> HIDE DEF n
    <2> QED
      BY <1>1, <1>2, <2>1 DEF Announced
  <1>7. task[t].op = "on_update" => task[t].id \in subscriptions
    BY <1>2 DEF HeardInv, StreamsAreListed
  <1>8. ASSUME NEW u \in Tasks, At(u, "undo")'
        PROVE  task'[u].id \notin Announced'
    <2>1. u # t /\ At(u, "undo") /\ task'[u] = task[u]
      BY <1>1, <1>8 DEF At
    <2>2. task[u].id # task[t].id
      BY <1>2, <2>1 DEF CallInv, IdsAreOwn, Pending, At
    <2> QED
      BY <1>5, <2>1, <2>2 DEF HeardInv, StreamsAreListed
  <1>9. \A u \in Tasks : At(u, "send")' \/ At(u, "unlock")' => u # t /\ task'[u] = task[u]
    BY <1>1 DEF At
  <1>10. StreamsAreListed'
    <2>1. Announced' \subseteq subscriptions' \cup removed'
      BY <1>2, <1>5, <1>6, <1>7 DEF HeardInv, StreamsAreListed
    <2>2. \A u \in Tasks : At(u, "send")' \/ At(u, "unlock")' => (At(u, "send") \/ At(u, "unlock")) /\ task'[u] = task[u]
      BY <1>9 DEF At
    <2>3. \A u \in Tasks : At(u, "send")' /\ task'[u].op = "on_update" =>
            /\ task'[u].sub = task'[u].id
            /\ up' => task'[u].id \in subscriptions'
            /\ \A v \in Tasks : At(v, "unlock")' => task'[v].sub # task'[u].id
      BY <1>2, <2>2 DEF HeardInv, StreamsAreListed, At
    <2> QED
      BY <1>8, <2>1, <2>3 DEF StreamsAreListed
  <1> QED
    BY <1>3, <1>4, <1>10 DEF HeardInv

LEMMA SendFailsHeard ==
    ASSUME CallInv, HeardInv, NEW t \in Tasks, SendFails(t)
    PROVE  HeardInv'
  <1>1. /\ task'[t].pc \in {"undo", "next", "idle"}
        /\ \A u \in Tasks \ {t} : task'[u] = task[u]
    BY SendFailsType DEF CallInv
  <1>2. ~up /\ UNCHANGED <<subscriptions, removed, up, wire, inbox, session>>
    BY DEF SendFails, link, server
  <1>3. LostIsLost' /\ Announced' = Announced
    BY <1>2, SameLink
  <1>4. Announced' = {}
    BY <1>2, <1>3 DEF HeardInv, LostIsLost, Announced
  <1>5. SubscribersAreOnUpdate'
    BY <1>1 DEF HeardInv, SubscribersAreOnUpdate, At
  <1>6. \A u \in Tasks : At(u, "send")' \/ At(u, "unlock")' => u # t /\ task'[u] = task[u]
    BY <1>1 DEF At
  <1>7. StreamsAreListed'
    BY <1>2, <1>4, <1>6 DEF HeardInv, StreamsAreListed, At
  <1> QED
    BY <1>3, <1>5, <1>7 DEF HeardInv

LEMMA UndoHeard ==
    ASSUME CallInv, HeardInv, NEW t \in Tasks, Undo(t)
    PROVE  HeardInv'
  <1>1. /\ task'[t].pc \in {"next", "idle"}
        /\ \A u \in Tasks \ {t} : task'[u] = task[u]
    BY UndoType DEF CallInv
  <1>2. /\ At(t, "undo") /\ subscriptions' = subscriptions \ {task[t].id}
        /\ UNCHANGED <<removed, handling, up, wire, inbox, session>>
    BY DEF Undo, link, server
  <1>3. LostIsLost' /\ Announced' = Announced
    BY <1>2, SameLink
  <1>4. SubscribersAreOnUpdate'
    BY <1>1 DEF HeardInv, SubscribersAreOnUpdate, At
  <1>5. task[t].id \notin Announced
    BY <1>2 DEF HeardInv, StreamsAreListed
  <1>6. ASSUME NEW u \in Tasks, At(u, "send")', task'[u].op = "on_update"
        PROVE  /\ task'[u].sub = task'[u].id
               /\ up' => task'[u].id \in subscriptions'
               /\ \A v \in Tasks : At(v, "unlock")' => task'[v].sub # task'[u].id
    <2>1. \A v \in Tasks : At(v, "unlock")' => task'[v] = task[v] /\ At(v, "unlock")
      BY <1>1 DEF At
    <2>2. u # t /\ task'[u] = task[u] /\ At(u, "send")
      BY <1>1, <1>6 DEF At
    <2>3. task[u].id # task[t].id
      BY <1>2, <2>2 DEF CallInv, IdsAreOwn, Pending, At
    <2> QED
      BY <1>2, <1>6, <2>1, <2>2, <2>3 DEF HeardInv, StreamsAreListed
  <1>7. \A u \in Tasks : At(u, "undo")' => task'[u].id \notin Announced'
    BY <1>1, <1>3 DEF HeardInv, StreamsAreListed, At
  <1>8. up' => Announced' \subseteq subscriptions' \cup removed'
    BY <1>2, <1>3, <1>5 DEF HeardInv, StreamsAreListed
  <1>9. StreamsAreListed'
    BY <1>6, <1>7, <1>8 DEF StreamsAreListed
  <1> QED
    BY <1>3, <1>4, <1>9 DEF HeardInv

LEMMA TaskStepHeard ==
    ASSUME CallInv, StreamInv, HeardInv, NEW t \in Tasks, TaskStep(t)
    PROVE  HeardInv'
  <1>1. CASE LockFeatures(t)
    <2>1. CASE features
      <3>1. task' = [task EXCEPT ![t] = Idle]
        BY <1>1, <2>1 DEF LockFeatures
      <3>2. task'[t].pc = "idle" /\ \A u \in Tasks \ {t} : task'[u] = task[u]
        BY <3>1, IdleEffect DEF CallInv
      <3> QED
        BY <1>1, <3>2, OneCallHeard DEF LockFeatures, link, server
    <2>2. CASE ~features
      <3>1. SubscribeOnce(t, task[t].op, NoId, "reply") /\ task[t].op \in Names
        BY <1>1, <2>2 DEF LockFeatures, CallInv, ClientTypeOK, Calls
      <3>2. task[t].op # "on_update"
        BY <1>1 DEF LockFeatures, HeardInv, SubscribersAreOnUpdate
      <3> QED
        BY <1>1, <3>1, <3>2, SubscribeOnceHeard DEF LockFeatures, server
    <2> QED
      BY <2>1, <2>2
  <1>2. CASE NextCall(t)
    <2>1. CASE task[t].op = "make_table"
      <3>1. /\ id_gen' = id_gen + 1
            /\ task'[t].pc = "lock" /\ task'[t].id = NextId /\ task'[t].sub = NextId
            /\ \A u \in Tasks \ {t} : task'[u] = task[u]
        BY <1>2, <2>1, FollowType DEF CallInv
      <3> QED
        BY <1>2, <3>1, NewStreamHeard DEF NextCall, link
    <2>2. CASE task[t].op # "make_table"
      <3>1. PICK op \in {"make_table", "schema"} : SubscribeOnce(t, op, NoId, "reply")
        BY <1>2, <2>2 DEF NextCall
      <3>2. op \in Names /\ op # "on_update"
        BY NamesOfCalls
      <3> QED
        BY <1>2, <3>1, <3>2, SubscribeOnceHeard DEF NextCall
    <2> QED
      BY <2>1, <2>2
  <1> QED
    BY <1>1, <1>2, SubscribeHeard, UnsubscribeHeard, SendHeard, SendFailsHeard, UndoHeard DEF TaskStep

LEMMA HandleResponseHeard ==
    ASSUME CallInv, HeardInv, HandleResponse
    PROVE  HeardInv'
  <1>1. inbox # <<>> /\ UNCHANGED <<up, handling, session, removed>>
    BY DEF HandleResponse, HandleOnce, HandleStream, HandlePanics, HandleUnsolicited, Received
  <1>2. up /\ handling = {}
    BY <1>1, ClientAssumption DEF HeardInv, LostIsLost, CallInv, ClientTypeOK
  <1>3. LostIsLost'
    BY <1>1, <1>2 DEF LostIsLost
  <1>4. /\ subscriptions' = subscriptions
        /\ \A i \in 1..Len(wire') :
             wire'[i].op # "on_update" \/ \E j \in 1..Len(wire) : wire'[i] = wire[j]
        /\ \A t \in Tasks : task'[t] = task[t] \/ task'[t].pc \in {"idle", "next", "wait"}
    <2>1. CASE HandleOnce
      <3>1. /\ wire' = wire /\ subscriptions' = subscriptions
            /\ \/ task' = task
               \/ \E t \in Tasks :
                    /\ task'[t].pc \in {"next", "idle"}
                    /\ \A u \in Tasks \ {t} : task'[u] = task[u]
        BY <2>1, HandleOnceEffect DEF CallInv
      <3> QED
        BY <3>1
    <2>2. CASE HandleStream
      <3>1. /\ \A i \in 1..Len(wire') :
                 wire'[i].op = "follow_update" \/ \E j \in 1..Len(wire) : wire'[i] = wire[j]
            /\ task' = task /\ subscriptions' = subscriptions
        BY <2>2, HandleStreamEffect DEF CallInv
      <3> QED
        BY <3>1
    <2>3. CASE HandlePanics \/ HandleUnsolicited
      BY <2>3 DEF HandlePanics, HandleUnsolicited
    <2> QED
      BY <2>1, <2>2, <2>3 DEF HandleResponse
  <1>5. Announced' \subseteq Announced
    BY <1>1, <1>4, AnnouncedStay
  <1> QED
    BY <1>1, <1>3, <1>4, <1>5, HeardStay

\* The connection is lost, or another one is made.
LEMMA LinkHeard ==
    ASSUME ReconnectEarly = FALSE, CallInv, HeardInv, LinkFails \/ Reconnect
    PROVE  HeardInv'
  <1>1. CASE LinkFails
    <2>1. /\ ~up' /\ wire' = <<>> /\ inbox' = <<>> /\ session' = {}
          /\ UNCHANGED <<task, subscriptions, removed>>
      BY <1>1 DEF LinkFails, handlers
    <2>2. LostIsLost'
      BY <2>1 DEF LostIsLost
    <2>3. Announced' = {}
      BY <2>1 DEF Announced
    <2> QED
      BY <2>1, <2>2, <2>3, HeardStay
  <1>2. CASE Reconnect
    <2>1. /\ ~up /\ handling = {} /\ \A t \in Tasks : ~At(t, "send")
          /\ UNCHANGED <<task, handling, subscriptions, removed, wire, inbox, session>>
      BY <1>2 DEF Reconnect, handlers, server
    <2>2. wire = <<>> /\ inbox = <<>> /\ session = {}
      BY <2>1 DEF HeardInv, LostIsLost
    <2>3. LostIsLost'
      BY <1>2, <2>1 DEF LostIsLost, Reconnect
    <2>4. Announced' = {}
      BY <2>1, <2>2 DEF Announced
    <2>5. SubscribersAreOnUpdate'
      BY <2>1 DEF HeardInv, SubscribersAreOnUpdate, At
    <2>6. StreamsAreListed'
      BY <2>1, <2>4 DEF StreamsAreListed, At
    <2> QED
      BY <2>3, <2>5, <2>6 DEF HeardInv
  <1> QED
    BY <1>1, <1>2

LEMMA ServerHeard ==
    ASSUME CallInv, HeardInv, Serve \/ Update \/ DeleteView
    PROVE  HeardInv'
  <1>1. UNCHANGED <<task, up, handling, subscriptions, removed>>
    BY DEF Serve, Update, DeleteView, handlers
  <1>2. up
    BY DEF Serve, Update, DeleteView, HeardInv, LostIsLost, CallInv, ClientTypeOK
  <1>3. LostIsLost'
    BY <1>1, <1>2 DEF HeardInv, LostIsLost
  <1>4. Announced' \subseteq Announced
    <2>1. CASE Serve
      <3>1. \A i \in 1..Len(wire') : \E j \in 1..Len(wire) : wire'[i] = wire[j]
        BY <2>1, ServeEffect DEF CallInv
      <3>2. wire \in Seq(Request) /\ wire # <<>> /\ Head(wire) = wire[1] /\ 1 \in 1..Len(wire)
        BY <2>1, TakenFromHead DEF Serve, CallInv, ClientTypeOK
      <3>3. session' \subseteq session \cup {wire[1].id}
        BY <2>1, <3>2 DEF Serve
      <3>4. wire[1].op # "on_update" => session' \subseteq session
        BY <2>1, <3>2 DEF Serve
      <3> QED
        BY <3>1, <3>2, <3>3, <3>4 DEF Announced
    <2>2. CASE Update \/ DeleteView
      BY <2>2 DEF Update, DeleteView, Announced, server
    <2> QED
      BY <2>1, <2>2
  <1> QED
    BY <1>1, <1>3, <1>4, HeardStay

LEMMA HandleErrorHeard ==
    ASSUME HeardInv, HandleError
    PROVE  HeardInv'
  <1>1. /\ handling # {} /\ UNCHANGED <<up, wire, inbox, session, removed>>
        /\ \A t \in Tasks : task'[t] = task[t] \/ task'[t].pc = "idle"
    <2>1. Idle.pc = "idle"
      BY DEF Idle
    <2> QED
      BY <2>1 DEF HandleError, ErrorTold, ClearStreams, DrainOnce, handlers, link, server
  <1>2. ~up /\ ~up'
    BY <1>1 DEF HeardInv, LostIsLost
  <1>3. LostIsLost' /\ Announced' = Announced
    BY <1>1, <1>2, SameLink
  <1> QED
    BY <1>1, <1>2, <1>3, HeardStay

LEMMA ClientNextHeard ==
    ASSUME ReconnectEarly = FALSE, CallInv, StreamInv, HeardInv, [ClientNext]_clientVars
    PROVE  HeardInv'
  <1>1. CASE CallbackEnds \/ UNCHANGED clientVars
    <2>1. UNCHANGED <<task, subscriptions, removed, handling, up, wire, inbox, session>>
      BY <1>1 DEF CallbackEnds, clientVars, link, server
    <2>2. LostIsLost' /\ Announced' = Announced
      BY <2>1, SameLink
    <2> QED
      BY <2>1, <2>2, HeardStay
  <1> QED
    BY <1>1, CallHeard, TaskStepHeard, HandleResponseHeard, HandleErrorHeard, LinkHeard, ServerHeard
    DEF ClientNext

(* With a transport that lets handle_error finish before it connects again, *)
(* every stream that the server sends to has a callback, or is one that     *)
(* remove_update removed: on_update did not report success for a stream     *)
(* that nobody listens to.                                                  *)
THEOREM StreamsStayHeard ==
    ASSUME ReconnectEarly = FALSE
    PROVE  ClientSpec => []StreamsAreHeard
  <1>1. ClientInit => HeardInv
    <2> SUFFICES ASSUME ClientInit
                 PROVE  HeardInv
      OBVIOUS
    <2>1. \A t \in Tasks : task[t].pc = "idle"
      BY DEF ClientInit, Idle
    <2>2. Announced = {} /\ up = TRUE /\ handling = {}
      BY DEF ClientInit, Announced
    <2> QED
      BY <2>1, <2>2 DEF HeardInv, LostIsLost, SubscribersAreOnUpdate, StreamsAreListed, At
  <1>2. CallInv /\ StreamInv /\ HeardInv /\ [ClientNext]_clientVars => HeardInv'
    BY ClientNextHeard
  <1>3. HeardInv => StreamsAreHeard
    BY DEF HeardInv, LostIsLost, StreamsAreListed, Announced, StreamsAreHeard
  <1> QED
    BY <1>1, <1>2, <1>3, CallsAreInOrder, RemovedStreamsStayOut, PTL DEF ClientSpec

============================================================================
