------------------------------- MODULE Client -------------------------------
(***************************************************************************)
(* perspective_client::Client: calls of several tasks over a transport     *)
(* that can fail, the handlers of their responses, the callbacks of        *)
(* subscriptions, and the recovery from an error of the transport.         *)
(*                                                                         *)
(* A response is matched to its request by message id. subscriptions_once  *)
(* holds the handlers of requests that wait for one response,              *)
(* subscriptions those of streams. The lock of subscriptions is the        *)
(* interesting one: a callback runs under its read guard, and whoever adds *)
(* or removes a stream waits for every running callback.                   *)
(***************************************************************************)
EXTENDS Naturals, Sequences, FiniteSets

Sets == INSTANCE FiniteSetsExt

CONSTANTS Tasks,         \* the tasks that call the Client
          Ops,           \* the calls they make, of AllOps
          MaxCalls,      \* bound: message ids that calls use
          MaxUpdates,    \* bound: updates of the View
          MaxFailures,   \* bound: times the connection is lost
          LoseFollowed,  \* whether the connection can be lost after a Table
                         \* was made from a View
          ReconnectEarly \* whether a connection can be made again while
                         \* handle_error has yet to clear the handlers of the
                         \* old one, or a call has inserted its handler and not
                         \* yet sent: not with the transport of websocket.ts

\* What a Client, a Table and a View ask in one request and one reply; a
\* reply of another kind, an error among them, fails the call.  remove_delete
\* is one of them: the handler of on_delete stays.
ClientRequests == {"join", "table", "open_table", "get_hosted_table_names"}
SystemRequests == {"system_info"}
TableReads == {"clear", "delete", "columns", "size", "schema", "make_port"}
TableWrites == {"remove_delete", "remove", "replace", "update"}
TableQueries == {"validate_expressions", "view"}
ViewReads == {"column_paths", "dimensions", "get_config", "num_rows", "schema", "to_arrow", "to_columns_string"}
ViewExports == {"to_json_string", "to_ndjson", "to_csv", "delete", "get_min_max"}
ViewRequests == {"remove_delete", "collapse", "expand", "set_depth"}
Requests == UNION {ClientRequests, SystemRequests, TableReads, TableWrites, TableQueries,
                   ViewReads, ViewExports, ViewRequests}
AllOps == Requests \cup {"features", "expression_schema", "on_update", "remove_update",
                         "on_delete", "table_from_view"}

ASSUME ClientAssumption ==
    /\ Ops \subseteq AllOps
    /\ {MaxCalls, MaxUpdates, MaxFailures} \subseteq Nat
    /\ {LoseFollowed, ReconnectEarly} \subseteq BOOLEAN

VARIABLES
  task,                \* task -> where its call is
  id_gen,              \* message ids given so far
  features,            \* whether the features are cached
  features_lock,       \* the task that holds their mutex, or NoTask
  subscriptions_once,  \* message id -> "reply" or "deleted"
  subscriptions,       \* message ids with a callback
  running,             \* <<stream, update>>: callbacks that run
  handling,            \* stages of the handle_error tasks under way
  up,                  \* whether the connection is open
  wire, inbox,         \* messages to and from the server
  failures,            \* times the connection was lost
  session,             \* the streams the server has for this connection
  version,             \* number of updates of the View
  copy,                \* the updates that the Table made from the View has
  follow,              \* the stream that keeps it up to date, or NoId
  removed              \* streams that unsubscribe has removed

clientVars == <<task, id_gen, features, features_lock, subscriptions_once, subscriptions,
                running, handling, up, wire, inbox, failures, session, version, copy, follow, removed>>
local == <<id_gen, features, features_lock>>
handlers == <<subscriptions_once, subscriptions, running, removed>>
server == <<session, version, copy, follow>>
link == <<up, wire, inbox, failures>>

NoTask == "none"
NoId == <<0, 0>>
Idle == [op |-> "none", pc |-> "idle", id |-> NoId, sub |-> NoId]

ClientInit ==
    /\ task = [t \in Tasks |-> Idle]
    /\ id_gen = 0
    /\ features = FALSE /\ features_lock = NoTask
    /\ subscriptions_once = <<>> /\ subscriptions = {}
    /\ running = {} /\ handling = {} /\ removed = {}
    /\ up = TRUE /\ wire = <<>> /\ inbox = <<>> /\ failures = 0
    /\ session = {} /\ version = 0 /\ copy = {} /\ follow = NoId

At(t, pc) == task[t].pc = pc
GoTo(t, pc) == [task EXCEPT ![t].pc = pc]
Without(f, id) == [i \in DOMAIN f \ {id} |-> f[i]]
With(f, id, v) == [i \in DOMAIN f \cup {id} |-> IF i = id THEN v ELSE f[i]]

\* gen_id: ids of the calls are <<n, 0>>; <<n, u>> with u > 0 is the update
\* that the callback of stream n makes for update u of its View.
NextId == <<id_gen + 1, 0>>

\* A bound: a call starts if ids are left for it and for those under way.
Promised(t) ==
    CASE task[t].op = "snapshot" -> 2
      [] At(t, "mutex") -> 2
      [] task[t].op \in {"make_table", "expression_schema"} -> 1
      [] OTHER -> 0
HasIds(n) == id_gen + n + Sets!MapThenSumSet(Promised, Tasks) <= MaxCalls

\* Someone holds or waits for subscriptions.write(), so try_read fails.
WriterWaits == "clear" \in handling \/ \E t \in Tasks : task[t].pc \in {"lock", "unlock", "undo"}
----------------------------------------------------------------------------
(* Calls.                                                                  *)

\* subscribe_once: the handler is inserted before the request is sent.
SubscribeOnce(t, op, sub, handler) ==
    /\ id_gen' = id_gen + 1
    /\ subscriptions_once' = With(subscriptions_once, NextId, handler)
    /\ task' = [task EXCEPT ![t] = [op |-> op, pc |-> "send", id |-> NextId, sub |-> sub]]

\* oneshot.
Ask(t) ==
    /\ At(t, "idle") /\ HasIds(1)
    /\ \E op \in Ops \cap Requests : SubscribeOnce(t, op, NoId, "reply")
    /\ UNCHANGED <<features, features_lock, subscriptions, running, removed, handling, link, server>>

\* on_delete: a handler that no call waits for.
OnDelete(t) ==
    /\ "on_delete" \in Ops /\ At(t, "idle") /\ HasIds(1)
    /\ SubscribeOnce(t, "on_delete", NoId, "deleted")
    /\ UNCHANGED <<features, features_lock, subscriptions, running, removed, handling, link, server>>

\* subscribe, up to its request for the write guard.
OnUpdate(t) ==
    /\ "on_update" \in Ops /\ At(t, "idle") /\ HasIds(1)
    /\ id_gen' = id_gen + 1
    /\ task' = [task EXCEPT ![t] = [op |-> "on_update", pc |-> "lock", id |-> NextId, sub |-> NextId]]
    /\ UNCHANGED <<features, features_lock, handlers, handling, link, server>>

\* subscribe, once no callback runs: the callback is inserted, then sent.
Subscribe(t) ==
    /\ At(t, "lock") /\ running = {}
    /\ subscriptions' = subscriptions \cup {task[t].id}
    /\ task' = GoTo(t, "send")
    /\ UNCHANGED <<local, subscriptions_once, running, removed, handling, link, server>>

\* remove_update, up to unsubscribe's request for the write guard.
RemoveUpdate(t) ==
    /\ "remove_update" \in Ops /\ At(t, "idle") /\ HasIds(1)
    /\ id_gen' = id_gen + 1
    /\ \E s \in subscriptions \ {follow} :
         /\ \A u \in Tasks : task[u].sub # s
         /\ task' = [task EXCEPT ![t] = [op |-> "remove_update", pc |-> "unlock", id |-> NextId, sub |-> s]]
    /\ UNCHANGED <<features, features_lock, handlers, handling, link, server>>

MutUnsubscribe(t) ==
    /\ At(t, "unlock")
    /\ subscriptions' = subscriptions \ {task[t].sub}
    /\ removed' = removed \cup {task[t].sub}
    /\ IF task[t].sub \in subscriptions
       THEN /\ subscriptions_once' = With(subscriptions_once, task[t].id, "reply")
            /\ task' = GoTo(t, "send")
       ELSE task' = [task EXCEPT ![t] = Idle] /\ UNCHANGED subscriptions_once
    /\ UNCHANGED <<local, running, handling, link, server>>

\* unsubscribe: an error when the stream is gone, or the request to the server.
Unsubscribe(t) ==
    /\ At(t, "unlock") /\ running = {}
    /\ subscriptions' = subscriptions \ {task[t].sub}
    /\ removed' = removed \cup {task[t].sub}
    /\ IF task[t].sub \in subscriptions
       THEN /\ subscriptions_once' = With(subscriptions_once, task[t].id, "reply")
            /\ task' = GoTo(t, "send")
       ELSE task' = [task EXCEPT ![t] = Idle] /\ UNCHANGED subscriptions_once
    /\ UNCHANGED <<local, running, handling, link, server>>

\* get_features, up to its request for the mutex.  A View's expression_schema
\* asks for the features first.
GetFeatures(t) ==
    /\ At(t, "idle") /\ HasIds(2)
    /\ \E op \in Ops \cap {"features", "expression_schema"} :
         task' = [task EXCEPT ![t] = [Idle EXCEPT !.op = op, !.pc = "mutex"]]
    /\ UNCHANGED <<local, handlers, handling, link, server>>

\* get_features with the mutex: the cached answer, or a request under the mutex.
LockFeatures(t) ==
    /\ At(t, "mutex") /\ features_lock = NoTask
    /\ \/ /\ features
          /\ task' = [task EXCEPT ![t] = Idle]
          /\ UNCHANGED <<id_gen, features_lock, subscriptions_once>>
       \/ /\ ~features
          /\ features_lock' = t
          /\ SubscribeOnce(t, task[t].op, NoId, "reply")
    /\ UNCHANGED <<features, subscriptions, running, removed, handling, link, server>>

\* Client::table with a View: first a snapshot of its rows.  One in a
\* behaviour (a bound).
TableFromView(t) ==
    /\ "table_from_view" \in Ops /\ At(t, "idle") /\ HasIds(3)
    /\ follow = NoId /\ \A u \in Tasks : task[u].op \notin {"snapshot", "make_table"}
    /\ SubscribeOnce(t, "snapshot", NoId, "reply")
    /\ UNCHANGED <<features, features_lock, subscriptions, running, removed, handling, link, server>>

MutAfter(t, ok) ==
    /\ features' = (features \/ (ok /\ features_lock = t))
    /\ features_lock' = IF features_lock = t /\ ok THEN NoTask ELSE features_lock
    /\ task' = [task EXCEPT ![t] =
         IF ok /\ (task[t].op \in {"snapshot", "make_table"} \/ (features_lock = t /\ @.op # "features"))
         THEN [@ EXCEPT !.pc = "next"] ELSE Idle]

\* What follows the end of t's call: for table_from_view the next of its
\* calls, for get_features the release of the mutex.
After(t, ok) ==
    /\ features' = (features \/ (ok /\ features_lock = t))
    /\ features_lock' = IF features_lock = t THEN NoTask ELSE features_lock
    /\ task' = [task EXCEPT ![t] =
         IF ok /\ (task[t].op \in {"snapshot", "make_table"} \/ (features_lock = t /\ @.op # "features"))
         THEN [@ EXCEPT !.pc = "next"] ELSE Idle]

\* A Table made of a View's snapshot subscribes to the View; the features
\* being known, expression_schema sends its own request.
NextCall(t) ==
    /\ At(t, "next")
    /\ \/ /\ task[t].op = "snapshot"
          /\ SubscribeOnce(t, "make_table", NoId, "reply")
          /\ UNCHANGED follow
       \/ /\ task[t].op = "expression_schema"
          /\ SubscribeOnce(t, "schema", NoId, "reply")
          /\ UNCHANGED follow
       \/ /\ task[t].op = "make_table"
          /\ id_gen' = id_gen + 1
          /\ follow' = NextId
          /\ task' = [task EXCEPT ![t] = [op |-> "on_update", pc |-> "lock", id |-> NextId, sub |-> NextId]]
          /\ UNCHANGED subscriptions_once
    /\ UNCHANGED <<features, features_lock, subscriptions, running, removed, handling, link,
                   session, version, copy>>

----------------------------------------------------------------------------
(* The transport.                                                          *)

Waits(op) == op \notin {"on_update", "on_delete"}

\* A request reaches the wire; a call whose handler an error has removed ends.
Send(t) ==
    /\ At(t, "send") /\ up
    /\ wire' = Append(wire, [id |-> task[t].id, op |-> task[t].op, sub |-> task[t].sub])
    /\ IF Waits(task[t].op) /\ task[t].id \in DOMAIN subscriptions_once
       THEN task' = GoTo(t, "wait") /\ UNCHANGED <<features, features_lock>>
       ELSE After(t, FALSE)
    /\ UNCHANGED <<id_gen, handlers, handling, up, inbox, failures, server>>

\* A request on a closed connection: its handler is removed, and
\* send_message of websocket.ts reports the error.
SendFails(t) ==
    /\ At(t, "send") /\ ~up
    /\ handling' = handling \cup {"tell"}
    /\ IF task[t].op = "on_update"
       THEN task' = GoTo(t, "undo") /\ UNCHANGED <<subscriptions_once, features, features_lock>>
       ELSE subscriptions_once' = Without(subscriptions_once, task[t].id) /\ After(t, FALSE)
    /\ UNCHANGED <<id_gen, subscriptions, running, removed, link, server>>

\* subscribe's removal of a stream that could not be sent.
Undo(t) ==
    /\ At(t, "undo") /\ running = {}
    /\ subscriptions' = subscriptions \ {task[t].id}
    /\ After(t, FALSE)
    /\ UNCHANGED <<id_gen, subscriptions_once, running, removed, handling, link, server>>

\* onclose: what was under way is lost, and handle_error starts.
LinkFails ==
    /\ up /\ failures < MaxFailures
    /\ LoseFollowed \/ follow = NoId
    /\ up' = FALSE /\ wire' = <<>> /\ inbox' = <<>> /\ failures' = failures + 1
    /\ session' = {}
    /\ handling' = handling \cup {"tell"}
    /\ UNCHANGED <<task, local, handlers, version, copy, follow>>

MutReconnect ==
    /\ ~up
    /\ up' = TRUE
    /\ UNCHANGED <<task, local, handlers, handling, wire, inbox, failures, server>>

\* The ReconnectCallback that on_error callbacks are given: connect().
Reconnect ==
    /\ ~up /\ "tell" \notin handling
    /\ ReconnectEarly \/ (handling = {} /\ \A t \in Tasks : ~At(t, "send"))
    /\ up' = TRUE
    /\ UNCHANGED <<task, local, handlers, handling, wire, inbox, failures, server>>

\* The server, which is external, takes a request and answers in order.
Serve ==
    /\ wire # <<>>
    /\ LET req == Head(wire)
       IN /\ wire' = Tail(wire)
          /\ inbox' = IF Waits(req.op) THEN Append(inbox, [id |-> req.id, update |-> 0]) ELSE inbox
          /\ session' = CASE req.op = "on_update" -> session \cup {req.id}
                          [] req.op = "remove_update" -> session \ {req.sub}
                          [] OTHER -> session
          /\ copy' = CASE req.op = "snapshot" -> 1..version
                       [] req.op = "follow_update" -> copy \cup {req.id[2]}
                       [] OTHER -> copy
    /\ UNCHANGED <<task, local, handlers, handling, up, failures, version, follow>>

\* The rows of the View change: every stream of the session is told, in some
\* order.
Orders(S) == {f \in [1..Cardinality(S) -> S] : \A i, j \in DOMAIN f : f[i] = f[j] => i = j}

Update ==
    /\ up /\ version < MaxUpdates
    /\ version' = version + 1
    /\ \E order \in Orders(session) :
         inbox' = inbox \o [i \in DOMAIN order |-> [id |-> order[i], update |-> version + 1]]
    /\ UNCHANGED <<task, local, handlers, handling, up, wire, failures, session, copy, follow>>

\* The View is deleted: the server answers the on_delete requests it has.
\* (Which it has is left open: a handler of another connection is not told.)
DeleteView ==
    /\ up
    /\ \E id \in DOMAIN subscriptions_once :
         /\ subscriptions_once[id] = "deleted"
         /\ \A i \in 1..Len(inbox) : inbox[i].id # id
         /\ \A t \in Tasks : task[t].id # id
         /\ \A i \in 1..Len(wire) : wire[i].id # id
         /\ inbox' = Append(inbox, [id |-> id, update |-> 0])
    /\ UNCHANGED <<task, local, handlers, handling, up, wire, failures, server>>
----------------------------------------------------------------------------
(* handle_response, for the messages in the order they arrived.            *)

Received(msg) ==
    /\ inbox # <<>> /\ msg = Head(inbox)
    /\ inbox' = Tail(inbox)
    /\ UNCHANGED <<up, failures, handling, session, version, copy, follow, removed>>

\* A handler of one response is removed and called.  It is an error when
\* nobody waits any more.  The reply to a callback's own request ends the callback.
HandleOnce ==
    \E msg \in {inbox[i] : i \in 1..Len(inbox)} :
      /\ Received(msg) /\ msg.id \in DOMAIN subscriptions_once
      /\ subscriptions_once' = Without(subscriptions_once, msg.id)
      /\ running' = running \ {<<<<msg.id[1], 0>>, msg.id[2]>>}
      /\ IF \E t \in Tasks : task[t].id = msg.id /\ At(t, "wait")
         THEN \E t \in Tasks, ok \in BOOLEAN : task[t].id = msg.id /\ At(t, "wait") /\ After(t, ok)
         ELSE UNCHANGED <<task, features, features_lock>>
      /\ UNCHANGED <<id_gen, subscriptions, wire>>

\* The callback of a stream is called, under the read guard.  That of a Table
\* made from a View sends the rows on and waits for the reply.
HandleStream ==
    \E msg \in {inbox[i] : i \in 1..Len(inbox)} :
      /\ Received(msg) /\ msg.id \in subscriptions \ DOMAIN subscriptions_once
      /\ ~WriterWaits
      /\ running' = running \cup {<<msg.id, msg.update>>}
      /\ IF msg.id = follow
         THEN LET id == <<msg.id[1], msg.update>>
              IN /\ subscriptions_once' = With(subscriptions_once, id, "reply")
                 /\ wire' = Append(wire, [id |-> id, op |-> "follow_update", sub |-> NoId])
         ELSE UNCHANGED <<subscriptions_once, wire>>
      /\ UNCHANGED <<task, local, subscriptions>>

\* try_read().unwrap() panics: the message has no effect.
HandlePanics ==
    \E msg \in {inbox[i] : i \in 1..Len(inbox)} :
      /\ Received(msg) /\ msg.id \notin DOMAIN subscriptions_once
      /\ WriterWaits
      /\ UNCHANGED <<task, local, subscriptions_once, subscriptions, running, wire>>

\* A message that nobody waits for.
HandleUnsolicited ==
    \E msg \in {inbox[i] : i \in 1..Len(inbox)} :
      /\ Received(msg) /\ msg.id \notin subscriptions \cup DOMAIN subscriptions_once
      /\ ~WriterWaits
      /\ UNCHANGED <<task, local, subscriptions_once, subscriptions, running, wire>>

\* A user's callback returns.
CallbackEnds ==
    /\ \E r \in running : r[1] # follow /\ running' = running \ {r}
    /\ UNCHANGED <<task, local, subscriptions_once, subscriptions, removed, handling, link, server>>
----------------------------------------------------------------------------
(* handle_error.                                                           *)

\* The on_error callbacks have been told (and may reconnect).
ErrorTold ==
    /\ "tell" \in handling
    /\ handling' = (handling \ {"tell"}) \cup {"clear"}
    /\ UNCHANGED <<task, local, handlers, link, server>>

\* subscriptions.write().clear(), once no callback runs.
ClearStreams ==
    /\ "clear" \in handling /\ running = {}
    /\ subscriptions' = {}
    /\ handling' = (handling \ {"clear"}) \cup {"drain"}
    /\ UNCHANGED <<task, local, subscriptions_once, running, removed, link, server>>

MutDrainOnce ==
    /\ "drain" \in handling
    /\ handling' = handling \ {"drain"}
    /\ UNCHANGED <<task, local, handlers, link, server>>
----------------------------------------------------------------------------
TaskStep(t) ==
    \/ Subscribe(t) \/ Unsubscribe(t) \/ LockFeatures(t) \/ NextCall(t)
    \/ Send(t) \/ SendFails(t) \/ Undo(t)

\* Every handler of one response is removed and called with the error.
DrainOnce ==
    /\ "drain" \in handling
    /\ handling' = handling \ {"drain"}
    /\ subscriptions_once' = <<>>
    /\ running' = {r \in running : <<r[1][1], r[2]>> \notin DOMAIN subscriptions_once}
    /\ task' = [t \in Tasks |-> IF At(t, "wait") THEN Idle ELSE task[t]]
    /\ features_lock' = IF \E t \in Tasks : At(t, "wait") /\ features_lock = t THEN NoTask ELSE features_lock
    /\ UNCHANGED <<id_gen, features, subscriptions, removed, link, server>>

Call(t) == Ask(t) \/ OnDelete(t) \/ OnUpdate(t) \/ RemoveUpdate(t) \/ GetFeatures(t) \/ TableFromView(t)

HandleResponse == HandleOnce \/ HandleStream \/ HandlePanics \/ HandleUnsolicited
HandleError == ErrorTold \/ ClearStreams \/ DrainOnce

ClientNext ==
    \/ \E t \in Tasks : Call(t) \/ TaskStep(t)
    \/ HandleResponse \/ HandleError \/ CallbackEnds
    \/ LinkFails \/ Reconnect \/ Serve \/ Update \/ DeleteView

ClientSpec == ClientInit /\ [][ClientNext]_clientVars

(* Executors run what can run, messages that arrive are handled, callbacks *)
(* return, and the server answers while the connection is open. Nobody has *)
(* to call, to reconnect or to lose the connection.                        *)
FairClientSpec ==
    /\ ClientSpec
    /\ \A t \in Tasks : WF_clientVars(TaskStep(t))
    /\ WF_clientVars(HandleResponse) /\ WF_clientVars(HandleError)
    /\ WF_clientVars(CallbackEnds) /\ WF_clientVars(Serve)
----------------------------------------------------------------------------
(* Properties.                                                             *)

(* A call that waits for a reply has a handler, and somebody who will call *)
(* it: its request or reply is on the wire, or an error is being handled.  *)
WaitersWillHear ==
    \A t \in Tasks : At(t, "wait") =>
      /\ task[t].id \in DOMAIN subscriptions_once
      /\ \/ handling # {}
         \/ \E i \in 1..Len(wire) : wire[i].id = task[t].id
         \/ \E i \in 1..Len(inbox) : inbox[i].id = task[t].id

(* Once remove_update has removed a stream, its callback neither runs nor  *)
(* starts again.                                                           *)
RemovedStreamsAreSilent == \A r \in running : r[1] \notin removed

(* A stream that the server sends to has a callback, unless an error is    *)
(* being handled or the request that ends it is under way: on_update did   *)
(* not report success for a stream that nobody listens to.                 *)
StreamsAreHeard ==
    \A s \in session : s \in subscriptions \cup removed \/ handling # {}

(* Every call of the API ends.                                             *)
CallsEnd == \A t \in Tasks : task[t] # Idle ~> task[t] = Idle

(* A Table made from a View has every update of the View, once no message  *)
(* is under way.                                                           *)
CopyFollowsView ==
    follow \in session /\ wire = <<>> /\ inbox = <<>> /\ running = {} => copy = 1..version

=============================================================================
