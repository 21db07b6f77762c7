------------------------------- MODULE JsHandles -------------------------------
(***************************************************************************)
(* perspective-js/src/rust: the objects a JavaScript program holds of a    *)
(* Client, its Tables, Views and ProxySessions, and what its calls take of *)
(* them.                                                                   *)
(*                                                                         *)
(* An object is a pointer to a Rust value. An async method of &self        *)
(* borrows the value until its promise is settled, one that returns an     *)
(* ApiFuture works on a clone, and one of self takes the value, and the    *)
(* pointer with it: it throws when the value is borrowed.                  *)
(***************************************************************************)
EXTENDS Integers, Sequences, FiniteSets
LOCAL INSTANCE SequencesExt
LOCAL INSTANCE TLC

CONSTANTS
    JsValues,       \* the kinds of value that a program passes
    JsCareful,      \* whether it deletes an object only when the calls of it
                    \* are settled, but for those it does not wait for
    JsPrograms,     \* what a program does: sets of what methods do, and of
                    \* "terminate", "session", "openView" and "onError"
    MaxJsCalls,     \* calls it makes
    MaxObjects      \* objects it holds

VARIABLES
    jsProgram,  \* one of JsPrograms
    jsHandles,  \* the objects: [kind, of, live, close]
    jsCalls,    \* the calls made: [on, takes, does, stage, result, refs, error]
    typed,      \* the calls whose callback has typed arrays, and those whose
                \* Arrow is kept: [used, kept]
    entities,   \* what the server has: [kind, of, there, dying]
    emitted,    \* how many messages it has sent to each callback
    loops,      \* the callbacks: [of, kind, on, queue, heard, runs]
    asked,      \* the calls on their way to the server
    replies,    \* what is on its way back
    jsLink      \* "up", "down" or "closed"

jsVars == <<jsProgram, jsHandles, jsCalls, typed, entities, emitted, loops, asked, replies, jsLink>>
served == <<entities, emitted>>
net == <<asked, replies, jsLink>>

NotFound == "View not found"
-----------------------------------------------------------------------------
(* The methods: what they take of their object and what they do.           *)

JsMethod(kind, takes, does) == [kind |-> kind, takes |-> takes, does |-> does]

\* column_paths, dimensions, expression_schema, get_config, get_min_max,
\* num_rows, schema.
ViewGetters == {JsMethod("view", "borrow", "read")}
\* to_arrow, to_columns, to_json, to_ndjson, to_csv and their strings.
ViewFormats == {JsMethod("view", "borrow", "read")}
WithTypedArrays == {JsMethod("view", "borrow", "typed")}
MutOnUpdate == {JsMethod("view", "borrow", "onUpdate")}
ViewOnUpdate == {JsMethod("view", "clone", "onUpdate")}
ViewRemoveUpdate == {JsMethod("view", "borrow", "remove")}
ViewOnDelete == {JsMethod("view", "clone", "onDelete")}
ViewRemoveDelete == {JsMethod("view", "clone", "read")}
\* num_columns; collapse, expand, set_depth.
ViewNumColumns == {JsMethod("view", "borrow", "read")}
ViewDepths == {JsMethod("view", "borrow", "read")}
JsViewDelete == {JsMethod("view", "own", "delete")}

\* get_index, get_name, get_limit; get_client.
TableNames == {JsMethod("table", "borrow", "local")}
TableGetClient == {JsMethod("table", "borrow", "getClient")}
\* size, schema, columns, make_port.
TableGetters == {JsMethod("table", "borrow", "read")}
TableClear == {JsMethod("table", "borrow", "clear")}
TableOnDelete == {JsMethod("table", "clone", "onDelete"), JsMethod("table", "clone", "read")}
TableRemove == {JsMethod("table", "borrow", "replace")}
TableReplace == {JsMethod("table", "borrow", "replace")}
JsTableUpdate == {JsMethod("table", "clone", "update")}
TableView == {JsMethod("table", "borrow", "view")}
TableValidate == {JsMethod("table", "borrow", "read")}
TableDelete == {JsMethod("table", "own", "delete")}

ClientTable == {JsMethod("client", "borrow", "table")}
ClientJoin == {JsMethod("client", "borrow", "join")}
ClientOpenTable == {JsMethod("client", "borrow", "open")}
\* get_hosted_table_names, on_hosted_tables_update, remove_hosted_tables_update.
ClientHosted == {JsMethod("client", "borrow", "names"), JsMethod("client", "borrow", "onHosted"),
                 JsMethod("client", "borrow", "remove")}
SystemInfo == {JsMethod("client", "borrow", "names")}
SessionRequests == {JsMethod("session", "borrow", "forward")}
SessionClose == {JsMethod("session", "own", "delete")}

JsMethods ==
    UNION {ViewGetters, ViewFormats, WithTypedArrays, ViewOnUpdate, ViewRemoveUpdate, ViewOnDelete,
           ViewRemoveDelete, ViewNumColumns, ViewDepths, JsViewDelete,
           TableNames, TableGetClient, TableGetters, TableClear, TableOnDelete, TableRemove, TableReplace,
           JsTableUpdate, TableView, TableValidate, TableDelete,
           ClientTable, ClientJoin, ClientOpenTable, ClientHosted, SystemInfo,
           SessionRequests, SessionClose}
-----------------------------------------------------------------------------
(* Values that become data.                                                *)

Formats == {"none", "csv", "json-string", "columns-string", "arrow", "ndjson"}
Loaders == [csv |-> "Csv"] @@ ("json-string" :> "JsonRows") @@ ("columns-string" :> "JsonColumns")
           @@ [arrow |-> "Arrow", ndjson |-> "Ndjson"]

\* UpdateData::from_js_value_partial: bytes that are not UTF-8 are refused
\* where text is expected.
FromJsPartial(value, format) ==
    CASE value = "undefined" -> "refused"
      [] value = "string" -> IF format = "none" THEN "Csv" ELSE Loaders[format]
      [] value \in {"buffer", "not utf-8"} ->
            IF format \in {"none", "arrow"} THEN "Arrow"
            ELSE IF value = "buffer" THEN Loaders[format] ELSE "refused"
      [] value = "array" -> "JsonRows"
      [] OTHER -> "other"

\* TableData::from_js_value: an object without fields is a schema.
FromJsValue(value, format) ==
    LET partial == FromJsPartial(value, format) IN
    CASE partial # "other" -> partial
      [] value = "view" -> "View"
      [] value \in {"schema", "empty"} -> "Schema"
      [] value = "columns" -> "JsonColumns"
      [] OTHER -> "refused"

\* UpdateData::from_js_value.
FromJsUpdate(value, format) ==
    LET data == FromJsValue(value, format) IN
    IF data \in {"Schema", "View"} THEN "refused" ELSE data
-----------------------------------------------------------------------------
(* Errors, and how they cross between Rust and JavaScript.                 *)

ClientError(text) == [variant |-> "ClientError", text |-> text]

\* From<ApiError> for JsValue: an Error with the message; a program may throw
\* it again, or its text.
Thrown(err, again) == [error |-> again = "error", text |-> err.text]

\* From<JsValue> for ApiError.
FromJs(thrown) == [variant |-> IF thrown.error THEN "JsRawError" ELSE "JsError", text |-> thrown.text]

\* ignore_view_delete: what a throttled task reports.
IgnoreViewDelete(err) ==
    IF err.variant \in {"ClientError", "JsRawError", "JsError"} /\ err.text = NotFound THEN "none" ELSE "reported"
-----------------------------------------------------------------------------
(* Calls.                                                                  *)

Subscriptions == {"onUpdate", "onDelete", "onHosted"}
Converted == {"update", "replace", "table"}
Unawaited == {"onUpdate", "onDelete", "update"}

JsPending == {i \in DOMAIN jsCalls : jsCalls[i].stage # "settled"}
Borrowed(h) == \E i \in JsPending : jsCalls[i].on = h /\ jsCalls[i].takes = "borrow"
Target(i) == jsHandles[jsCalls[i].on]

NewCall(h, m, stage, result) ==
    [on |-> h, takes |-> m.takes, does |-> m.does, stage |-> stage, result |-> result, refs |-> <<>>, error |-> "none"]
Settle(i, result) == [jsCalls EXCEPT ![i].stage = "settled", ![i].result = result]
JsObject(kind, of) == [kind |-> kind, of |-> of, live |-> TRUE, close |-> FALSE]
JsEntity(kind, of) == [kind |-> kind, of |-> of, there |-> TRUE, dying |-> FALSE]

\* LocalPollLoop: an unbounded queue, and a task that calls the callback.
PollLoop(of, kind, call) ==
    [of |-> of, kind |-> kind, call |-> call, on |-> TRUE, queue |-> <<>>, heard |-> <<>>, runs |-> TRUE]

JsInit ==
    /\ jsProgram \in JsPrograms
    /\ jsHandles = <<[JsObject("client", 0) EXCEPT !.close = TRUE], JsObject("table", 1), JsObject("view", 2)>>
    /\ jsCalls = <<>> /\ typed = [used |-> {}, kept |-> {}]
    /\ entities = <<JsEntity("table", 0), JsEntity("view", 1)>>
    /\ emitted = <<>> /\ loops = <<>> /\ asked = <<>> /\ replies = <<>>
    /\ jsLink = "up"

\* What wasm-bindgen does at a call: a pointer that was taken is refused, and
\* a value that is borrowed is not taken, though its pointer is.
CallMethod(h, m) ==
    LET live == jsHandles[h].live
        lent == m.takes = "own" /\ Borrowed(h) IN
    /\ Len(jsCalls) < MaxJsCalls /\ m.does \in jsProgram /\ jsHandles[h].kind = m.kind
    /\ JsCareful /\ m.takes = "own" => \A i \in JsPending : jsCalls[i].on = h => jsCalls[i].does \in Unawaited
    /\ jsCalls' = Append(jsCalls,
           IF live /\ ~lent THEN NewCall(h, m, "called", "")
           ELSE NewCall(h, m, "settled", IF live THEN "borrowed" ELSE "null pointer"))
    /\ jsHandles' = IF m.takes = "own" THEN [jsHandles EXCEPT ![h].live = FALSE] ELSE jsHandles
    /\ UNCHANGED <<typed, served, loops, net>>

\* The first poll of the future, a microtask later: arguments are converted
\* and the request is sent.
Send(i) == asked' = Append(asked, i) /\ jsCalls' = [jsCalls EXCEPT ![i].stage = "sent"]
RefuseData(i) == jsCalls' = Settle(i, "refused") /\ UNCHANGED asked
Conversions(does) == {IF does = "table" THEN FromJsValue(v, f) ELSE FromJsUpdate(v, f) : v \in JsValues, f \in Formats}

SendRequest(i) ==
    LET does == jsCalls[i].does IN
    /\ jsCalls[i].stage = "called" /\ jsLink = "up" /\ does \notin {"local", "getClient", "join", "remove"}
    /\ \/ does \notin Converted /\ Send(i)
       \/ does \in Converted /\ Conversions(does) \ {"refused"} # {} /\ Send(i)
       \/ does \in Converted /\ "refused" \in Conversions(does) /\ RefuseData(i)
       \/ does = "delete" /\ Target(i).kind = "table" /\ RefuseData(i)
    /\ IF does \in Subscriptions
       THEN loops' = Append(loops, PollLoop(Target(i).of, does, i)) /\ emitted' = Append(emitted, 0)
       ELSE UNCHANGED <<loops, emitted>>
    /\ UNCHANGED <<jsHandles, typed, entities, replies, jsLink>>

\* A subscription is made when its request is sent.
SubscriptionSent(i) ==
    /\ jsCalls[i].stage = "sent" /\ jsCalls[i].does \in Subscriptions
    /\ jsCalls' = Settle(i, "ok")
    /\ UNCHANGED <<jsHandles, typed, served, loops, net>>

\* remove_update, remove_hosted_tables_update: the callback goes first.
RemoveCallback(i) ==
    /\ jsCalls[i].stage = "called" /\ jsCalls[i].does = "remove" /\ jsLink = "up"
    /\ \E l \in DOMAIN loops :
          /\ loops[l].kind \in {"onUpdate", "onHosted"} /\ loops[l].of = Target(i).of
          /\ IF loops[l].on
             THEN loops' = [loops EXCEPT ![l].on = FALSE] /\ Send(i)
             ELSE jsCalls' = Settle(i, "remove_update") /\ UNCHANGED <<loops, asked>>
    /\ UNCHANGED <<jsHandles, typed, served, replies, jsLink>>

\* What a Table knows without the server, its Client among it.
LocalAnswer(i) ==
    /\ jsCalls[i].stage = "called" /\ jsCalls[i].does \in {"local", "getClient"}
    /\ jsCalls' = Settle(i, "ok")
    /\ jsHandles' = IF jsCalls[i].does = "getClient" THEN Append(jsHandles, JsObject("client", 0)) ELSE jsHandles
    /\ UNCHANGED <<typed, served, loops, net>>

\* js_to_table_ref: a name, or what get_name of a Table resolves to, the left
\* before the right.
TableRef(i) ==
    /\ jsCalls[i].stage = "called" /\ jsCalls[i].does = "join" /\ jsLink = "up"
    /\ \/ Len(jsCalls[i].refs) = 2 /\ Send(i)
       \/ /\ Len(jsCalls[i].refs) < 2 /\ UNCHANGED asked
          /\ \E h \in DOMAIN jsHandles :
               jsCalls' = IF jsHandles[h].kind = "table" /\ jsHandles[h].live
                          THEN [jsCalls EXCEPT ![i].refs = Append(@, jsHandles[h].of)]
                          ELSE Settle(i, "TableRefError")
    /\ UNCHANGED <<jsHandles, typed, served, loops, replies, jsLink>>
-----------------------------------------------------------------------------
(* Calls that return at once.                                              *)

\* terminate: the close function, which only the first Client has.
Terminate(h) ==
    /\ "terminate" \in jsProgram /\ jsHandles[h].kind = "client" /\ jsHandles[h].close /\ jsLink = "up"
    /\ jsLink' = "closed" /\ asked' = <<>> /\ replies' = <<>>
    /\ UNCHANGED <<jsHandles, jsCalls, typed, served, loops>>

\* new ProxySession: a session of the server and a callback for its responses.
NewProxySession(h) ==
    LET e == Len(entities) + 1 IN
    /\ "session" \in jsProgram /\ jsHandles[h].kind = "client" /\ Len(jsHandles) < MaxObjects
    /\ entities' = Append(entities, JsEntity("session", 0)) /\ emitted' = Append(emitted, 0)
    /\ jsHandles' = Append(jsHandles, JsObject("session", e))
    /\ loops' = Append(loops, PollLoop(e, "response", 0))
    /\ UNCHANGED <<jsCalls, typed, net>>

\* __unsafe_open_view, __get_model: one more object of the same View.
OpenView(h) ==
    /\ "openView" \in jsProgram /\ Len(jsHandles) < MaxObjects
    /\ jsHandles[h].kind = "client" \/ (jsHandles[h].kind = "view" /\ jsHandles[h].live)
    /\ \E e \in DOMAIN entities :
          /\ entities[e].kind = "view" /\ jsHandles[h].of \in {0, e}
          /\ jsHandles' = Append(jsHandles, JsObject("view", e))
    /\ UNCHANGED <<jsCalls, typed, served, loops, net>>

\* on_error.
OnError(h) ==
    /\ "onError" \in jsProgram /\ jsHandles[h].kind = "client" /\ \A l \in DOMAIN loops : loops[l].kind # "error"
    /\ loops' = Append(loops, PollLoop(0, "error", 0)) /\ emitted' = Append(emitted, 0)
    /\ UNCHANGED <<jsHandles, jsCalls, typed, entities, net>>
-----------------------------------------------------------------------------
(* The server, as the calls see it.                                        *)

ViewsOf(t) == {e \in DOMAIN entities : entities[e].kind = "view" /\ entities[e].of = t /\ entities[e].there}
Hosted(e) == entities[e].there /\ ~entities[e].dying
Listening(kind, es) ==
    {l \in DOMAIN loops : loops[l].kind = kind /\ loops[l].of \in es /\ loops[l].on
                          /\ \A k \in DOMAIN asked : asked[k] # loops[l].call}
ReplyTo(i, result, made) == [loop |-> 0, call |-> i, result |-> result, made |-> made]
MessageFor(l) == [loop |-> l, call |-> emitted[l] + 1]

\* A message to each of some callbacks, then a reply.
Emit(ls, reply) ==
    LET order == SetToSeq(ls) IN
    /\ emitted' = [l \in DOMAIN emitted |-> IF l \in ls THEN emitted[l] + 1 ELSE emitted[l]]
    /\ replies' = replies \o [k \in DOMAIN order |-> MessageFor(order[k])] \o reply
Answered(i, result, made) == replies' = Append(replies, ReplyTo(i, result, made)) /\ UNCHANGED emitted

\* A Table with Views is kept until the last is deleted when the request is
\* lazy, and refused otherwise.
ServeDelete(e, i) ==
    LET t == entities[e].of
        last == entities[e].kind = "view" /\ entities[t].dying /\ ViewsOf(t) = {e}
        gone == IF last THEN {e, t} ELSE {e} IN
    IF entities[e].kind = "table" /\ ViewsOf(e) # {}
    THEN \/ entities' = [entities EXCEPT ![e].dying = TRUE] /\ Answered(i, "ok", 0)
         \/ UNCHANGED entities /\ Answered(i, "refused", 0)
    ELSE /\ entities' = [x \in DOMAIN entities |-> IF x \in gone THEN [entities[x] EXCEPT !.there = FALSE] ELSE entities[x]]
         /\ Emit(Listening("onDelete", gone), <<ReplyTo(i, "ok", 0)>>)

\* A new View, or a new Table, of which those who asked are told.
ServeMake(i, kind, of) ==
    /\ entities' = Append(entities, JsEntity(kind, of))
    /\ Emit(IF kind = "table" THEN Listening("onHosted", {0}) ELSE {}, <<ReplyTo(i, "ok", Len(entities) + 1)>>)

ServeJs ==
    /\ asked # <<>> /\ jsLink = "up" /\ asked' = Tail(asked)
    /\ LET i == Head(asked)  e == Target(i).of  does == jsCalls[i].does
           made == does \in {"table", "join", "open"} IN
       \/ /\ made /\ UNCHANGED entities /\ Answered(i, "failed", 0)
       \/ does \in {"table", "join"} /\ (\A k \in DOMAIN jsCalls[i].refs : Hosted(jsCalls[i].refs[k])) /\ ServeMake(i, "table", 0)
       \/ does = "open" /\ Hosted(1) /\ UNCHANGED entities /\ Answered(i, "ok", 1)
       \/ (does = "names" \/ (does = "remove" /\ e = 0)) /\ UNCHANGED entities /\ Answered(i, "ok", 0)
       \/ does = "onHosted" /\ UNCHANGED <<entities, emitted, replies>>
       \/ /\ e # 0 /\ UNCHANGED entities /\ ~entities[e].there
          /\ IF does \in Subscriptions THEN UNCHANGED <<emitted, replies>>
             ELSE Answered(i, IF Target(i).kind = "view" THEN NotFound ELSE "gone", 0)
       \/ /\ e # 0 /\ entities[e].there
          /\ \/ does = "delete" /\ ServeDelete(e, i)
             \/ does = "view" /\ ServeMake(i, "view", e)
             \/ /\ does \in {"update", "replace", "clear", "forward"} /\ UNCHANGED entities
                /\ Emit(Listening("onUpdate", ViewsOf(e)) \union Listening("response", {e}), <<ReplyTo(i, "ok", 0)>>)
             \/ does \in {"read", "typed", "remove"} /\ UNCHANGED entities /\ Answered(i, "ok", 0)
             \/ does \in Subscriptions /\ UNCHANGED <<entities, emitted, replies>>
    /\ UNCHANGED <<jsHandles, jsCalls, typed, loops, jsLink>>
-----------------------------------------------------------------------------
(* What comes back.                                                        *)

\* handle_response, for a reply: its call is settled, with the new object; the
\* typed arrays of a View go to the program's callback first, unless a column
\* has no typed array.
ReplyArrives ==
    LET r == Head(replies)  c == jsCalls[r.call] IN
    /\ replies # <<>> /\ r.loop = 0 /\ replies' = Tail(replies)
    /\ \/ /\ r.result = "ok" /\ c.does = "typed"
          /\ jsCalls' = [jsCalls EXCEPT ![r.call].stage = "callback"]
          /\ typed' = [used |-> typed.used \union {r.call}, kept |-> typed.kept \union {r.call}]
       \/ /\ r.result = "ok" /\ c.does = "typed" /\ UNCHANGED typed
          /\ jsCalls' = Settle(r.call, "unsupported column")
       \/ /\ ~(r.result = "ok" /\ c.does = "typed") /\ UNCHANGED typed
          /\ jsCalls' = Settle(r.call, r.result)
    /\ jsHandles' = IF r.made = 0 THEN jsHandles ELSE Append(jsHandles, JsObject(entities[r.made].kind, r.made))
    /\ UNCHANGED <<served, loops, asked, jsLink>>

\* handle_response, for a message: it is queued for its callback.  That of
\* on_delete is called once.
MessageArrives ==
    LET r == Head(replies) IN
    /\ replies # <<>> /\ r.loop # 0 /\ replies' = Tail(replies)
    /\ loops' = IF ~loops[r.loop].on THEN loops
                ELSE [loops EXCEPT ![r.loop].queue = Append(@, r.call), ![r.loop].on = loops[r.loop].kind # "onDelete"]
    /\ UNCHANGED <<jsHandles, jsCalls, typed, served, asked, jsLink>>

\* The callback of with_typed_arrays returns, or its promise is settled; the
\* Arrow is dropped and the call settled, in a later microtask.
TypedCallbackEnds(i) ==
    /\ i \in typed.used /\ typed' = [typed EXCEPT !.used = @ \ {i}]
    /\ UNCHANGED <<jsHandles, jsCalls, served, loops, net>>

DecodeReturns(i) ==
    /\ i \in typed.kept /\ i \notin typed.used
    /\ typed' = [typed EXCEPT !.kept = @ \ {i}]
    /\ \E result \in {"ok", "rejected"} : jsCalls' = Settle(i, result)
    /\ UNCHANGED <<jsHandles, served, loops, net>>

\* A callback is called with the next message; what it throws is logged.
LoopRuns(l, throws) ==
    /\ loops[l].runs /\ loops[l].queue # <<>>
    /\ loops' = [loops EXCEPT ![l].heard = Append(@, Head(loops[l].queue)), ![l].queue = Tail(@), ![l].runs = TRUE]
    /\ UNCHANGED <<jsHandles, jsCalls, typed, served, net>>

\* A throttled task of the viewer ends with the error of a call it made, which
\* went through JavaScript or did not.
TaskEnds(i) ==
    /\ jsCalls[i].stage = "settled" /\ jsCalls[i].result \in {NotFound, "gone"} /\ jsCalls[i].error = "none"
    /\ LET err == ClientError(jsCalls[i].result) IN
       \E e \in {err} \union {FromJs(Thrown(err, again)) : again \in {"error", "text"}} :
          jsCalls' = [jsCalls EXCEPT ![i].error = IgnoreViewDelete(e)]
    /\ UNCHANGED <<jsHandles, typed, served, loops, net>>
-----------------------------------------------------------------------------
(* The transport.                                                          *)

\* handle_error: callbacks of on_error are queued a message, streams are
\* forgotten and whoever waits has an error.
HandleJsError ==
    /\ jsLink = "up" /\ \E l \in DOMAIN loops : loops[l].kind = "error" /\ emitted[l] = 0
    /\ jsLink' = "down" /\ asked' = <<>> /\ replies' = <<>>
    /\ emitted' = [l \in DOMAIN emitted |-> IF loops[l].kind = "error" THEN emitted[l] + 1 ELSE emitted[l]]
    /\ loops' = [l \in DOMAIN loops |->
                    IF loops[l].kind = "error" THEN [loops[l] EXCEPT !.queue = Append(@, emitted[l] + 1)]
                    ELSE [loops[l] EXCEPT !.on = FALSE]]
    /\ jsCalls' = [i \in DOMAIN jsCalls |->
                    IF jsCalls[i].stage = "sent" /\ jsCalls[i].does \notin Subscriptions
                    THEN [jsCalls[i] EXCEPT !.stage = "settled", !.result = "transport error"] ELSE jsCalls[i]]
    /\ UNCHANGED <<jsHandles, typed, entities>>

\* The reconnect function that a callback of on_error is given: what it
\* returns, or throws, decides; a request of before fails.
JsReconnect ==
    /\ jsLink = "down" /\ \E l \in DOMAIN loops : loops[l].kind = "error" /\ loops[l].heard # <<>>
    /\ jsLink' = "up"
    /\ UNCHANGED <<jsHandles, jsCalls, typed, served, loops, asked, replies>>

\* send_request fails while the link is down.
SendRejected(i) ==
    /\ jsCalls[i].stage = "called" /\ jsLink = "down" /\ jsCalls[i].does \notin {"local", "getClient"}
    /\ jsCalls' = Settle(i, "transport error")
    /\ UNCHANGED <<jsHandles, typed, served, loops, net>>

JsNext ==
    /\ UNCHANGED jsProgram
    /\ \/ \E h \in DOMAIN jsHandles :
             \/ \E m \in JsMethods : CallMethod(h, m)
             \/ Terminate(h) \/ NewProxySession(h) \/ OpenView(h) \/ OnError(h)
       \/ \E i \in DOMAIN jsCalls :
             \/ SendRequest(i) \/ SubscriptionSent(i) \/ RemoveCallback(i) \/ LocalAnswer(i) \/ TableRef(i)
             \/ SendRejected(i) \/ TypedCallbackEnds(i) \/ DecodeReturns(i) \/ TaskEnds(i)
       \/ ServeJs \/ ReplyArrives \/ MessageArrives
       \/ \E l \in DOMAIN loops : \E throws \in BOOLEAN : LoopRuns(l, throws)
       \/ HandleJsError \/ JsReconnect

JsSpec == JsInit /\ [][JsNext]_jsVars
-----------------------------------------------------------------------------
MessagesOf(l) == loops[l].heard \o loops[l].queue
InFlight(l) == LET mine == SelectSeq(replies, LAMBDA r : r.loop = l) IN [k \in DOMAIN mine |-> mine[k].call]
DeleteFailed(h) == \E i \in DOMAIN jsCalls : jsCalls[i].on = h /\ jsCalls[i].does = "delete"
                                            /\ jsCalls[i].result \in {"", "transport error"}

(* What a program holds and what the server has agree. A View or a session *)
(* that was deleted is gone from the server, or the request is under way   *)
(* or failed with the connection, also when the program did not wait for   *)
(* its subscriptions before (view.rs: "you must call this method to        *)
(* reclaim these"); a callback hears every message for it once and in the  *)
(* order sent, whatever it throws (local_poll_loop.rs); the Arrow under    *)
(* typed arrays is kept until the callback's promise is settled (view.rs:  *)
(* "it is awaited before the backing Arrow buffer is released"); and that  *)
(* a View was deleted under a call is not reported as an error, whether    *)
(* the error went through JavaScript or not (futures.rs).                  *)
HandlesAreSound ==
    /\ JsCareful => \A h \in DOMAIN jsHandles :
          jsHandles[h].kind \in {"view", "session"} /\ ~jsHandles[h].live /\ entities[jsHandles[h].of].there => DeleteFailed(h)
    /\ \A l \in DOMAIN loops :
          LET heard == MessagesOf(l) \o IF loops[l].on THEN InFlight(l) ELSE <<>> IN
          /\ heard = [k \in 1..Len(heard) |-> k]
          /\ jsLink = "up" /\ loops[l].on => Len(heard) = emitted[l]
          /\ loops[l].queue # <<>> => loops[l].runs
    /\ typed.used \subseteq typed.kept
    /\ \A i \in DOMAIN jsCalls : jsCalls[i].result = NotFound => jsCalls[i].error # "reported"
===============================================================================
