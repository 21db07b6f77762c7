---------------------------- MODULE VirtualServer ----------------------------
(***************************************************************************)
(* perspective-client/src/rust/virtual_server: the server that answers the *)
(* protocol for a store that is not Perspective's engine (DuckDB,          *)
(* ClickHouse, Polars...), through a handler written in JavaScript         *)
(* (perspective-js/src/rust/virtual_server.rs) or Python                   *)
(* (perspective-python/src/server/virtual_server_sync.rs).                 *)
(*                                                                         *)
(* A request is an async function over three maps, view_to_table,          *)
(* view_configs and view_schemas: it runs up to a call of the handler,     *)
(* waits, and goes on with whatever the maps are by then.  The JavaScript  *)
(* server starts a request while others wait (~host.serial); the Python    *)
(* one ends it first.  What a map's owner borrowed before a wait is a slot *)
(* of the map's buffer, not a key.                                         *)
(***************************************************************************)
EXTENDS Integers, Sequences, FiniteSets

CONSTANTS
    Views,          \* names of views; a client draws a fresh one for each
    TableOf,        \* the table each view is made of
    Hosts,          \* what may hold the server: in Python requests are serial, and a store may be unordered
    Present,        \* the optional methods the handler has
    RequestKinds,   \* the requests clients make
    Freed,          \* what a slot holds once its entry is dropped
    MaxRequests,
    MaxFailures     \* how many calls of the handler fail

\* The entry buffer of an IndexMap is first allocated for three entries: with
\* no more views than that, inserting never moves it.
ASSUME SmallMaps == Cardinality(Views) <= 3

VARIABLES host,
          tables,    \* view_to_table
          configs,   \* view_configs
          schemas,   \* view_schemas, whose values are immutable: its keys
          store,     \* the views of the external store
          pending,   \* the requests that wait for a call of the handler
          client,    \* what clients were told: views asked for, made, deleted
          silent,    \* views of which a request was never answered
          misread,   \* views answered from another view's entry
          requests, failures

virtualVars == <<host, tables, configs, schemas, store, pending, client, silent, misread, requests, failures>>
-----------------------------------------------------------------------------
(* Maps that are borrowed from across an await.                            *)

NoEntries == [len |-> 0, slots |-> <<>>]
Keys(m) == {m.slots[i] : i \in 1 .. m.len}
SlotOf(m, v) == CHOOSE i \in 1 .. m.len : m.slots[i] = v
Insert(m, v) ==
    IF v \in Keys(m) THEN m
    ELSE [len |-> m.len + 1, slots |-> SubSeq(m.slots, 1, m.len) \o <<v>> \o SubSeq(m.slots, m.len + 2, Len(m.slots))]

\* shift_remove: the entries after v move one slot down, the last slot keeps
\* its bytes, and bytes of v itself are freed.
Remove(m, v) ==
    IF v \notin Keys(m) THEN m
    ELSE [len |-> m.len - 1,
          slots |-> [i \in DOMAIN m.slots |->
                       IF i \in SlotOf(m, v) .. m.len - 1 THEN m.slots[i + 1]
                       ELSE IF m.slots[i] = v THEN Freed ELSE m.slots[i]]]
-----------------------------------------------------------------------------
(* What a binding does for a method of the handler: ask the store, through *)
(* the method or the one that stands in for it, answer a default, fail, or *)
(* panic.                                                                  *)

Has(method) == method \in Present
Ask == "ask"
Fails == "fails"
Default == "default"
Panics == "panics"

GetFeatures == IF Has("getFeatures") THEN Ask ELSE Default
GetHostedTables == Ask
TableSchema == Ask
TableSize == Ask
JsTableColumnSize == IF Has("tableColumnsSize") THEN Ask ELSE TableSchema
JsTableValidateExpression == IF Has("tableValidateExpression") THEN Ask ELSE Fails
PyTableValidateExpression == IF Has("tableValidateExpression") THEN Ask ELSE Default
TableMakeView == Ask
JsViewSchema == IF Has("viewSchema") THEN Ask ELSE TableSchema
JsViewSize == IF Has("viewSize") THEN Ask ELSE TableSize
PyViewSize == IF Has("viewSize") THEN Ask ELSE Fails
JsViewColumnSize == IF Has("viewColumnSize") THEN Ask ELSE JsViewSchema
ViewDelete == Ask
ViewGetData == Ask
JsTableMakePort == IF Has("tableMakePort") THEN Ask ELSE Default
DefaultTableMakePort == Default
JsMakeTable == IF Has("makeTable") THEN Ask ELSE Fails
DefaultMakeTable == Panics
ViewGetMinMax == IF Has("viewGetMinMax") THEN Ask ELSE Fails

Method(m) ==
    CASE m = "features" -> GetFeatures
      [] m = "hosted" -> GetHostedTables
      [] m = "tableSchema" -> TableSchema
      [] m = "tableSize" -> TableSize
      [] m = "columns" -> JsTableColumnSize
      [] m = "validate" -> IF host.serial THEN PyTableValidateExpression ELSE JsTableValidateExpression
      [] m = "makeView" -> TableMakeView
      [] m = "viewSchema" -> JsViewSchema
      [] m = "viewSize" -> IF host.serial THEN PyViewSize ELSE JsViewSize
      [] m = "viewColumns" -> JsViewColumnSize
      [] m = "viewDelete" -> ViewDelete
      [] m = "data" -> ViewGetData
      [] m = "port" -> IF host.serial THEN DefaultTableMakePort ELSE JsTableMakePort
      [] m = "makeTable" -> IF host.serial THEN DefaultMakeTable ELSE JsMakeTable
      [] m = "minMax" -> ViewGetMinMax
-----------------------------------------------------------------------------
(* The arms of internal_handle_request: the calls each one makes, in       *)
(* order.                                                                  *)

MakeViewCalls == <<"makeView">>
MakeWindowsCalls == <<"features", "makeView">>
DimensionsCalls == <<"tableSize", "columns", "viewColumns", "viewSize">>
ExpressionCalls == <<"validate", "validate">>
SchemaCalls == <<"viewSchema">>
DataCalls == <<"viewSchema", "data">>
PathsCalls == <<"viewSchema">>
MinMaxCalls == <<"minMax">>
DeleteCalls == <<"viewDelete">>

CallsOf(kind) ==
    CASE kind = "makeView" -> MakeViewCalls
      [] kind = "makeWindows" -> MakeWindowsCalls
      [] kind = "dimensions" -> DimensionsCalls
      [] kind = "viewExpressions" -> ExpressionCalls
      [] kind = "viewSchema" -> SchemaCalls
      [] kind = "data" -> DataCalls
      [] kind = "paths" -> PathsCalls
      [] kind = "minMax" -> MinMaxCalls
      [] kind = "delete" -> DeleteCalls
      [] kind = "config" -> <<>>
      [] kind = "expressions" -> ExpressionCalls
      [] OTHER -> <<kind>>

\* The steps that unwrap the view's entry of view_configs as they start; the
\* step after the last call is the one that answers.
Unwraps(kind) ==
    CASE kind = "dimensions" -> {3}
      [] kind \in {"viewSchema", "data"} -> {1, 2}
      [] kind \in {"viewExpressions", "paths", "config", "minMax"} -> {1}
      [] OTHER -> {}

Makes == {"makeView", "makeWindows"}
OfView == {"dimensions", "viewExpressions", "viewSchema", "data", "paths", "config", "minMax", "delete"}
LooksUpTable == {"dimensions", "viewExpressions"}
OfTable == {"features", "hosted", "tableSchema", "tableSize", "expressions", "port", "makeTable"}

ASSUME RequestsAssumption == RequestKinds \subseteq Makes \union OfView \union OfTable

\* get_cached_view_schema asks only for a schema it does not hold yet.
FirstStep(kind, v) == IF kind \in {"viewSchema", "data"} /\ v \in schemas THEN 2 ELSE 1

Call(r) == CallsOf(r.kind)[r.step]
Ends(r) == r.step > Len(CallsOf(r.kind))
NeedsTable(r) == r.kind \in LooksUpTable /\ ~Ends(r) /\ Call(r) \in {"tableSize", "columns", "validate"}

\* What the step reads through the slot the request borrowed: its table, or,
\* to sort the paths at the end, its config.
Reads(r, ts, cs) ==
    IF NeedsTable(r) THEN {ts.slots[r.slot]}
    ELSE IF r.kind = "paths" /\ Ends(r) THEN {cs.slots[r.slot]}
    ELSE {}
-----------------------------------------------------------------------------
VirtualInit ==
    /\ host \in Hosts
    /\ tables = NoEntries /\ configs = NoEntries
    /\ schemas = {} /\ store = {} /\ pending = {}
    /\ client = [asked |-> {}, made |-> {}, deleted |-> {}]
    /\ silent = {} /\ misread = {} /\ requests = 0 /\ failures = 0

Deleting == {r.view : r \in {q \in pending : q.kind = "delete"}}

\* Request r was waiting (or is new, and then is not pending) and goes on at
\* its next step with the maps as they have become.  An error of an arm is an
\* answer; a panic is not, and leaves the request without one.
Proceed(r, next, ts, cs) ==
    LET read == Reads(next, ts, cs)
        others == {v \in read : v # r.view /\ (r.kind = "paths" \/ v = Freed \/ TableOf[v] # TableOf[r.view])}
        panics == next.step \in Unwraps(r.kind) /\ r.view \notin Keys(cs)
    IN  /\ misread' = IF others # {} /\ ~panics THEN misread \union {r.view} ELSE misread
        /\ silent' = IF panics THEN silent \union {r.view} ELSE silent
        /\ pending' = (pending \ {r}) \union (IF panics \/ Ends(next) THEN {} ELSE {[next EXCEPT !.saw = read]})
        /\ client' = IF panics \/ ~Ends(next) THEN client
                     ELSE IF r.kind \in Makes THEN [client EXCEPT !.made = @ \union {r.view}]
                     ELSE IF r.kind = "delete" THEN [client EXCEPT !.deleted = @ \union {r.view}]
                     ELSE client

\* A client uses a view once it was told of it, and until it deletes it; it
\* does not repeat a request that waits.  What is asked of a table touches none
\* of the maps: it is asked when nothing else is.
MayAsk(kind, v) ==
    CASE kind \in Makes -> v \notin client.asked
      [] kind \in OfView -> v \in client.made \ (client.deleted \union Deleting)
      [] OTHER -> v = (CHOOSE w \in Views : TRUE) /\ pending = {}

NewRequest(kind, v) ==
    [kind |-> kind, view |-> v, step |-> FirstStep(kind, v), saw |-> {},
     slot |-> IF kind \in LooksUpTable /\ v \in Keys(tables) THEN SlotOf(tables, v)
              ELSE IF kind = "paths" /\ v \in Keys(configs) THEN SlotOf(configs, v) ELSE 0]

\* A message arrives, and its request runs up to its first call.
HandleRequest(kind, v) ==
    /\ requests < MaxRequests /\ requests' = requests + 1
    /\ host.serial => pending = {}
    /\ MayAsk(kind, v)
    /\ \A r \in pending : <<r.kind, r.view>> # <<kind, v>>
    /\ tables' = IF kind \in Makes THEN Insert(tables, v) ELSE tables
    /\ LET r == NewRequest(kind, v) IN
       IF kind \in Makes
       THEN /\ client' = [client EXCEPT !.asked = @ \union {v}]
            /\ pending' = pending \union {r}
            /\ UNCHANGED <<silent, misread>>
       ELSE Proceed(r, r, tables, configs)
    /\ UNCHANGED <<host, configs, schemas, store, failures>>

\* What the store holds once it has done what the request asks.
Stored(r) ==
    CASE Call(r) = "makeView" -> store \union {r.view}
      [] Call(r) = "viewDelete" -> store \ {r.view}
      [] OTHER -> store

\* The store answers for a view it holds; a name read from freed memory is
\* none of its tables.
Knows(r) ==
    /\ Call(r) \in {"viewSchema", "viewColumns", "viewSize", "data", "minMax", "viewDelete"} => r.view \in store
    /\ Freed \notin r.saw

\* The config is kept as soon as one call of the arm has been answered.
MutEarlyConfigs(r) == IF r.kind \in Makes THEN Insert(configs, r.view) ELSE configs

\* The maps once the call is answered.
MadeConfigs(r) == IF r.kind \in Makes /\ Call(r) = "makeView" THEN Insert(configs, r.view) ELSE configs
DeletedFrom(m, r) == IF r.kind = "delete" THEN Remove(m, r.view) ELSE m
CachedSchemas(r) == IF r.kind \in {"viewSchema", "data"} /\ r.step = 1 THEN schemas \union {r.view} ELSE schemas

\* Windows without an order are refused by a store that has none.
Refused(r) == Call(r) = "features" /\ r.kind = "makeWindows" /\ Method("features") = Ask /\ host.unordered

\* A call of the handler is answered and the request goes on.
Respond(r) ==
    /\ Method(Call(r)) \in {Ask, Default} /\ ~Refused(r)
    /\ Method(Call(r)) = Ask => Knows(r)
    /\ tables' = DeletedFrom(tables, r)
    /\ configs' = DeletedFrom(MadeConfigs(r), r)
    /\ schemas' = CachedSchemas(r)
    /\ store' = Stored(r)
    /\ Proceed(r, [r EXCEPT !.step = @ + 1], tables', configs')
    /\ UNCHANGED <<host, requests, failures>>

\* The call fails: in the store, or because the handler has no such method.
\* An expression that does not type is part of the answer, any other failure
\* is the answer.
Refuse(r) ==
    /\ \/ (Method(Call(r)) = Fails \/ Refused(r)) /\ UNCHANGED failures
       \/ Method(Call(r)) = Ask /\ ~Knows(r) /\ UNCHANGED failures
       \/ Method(Call(r)) = Ask /\ Knows(r) /\ failures < MaxFailures /\ failures' = failures + 1
    /\ IF Call(r) = "validate" THEN Proceed(r, [r EXCEPT !.step = @ + 1], tables, configs)
       ELSE pending' = pending \ {r} /\ UNCHANGED <<client, silent, misread>>
    /\ UNCHANGED <<host, tables, configs, schemas, store, requests>>

\* The trait's own make_table is unimplemented!, and a panic.
Unimplemented(r) ==
    /\ Method(Call(r)) = Panics
    /\ pending' = pending \ {r}
    /\ UNCHANGED <<host, tables, configs, schemas, store, client, silent, misread, requests, failures>>

VirtualNext ==
    \/ \E kind \in RequestKinds, v \in Views : HandleRequest(kind, v)
    \/ \E r \in pending : Respond(r) \/ Refuse(r) \/ Unimplemented(r)

VirtualSpec == VirtualInit /\ [][VirtualNext]_virtualVars
-----------------------------------------------------------------------------
(* Every request about a view that its client made and did not delete is   *)
(* answered, if with an error: it finds what the server keeps of the view, *)
(* whatever failed before (server.rs:80-101, 418-423).                     *)
LiveViewsAnswer == silent \subseteq client.deleted

(* Between requests the server knows exactly the views the store holds,    *)
(* also after calls that failed half way (server.rs:176-203, 418-423).     *)
ViewsMatchStore == pending = {} => Keys(configs) = store

(* A request reads what is kept of its own view (server.rs:249-269,        *)
(* 280-322). The JavaScript server breaks it: the slot it borrowed may be  *)
(* another view's after a wait.                                            *)
ReadsAreOfTheirView == misread \subseteq client.deleted

(* What the server keeps of its views and what its store holds agree, so   *)
(* that every request about a living view is answered.                     *)
StoreIsServed == LiveViewsAnswer /\ ViewsMatchStore
=============================================================================
