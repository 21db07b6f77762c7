------------------------------- MODULE Bindings -------------------------------
(***************************************************************************)
(* perspective-python/src and perspective-server/src: threads of a Python  *)
(* program that call a Server in their process, through a local Client or  *)
(* through the sessions of remote clients, and the callbacks into Python.  *)
(*                                                                         *)
(* Two locks matter: Python's global interpreter lock, and the read-write  *)
(* lock around the Option of each PySession.  A thread is a list of the    *)
(* steps it has still to take; a call of the engine, which holds the       *)
(* engine's own lock and calls nobody, is one step.  Coroutines run as     *)
(* calls do, with the interpreter's lock.                                  *)
(***************************************************************************)
EXTENDS Integers, Sequences, FiniteSets
Seqs == INSTANCE SequencesExt

CONSTANTS
    Threads,
    Remotes,        \* PySessions
    Local,          \* the session of the local client
    NoThread,
    Careful,        \* whether callbacks only send requests to sessions that no thread closes
    MaxPyCalls      \* calls that threads make

ASSUME BindingsAssumption ==
    IsFiniteSet(Threads) /\ IsFiniteSet(Remotes) /\ NoThread \notin Threads /\ Local \notin Remotes

VARIABLES
    gil,        \* who holds the interpreter
    todo,       \* what each thread has still to do
    readers,    \* how many read guards of a session each thread holds
    writer,     \* who waits to write a session, or does
    alive,      \* sessions that close() has not taken
    callbacks,  \* sessions with a response callback in the server
    watching,   \* sessions that subscribed to updates
    version,    \* updates made
    dirty,      \* whether the engine has rows to process
    told,       \* the last update each session was told of
    pollAsked,  \* whether a poll was put off to another thread
    answers,    \* requests accepted and not answered, by session
    unanswered, \* sessions whose close() returned before an answer
    onPoll,     \* whether the server has an on_poll_request callback
    closable,   \* the sessions that threads may close
    pyCalls

bindingVars == <<gil, todo, readers, writer, alive, callbacks, watching, version, dirty, told,
                 pollAsked, answers, unanswered, onPoll, closable, pyCalls>>
engine == <<onPoll, closable, callbacks, watching, version, dirty, told, pollAsked, answers, unanswered>>
locks == <<gil, readers, writer, alive>>

PySessions == Remotes \union {Local}
Step(op, s, n) == [op |-> op, s |-> s, n |-> n]
Take == Step("take", Local, 0)
Drop == Step("drop", Local, 0)
-----------------------------------------------------------------------------
(* Calls of the asynchronous API: whether their arguments, and their       *)
(* result, are converted, what they are to the engine, and whether they    *)
(* allow other threads while the engine is at work.                        *)

PyMethod(takes, effect, gives) == [takes |-> takes, effect |-> effect, gives |-> gives, allows |-> FALSE]

MakeTable == {PyMethod(TRUE, "reads", FALSE)}
ClientCalls ==  \* open_table, join, get_hosted_table_names
    {PyMethod(FALSE, "reads", FALSE), PyMethod(TRUE, "reads", FALSE)}
SystemCalls ==  \* on_hosted_tables_update, remove_hosted_tables_update, system_info
    {PyMethod(FALSE, "reads", FALSE), PyMethod(FALSE, "reads", TRUE)}
TableCalls ==   \* size, columns, delete, make_port; clear
    {PyMethod(FALSE, effect, FALSE) : effect \in {"reads", "updates"}}
TableWriters == \* remove, replace
    {PyMethod(TRUE, "updates", FALSE)}
TableUpdate == {[PyMethod(TRUE, "updates", FALSE) EXCEPT !.allows = TRUE]}
TableQueries == \* validate_expressions, schema, view
    {PyMethod(TRUE, "reads", TRUE), PyMethod(FALSE, "reads", FALSE), PyMethod(TRUE, "reads", FALSE)}
ViewCalls ==    \* column_paths, delete, dimensions, expand, collapse, expression_schema, get_config, get_min_max
    {PyMethod(TRUE, "reads", FALSE), PyMethod(FALSE, "reads", FALSE), PyMethod(FALSE, "reads", TRUE)}
ViewSizes ==    \* num_rows, num_columns, schema
    {PyMethod(FALSE, "reads", FALSE)}
ViewWatches ==  \* on_update; on_delete, remove_delete, remove_update
    {PyMethod(TRUE, "watches", FALSE), PyMethod(TRUE, "reads", FALSE)}
ViewExports ==  \* to_dataframe, to_polars, to_arrow, to_csv, to_columns, to_json, to_ndjson, to_records
    {PyMethod(TRUE, "reads", TRUE), PyMethod(TRUE, "reads", FALSE)}

AsyncClient == MakeTable \union ClientCalls \union SystemCalls
AsyncTable == TableCalls \union TableWriters \union TableUpdate \union TableQueries
AsyncView == ViewCalls \union ViewSizes \union ViewWatches \union ViewExports

\* Python::with_gil, and AllowThreads when the lock is not held.
Convert == <<Step("convert", Local, 0)>>

\* LocalSession::handle_request: the engine, its responses, then a poll,
\* whatever became of the responses.
LocalRequest(s, effect) ==
    <<Step(effect, s, 0), Step(IF onPoll THEN "onPoll" ELSE "poll", s, 0)>>

\* The body of an async method of a local client, polled with the lock or,
\* in py_block_on, without.
Body(m, held) ==
    LET request == LocalRequest(Local, m.effect) IN
    (IF m.takes THEN Convert ELSE <<>>)
    \o (IF ~m.allows THEN request ELSE IF held THEN <<Drop>> \o request \o <<Take>> ELSE Convert \o request \o Convert)
    \o (IF m.gives THEN Convert ELSE <<>>)

\* py_block_on: the synchronous API is the asynchronous one, waited for
\* without the lock.
BlockOn(m) == <<Drop>> \o Body(m, FALSE) \o <<Take>>

SyncClient == {BlockOn(m) : m \in AsyncClient}
SyncTable == {BlockOn(m) : m \in TableCalls \union TableQueries}
SyncWriters == {BlockOn(m) : m \in TableWriters \union TableUpdate}
SyncView == {BlockOn(m) : m \in ViewExports \union {PyMethod(FALSE, "reads", FALSE)}}
SyncViewCalls == {BlockOn(m) : m \in ViewCalls \union ViewSizes \union ViewWatches}

LocalCalls ==
    (UNION {SyncClient, SyncTable, SyncWriters, SyncView, SyncViewCalls})
    \union {Body(m, TRUE) : m \in UNION {AsyncClient, AsyncTable, AsyncView}}
-----------------------------------------------------------------------------
(* Calls that reach the server from outside.                               *)

\* PySession::handle_request: with_session takes the read guard first.
SessionRequest(s, effect) == <<Drop, [op |-> "read", s |-> s, n |-> effect], Take>>

\* PySession::close: the Option is taken under the write guard.
MutClose(s) == <<Step("write", s, 0), Step("takeOption", s, 0)>>
Close(s) == <<Drop, Step("write", s, 0), Step("takeOption", s, 0), Take>>

\* Server::poll.
ServerPoll == <<Drop, Step("poll", Local, 0), Take>>

BindingsInit ==
    /\ gil = NoThread /\ todo = [t \in Threads |-> <<>>]
    /\ readers = [s \in Remotes |-> [t \in Threads |-> 0]]
    /\ writer = [s \in Remotes |-> NoThread]
    /\ alive = Remotes /\ callbacks = PySessions /\ watching = {}
    /\ version = 0 /\ dirty = FALSE /\ told = [s \in PySessions |-> 0]
    /\ pollAsked = FALSE /\ answers = [s \in PySessions |-> 0] /\ unanswered = {}
    /\ onPoll \in BOOLEAN /\ closable \in SUBSET Remotes /\ pyCalls = 0

Head1(t) == Head(todo[t])
At1(t, op) == todo[t] # <<>> /\ Head1(t).op = op
Continue(t, steps) == todo' = [todo EXCEPT ![t] = steps \o Tail(@)]

\* Python code of a thread makes a call.
Begin(t, steps) ==
    /\ todo[t] = <<>> /\ gil = NoThread /\ gil' = t
    /\ todo' = [todo EXCEPT ![t] = steps \o <<Drop>>]
    /\ UNCHANGED <<readers, writer, alive, onPoll, closable, callbacks, watching, version, dirty, told, answers, unanswered>>

BeginCall(t) ==
    /\ pyCalls < MaxPyCalls /\ pyCalls' = pyCalls + 1
    /\ \/ \E steps \in LocalCalls : Begin(t, steps)
       \/ \E s \in Remotes, effect \in {"reads", "updates", "watches"} : Begin(t, SessionRequest(s, effect))
       \/ \E s \in closable : Begin(t, Close(s))
    /\ UNCHANGED pollAsked

\* The poll that an on_poll_request callback left to another thread.
BeginPoll(t) ==
    /\ pollAsked /\ pollAsked' = FALSE
    /\ Begin(t, ServerPoll)
    /\ UNCHANGED pyCalls
-----------------------------------------------------------------------------
(* The locks.                                                              *)

TakeGil(t) ==
    /\ At1(t, "take") /\ gil = NoThread /\ gil' = t
    /\ Continue(t, <<>>)
    /\ UNCHANGED <<readers, writer, alive, engine, pyCalls>>

DropGil(t) ==
    /\ At1(t, "drop") /\ gil' = NoThread
    /\ Continue(t, <<>>)
    /\ UNCHANGED <<readers, writer, alive, engine, pyCalls>>

ConvertGil(t) ==
    /\ At1(t, "convert") /\ gil \in {NoThread, t}
    /\ Continue(t, <<>>)
    /\ UNCHANGED <<locks, engine, pyCalls>>

\* with_session: readers wait behind a writer that waits.
ReadSession(t) ==
    LET s == Head1(t).s IN
    /\ At1(t, "read") /\ writer[s] = NoThread
    /\ IF s \in alive
       THEN /\ readers' = [readers EXCEPT ![s][t] = @ + 1]
            /\ answers' = [answers EXCEPT ![s] = @ + 1]
            /\ Continue(t, LocalRequest(s, Head1(t).n) \o <<Step("unread", s, 0)>>)
       ELSE Continue(t, <<>>) /\ UNCHANGED <<readers, answers>>
    /\ UNCHANGED <<gil, writer, alive, onPoll, closable, callbacks, watching, version, dirty, told, pollAsked, unanswered, pyCalls>>

UnreadSession(t) ==
    /\ At1(t, "unread") /\ readers' = [readers EXCEPT ![Head1(t).s][t] = @ - 1]
    /\ Continue(t, <<>>)
    /\ UNCHANGED <<gil, writer, alive, engine, pyCalls>>

WriteSession(t) ==
    /\ At1(t, "write") /\ writer[Head1(t).s] = NoThread
    /\ writer' = [writer EXCEPT ![Head1(t).s] = t]
    /\ Continue(t, <<>>)
    /\ UNCHANGED <<gil, readers, alive, engine, pyCalls>>

TakeSession(t) ==
    LET s == Head1(t).s IN
    /\ At1(t, "takeOption") /\ \A u \in Threads : readers[s][u] = 0
    /\ writer' = [writer EXCEPT ![s] = NoThread]
    /\ alive' = alive \ {s}
    /\ todo' = [todo EXCEPT ![t] = IF s \in alive THEN <<@[2], Step("closeSession", s, 0)>> \o SubSeq(@, 3, Len(@)) ELSE Tail(@)]
    /\ UNCHANGED <<gil, readers, engine, pyCalls>>

\* LocalSession::close, with the interpreter's lock.
CloseSession(t) ==
    LET s == Head1(t).s IN
    /\ At1(t, "closeSession")
    /\ callbacks' = callbacks \ {s} /\ watching' = watching \ {s}
    /\ unanswered' = IF answers[s] > 0 THEN unanswered \union {s} ELSE unanswered
    /\ Continue(t, <<>>)
    /\ UNCHANGED <<locks, onPoll, closable, version, dirty, told, pollAsked, answers, pyCalls>>
-----------------------------------------------------------------------------
(* The engine and the responses.                                           *)

\* The engine processes what is dirty: a message for each that watches.
Messages(vers) == LET ws == Seqs!SetToSeq(watching) IN [i \in DOMAIN ws |-> Step("deliver", ws[i], vers)]
Processed(now) == IF dirty /\ now THEN Messages(version) ELSE <<>>

\* handle_request in the engine: without a poll callback it processes what a
\* request reads.
Engine(t) ==
    LET s == Head1(t).s  effect == Head1(t).op IN
    /\ todo[t] # <<>> /\ effect \in {"reads", "updates", "watches"}
    /\ Continue(t, Processed(effect = "reads" /\ ~onPoll) \o <<Step("deliver", s, 0)>>)
    /\ dirty' = CASE effect = "updates" -> TRUE [] effect = "reads" /\ ~onPoll -> FALSE [] OTHER -> dirty
    /\ version' = IF effect = "updates" THEN version + 1 ELSE version
    /\ watching' = IF effect = "watches" THEN watching \union {s} ELSE watching
    /\ told' = IF effect = "watches" /\ s \notin watching THEN [told EXCEPT ![s] = version] ELSE told
    /\ UNCHANGED <<locks, onPoll, closable, callbacks, pollAsked, answers, unanswered, pyCalls>>

PollEngine(t) ==
    /\ At1(t, "poll")
    /\ Continue(t, Processed(TRUE))
    /\ dirty' = FALSE
    /\ UNCHANGED <<locks, onPoll, closable, callbacks, watching, version, told, pollAsked, answers, unanswered, pyCalls>>

\* on_poll_request calls server.poll(), or has another thread do it.
OnPollRequest(t) ==
    /\ At1(t, "onPoll")
    /\ \/ gil # t /\ Continue(t, <<Take, Head1(t), Drop>>) /\ UNCHANGED pollAsked
       \/ gil = t /\ Continue(t, ServerPoll) /\ UNCHANGED pollAsked
       \/ gil = t /\ Continue(t, <<>>) /\ pollAsked' = TRUE
    /\ UNCHANGED <<locks, onPoll, closable, callbacks, watching, version, dirty, told, answers, unanswered, pyCalls>>

Tell(s, n) ==
    /\ told' = IF n > told[s] THEN [told EXCEPT ![s] = n] ELSE told
    /\ answers' = IF n = 0 /\ s \in Remotes THEN [answers EXCEPT ![s] = @ - 1] ELSE answers

\* The callback of a session is cloned, then called.  That of the local
\* client is its handle_response, which calls into Python for updates only.
Deliver(t) ==
    LET s == Head1(t).s  n == Head1(t).n  call == Step("callback", s, n) IN
    /\ At1(t, "deliver")
    /\ CASE s \notin callbacks -> Continue(t, <<>>) /\ UNCHANGED <<told, answers>>
         [] s \in callbacks /\ s = Local /\ n = 0 -> Continue(t, <<>>) /\ Tell(s, n)
         [] OTHER -> /\ Continue(t, IF gil = t THEN <<call>> ELSE <<Take, call, Drop>>)
                     /\ UNCHANGED <<told, answers>>
    /\ UNCHANGED <<locks, onPoll, closable, callbacks, watching, version, dirty, pollAsked, unanswered, pyCalls>>

\* A callback runs in Python, and may call the server again.  The error of one
\* that raises is kept until what comes after it was delivered.
Callback(t) ==
    LET s == Head1(t).s  n == Head1(t).n IN
    /\ At1(t, "callback") /\ Tell(s, n)
    /\ \/ Continue(t, <<>>) /\ UNCHANGED pyCalls
       \/ /\ pyCalls < MaxPyCalls /\ pyCalls' = pyCalls + 1
          /\ \/ \E m \in TableCalls : Continue(t, BlockOn(m))
             \/ \E r \in IF Careful THEN Remotes \ closable ELSE Remotes : Continue(t, SessionRequest(r, "reads"))
    /\ UNCHANGED <<locks, onPoll, closable, callbacks, watching, version, dirty, pollAsked, unanswered>>

BindingsNext ==
    \E t \in Threads :
       \/ BeginCall(t) \/ BeginPoll(t)
       \/ TakeGil(t) \/ DropGil(t) \/ ConvertGil(t)
       \/ ReadSession(t) \/ UnreadSession(t) \/ WriteSession(t) \/ TakeSession(t) \/ CloseSession(t)
       \/ Engine(t) \/ PollEngine(t) \/ OnPollRequest(t) \/ Deliver(t) \/ Callback(t)

BindingsSpec == BindingsInit /\ [][BindingsNext]_bindingVars
-----------------------------------------------------------------------------
\* Whom a thread waits for.
Holders(t) == {u \in Threads : gil = u}
WaitsFor(t) ==
    CASE At1(t, "take") -> Holders(t)
      [] At1(t, "convert") -> Holders(t) \ {t}
      [] At1(t, "read") \/ At1(t, "write") -> {u \in Threads : writer[Head1(t).s] = u}
      [] At1(t, "takeOption") -> {u \in Threads : readers[Head1(t).s][u] > 0}
      [] OTHER -> {}
Busy == {t \in Threads : todo[t] # <<>>}

(* Threads never wait for each other in a circle, nor one for itself: a    *)
(* method gives the interpreter up before it waits for a session           *)
(* (session_sync.rs, client_sync.rs: py_block_on; docs/md/how_to/python/   *)
(* multithreading.md: "methods may be called from different threads"). A   *)
(* callback that sends a request to a session that another thread closes   *)
(* may.                                                                    *)
NobodyIsStuck == \A S \in (SUBSET Busy) \ {{}} : \E t \in S : WaitsFor(t) \cap S = {}

(* Nothing is owed to anyone. When no thread is in a call and no poll is   *)
(* left to make, no update waits in the engine and whoever watches has     *)
(* been told of the last, whichever thread made it and whatever its        *)
(* callbacks raised (local_session.rs: a request ends with a poll); and a  *)
(* session that close() has closed had its answers: close waits for the    *)
(* requests of other threads (session_sync.rs).                            *)
NothingIsOwed ==
    /\ Busy = {} /\ ~pollAsked => ~dirty /\ \A s \in watching : told[s] = version
    /\ unanswered = {}

(* Every call returns, and what it caused is told to whoever watches.      *)
CallsReturnAndTell == NobodyIsStuck /\ NothingIsOwed
=============================================================================
