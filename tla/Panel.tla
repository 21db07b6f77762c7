------------------------------- MODULE Panel -------------------------------
(***************************************************************************)
(* One panel of a <perspective-viewer>: its Session (the config, the bound *)
(* Table and View) and its Renderer (the plugin and what it has drawn).    *)
(*                                                                         *)
(* The config is committed at once; a run draws it later, under the draw   *)
(* lock (Debounce), over several awaits. What runs do not hold the lock    *)
(* for, a pause, an update of the Table, an error, another commit, can     *)
(* come between any two of their steps. The steps of a run are the         *)
(* stretches of locked_run, bind_view and draw_view between two awaits.    *)
(***************************************************************************)
EXTENDS Debounce, FiniteSets, Sequences, TLC
LOCAL INSTANCE SequencesExt

CONSTANTS Tables, NoTable, AnyTable, \* Tables by name; a query that all have the columns of
          Plugins, NoPlugin,
          Needs,       \* the Tables that queries committed may need
          Ops,         \* the operations that happen
          Payloads,    \* what load() may be given
          MaxOps,      \* bound: operations
          MaxUpdates,  \* bound: updates of the Tables
          MaxEvents    \* bound: both

DrawSlot == "default"
GeometrySlot == "geometry"

ASSUME PanelAssumption ==
    /\ Slots = {DrawSlot, GeometrySlot}
    /\ Tables # {} /\ NoTable \notin Tables
    /\ Needs \subseteq Tables \cup {AnyTable} /\ Payloads \subseteq {"table", "client", "reject"}
    /\ {MaxOps, MaxUpdates, MaxEvents} \subseteq Nat

VARIABLES session,   \* SessionData, and the pending load
          renderer,  \* RendererData
          job,       \* task -> what it does, and how far it is
          shown,     \* the frame of the plugin
          hosted,    \* the Tables that the server hosts
          views,     \* its Views
          told,      \* those with a notice of an update not yet handled
          version,   \* updates so far
          ops,       \* operations so far: the values committed are their numbers
          lapses     \* what went wrong since the last full draw (history)

panelVars == <<session, renderer, job, shown, hosted, views, told, version, ops, lapses, debounceVars>>
lockless == <<held, slot, ended>>
server == <<hosted, views, told, version>>

NoView == [id |-> 0]
Default == [q |-> 0, needs |-> AnyTable, face |-> 0]
NoUpdate == [field |-> "none"]
Blank == [plugin |-> NoPlugin, table |-> NoTable, config |-> Default, data |-> 0]
Idle == [kind |-> "none", stage |-> "idle", update |-> NoUpdate, table |-> NoTable, plugin |-> NoPlugin,
         public |-> FALSE, gated |-> FALSE, suppress |-> FALSE, old |-> Default, err |-> FALSE,
         payload |-> "none", gen |-> 0, journal |-> <<>>, snap |-> NoUpdate, view |-> NoView]

NewSession ==
    [config |-> Default, filter |-> 0, table |-> NoTable, pending |-> NoTable, meta |-> NoTable,
     error |-> FALSE, paused |-> FALSE, sub |-> NoView, build |-> NoUpdate, load |-> 0, loads |-> 0,
     journal |-> <<>>, ejected |-> FALSE, views |-> 0]
NewRenderer ==
    [plugin |-> NoPlugin, drawn |-> FALSE, cached |-> NoUpdate, active |-> NoUpdate, stale |-> FALSE,
     hidden |-> FALSE, presizing |-> FALSE]
DefaultPlugin == CHOOSE p \in Plugins : TRUE

\* A panel as create_panel leaves it, with no Table and nothing drawn; or,
\* to spare the runs its first steps, one that has loaded a Table and drawn it.
PanelInit ==
    /\ DebounceInit
    /\ job = [t \in Tasks |-> Idle]
    /\ hosted = Tables /\ told = {} /\ version = 0 /\ ops = 0 /\ lapses = {}
    /\ \/ session = NewSession /\ renderer = NewRenderer /\ shown = Blank /\ views = {}
       \/ LET table == CHOOSE any \in Tables : TRUE
              config == [q |-> 0, needs |-> AnyTable, face |-> 0, filter |-> 0]
              v == [id |-> 1, table |-> table, config |-> config]
          IN /\ session = [NewSession EXCEPT !.table = table, !.meta = table, !.loads = 1, !.views = 1,
                                              !.sub = v, !.build = config]
             /\ renderer = [NewRenderer EXCEPT !.plugin = DefaultPlugin, !.drawn = TRUE,
                                                !.cached = [view |-> v, config |-> config]]
             /\ shown = [plugin |-> DefaultPlugin, table |-> table, data |-> 0, config |-> config]
             /\ views = {v}

\* Two configs are equivalent for the engine.
Equivalent(a, b) == [a EXCEPT !.face = 0] = [b EXCEPT !.face = 0]

\* effective_view_config: the filters of the workspace are added.
Effective == [q |-> session.config.q, needs |-> session.config.needs,
              face |-> session.config.face, filter |-> session.filter]
HasColumns(table, needs) == AnyTable \in {table, needs} \/ table \in {needs, NoTable}

----------------------------------------------------------------------------
(* Commits.                                                                *)

Applied(config, u) ==
    CASE u.field = "query" -> [config EXCEPT !.q = u.value, !.needs = u.needs]
      [] u.field = "face" -> [config EXCEPT !.face = u.value]
      [] u.field = "all" -> u.value
      [] OTHER -> config

\* commit_view_config refuses names the Table has no column for, except
\* while a load() is pending.
Commits(s, u) ==
    /\ ~s.error
    /\ s.load # 0 \/ Applied(s.config, u) = s.config \/ HasColumns(s.meta, Applied(s.config, u).needs)

Committed(s, u) ==
    [s EXCEPT !.config = Applied(@, u),
              !.journal = IF s.load # 0 /\ Applied(s.config, u) # s.config THEN Append(@, u) ELSE @]

\* Session::reset: the View, the error and, if asked to, the config go.
Reset(s, config) ==
    [s EXCEPT !.sub = NoView, !.error = FALSE, !.config = IF config THEN Default ELSE @]
Unloaded(s) == [s EXCEPT !.table = NoTable, !.pending = NoTable]

\* The View that a step takes from the session is deleted.
Deleted(view) == views \ {view}
----------------------------------------------------------------------------
(* The body of a run, from under the lock to the end of the bind.          *)

\* A failure is what the caller makes of it: set_run_error for renders and
\* resumes, set_error for restores and loads, which takes the View; a restore
\* that suppresses errors commits the old config again.
TakesView(t) == job[t].kind = "load" \/ (job[t].kind = "restore" /\ ~job[t].suppress)
Suppresses(t) == job[t].kind = "restore" /\ job[t].suppress
AfterFailure(t, s) ==
    LET rollback == [field |-> "all", value |-> job[t].old]
    IN CASE TakesView(t) ->
              [s EXCEPT !.error = TRUE, !.sub = NoView,
                        !.load = IF job[t].kind = "load" /\ @ = job[t].gen THEN 0 ELSE @]
         [] Suppresses(t) -> IF Commits(s, rollback) THEN Committed(s, rollback) ELSE s
         [] job[t].kind \in {"render", "resume"} -> [s EXCEPT !.error = TRUE]
         [] OTHER -> s

\* That of a reset, or of a bind that was pending, is told to its caller, or
\* logged: the session is not in error, and nothing was drawn.
Undrawn(t) == Suppresses(t) \/ job[t].kind \in {"reset", "bind"}

\* The run ends, and its task goes on without the lock.
Ends(t, ok, s, r, live, lost) ==
    /\ Release(t, ok)
    /\ renderer' = [r EXCEPT !.active = NoUpdate]
    /\ session' = IF ok THEN s ELSE AfterFailure(t, s)
    /\ views' = IF ~ok /\ TakesView(t) THEN live \ {s.sub} ELSE live
    /\ lapses' = IF ~ok /\ Undrawn(t) THEN lost \cup {"undrawn"} ELSE lost
    /\ job' = [job EXCEPT ![t] = [Idle EXCEPT !.kind = job[t].kind, !.stage = "ended"]]

\* commit_plugin, ensure_plugin_selected.
Swapped(r, p) ==
    IF p # NoPlugin /\ p # r.plugin THEN [r EXCEPT !.plugin = p, !.drawn = FALSE]
    ELSE IF r.plugin = NoPlugin THEN [r EXCEPT !.plugin = DefaultPlugin, !.drawn = FALSE] ELSE r

\* After the task of a run: the plugin is committed; a run of a session in
\* error, without a Table, or while a load() is pending binds nothing; any
\* other takes its snapshot, and asks the server for a validation.
Snapshots(t, s, live) ==
    LET r == Swapped(renderer, job[t].plugin)
        loads == job[t].kind = "load"
    IN \/ /\ s.error /\ ~loads
          /\ Ends(t, ~job[t].public, s, r, live, lapses)
       \/ /\ loads \/ (~s.error /\ s.table # NoTable)
          /\ s.load # 0
          /\ Ends(t, TRUE, s, r, live, lapses \cup {"deferred"})
       \/ /\ ~s.error /\ ~loads /\ s.table = NoTable
          /\ Ends(t, TRUE, s, r, live, lapses)
       \/ /\ loads \/ (~s.error /\ s.table # NoTable)
          /\ s.load = 0
          /\ session' = s /\ renderer' = r /\ views' = live
          /\ job' = [job EXCEPT ![t].stage = "validate",
                       ![t].snap = [q |-> s.config.q, needs |-> s.config.needs,
                                    face |-> s.config.face, filter |-> s.filter]]
          /\ lapses' = lapses \ {"deferred", "undrawn"}
          /\ UNCHANGED debounceVars

\* set_cached_context, pin_context.
MutPinned(r, ctx) == [r EXCEPT !.active = ctx]
Pinned(r, ctx) == [r EXCEPT !.cached = ctx, !.active = ctx]

\* build_render_context and dispatch_bound: what, if anything, is drawn.
Dispatches(t, how, s, live, lost) ==
    LET ctx == [view |-> s.sub, config |-> s.build]
        pinned == Pinned(renderer, ctx)
        draws == /\ ~(job[t].gated /\ s.paused)
                 /\ how # "unchanged" \/ job[t].public \/ ~renderer.drawn
    IN IF s.table = NoTable THEN Ends(t, FALSE, s, renderer, live, lost)
       ELSE IF ~draws THEN Ends(t, TRUE, s, pinned, live, lost)
       ELSE /\ session' = s /\ renderer' = pinned /\ views' = live /\ lapses' = lost
            /\ job' = [job EXCEPT ![t].stage = "draw", ![t].view = s.sub]
            /\ UNCHANGED debounceVars

MutDecide(t) ==
    /\ job[t].stage = "validate"
    /\ LET snap == job[t].snap
           has == session.sub # NoView
       IN \/ /\ session.paused /\ ~has
             /\ Ends(t, TRUE, session, renderer, views, lapses)
          \/ /\ has /\ (session.paused \/ Equivalent(session.build, snap))
             /\ Dispatches(t, "unchanged", session, views, lapses)
          \/ /\ ~session.paused /\ ~(has /\ Equivalent(session.build, snap))
             /\ IF session.table = NoTable THEN Ends(t, FALSE, session, renderer, views, lapses)
                ELSE /\ job' = [job EXCEPT ![t].stage = "view", ![t].table = session.table]
                     /\ UNCHANGED <<session, renderer, views, lapses, debounceVars>>
    /\ UNCHANGED <<shown, hosted, told, version, ops>>

\* bind_view, once the snapshot is validated: nothing while paused, nothing
\* for the same config, no new View for an equivalent one.
Decide(t) ==
    /\ job[t].stage = "validate"
    /\ LET snap == job[t].snap
           has == session.sub # NoView
       IN \/ /\ session.paused /\ ~has
             /\ Ends(t, TRUE, session, renderer, views, lapses)
          \/ /\ has /\ (session.paused \/ session.build = snap)
             /\ Dispatches(t, "unchanged", session, views, lapses)
          \/ /\ has /\ ~session.paused /\ session.build # snap /\ Equivalent(session.build, snap)
             /\ Dispatches(t, "adopted", [session EXCEPT !.build = snap], views, lapses)
          \/ /\ ~session.paused /\ ~(has /\ Equivalent(session.build, snap))
             /\ IF session.table = NoTable THEN Ends(t, FALSE, session, renderer, views, lapses)
                ELSE /\ job' = [job EXCEPT ![t].stage = "view", ![t].table = session.table]
                     /\ UNCHANGED <<session, renderer, views, lapses, debounceVars>>
    /\ UNCHANGED <<shown, hosted, told, version, ops>>

\* table.view(): the server makes the View, or refuses.
MakeView(t) ==
    /\ job[t].stage = "view"
    /\ LET v == [id |-> session.views + 1, table |-> job[t].table, config |-> job[t].snap]
           \* a Table deleted lazily lives as long as a View of it
           lives == job[t].table \in hosted \cup {w.table : w \in views}
       IN \/ /\ lives /\ HasColumns(job[t].table, job[t].snap.needs)
             /\ views' = views \cup {v}
             /\ session' = [session EXCEPT !.views = @ + 1]
             /\ job' = [job EXCEPT ![t].stage = "subscribe", ![t].view = v]
             /\ UNCHANGED <<renderer, lapses, debounceVars>>
          \/ /\ ~(lives /\ HasColumns(job[t].table, job[t].snap.needs))
             /\ Ends(t, FALSE, session, renderer, views, lapses)
    /\ UNCHANGED <<shown, hosted, told, version, ops>>

BindsNew(t, live) ==
    /\ job[t].stage = "subscribe"
    /\ LET v == job[t].view
           late == session.paused \/ session.ejected
       IN IF v \in views
          THEN Dispatches(t, "rebuilt", [session EXCEPT !.sub = v, !.build = job[t].snap],
                          live, IF late THEN lapses \cup {"late"} ELSE lapses \ {"late"})
          ELSE Ends(t, FALSE, session, renderer, views, lapses)
    /\ UNCHANGED <<shown, hosted, told, version, ops>>

MutSubscribe(t) == BindsNew(t, views)

\* The new View replaces the old, which is deleted, whatever has happened to
\* the session since its creation was asked for.
Subscribe(t) == BindsNew(t, Deleted(session.sub))

\* draw_view: the plugin reads the View; a View that is gone leaves the frame.
Draw(t) ==
    /\ job[t].stage = "draw"
    /\ LET v == job[t].view
           r == [Swapped(renderer, NoPlugin) EXCEPT !.stale = FALSE]
           face == IF renderer.active = NoUpdate THEN v.config.face ELSE renderer.active.config.face
       IN IF v \in views
          THEN /\ shown' = [plugin |-> r.plugin, table |-> v.table, data |-> version,
                            config |-> [v.config EXCEPT !.face = face]]
               /\ Ends(t, TRUE, session, [r EXCEPT !.drawn = TRUE], views,
                       lapses \ {"presize"})
          ELSE Ends(t, TRUE, session, r, views, lapses) /\ UNCHANGED shown
    /\ UNCHANGED <<hosted, told, version, ops>>
----------------------------------------------------------------------------
(* Runs: from the lock to their first await.                               *)

Begins(t, kinds) == call[t].at = "run" /\ job[t].stage = "queued" /\ job[t].kind \in kinds

\* The task has the lock.
Take(t) ==
    /\ Acquire(t)
    /\ UNCHANGED <<session, renderer, job, shown, server, ops, lapses>>

\* locked_run: a restore with a Table and a pending bind open it first, after
\* the reset that a restore began, which reports the error it cleared.
Begin(t) ==
    /\ Begins(t, {"render", "restore", "reset", "resume", "bind"})
    /\ LET table == IF job[t].kind = "bind" THEN session.pending ELSE job[t].table
       IN \/ /\ table = NoTable
             /\ Snapshots(t, session, views)
          \/ /\ table # NoTable /\ ~job[t].err
             /\ job' = [job EXCEPT ![t].stage = "open", ![t].table = table]
             /\ UNCHANGED <<session, renderer, views, lapses, debounceVars>>
          \/ /\ table # NoTable /\ job[t].err
             /\ Ends(t, FALSE, session, renderer, views, lapses)
    /\ UNCHANGED <<shown, hosted, told, version, ops>>

\* The journal of a load(), committed again after the reset, up to a refusal:
\* of the session the config changes, and the journal if it is kept again.
Replayed(s, journal) ==
    LET last == FoldLeft(LAMBDA x, u : IF Commits(x, u) THEN Committed(x, u) ELSE x, s, journal)
    IN [s EXCEPT !.config = last.config, !.journal = last.journal]
Replays(s, journal) ==
    \A i \in 1..Len(journal) : Commits(Replayed(s, SubSeq(journal, 1, i - 1)), journal[i])

\* set_table: the Table is bound and its View gone, or waits to be hosted.
Bound(s, table) ==
    CASE s.table = table -> [s EXCEPT !.pending = NoTable]
      [] s.table # table /\ table \in hosted ->
           [s EXCEPT !.table = table, !.meta = table, !.pending = NoTable, !.sub = NoView]
      [] OTHER -> [s EXCEPT !.pending = table]

Open(t) ==
    /\ job[t].stage = "open"
    /\ LET s == Bound(session, job[t].table)
           live == IF s.sub = session.sub THEN views ELSE Deleted(session.sub)
       IN IF Replays(s, job[t].journal)
          THEN Snapshots(t, Replayed(s, job[t].journal), live)
          ELSE Ends(t, FALSE, s, renderer, live, lapses)
    /\ UNCHANGED <<shown, hosted, told, version, ops>>

\* load(): its payload is awaited under the lock.
BeginLoad(t) ==
    /\ Begins(t, {"load"})
    /\ job' = [job EXCEPT ![t].stage = "payload"]
    /\ UNCHANGED <<session, renderer, shown, server, ops, lapses, debounceVars>>

\* A Table closes the window of its load() and resets the panel, unless a
\* later load() has opened another.
PayloadIsTable(t) ==
    /\ job[t].stage = "payload" /\ job[t].payload = "table"
    /\ IF session.load # job[t].gen
       THEN Ends(t, TRUE, session, renderer, views, lapses)
       ELSE LET s == Unloaded(Reset(session, TRUE))
            IN /\ session' = [s EXCEPT !.load = 0, !.journal = <<>>]
               /\ views' = Deleted(session.sub)
               /\ renderer' = Swapped(renderer, NoPlugin)
               /\ job' = [job EXCEPT ![t].stage = "open", ![t].journal = session.journal]
               /\ UNCHANGED <<lapses, debounceVars>>
    /\ UNCHANGED <<shown, hosted, told, version, ops>>

\* A Client closes the window and leaves the panel as it is; anything else
\* is an error.
PayloadIsOther(t) ==
    /\ job[t].stage = "payload" /\ job[t].payload # "table"
    /\ LET mine == session.load = job[t].gen
           s == IF mine THEN [session EXCEPT !.load = 0, !.journal = <<>>] ELSE session
       IN Ends(t, job[t].payload = "client", s, renderer, views, lapses)
    /\ UNCHANGED <<shown, hosted, told, version, ops>>

\* activation_render: a hidden panel whose updates were dropped is drawn.
BeginActivation(t) ==
    /\ Begins(t, {"activate"})
    /\ IF session.sub = NoView \/ ~renderer.stale
       THEN Ends(t, TRUE, session, renderer, views, lapses)
       ELSE /\ renderer' = [renderer EXCEPT !.active = renderer.cached, !.stale = FALSE]
            /\ job' = [job EXCEPT ![t].stage = "draw", ![t].view = session.sub]
            /\ UNCHANGED <<session, views, lapses, debounceVars>>
    /\ UNCHANGED <<shown, hosted, told, version, ops>>

\* update_lazy, after its throttle: nothing while a presize is under way.
BeginUpdate(t) ==
    /\ Begins(t, {"update"})
    /\ \/ /\ renderer.presizing
          /\ Ends(t, TRUE, session, renderer, views, lapses \cup {"presize"})
       \/ /\ ~renderer.presizing /\ session.sub = NoView
          /\ Ends(t, TRUE, session, renderer, views, lapses)
       \/ /\ ~renderer.presizing /\ session.sub # NoView
          /\ renderer' = [renderer EXCEPT !.active = renderer.cached]
          /\ job' = [job EXCEPT ![t].stage = "draw", ![t].view = session.sub]
          /\ UNCHANGED <<session, views, lapses, debounceVars>>
    /\ UNCHANGED <<shown, hosted, told, version, ops>>

\* geometry_task and restyle_all: the frame changes, not what it shows.
BeginGeometry(t) ==
    /\ Begins(t, {"resize", "presize"})
    /\ Ends(t, TRUE, session, renderer, views, lapses)
    /\ UNCHANGED <<shown, hosted, told, version, ops>>

\* suspend_panel: the Table is no longer hosted.  Whatever Table is bound by
\* now goes.
BeginSuspend(t) ==
    /\ Begins(t, {"suspend"})
    /\ IF session.table = NoTable
       THEN Ends(t, TRUE, session, renderer, views, lapses) /\ UNCHANGED shown
       ELSE /\ Ends(t, TRUE, [Unloaded(Reset(session, FALSE)) EXCEPT !.pending = session.table],
                    renderer, Deleted(session.sub), lapses)
            /\ shown' = Blank
    /\ UNCHANGED <<hosted, told, version, ops>>

\* dispose: the plugin is deleted.
BeginEject(t) ==
    /\ Begins(t, {"eject"})
    /\ Ends(t, TRUE, session, renderer, views, lapses)
    /\ shown' = Blank
    /\ UNCHANGED <<hosted, told, version, ops>>

Starting(t) ==
    \/ Begin(t) \/ BeginLoad(t) \/ BeginActivation(t) \/ BeginUpdate(t)
    \/ BeginGeometry(t) \/ BeginSuspend(t) \/ BeginEject(t)

Locked(t) ==
    \/ Open(t) \/ Decide(t) \/ MakeView(t) \/ Subscribe(t) \/ Draw(t)
    \/ PayloadIsTable(t) \/ PayloadIsOther(t)
----------------------------------------------------------------------------
(* Tasks without the lock.                                                 *)

Queue(t, kind, update) ==
    /\ Lock(t)
    /\ job' = [job EXCEPT ![t] = [update EXCEPT !.kind = kind, !.stage = "queued"]]

\* restore_and_render, after the themes: the commit, then the lock.  A
\* refusal fails the restore before it has begun.
RestoreCommit(t) ==
    /\ job[t].stage = "theme"
    /\ IF Commits(session, job[t].update)
       THEN /\ Queue(t, job[t].kind, job[t])
            /\ session' = Committed(session, job[t].update)
            /\ UNCHANGED <<views, lapses>>
       ELSE /\ job' = [job EXCEPT ![t] = Idle]
            /\ session' = AfterFailure(t, session)
            /\ views' = IF TakesView(t) THEN Deleted(session.sub) ELSE views
            /\ lapses' = IF Suppresses(t) THEN lapses \cup {"undrawn"} ELSE lapses
            /\ UNCHANGED debounceVars
    /\ UNCHANGED <<renderer, shown, hosted, told, version, ops>>

\* sweep_table_bindings with the list of the hosted Tables: the Table the
\* panel had when it was asked for is suspended, or a pending one is bound.
Sweep(t) ==
    /\ job[t].stage = "list"
    /\ \/ /\ job[t].table # NoTable /\ job[t].table \notin hosted
          /\ Queue(t, "suspend", Idle)
       \/ /\ job[t].table = NoTable \/ job[t].table \in hosted
          /\ job' = [job EXCEPT ![t] = IF session.pending = NoTable THEN Idle
                                       ELSE [Idle EXCEPT !.kind = "bind", !.stage = "theme", !.gated = TRUE]]
          /\ UNCHANGED debounceVars
    /\ UNCHANGED <<session, renderer, shown, server, ops, lapses>>

\* The call of the lock returns: a presize is over; a sweep goes on.
Returns(t) ==
    /\ Return(t)
    /\ job' = [job EXCEPT ![t] =
         IF job[t].kind = "suspend" /\ session.pending # NoTable
         THEN [Idle EXCEPT !.kind = "bind", !.stage = "theme", !.gated = TRUE] ELSE Idle]
    /\ renderer' = [renderer EXCEPT !.presizing = @ /\ job[t].kind # "presize"]
    /\ UNCHANGED <<session, shown, server, ops, lapses>>

\* A debounced task finds that another has done its work.
Coalesced(t) ==
    /\ Skip(t) \/ Settled(t)
    /\ UNCHANGED <<session, renderer, job, shown, server, ops, lapses>>

TaskStep(t) == Take(t) \/ Locked(t) \/ RestoreCommit(t) \/ Sweep(t) \/ Coalesced(t)
----------------------------------------------------------------------------
(* Operations.                                                             *)

Starts(op) ==
    /\ op \in Ops /\ ops < MaxOps /\ ops + version < MaxEvents
    /\ ~session.ejected
    /\ ops' = ops + 1
StartsTask(op, t) == Starts(op) /\ job[t] = Idle /\ call[t].at = "idle"

ViewConfigUpdates ==
    {NoUpdate, [field |-> "face", value |-> ops + 1]}
      \cup {[field |-> "query", value |-> ops + 1, needs |-> n] : n \in Needs}

\* update_plugin_and_render: what the UI commits is refused or drawn.
Apply(t) ==
    /\ StartsTask("apply", t)
    /\ \E u \in ViewConfigUpdates, p \in Plugins \cup {NoPlugin} :
         /\ Commits(session, u)
         /\ session' = Committed(session, u)
         /\ Queue(t, "render", [Idle EXCEPT !.plugin = p])
    /\ UNCHANGED <<renderer, shown, server, lapses>>

\* stamp_global_overlay and apply_global_filters.
ApplyGlobalFilters(t) ==
    /\ StartsTask("filter", t)
    /\ session' = [session EXCEPT !.filter = ops + 1]
    /\ IF session.error THEN UNCHANGED <<job, debounceVars>> ELSE Queue(t, "render", Idle)
    /\ UNCHANGED <<renderer, shown, server, lapses>>

\* restore_panel: a Table that is not the one bound, or a panel in error with
\* a Table to restore, resets the session first, and keeps what it reset from.
Restore(t) ==
    /\ StartsTask("restore", t)
    /\ \E u \in ViewConfigUpdates, table \in Tables \cup {NoTable}, suppress \in BOOLEAN :
         LET resets == table # NoTable /\ (table # session.table \/ session.error)
         IN /\ session' = IF resets THEN Reset(session, TRUE) ELSE session
            /\ views' = IF resets THEN Deleted(session.sub) ELSE views
            /\ job' = [job EXCEPT ![t] =
                 [Idle EXCEPT !.kind = "restore", !.stage = "theme", !.update = u, !.table = table,
                              !.public = TRUE, !.gated = TRUE, !.suppress = suppress,
                              !.old = IF suppress THEN session.config ELSE Default,
                              !.err = resets /\ session.error]]
    /\ UNCHANGED <<renderer, shown, hosted, told, version, lapses, debounceVars>>

\* load(): the window opens at the call.
Load(t) ==
    /\ StartsTask("load", t)
    /\ \E payload \in Payloads, table \in Tables :
         /\ payload # "table" => table = CHOOSE any \in Tables : TRUE
         /\ session' = [session EXCEPT !.loads = @ + 1, !.load = session.loads + 1, !.journal = <<>>]
         /\ Queue(t, "load", [Idle EXCEPT !.public = TRUE, !.payload = payload, !.table = table,
                                          !.gen = session.loads + 1])
    /\ UNCHANGED <<renderer, shown, server, lapses>>

\* reset_all; the reset of a session in error reports that error, and ends it.
ResetAll(t) ==
    /\ StartsTask("reset", t)
    /\ session' = Reset(session, TRUE)
    /\ views' = Deleted(session.sub)
    /\ IF session.error
       THEN lapses' = lapses \cup {"undrawn"} /\ UNCHANGED job
       ELSE /\ job' = [job EXCEPT ![t] = [Idle EXCEPT !.kind = "reset", !.stage = "theme", !.public = TRUE,
                                                      !.gated = TRUE, !.plugin = DefaultPlugin]]
            /\ UNCHANGED lapses
    /\ UNCHANGED <<renderer, shown, hosted, told, version, debounceVars>>

\* resetError.
ResetError(t) ==
    /\ StartsTask("resetError", t)
    /\ session' = Reset(session, FALSE)
    /\ views' = Deleted(session.sub)
    /\ Queue(t, "render", Idle)
    /\ UNCHANGED <<renderer, shown, hosted, told, version, lapses>>

\* set_panel_paused, when the viewer leaves the screen: the View is deleted.
Pause ==
    /\ Starts("pause") /\ ~session.paused
    /\ session' = [session EXCEPT !.paused = TRUE, !.sub = NoView]
    /\ views' = Deleted(session.sub)
    /\ UNCHANGED <<renderer, job, shown, hosted, told, version, lapses, debounceVars>>

\* ... and when it is back: a run.
Resume(t) ==
    /\ job[t] = Idle /\ session.paused /\ ~session.ejected
    /\ session' = [session EXCEPT !.paused = FALSE]
    /\ job' = [job EXCEPT ![t] = [Idle EXCEPT !.kind = "resume", !.stage = "theme", !.gated = TRUE]]
    /\ UNCHANGED <<renderer, shown, server, ops, lapses, debounceVars>>

\* A tab of the layout hides the plugin, ...
Hide ==
    /\ Starts("hide") /\ ~renderer.hidden /\ renderer.plugin # NoPlugin
    /\ renderer' = [renderer EXCEPT !.hidden = TRUE]
    /\ UNCHANGED <<session, job, shown, server, lapses, debounceVars>>

\* ... until it is activated.
Activate(t) ==
    /\ job[t] = Idle /\ renderer.hidden /\ ~session.ejected
    /\ renderer' = [renderer EXCEPT !.hidden = FALSE]
    /\ Queue(t, "activate", Idle)
    /\ UNCHANGED <<session, shown, server, ops, lapses>>

\* resize, presize_with_dimensions.
Resize(t) ==
    /\ \E kind \in {"resize", "presize"} :
         /\ StartsTask(kind, t)
         /\ kind = "presize" => ~renderer.presizing
         /\ Debounce(t, GeometrySlot)
         /\ job' = [job EXCEPT ![t] = [Idle EXCEPT !.kind = kind, !.stage = "queued"]]
         /\ renderer' = [renderer EXCEPT !.presizing = @ \/ kind = "presize"]
    /\ UNCHANGED <<session, shown, server, lapses>>

\* eject_panel: in-flight runs go on.
Eject(t) ==
    /\ StartsTask("eject", t)
    /\ session' = [Unloaded(Reset(session, TRUE)) EXCEPT !.ejected = TRUE]
    /\ renderer' = [renderer EXCEPT !.drawn = FALSE, !.cached = NoUpdate]
    /\ views' = Deleted(session.sub)
    /\ Queue(t, "eject", Idle)
    /\ UNCHANGED <<shown, hosted, told, version, lapses>>

\* The Client's error callback: the Views are gone with the connection, which
\* is made again.
ClientError ==
    /\ Starts("error") /\ session.table # NoTable
    /\ session' = [session EXCEPT !.error = TRUE, !.sub = NoView]
    /\ views' = {} /\ told' = {}
    /\ UNCHANGED <<renderer, job, shown, hosted, version, lapses, debounceVars>>

\* A Table is deleted (lazily) or hosted, and the sweep asks for the list.
HostedChange(t) ==
    /\ StartsTask("host", t)
    /\ \E table \in Tables : hosted' = (hosted \ {table}) \cup ({table} \ hosted)
    /\ job' = [job EXCEPT ![t] = [Idle EXCEPT !.kind = "sweep", !.stage = "list", !.table = session.table]]
    /\ UNCHANGED <<session, renderer, shown, views, told, version, lapses, debounceVars>>

\* The Tables change: the Views subscribed to are told.
Update ==
    /\ version < MaxUpdates /\ ops + version < MaxEvents /\ session.table # NoTable
    /\ version' = version + 1
    /\ told' = views \ {job[t].view : t \in {u \in Tasks : job[u].stage = "subscribe"}}
    /\ UNCHANGED <<session, renderer, job, shown, hosted, views, ops, lapses, debounceVars>>

MutDropped(r) == r
Dropped(r) == [r EXCEPT !.stale = TRUE]

\* wire_panel_render_sub: table_updated, for a View that still has its callback.
TableUpdated(t) ==
    \E v \in told :
      /\ told' = told \ {v}
      /\ \/ /\ session.ejected \/ v \notin views
            /\ UNCHANGED <<renderer, job, debounceVars>>
         \/ /\ ~session.ejected /\ v \in views /\ renderer.hidden
            /\ renderer' = Dropped(renderer)
            /\ UNCHANGED <<job, debounceVars>>
         \/ /\ ~session.ejected /\ v \in views /\ ~renderer.hidden
            /\ job[t] = Idle
            /\ Debounce(t, DrawSlot)
            /\ job' = [job EXCEPT ![t] = [Idle EXCEPT !.kind = "update", !.stage = "queued"]]
            /\ UNCHANGED renderer
      /\ UNCHANGED <<session, shown, hosted, views, version, ops, lapses>>

Operation(t) ==
    \/ Apply(t) \/ ApplyGlobalFilters(t) \/ Restore(t) \/ Load(t) \/ ResetAll(t) \/ ResetError(t)
    \/ Resume(t) \/ Activate(t) \/ Resize(t) \/ Eject(t) \/ HostedChange(t)

\* Nothing comes between the lock and the first step of the run that has
\* waited for it, nor between its last step and the return of its call: there
\* is one thread, and no await.
Polled(t) == call[t].at = "done" \/ (call[t].at = "run" /\ job[t].stage = "queued")

PanelNext ==
    \/ \E t \in Tasks : Polled(t) /\ (Starting(t) \/ Returns(t))
    \/ /\ \A t \in Tasks : ~Polled(t)
       /\ \/ \E t \in Tasks : Operation(t) \/ TaskStep(t) \/ TableUpdated(t)
          \/ Pause \/ Hide \/ ClientError \/ Update

PanelSpec == PanelInit /\ [][PanelNext]_panelVars
----------------------------------------------------------------------------
(* Properties.                                                             *)

Quiet == told = {} /\ \A t \in Tasks : job[t] = Idle
OnScreen == ~session.paused /\ ~session.ejected /\ ~session.error /\ session.table # NoTable /\ session.load = 0
ShowsConfig ==
    /\ session.sub # NoView
    /\ shown = [plugin |-> renderer.plugin, table |-> session.table, config |-> Effective,
                data |-> shown.data]

(* Once every task has ended, a panel on the screen that is not in error   *)
(* shows its Table, its plugin and its config with the filters of the      *)
(* workspace, unless a commit was left undrawn in one of the ways of       *)
(* lapses.                                                                 *)
FinalRenderIsFinalCommit == Quiet /\ OnScreen /\ lapses = {} => ShowsConfig

(* ... and always, as pipeline.rs:24 has it.                               *)
EveryFinalRender == Quiet /\ OnScreen => ShowsConfig

(* A frame at rest shows the last update, or is hidden and marked stale.   *)
UpdatesAreShown ==
    Quiet /\ OnScreen /\ lapses = {} => shown.data = version \/ (renderer.hidden /\ renderer.stale)

(* While the plugin draws a View, the context that it can read back is of  *)
(* that View and of the config it was made from (I5); a panel that was     *)
(* removed has none.                                                       *)
PinnedIsDrawn ==
    \A t \in Tasks : job[t].stage = "draw" /\ ~session.ejected =>
      /\ renderer.active.view = job[t].view
      /\ Equivalent(renderer.active.config, job[t].view.config)

(* No View outlives its session's use of it: at rest the server has at     *)
(* most the View that is bound, and none for a panel that is paused or     *)
(* gone.                                                                   *)
ViewsAreReleased ==
    Quiet /\ "late" \notin lapses =>
      /\ views \subseteq {session.sub}
      /\ session.paused \/ session.ejected => views = {}

(* A restore with a Table that is hosted brings a panel in error back      *)
(* (suppress_errors.spec.ts:16).                                           *)
RestoreRecovers ==
    [][\A t \in Tasks : job[t].err /\ job[t].table \in hosted /\ job'[t].stage = "ended"
         => ~session'.error]_panelVars
=============================================================================
