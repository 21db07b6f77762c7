----------------------------- MODULE Workspace -----------------------------
(***************************************************************************)
(* The panels of a <perspective-viewer> element: the Workspace that owns   *)
(* them, the root component that follows it by messages, the layout that   *)
(* MainPanel reconciles with it when it renders, and the tasks that the    *)
(* element's methods spawn.  What a panel does is Panel's matter.          *)
(*                                                                         *)
(* A task holds a guard of the effect ledger from the call of its method   *)
(* until it ends; flush() and the layout events wait for the ledger.       *)
(***************************************************************************)
EXTENDS Naturals, Sequences, FiniteSets
LOCAL INSTANCE SequencesExt

CONSTANTS Ids,        \* panel ids: generate_id counts them from 0
          Named,      \* those that a caller names
          NoId,
          Filters,    \* clauses of the global filter
          Methods,    \* the methods, and the gestures, that happen
          SavedSizes, \* the panels in a saved workspace
          MaxCalls    \* bound: methods and gestures

ASSUME WorkspaceAssumption ==
    Ids \subseteq Nat /\ Named \subseteq Ids /\ NoId \notin Ids /\ SavedSizes \subseteq Nat /\ MaxCalls \in Nat

VARIABLES ws,      \* WorkspaceData, and the overlay of each panel's session
          root,    \* the root component, and the messages sent to it
          main,    \* MainPanel: the frames of the layout, and those it inserted
          open,    \* is_settings_open, the state that save() reports
          tasks,   \* the tasks spawned, in order
          heard,   \* what listeners of the layout events were told last
          calls    \* calls so far

workspaceVars == <<ws, root, main, open, tasks, heard, calls>>

NoTask == 0
Task == [kind |-> "done", stage |-> "done", id |-> NoId, ids |-> {}, guard |-> FALSE, open |-> FALSE,
         for |-> NoTask, owner |-> FALSE, window |-> FALSE, payload |-> "none"]

WorkspaceInit ==
    /\ ws = [panels |-> <<>>, active |-> NoId, next |-> 0, masters |-> {}, staged |-> {}, reserved |-> NoId,
             layout |-> <<>>, dirty |-> {}, flushing |-> FALSE, restored |-> {},
             contributions |-> [i \in Ids |-> {}], overlay |-> [i \in Ids |-> {}], applying |-> {}]
    /\ root = [active |-> NoId, open |-> FALSE, filters |-> {}, render |-> FALSE, waiting |-> {}, queue |-> <<>>]
    /\ main = [frames |-> {}, inserted |-> {}]
    /\ open = FALSE
    /\ tasks = <<>>
    /\ heard = [panels |-> {}, active |-> NoId]
    /\ calls = 0

----------------------------------------------------------------------------
(* WorkspaceData.                                                          *)

Panels(w) == ToSet(w.panels)

\* GlobalFilterSet::flatten.
Flat(w) == w.restored \cup UNION {w.contributions[i] : i \in Ids}

\* A selection supersedes the clauses restored from a save; an empty one
\* only withdraws its panel's.
Contributed(w, id, filters) ==
    [w EXCEPT !.contributions[id] = filters, !.restored = IF filters = {} THEN @ ELSE {}]
WithoutClause(w, f) ==
    [w EXCEPT !.restored = @ \ {f}, !.contributions = [i \in Ids |-> @[i] \ {f}]]
Restored(w, filters) ==
    [w EXCEPT !.restored = filters, !.contributions = [i \in Ids |-> {}]]

\* stamp_global_overlay: a master is not filtered by what the masters select.
Overlay(w, id) == IF id \in w.masters THEN {} ELSE Flat(w)
Stamped(w, ids) ==
    [w EXCEPT !.overlay = [i \in Ids |-> IF i \in ids THEN Overlay(w, i) ELSE @[i]]]

MutApplied(w) == [w EXCEPT !.applying = @ \cup {i \in Panels(w) : Overlay(w, i) # w.overlay[i]}]

\* apply_global_filters: the panels whose overlay changes are drawn again.
Applied(w) ==
    [Stamped(w, Panels(w)) EXCEPT !.applying = @ \cup {i \in Panels(w) : Overlay(w, i) # w.overlay[i]}]

\* schedule_layout_flush.
Dirty(w, what) == [w EXCEPT !.dirty = @ \cup what, !.flushing = @ \/ what # {}]

Inserted(w, id) ==
    Dirty([w EXCEPT !.panels = Append(@, id), !.active = IF @ = NoId THEN id ELSE @, !.overlay[id] = {}],
          {"layout"} \cup {what \in {"active"} : w.active = NoId})

Removed(w, id) ==
    Dirty([w EXCEPT !.masters = @ \ {id}, !.staged = @ \ {id}, !.contributions[id] = {},
                    !.panels = IF id \in Panels(w) THEN Remove(@, id) ELSE @,
                    !.active = IF @ = id THEN NoId ELSE @],
          {what \in {"layout"} : id \in Panels(w)} \cup {what \in {"active"} : w.active = id})

\* set_active, for a panel of the workspace.
Activated(w, id) == Dirty([w EXCEPT !.active = id], {what \in {"active"} : w.active # id})

----------------------------------------------------------------------------
(* Messages and tasks.                                                     *)

LayoutChanged == [kind |-> "LayoutChanged"]

\* mutate_filters and remove_panel tell the root when what all the clauses
\* come to changes.
FilterMessages(old, new) == IF Flat(old) = Flat(new) THEN <<>> ELSE <<[kind |-> "UpdateGlobalFilters"]>>
Sent(r, messages) == [r EXCEPT !.queue = @ \o messages]

Finished(ts, t) == IF t = NoTask THEN ts ELSE [ts EXCEPT ![t] = [Task EXCEPT !.guard = ts[t].guard]]
Guarded(kind) == kind \notin {"duplicate", "toggle", "flush"}
Guards == Cardinality({t \in DOMAIN tasks : tasks[t].guard /\ tasks[t].stage # "done"})
            + Cardinality(ws.applying)

\* resync_active.
Resync(r) == [r EXCEPT !.active = ws.active, !.render = @ \/ r.active # ws.active]

Receives(kind) == root.queue # <<>> /\ Head(root.queue).kind = kind
Message == Head(root.queue)
Rest == [root EXCEPT !.queue = Tail(@)]

OnLayoutChanged ==
    /\ Receives("LayoutChanged")
    /\ root' = [Resync(Rest) EXCEPT !.render = TRUE]
    /\ UNCHANGED <<ws, main, open, tasks, heard, calls>>

\* on_set_active_panel, on_commit_workspace_restore.
OnSetActive ==
    /\ Receives("SetActivePanel")
    /\ LET known == Message.id \in Panels(ws) /\ Message.id # ws.active
       IN /\ ws' = IF known THEN Activated(ws, Message.id) ELSE ws
          /\ root' = IF known THEN [Rest EXCEPT !.active = Message.id, !.render = TRUE] ELSE Resync(Rest)
          /\ tasks' = Finished(tasks, Message.for)
    /\ UNCHANGED <<main, open, heard, calls>>

\* on_close_panel: the first panel left becomes active.
OnClose ==
    /\ Receives("ClosePanel")
    /\ LET removed == Removed(ws, Message.id)
           next == IF ws.active = Message.id /\ removed.panels # <<>>
                   THEN Activated(removed, removed.panels[1]) ELSE removed
       IN /\ ws' = Applied(next)
          /\ root' = Sent([Rest EXCEPT !.active = IF ws.active = Message.id THEN next.active ELSE @,
                                       !.render = TRUE],
                          FilterMessages(ws, next)
                            \o IF Message.id \in ws.staged THEN <<LayoutChanged>> ELSE <<>>)
          /\ tasks' = Finished(tasks, Message.for)
    /\ UNCHANGED <<main, open, heard, calls>>

OnToggleMaster ==
    /\ Receives("ToggleMaster")
    /\ LET id == Message.id
           toggled == IF id \in ws.masters THEN Contributed([ws EXCEPT !.masters = @ \ {id}], id, {})
                      ELSE [ws EXCEPT !.masters = @ \cup {id}]
       IN /\ ws' = Applied(toggled)
          /\ root' = Sent([Rest EXCEPT !.render = TRUE], FilterMessages(ws, toggled))
    /\ UNCHANGED <<main, open, tasks, heard, calls>>

\* on_master_contribution: only the selections of masters filter.
OnContribution ==
    /\ Receives("MasterContribution")
    /\ IF Message.id \in ws.masters
       THEN LET selected == Contributed(ws, Message.id, Message.filters)
            IN ws' = Applied(selected) /\ root' = Sent(Rest, FilterMessages(ws, selected))
       ELSE ws' = ws /\ root' = Rest
    /\ UNCHANGED <<main, open, tasks, heard, calls>>

OnRemoveFilter ==
    /\ Receives("RemoveGlobalFilter")
    /\ LET left == IF Message.filters = Flat(ws) THEN Restored(ws, {})
                   ELSE WithoutClause(ws, CHOOSE f \in Message.filters : TRUE)
       IN ws' = Applied(left) /\ root' = Sent(Rest, FilterMessages(ws, left))
    /\ UNCHANGED <<main, open, tasks, heard, calls>>

OnUpdateFilters ==
    /\ Receives("UpdateGlobalFilters")
    /\ root' = [Rest EXCEPT !.filters = Flat(ws), !.render = @ \/ root.filters # Flat(ws)]
    /\ UNCHANGED <<ws, main, open, tasks, heard, calls>>

\* Reset: every panel is reset without the filters.
OnReset ==
    /\ Receives("Reset")
    /\ LET cleared == Restored(ws, {})
       IN ws' = Stamped(cleared, Panels(ws)) /\ root' = Sent(Rest, FilterMessages(ws, cleared))
    /\ tasks' = Finished(tasks, Message.for)
    /\ UNCHANGED <<main, open, heard, calls>>

\* init_toggle_settings_task: the state that is saved changes first, whatever
\* was asked for; a task resizes the panels for what the root will render.
OnToggleInit ==
    /\ Receives("ToggleSettingsInit")
    /\ open' = ~open
    /\ root' = Rest
    /\ tasks' = IF Message.force = {open} THEN Finished(tasks, Message.for)
                ELSE Append(tasks, [Task EXCEPT !.kind = "toggle", !.stage = "presize", !.open = ~open,
                                                !.for = Message.for])
    /\ UNCHANGED <<ws, main, heard, calls>>


\* on_toggle_settings_complete: resolved by the render, if there is one.
OnToggleComplete ==
    /\ Receives("ToggleSettingsComplete")
    /\ IF Message.open # root.open
       THEN /\ root' = [Rest EXCEPT !.open = Message.open, !.render = TRUE, !.waiting = @ \cup {Message.for}]
            /\ tasks' = tasks
       ELSE /\ root' = Rest
            /\ tasks' = [tasks EXCEPT ![Message.for].stage = "rendered"]
    /\ UNCHANGED <<ws, main, open, heard, calls>>

\* on_layout_updated: the panels that the user closed in the layout.
OnLayoutUpdated ==
    /\ Receives("LayoutUpdated")
    /\ main' = [main EXCEPT !.inserted = @ \cap main.frames]
    /\ root' = Sent(Rest, SetToSeq({[kind |-> "ClosePanel", id |-> i, for |-> NoTask] :
                                      i \in main.inserted \ main.frames}))
    /\ UNCHANGED <<ws, open, tasks, heard, calls>>

Handles ==
    \/ OnLayoutChanged \/ OnSetActive \/ OnClose \/ OnToggleMaster \/ OnContribution \/ OnRemoveFilter
    \/ OnUpdateFilters \/ OnReset \/ OnToggleInit \/ OnToggleComplete \/ OnLayoutUpdated

\* reconcile: a layout that was restored, then the panels not inserted yet and
\* not staged, then the frames of panels that are gone.
Reconciled(w, m) ==
    LET laid == IF w.layout = <<>> THEN m
                ELSE [frames |-> w.layout[1], inserted |-> m.inserted \cup w.layout[1]]
        fresh == {i \in Panels(w) : i \notin laid.inserted /\ i \notin w.staged}
        gone == laid.inserted \ Panels(w)
    IN [frames |-> (laid.frames \cup fresh) \ gone, inserted |-> (laid.inserted \cup fresh) \ gone]

\* The root renders once the messages are handled.
Render ==
    /\ root.render /\ root.queue = <<>>
    /\ main' = Reconciled(ws, main)
    /\ ws' = [ws EXCEPT !.layout = <<>>]
    /\ root' = [root EXCEPT !.render = FALSE, !.waiting = {}]
    /\ tasks' = [t \in DOMAIN tasks |->
                   IF t \in root.waiting THEN [tasks[t] EXCEPT !.stage = "rendered"] ELSE tasks[t]]
    /\ UNCHANGED <<open, heard, calls>>
----------------------------------------------------------------------------
(* Steps of the tasks.                                                     *)

At(t, kind, stage) == tasks[t].kind = kind /\ tasks[t].stage = stage

\* create_panel up to its first await: inserted, stamped and staged.
Created(w, id) == [Stamped(Inserted(w, id), {id}) EXCEPT !.staged = @ \cup {id}]
Create(t, w, id, r, how) ==
    /\ id \in Ids
    /\ ws' = Created(w, id)
    /\ root' = Sent(r, <<LayoutChanged>>)
    /\ tasks' = [tasks EXCEPT ![t].stage = how, ![t].id = id]

\* restore(): the settings first.
RestoreSettings(t) ==
    /\ At(t, "restore", "settings")
    /\ open' = tasks[t].open
    /\ root' = Sent(root, <<[kind |-> "ToggleSettingsComplete", open |-> tasks[t].open, for |-> t]>>)
    /\ tasks' = [tasks EXCEPT ![t].stage = "waiting"]
    /\ UNCHANGED <<ws, main, heard, calls>>

\* ... then the panel named, or the active one; or the one reserved, or else
\* a new one.
RestoreResolve(t) ==
    /\ tasks[t].kind = "restore" /\ tasks[t].stage \in {"rendered", "resolve"}
    /\ LET named == tasks[t].id # NoId
           id == IF named THEN tasks[t].id ELSE ws.active
       IN \/ /\ id \in Panels(ws)
             /\ tasks' = [tasks EXCEPT ![t].stage = "apply"]
             /\ UNCHANGED <<ws, root>>
          \/ /\ id \notin Panels(ws) /\ ~named /\ ws.reserved # NoId
             /\ ws' = Stamped(Inserted([ws EXCEPT !.reserved = NoId], ws.reserved), {ws.reserved})
             /\ root' = Sent(root, <<LayoutChanged>>)
             /\ tasks' = [tasks EXCEPT ![t].stage = "apply"]
          \/ /\ id \notin Panels(ws) /\ (named \/ ws.reserved = NoId)
             /\ IF named THEN Create(t, ws, id, root, "create")
                ELSE Create(t, [ws EXCEPT !.next = @ + 1], ws.next, root, "create")
    /\ UNCHANGED <<main, open, heard, calls>>

\* addPanel, and the panel menu's New and Duplicate once they have a config.
Add(t) ==
    /\ tasks[t].kind \in {"add", "duplicate"} /\ tasks[t].stage = "resolve"
    /\ Create(t, [ws EXCEPT !.next = @ + 1], ws.next, root, "create")
    /\ UNCHANGED <<main, open, heard, calls>>

\* The work of a panel ends.  A new panel is not staged any longer; a
\* duplicate becomes active.
WorkEnds(t) ==
    /\ tasks[t].stage \in {"apply", "create"}
    /\ LET id == tasks[t].id
           staged == tasks[t].stage = "create" /\ id \in ws.staged
       IN /\ ws' = IF staged THEN [ws EXCEPT !.staged = @ \ {id}] ELSE ws
          /\ root' = Sent(root, (IF staged THEN <<LayoutChanged>> ELSE <<>>)
                               \o IF tasks[t].kind = "duplicate"
                                  THEN <<[kind |-> "SetActivePanel", id |-> id, for |-> NoTask]>> ELSE <<>>)
          /\ tasks' = Finished(tasks, t)
    /\ UNCHANGED <<main, open, heard, calls>>

\* The deadline of a panel staged.
Deadline ==
    /\ \E id \in ws.staged : ws' = [ws EXCEPT !.staged = @ \ {id}]
    /\ root' = Sent(root, <<LayoutChanged>>)
    /\ UNCHANGED <<main, open, tasks, heard, calls>>

\* place_reserved, take_reserved.
Placed(w) ==
    IF w.reserved = NoId THEN w
    ELSE Stamped(Inserted([w EXCEPT !.reserved = NoId], w.reserved), {w.reserved})

\* load(), with its payload: a Table, or an error, places the panel that was
\* reserved; a Client discards it.  A later load() of the panel takes over.
Payload(t) ==
    /\ At(t, "load", "payload")
    /\ LET places == /\ tasks[t].owner /\ ws.reserved # NoId
                     /\ tasks[t].payload = "reject" \/ (tasks[t].payload = "table" /\ tasks[t].window)
           discards == tasks[t].owner /\ tasks[t].window /\ tasks[t].payload = "client"
       IN /\ ws' = CASE places -> Placed(ws)
                     [] discards -> [ws EXCEPT !.reserved = NoId]
                     [] OTHER -> ws
          /\ root' = IF places THEN Sent(root, <<LayoutChanged>>) ELSE root
    /\ tasks' = Finished(tasks, t)
    /\ UNCHANGED <<main, open, heard, calls>>

\* sync_update_panels: new panels replace all those there are, in one step.
RestoreWorkspace(t) ==
    /\ At(t, "workspace", "resolve")
    /\ \E n \in SavedSizes, masters, filters \in BOOLEAN :
         LET fresh == [i \in 1..n |-> ws.next + i - 1]
             new == FoldLeft(Inserted, [ws EXCEPT !.next = @ + n], fresh)
             old == FoldLeft(Removed, new, ws.panels)
             mastered == [old EXCEPT !.masters = IF masters THEN {fresh[i] : i \in 1..(n \div 2)} ELSE {},
                                     !.reserved = NoId,
                                     !.layout = IF n = 0 THEN <<>> ELSE <<ToSet(fresh)>>]
             done == Restored(mastered, IF filters THEN Filters ELSE {})
         IN /\ ToSet(fresh) \subseteq Ids
            /\ ws' = Stamped(done, ToSet(fresh))
            /\ root' = Sent(root,
                 (IF n = 0 THEN <<>> ELSE <<[kind |-> "SetActivePanel", id |-> fresh[1], for |-> NoTask]>>)
                   \o <<[kind |-> "ToggleSettingsInit", force |-> {tasks[t].open}, for |-> NoTask]>>
                   \o FilterMessages(ws, done))
    /\ tasks' = [tasks EXCEPT ![t].stage = "apply"]
    /\ UNCHANGED <<main, open, heard, calls>>

\* eject(): the panels of a Client are closed one by one.
EjectNext(t) ==
    /\ At(t, "eject", "resolve")
    /\ IF tasks[t].ids = {} THEN tasks' = Finished(tasks, t) /\ UNCHANGED root
       ELSE \E id \in tasks[t].ids :
              /\ root' = Sent(root, <<[kind |-> "ClosePanel", id |-> id, for |-> NoTask]>>)
              /\ tasks' = [tasks EXCEPT ![t].ids = @ \ {id}]
    /\ UNCHANGED <<ws, main, open, heard, calls>>

\* The settings are toggled, before or after the panels are resized.
ToggleStep(t) ==
    /\ tasks[t].kind = "toggle"
    /\ \/ /\ tasks[t].stage = "presize"
          /\ root' = Sent(root, <<[kind |-> "ToggleSettingsComplete", open |-> tasks[t].open, for |-> t]>>)
          /\ tasks' = [tasks EXCEPT ![t].stage = "waiting"]
       \/ /\ tasks[t].stage = "rendered"
          /\ tasks' = Finished(Finished(tasks, tasks[t].for), t)
          /\ UNCHANGED root
    /\ UNCHANGED <<ws, main, open, heard, calls>>

\* flush(): no effects, then the lock of each panel, then no effects still.
FlushStep(t) ==
    /\ tasks[t].kind = "flush"
    /\ \/ /\ tasks[t].stage = "settle" /\ Guards = 0
          /\ tasks' = [tasks EXCEPT ![t].stage = "locks"]
       \/ /\ tasks[t].stage = "locks"
          /\ tasks' = IF Guards = 0 THEN Finished(tasks, t) ELSE [tasks EXCEPT ![t].stage = "settle"]
    /\ UNCHANGED <<ws, root, main, open, heard, calls>>

\* A panel is drawn with the filters.
Drawn ==
    /\ \E id \in ws.applying : ws' = [ws EXCEPT !.applying = @ \ {id}]
    /\ UNCHANGED <<root, main, open, tasks, heard, calls>>

\* flush_layout_events.
Announce ==
    /\ ws.flushing /\ Guards = 0
    /\ ws' = [ws EXCEPT !.dirty = {}, !.flushing = FALSE]
    /\ heard' = [panels |-> IF "layout" \in ws.dirty THEN Panels(ws) ELSE heard.panels,
                 active |-> IF "active" \in ws.dirty THEN ws.active ELSE heard.active]
    /\ UNCHANGED <<root, main, open, tasks, calls>>

TaskSteps ==
    \/ \E t \in DOMAIN tasks :
         \/ RestoreSettings(t) \/ RestoreResolve(t) \/ Add(t) \/ WorkEnds(t) \/ Payload(t)
         \/ RestoreWorkspace(t) \/ EjectNext(t) \/ ToggleStep(t) \/ FlushStep(t)
    \/ Deadline \/ Drawn \/ Announce
----------------------------------------------------------------------------
(* Methods of the element, and gestures.                                   *)

Calls(method) == method \in Methods /\ calls < MaxCalls /\ calls' = calls + 1
Spawn(task) == tasks' = Append(tasks, [task EXCEPT !.guard = Guarded(task.kind)])
This == Len(tasks) + 1
Sends(message) == root' = Sent(root, <<message>>)

Restore ==
    /\ Calls("restore")
    /\ \E id \in Named \cup {NoId}, stage \in {"settings", "resolve"}, show \in BOOLEAN :
         /\ stage = "resolve" => ~show
         /\ Spawn([Task EXCEPT !.kind = "restore", !.stage = stage, !.id = id, !.open = show])
    /\ UNCHANGED <<ws, root, main, open, heard>>

AddPanel ==
    /\ \E kind \in {"add", "duplicate"} :
         /\ Calls(kind)
         /\ kind = "duplicate" => ws.panels # <<>>
         /\ Spawn([Task EXCEPT !.kind = kind, !.stage = "resolve"])
    /\ UNCHANGED <<ws, root, main, open, heard>>

\* load(): the panel is the active one, or is reserved.
Load ==
    /\ Calls("load")
    /\ \E payload \in {"table", "client", "reject"} :
         LET owner == ws.active = NoId
             reserves == owner /\ ws.reserved = NoId
             id == CASE ~owner -> ws.active [] reserves -> ws.next [] OTHER -> ws.reserved
         IN /\ id \in Ids
            /\ ws' = IF reserves THEN [ws EXCEPT !.reserved = id, !.next = @ + 1] ELSE ws
            /\ tasks' = Append([t \in DOMAIN tasks |->
                                 IF tasks[t].kind = "load" /\ tasks[t].id = id
                                 THEN [tasks[t] EXCEPT !.window = FALSE] ELSE tasks[t]],
                               [Task EXCEPT !.kind = "load", !.stage = "payload", !.id = id, !.owner = owner,
                                            !.window = TRUE, !.payload = payload, !.guard = TRUE])
    /\ UNCHANGED <<root, main, open, heard>>

CallRestoreWorkspace ==
    /\ Calls("restoreWorkspace")
    /\ \E show \in BOOLEAN : Spawn([Task EXCEPT !.kind = "workspace", !.stage = "resolve", !.open = show])
    /\ UNCHANGED <<ws, root, main, open, heard>>

\* setActivePanel, removePanel, reset and toggleConfig send a message and wait.
Asks ==
    /\ \/ /\ Calls("setActivePanel")
          /\ \E id \in Panels(ws) : Sends([kind |-> "SetActivePanel", id |-> id, for |-> This])
       \/ /\ Calls("removePanel")
          /\ \E id \in Panels(ws) : Sends([kind |-> "ClosePanel", id |-> id, for |-> This])
       \/ Calls("reset") /\ Sends([kind |-> "Reset", for |-> This])
       \/ /\ Calls("toggleConfig")
          /\ \E force \in {{}, {TRUE}, {FALSE}} :
               Sends([kind |-> "ToggleSettingsInit", force |-> force, for |-> This])
    /\ Spawn([Task EXCEPT !.kind = "asks", !.stage = "waiting"])
    /\ UNCHANGED <<ws, main, open, heard>>

EjectClient ==
    /\ Calls("eject")
    /\ \E ids \in SUBSET Panels(ws) :
         /\ ids # {} /\ ids # Panels(ws)
         /\ Spawn([Task EXCEPT !.kind = "eject", !.stage = "resolve", !.ids = ids])
    /\ UNCHANGED <<ws, root, main, open, heard>>

Flush ==
    /\ Calls("flush")
    /\ Spawn([Task EXCEPT !.kind = "flush", !.stage = "settle"])
    /\ UNCHANGED <<ws, root, main, open, heard>>

\* In a frame, a tab or the status bar.
Gesture ==
    /\ \/ /\ Calls("master")
          /\ \E id \in main.frames : Sends([kind |-> "ToggleMaster", id |-> id])
       \/ /\ Calls("select")
          /\ \E id \in main.frames, filters \in SUBSET Filters :
               Sends([kind |-> "MasterContribution", id |-> id, filters |-> filters])
       \/ /\ Calls("clearFilter")
          /\ \E filters \in SUBSET root.filters :
               /\ Cardinality(filters) = 1 \/ (filters = root.filters /\ filters # {})
               /\ Sends([kind |-> "RemoveGlobalFilter", filters |-> filters])
    /\ UNCHANGED <<ws, main, open, tasks, heard>>

\* The layout removes a frame itself, and tells MainPanel.
CloseFrame ==
    /\ Calls("closeFrame")
    /\ \E id \in main.frames : main' = [main EXCEPT !.frames = @ \ {id}]
    /\ Sends([kind |-> "LayoutUpdated"])
    /\ UNCHANGED <<ws, open, tasks, heard>>

WorkspaceNext ==
    \/ Handles \/ Render \/ TaskSteps
    \/ Restore \/ AddPanel \/ Load \/ CallRestoreWorkspace \/ Asks \/ EjectClient \/ Flush
    \/ Gesture \/ CloseFrame

WorkspaceSpec == WorkspaceInit /\ [][WorkspaceNext]_workspaceVars
----------------------------------------------------------------------------
(* Properties.                                                             *)

AtRest ==
    /\ root.queue = <<>> /\ ~root.render
    /\ ws.applying = {} /\ ~ws.flushing
    /\ \A t \in DOMAIN tasks : tasks[t].stage = "done"

(* At rest the layout has a frame for every panel.  A panel whose caller   *)
(* names it as one that was removed, before MainPanel rendered, has none:  *)
(* the name is still among the inserted (reconcile.rs:148).                *)
EveryPanelHasAFrame == AtRest => Panels(ws) \subseteq main.frames

(* At rest the layout has no frame but of a panel, and none is missing but *)
(* those of the names above; there is an active panel exactly when there   *)
(* are panels, and the root shows it.                                      *)
LayoutShowsPanels ==
    AtRest => /\ main.frames \subseteq Panels(ws)
              /\ Panels(ws) \ main.frames \subseteq Named \cap main.inserted
              /\ (ws.active = NoId) = (ws.panels = <<>>) /\ ws.active \in Panels(ws) \cup {NoId}
              /\ root.active = ws.active

(* At rest the listeners of the layout events know the panels, and which   *)
(* is active.                                                              *)
ListenersKnow == AtRest => heard = [panels |-> Panels(ws), active |-> ws.active]

(* At rest every panel is filtered by what the masters other than itself   *)
(* selected and by nothing else, and the root shows these clauses.         *)
FiltersReachPanels ==
    AtRest => /\ \A id \in Panels(ws) : ws.overlay[id] = Overlay(ws, id)
              /\ root.filters = Flat(ws)


(* A generated id is unique within the workspace (workspace.rs:506).       *)
PanelsAreDistinct == Len(ws.panels) = Cardinality(Panels(ws))

(* The settings panel is open when it is saved as open.                    *)
SettingsAgree == AtRest => open = root.open

(* At rest nobody is behind: the frames, the listeners and the overlays of *)
(* the filters follow the panels, whatever calls and events were mixed.    *)
EverybodyFollows == LayoutShowsPanels /\ ListenersKnow /\ FiltersReachPanels
=============================================================================
