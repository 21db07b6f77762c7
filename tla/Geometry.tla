------------------------------ MODULE Geometry ------------------------------
(***************************************************************************)
(* How the viewer changes the boxes of its panels without showing a frame  *)
(* of another size: every change first lets each plugin render at the box  *)
(* that it will have (a sweep), then moves the geometry and reveals the    *)
(* frames (tasks/presize_panels.rs, main_panel/presize.rs,                 *)
(* viewer/settings.rs, renderer/dispatch.rs). Opening and closing the      *)
(* settings pane, its divider, a change of the layout and a resize of the  *)
(* host cross each other here, and each panel runs one command at a time.  *)
(* A box is the width of the pane, the tree of the layout and the host;    *)
(* two boxes are of one size if they are equal.                            *)
(***************************************************************************)
EXTENDS Integers, FiniteSets

CONSTANTS
    GeoPanels,       \* the panels on the screen, each with a drawn plugin
    NaturalWidth,    \* the width of a settings pane that nobody dragged
    PointerMoves,    \* how far the pointer is dragged
    Trees,           \* trees of the layout; 0 is the first
    HostBoxes,       \* boxes of the host element; 0 is the first
    NoBox,           \* no inline style, no staged frame, nothing pending
    GeoActs,         \* what the user does
    MaxGeoActs       \* bound: how often

ASSUME GeoAssumption == 0 \in Trees /\ 0 \in HostBoxes /\ NaturalWidth \in Nat \ {0}

VARIABLES
    staging,       \* the panels whose plugin has presize: its frames can be held back
    settingsPane,  \* [open, known, width]: settings_open, open_deltas, pane_width_override
    divider,       \* [total, goal, pumping, due]: the drag of SplitPanel and the pump
    grid,          \* [tree, pending, queued]: the tree shown, suspended, queued
    hostBox,       \* the box of the host element
    frame,         \* of each panel: [posted, hold, staged, shown, style]
    geometrySlot,  \* of each panel: [cmd, run, parked, waits]
    sweeps,        \* presize sweeps under way, by number
    overtaken,     \* "closure": a closure was dropped; "width": a width was not measured
    geoActs        \* how often the user acted

geoVars == <<staging, settingsPane, divider, grid, hostBox, frame, geometrySlot, sweeps, overtaken, geoActs>>

MINIMUM_SIZE == 8
Measurer == 0       \* the caller of resize(): no sweep
Idle == [by |-> -1]

LetGo == -1
NoGoal == 0

----------------------------------------------------------------------------
(* Boxes. The pane takes nothing when it is closed, and what was dragged   *)
(* or what its contents need when it is open.                              *)
PaneWidth(s) == IF ~s.open THEN 0 ELSE IF s.width = NoGoal THEN NaturalWidth ELSE s.width

Cell == <<PaneWidth(settingsPane), grid.tree, hostBox>>

\* What getBoundingClientRect of the plugin answers (an inline style wins).
BoxOf(p) == IF frame[p].style = NoBox THEN Cell ELSE frame[p].style

\* A viewer at rest: its pane open, closed again, or never opened.
GeoInit ==
    /\ staging \in SUBSET GeoPanels
    /\ \E open, known \in BOOLEAN :
          /\ ~(open /\ known)
          /\ settingsPane = [open |-> open, known |-> known, width |-> NoGoal]
    /\ divider = [total |-> LetGo, goal |-> NoGoal, pumping |-> FALSE, due |-> FALSE]
    /\ grid = [tree |-> 0, pending |-> NoBox, queued |-> NoBox]
    /\ hostBox = 0
    /\ frame = [p \in GeoPanels |-> [posted |-> Cell, hold |-> FALSE, staged |-> NoBox,
                                     shown |-> Cell, style |-> NoBox]]
    /\ geometrySlot = [p \in GeoPanels |-> [cmd |-> NoBox, run |-> Idle, parked |-> -1, waits |-> {}]]
    /\ sweeps = <<>>
    /\ overtaken = {}
    /\ geoActs = 0

----------------------------------------------------------------------------
(* One command per panel: the last one that was set is run by whoever runs *)
(* next, and who comes while another is parked waits for it and gets       *)
(* nothing.                                                                *)

Presize(box, translated) == [kind |-> "presize", box |-> box, translated |-> translated]
MeasureCmd == [kind |-> "measure"]

\* The slot after a call of geometry_task.
Called(s, by, cmd) ==
    IF s.parked = -1
    THEN [s EXCEPT !.cmd = cmd, !.parked = by]
    ELSE [s EXCEPT !.cmd = cmd, !.waits = @ \cup {by}]

\* resize_visible_panels: every panel measures its box.
MeasuredAll(slots) == [p \in GeoPanels |-> Called(slots[p], Measurer, MeasureCmd)]

\* run_presize and resize, up to the await: what the panel's frame becomes,
\* which box the plugin renders (none if it answers at once), and whether the
\* caller is handed a closure that presents it.
RunOf(p, cmd) ==
    LET f == frame[p]
        \* clear_presize comes first, so the box is the one of the cell
        cleared == [f EXCEPT !.style = NoBox]
    IN  IF cmd.kind = "measure"
        THEN IF p \in staging /\ f.posted = BoxOf(p)
             THEN [frame |-> f, box |-> NoBox, present |-> FALSE]
             ELSE [frame |-> [f EXCEPT !.posted = BoxOf(p)], box |-> BoxOf(p), present |-> FALSE]
        ELSE IF p \in staging
        THEN IF f.posted = cmd.box
             THEN [frame |-> cleared, box |-> NoBox, present |-> FALSE]
             ELSE [frame |-> [cleared EXCEPT !.posted = cmd.box, !.hold = TRUE], box |-> cmd.box, present |-> TRUE]
        ELSE IF cmd.box = Cell
             THEN [frame |-> cleared, box |-> NoBox, present |-> FALSE]
             ELSE [frame |-> [cleared EXCEPT !.style = cmd.box], box |-> cmd.box, present |-> FALSE]

\* geometry_task: the parked caller has the draw lock and takes the command.
StartGeometry(p) ==
    LET s == geometrySlot[p]  r == RunOf(p, s.cmd) IN
    /\ s.run = Idle /\ s.parked # -1
    /\ geometrySlot' = [geometrySlot EXCEPT ![p] =
          [cmd |-> NoBox, parked |-> -1, waits |-> {},
           run |-> [by |-> s.parked, waits |-> s.waits, box |-> r.box, present |-> r.present,
                    unstyled |-> s.cmd.kind = "presize" /\ ~s.cmd.translated]]]
    /\ frame' = [frame EXCEPT ![p] = r.frame]
    /\ UNCHANGED <<staging, settingsPane, divider, grid, hostBox, sweeps, overtaken, geoActs>>

\* The frame arrives (held back while a hold lasts), then the acknowledgement.
Arrived(f, box, unstyled) ==
    LET g == IF box = NoBox THEN f
             ELSE IF f.hold THEN [f EXCEPT !.staged = box]
             ELSE [f EXCEPT !.shown = box]
    IN  IF unstyled THEN [g EXCEPT !.style = NoBox] ELSE g

\* The plugin has rendered: its caller gets the closure, if it presizes; who
\* waited for it gets none (T::default()), and resize() drops what it gets.
EndGeometry(p) ==
    LET r == geometrySlot[p].run IN
    /\ r # Idle
    /\ frame' = [frame EXCEPT ![p] = Arrived(@, r.box, r.unstyled)]
    /\ geometrySlot' = [geometrySlot EXCEPT ![p].run = Idle]
    /\ sweeps' = [i \in DOMAIN sweeps |->
                    [sweeps[i] EXCEPT !.left = IF i \in r.waits \cup {r.by} THEN @ \ {p} ELSE @,
                                      !.presents = IF i = r.by /\ r.present THEN @ \cup {p} ELSE @]]
    /\ overtaken' = IF r.present /\ r.by = Measurer THEN overtaken \cup {"closure"} ELSE overtaken
    /\ UNCHANGED <<staging, settingsPane, divider, grid, hostBox, geoActs>>

----------------------------------------------------------------------------
(* Sweeps.                                                                 *)

FreshSweep == CHOOSE i \in 1..(Cardinality(DOMAIN sweeps) + 1) : i \notin DOMAIN sweeps

\* A sweep asks every panel at once (join_all) and waits for their closures.
BeginSweep(kind, arg, box) ==
    LET i == FreshSweep IN
    /\ sweeps' = [k \in DOMAIN sweeps \cup {i} |->
                    IF k = i THEN [kind |-> kind, arg |-> arg, left |-> GeoPanels, presents |-> {}, late |-> FALSE]
                    ELSE sweeps[k]]
    /\ geometrySlot' = [p \in GeoPanels |-> Called(geometrySlot[p], i, Presize(box[p], kind = "layout"))]

\* presize_visible_panels_scaled: the box that a panel has now, with a pane of
\* another width.
Scaled(width) == [p \in GeoPanels |-> [BoxOf(p) EXCEPT ![1] = width]]

\* presize_visible_panels_grown, _open and _pane_width.
Grown == Scaled(0)
Shrunk == Scaled(PaneWidth([settingsPane EXCEPT !.open = TRUE]))
ForWidth(width) == Scaled(width)

\* A sweep over no panel: there is nothing to measure by.
EmptySweep(kind, arg) ==
    sweeps' = [k \in DOMAIN sweeps \cup {FreshSweep} |->
                 IF k \in DOMAIN sweeps THEN sweeps[k]
                 ELSE [kind |-> kind, arg |-> arg, left |-> {}, presents |-> {}, late |-> FALSE]]

\* The closures of a sweep are called (Drop for StagedPresents).
Presented(frames, presents) ==
    [p \in GeoPanels |->
        IF p \notin presents THEN frames[p]
        ELSE [frames[p] EXCEPT !.hold = FALSE, !.staged = NoBox,
                               !.shown = IF frames[p].staged = NoBox THEN @ ELSE frames[p].staged]]

\* clear_presize on every panel.
Unstyled(frames) == [p \in GeoPanels |-> [frames[p] EXCEPT !.style = NoBox]]

MutSweepsAfter(i) == [k \in DOMAIN sweeps \ {i} |-> sweeps[k]]

\* staged_presents_with_deadline: all panels answered, or 500 ms have passed; the
\* commit goes ahead with the closures that there are then, or with none, and a sweep
\* that is not finished goes on late.
Ends(i) == i \in DOMAIN sweeps /\ ~sweeps[i].late
Presents(i) == IF sweeps[i].left = {} THEN sweeps[i].presents ELSE {}
SweepsAfter(i) ==
    IF sweeps[i].left = {} THEN [k \in DOMAIN sweeps \ {i} |-> sweeps[k]]
    ELSE [sweeps EXCEPT ![i].late = TRUE]

----------------------------------------------------------------------------
(* The settings pane: toggle_settings, the buttons, restore({settings}).   *)
(* To ask for what it is already returns at once.                          *)

\* How wide an open pane is, is measured when it closes.
OpenDeltasKnown == settingsPane.known \/ settingsPane.open

Toggle ==
    /\ "toggle" \in GeoActs /\ geoActs < MaxGeoActs /\ geoActs' = geoActs + 1
    /\ settingsPane' = [settingsPane EXCEPT !.known = OpenDeltasKnown]
    /\ \/ settingsPane.open /\ BeginSweep("pane", FALSE, Grown)
       \/ ~settingsPane.open /\ settingsPane.known /\ BeginSweep("pane", TRUE, Shrunk)
       \/ ~settingsPane.open /\ ~settingsPane.known /\ EmptySweep("pane", TRUE) /\ UNCHANGED geometrySlot
    /\ UNCHANGED <<staging, divider, grid, hostBox, frame, overtaken>>

\* SplitPanel::changed: a drag ends with the pane that it was of.
DragAfter(open) == IF open THEN divider ELSE [divider EXCEPT !.total = LetGo]

\* on_toggle_settings_complete, the reveal in the task of the patch, and the
\* resize of every panel after it.
CommitPane(i) ==
    /\ Ends(i) /\ sweeps[i].kind = "pane"
    /\ settingsPane' = [settingsPane EXCEPT !.open = sweeps[i].arg]
    /\ divider' = DragAfter(sweeps[i].arg)
    /\ frame' = Presented(frame, Presents(i))
    /\ sweeps' = SweepsAfter(i)
    /\ geometrySlot' = MeasuredAll(geometrySlot)
    /\ UNCHANGED <<staging, grid, hostBox, overtaken, geoActs>>

----------------------------------------------------------------------------
(* The divider of the pane: a drag proposes widths, and the pump renders   *)
(* and commits the latest of them, one at a time (settings.rs,             *)
(* split_panel.rs).                                                        *)
StartResizing ==
    /\ "drag" \in GeoActs /\ geoActs < MaxGeoActs /\ geoActs' = geoActs + 1
    /\ settingsPane.open /\ divider.total = LetGo
    /\ divider' = [divider EXCEPT !.total = PaneWidth(settingsPane)]
    /\ UNCHANGED <<staging, settingsPane, grid, hostBox, frame, geometrySlot, sweeps, overtaken>>

\* get_offset
Offset(delta) == LET x == divider.total + delta IN IF x < MINIMUM_SIZE THEN MINIMUM_SIZE ELSE x

MoveResizing == \E delta \in PointerMoves :
    /\ divider.total # LetGo
    /\ geoActs < MaxGeoActs /\ geoActs' = geoActs + 1
    /\ divider' = [divider EXCEPT !.goal = Offset(delta), !.pumping = TRUE, !.due = @ \/ ~divider.pumping]
    /\ UNCHANGED <<staging, settingsPane, grid, hostBox, frame, geometrySlot, sweeps, overtaken>>

\* on_settings_divider_pump; without a pane on the screen the sweep is empty.
Pump ==
    /\ divider.due
    /\ IF divider.goal = NoGoal
       THEN /\ divider' = [divider EXCEPT !.due = FALSE, !.pumping = FALSE]
            /\ UNCHANGED <<sweeps, geometrySlot>>
       ELSE /\ divider' = [divider EXCEPT !.due = FALSE, !.goal = NoGoal]
            /\ IF settingsPane.open THEN BeginSweep("divider", divider.goal, ForWidth(divider.goal))
               ELSE EmptySweep("divider", divider.goal) /\ UNCHANGED geometrySlot
    /\ UNCHANGED <<staging, settingsPane, grid, hostBox, frame, overtaken, geoActs>>

\* on_settings_divider_commit and the reveal after it.
CommitDivider(i) ==
    /\ Ends(i) /\ sweeps[i].kind = "divider"
    /\ settingsPane' = [settingsPane EXCEPT !.width = sweeps[i].arg]
    /\ divider' = [divider EXCEPT !.due = TRUE]
    /\ frame' = Presented(frame, Presents(i))
    /\ sweeps' = SweepsAfter(i)
    /\ overtaken' = IF divider.total = LetGo THEN overtaken \cup {"width"} ELSE overtaken
    /\ UNCHANGED <<staging, grid, hostBox, geometrySlot, geoActs>>

\* StopResizing: the pointer is let go and every panel measured.
StopResizing ==
    /\ divider.total # LetGo
    /\ divider' = [divider EXCEPT !.total = LetGo]
    /\ geometrySlot' = MeasuredAll(geometrySlot)
    /\ UNCHANGED <<staging, settingsPane, grid, hostBox, frame, sweeps, overtaken, geoActs>>

\* A double click on the divider forgets the width, and measures nobody.
ResetDivider ==
    /\ "reset" \in GeoActs /\ geoActs < MaxGeoActs /\ geoActs' = geoActs + 1
    /\ settingsPane.open /\ divider.total = LetGo
    /\ settingsPane' = [settingsPane EXCEPT !.width = NoGoal]
    /\ overtaken' = overtaken \cup {"width"}
    /\ UNCHANGED <<staging, divider, grid, hostBox, frame, geometrySlot, sweeps>>

----------------------------------------------------------------------------
(* The layout: regular-layout asks before it changes its tree and waits,   *)
(* one change queued behind it, until resume_resize.                       *)
ProposeLayout == \E tree \in Trees :
    /\ "layout" \in GeoActs /\ geoActs < MaxGeoActs /\ geoActs' = geoActs + 1
    /\ tree # grid.tree
    /\ grid' = [grid EXCEPT !.queued = tree]
    /\ UNCHANGED <<staging, settingsPane, divider, hostBox, frame, geometrySlot, sweeps, overtaken>>

\* The before-resize event: preventDefault, and a sweep to the cells to come.
BeforeResize ==
    /\ grid.pending = NoBox /\ grid.queued # NoBox
    /\ grid' = [grid EXCEPT !.pending = grid.queued, !.queued = NoBox]
    /\ BeginSweep("layout", grid.queued, [p \in GeoPanels |-> [Cell EXCEPT ![2] = grid.queued]])
    /\ UNCHANGED <<staging, settingsPane, divider, hostBox, frame, overtaken, geoActs>>

\* The end of on_before_resize, and on_layout_updated, which measures every panel.
CommitLayout(i) ==
    /\ Ends(i) /\ sweeps[i].kind = "layout"
    /\ frame' = Presented(Unstyled(frame), Presents(i))
    /\ grid' = [grid EXCEPT !.tree = sweeps[i].arg, !.pending = NoBox]
    /\ sweeps' = SweepsAfter(i)
    /\ geometrySlot' = MeasuredAll(geometrySlot)
    /\ UNCHANGED <<staging, settingsPane, divider, hostBox, overtaken, geoActs>>

\* A sweep that was too late ends: nobody takes its closures, so they are called
\* at once, after the styles of a layout's sweep are cleared.
FinishLate(i) ==
    /\ i \in DOMAIN sweeps /\ sweeps[i].late /\ sweeps[i].left = {}
    /\ frame' = Presented(IF sweeps[i].kind = "layout" THEN Unstyled(frame) ELSE frame, sweeps[i].presents)
    /\ sweeps' = [k \in DOMAIN sweeps \ {i} |-> sweeps[k]]
    /\ UNCHANGED <<staging, settingsPane, divider, grid, hostBox, geometrySlot, overtaken, geoActs>>

\* SizeObserver::new
HostChanged(box) == box # hostBox

\* The host element is given another box: its observer measures every panel.
HostResizes == \E box \in HostBoxes :
    /\ HostChanged(box)
    /\ "host" \in GeoActs /\ geoActs < MaxGeoActs /\ geoActs' = geoActs + 1
    /\ hostBox' = box
    /\ geometrySlot' = MeasuredAll(geometrySlot)
    /\ UNCHANGED <<staging, settingsPane, divider, grid, frame, sweeps, overtaken>>

GeoNext ==
    \/ \E p \in GeoPanels : StartGeometry(p) \/ EndGeometry(p)
    \/ Toggle \/ StartResizing \/ MoveResizing \/ Pump \/ StopResizing \/ ResetDivider
    \/ ProposeLayout \/ BeforeResize \/ HostResizes
    \/ \E i \in DOMAIN sweeps : CommitPane(i) \/ CommitDivider(i) \/ CommitLayout(i) \/ FinishLate(i)

GeoSpec == GeoInit /\ [][GeoNext]_geoVars

----------------------------------------------------------------------------

GeometryRests ==
    /\ DOMAIN sweeps = {} /\ ~divider.due /\ divider.total = LetGo
    /\ grid.pending = NoBox /\ grid.queued = NoBox
    /\ \A p \in GeoPanels : geometrySlot[p].run = Idle /\ geometrySlot[p].parked = -1

HoldIsOwed(p) ==
    \/ geometrySlot[p].run # Idle /\ geometrySlot[p].run.present
    \/ \E i \in DOMAIN sweeps : p \in sweeps[i].presents

(* A frame that is held back will be shown, whichever deadlines pass and   *)
(* whichever sweeps cross ("a hold can never outlive its prepare",         *)
(* presize_panels.rs); and when everything has settled the layout is not   *)
(* suspended, no panel has a leftover style, and each shows a frame of the *)
(* size of its cell ("geometry never outruns content", split_panel.rs),    *)
(* unless the closure of a frame was dropped or a width committed behind   *)
(* its last measure.                                                       *)
GeometrySettles ==
    /\ "closure" \notin overtaken => \A p \in GeoPanels : frame[p].hold => HoldIsOwed(p)
    /\ GeometryRests =>
         /\ ~divider.pumping
         /\ \A p \in GeoPanels : frame[p].style = NoBox
         /\ overtaken = {} => \A p \in GeoPanels : frame[p].staged = NoBox /\ frame[p].shown = Cell
=============================================================================
