----------------------------- MODULE WindowEdit -----------------------------
(***************************************************************************)
(* Window columns (a sum over the last n rows, an exponential average ...) *)
(* and the editor in which they are put together from dragged columns. The *)
(* editor keeps a draft, and tells the sidebar the spec it amounts to, or  *)
(* that it is none. The draft outlives most changes of the config; the     *)
(* Table may be replaced under it.                                         *)
(***************************************************************************)
EXTENDS Naturals, Integers, Sequences, FiniteSets, TLC
LOCAL INSTANCE SequencesExt

CONSTANTS Schemas,     \* the Tables there may be: functions from columns to types
          Computed,    \* expression columns: not for windows
          Aggregates,  \* for each type the window aggregates declared for it
          Ordered,     \* types that a range can be measured in
          NeedsOrder,  \* the server knows no order of its own (Features)
          WindowNames, \* names for window columns
          NaN,         \* an input that is no number
          Amounts,     \* the others, in percent
          MaxTouches   \* bound: what the user does

\* WindowAggregateArgs: what an aggregate takes.
FrameKinds == {"Rows", "Range", "Cumulative"}
Declarations == [name : STRING, frames : SUBSET FrameKinds, first : STRING, offset : BOOLEAN, alpha : BOOLEAN]

ASSUME WindowEditAssumption ==
    /\ \A s \in Schemas : \A c \in DOMAIN s : s[c] \in DOMAIN Aggregates
    /\ \A t \in DOMAIN Aggregates :
         /\ Aggregates[t] \in Seq(Declarations)
         /\ \A i \in DOMAIN Aggregates[t] : Aggregates[t][i].frames = {} \/ Aggregates[t][i].first \in Aggregates[t][i].frames
         /\ \A i, j \in DOMAIN Aggregates[t] : Aggregates[t][i].name = Aggregates[t][j].name => i = j
    /\ \A s \in Schemas : Computed \cap DOMAIN s = {}
    /\ Amounts \subseteq Int /\ NaN \notin Amounts
    /\ NeedsOrder \in BOOLEAN /\ MaxTouches \in Nat

VARIABLES schema,   \* SessionMetadata of the Table
          windows,  \* ViewConfig::windows, and the names in use
          named,    \* the window that is edited, or none yet
          form,     \* of the sidebar: the spec under edit, the spec it starts from, the name
          draft,    \* WindowDraft
          dragged,  \* a column that is dragged, and from which slot
          touches   \* so far

windowVars == <<schema, windows, named, form, draft, dragged, touches>>

None == <<>>
Some(x) == <<x>>
Slot == {"source", "order", "partition"}
NoDragged == [column |-> "", origin |-> "nowhere"]

----------------------------------------------------------------------------
(* Specs.                                                                  *)

\* SessionMetadata::get_window_aggregate, op_spec.
Declared(source, op) ==
    IF source \notin DOMAIN schema THEN None
    ELSE LET declared == {a \in ToSet(Aggregates[schema[source]]) : a.name = op}
         IN IF declared = {} THEN None ELSE Some(CHOOSE a \in declared : TRUE)

\* RawWindowSpec: exactly one of rows, range and cumulative is a frame.
Raw(spec) ==
    LET f == spec.frame
    IN [spec |-> [spec EXCEPT !.frame = None],
        rows |-> IF f # None /\ f[1].kind = "Rows" THEN Some(f[1].size) ELSE None,
        range |-> IF f # None /\ f[1].kind = "Range" THEN Some(f[1].size) ELSE None,
        cumulative |-> IF f # None /\ f[1].kind = "Cumulative" THEN Some(TRUE) ELSE None]

RawFrame(raw) ==
    IF raw.rows # None THEN Some([kind |-> "Rows", size |-> raw.rows[1]])
    ELSE IF raw.range # None THEN Some([kind |-> "Range", size |-> raw.range[1]])
    ELSE IF raw.cumulative # None THEN Some([kind |-> "Cumulative", size |-> 0]) ELSE None

RawIsSpec(raw) ==
    /\ Len(raw.rows) + Len(raw.range) + Len(raw.cumulative) \in {0, 1}
    /\ raw.cumulative # Some(FALSE)
FromRaw(raw) == [raw.spec EXCEPT !.frame = RawFrame(raw)]

NewDefault == [op |-> "sum", source |-> "", order |-> "", desc |-> FALSE, partition |-> <<>>,
               frame |-> "Cumulative", rows |-> 100, range |-> 100, offset |-> 100, alpha |-> 100]

MutFromSpec(spec) ==
    LET f == IF spec.frame = None THEN [kind |-> "Cumulative", size |-> 0] ELSE spec.frame[1]
    IN [NewDefault EXCEPT !.op = spec.op, !.source = spec.source, !.partition = spec.partition, !.frame = f.kind,
          !.order = IF spec.order = None THEN "" ELSE spec.order[1].column,
          !.rows = IF f.kind = "Rows" THEN f.size ELSE 100,
          !.range = IF f.kind = "Range" THEN f.size ELSE 100,
          !.alpha = IF spec.alpha = None THEN 100 ELSE spec.alpha[1]]

\* WindowDraft::from_spec.
FromSpec(spec) ==
    LET f == IF spec.frame = None THEN [kind |-> "Cumulative", size |-> 0] ELSE spec.frame[1]
    IN [NewDefault EXCEPT !.op = spec.op, !.source = spec.source, !.partition = spec.partition, !.frame = f.kind,
          !.order = IF spec.order = None THEN "" ELSE spec.order[1].column,
          !.desc = spec.order # None /\ spec.order[1].desc,
          !.rows = IF f.kind = "Rows" THEN f.size ELSE 100,
          !.range = IF f.kind = "Range" THEN f.size ELSE 100,
          !.offset = IF spec.offset = None THEN 100 ELSE spec.offset[1],
          !.alpha = IF spec.alpha = None THEN 100 ELSE spec.alpha[1]]

\* WindowDraft::validate: what is wrong with the columns, and the frame.
ColumnsAreValid(d) ==
    /\ d.source \in DOMAIN schema
    /\ IF d.order = "" THEN ~NeedsOrder ELSE d.order \in DOMAIN schema
    /\ ToSet(d.partition) \subseteq DOMAIN schema

FrameIsValid(d) ==
    LET frames == Declared(d.source, d.op)[1].frames
    IN frames # {} =>
         /\ d.frame \in frames
         /\ d.frame = "Range" => d.order # "" /\ schema[d.order] \in Ordered

FrameOf(d) ==
    CASE d.frame = "Rows" -> Some([kind |-> "Rows", size |-> d.rows])
      [] d.frame = "Range" -> Some([kind |-> "Range", size |-> d.range])
      [] OTHER -> None

\* The spec that a valid draft stands for: what its aggregate takes no
\* account of is left out.
ToSpec(d) ==
    LET declared == Declared(d.source, d.op)[1]
    IN [source |-> d.source, op |-> d.op, partition |-> d.partition,
        order |-> IF d.order = "" THEN None ELSE Some([column |-> d.order, desc |-> d.desc]),
        frame |-> IF declared.frames = {} THEN None ELSE FrameOf(d),
        offset |-> IF declared.offset /\ d.offset # 100 THEN Some(d.offset) ELSE None,
        alpha |-> IF declared.alpha THEN Some(d.alpha) ELSE None]

Validated(d) ==
    IF ColumnsAreValid(d) /\ Declared(d.source, d.op) # None /\ FrameIsValid(d) THEN Some(ToSpec(d)) ELSE None

----------------------------------------------------------------------------
(* The sidebar and the editor in it.                                       *)

InitialOf(name, w) == IF name \in DOMAIN w.specs THEN Some(w.specs[name]) ELSE None

\* WindowEditor::initialize.
DraftOf(initial) == IF initial = None THEN NewDefault ELSE FromSpec(initial[1])

NoForm == [open |-> FALSE, initial |-> None, value |-> None, name |-> ""]
Form(name, w) == [open |-> TRUE, initial |-> InitialOf(name, w), value |-> InitialOf(name, w), name |-> name]

WindowInit ==
    /\ schema \in Schemas
    /\ windows = [specs |-> <<>>, used |-> {}]
    /\ named = "" /\ form = NoForm
    /\ draft = NewDefault
    /\ dragged = NoDragged
    /\ touches = 0

\* emit: after each message the sidebar is told.
Emits(d) == draft' = d /\ form' = [form EXCEPT !.value = Validated(d)]

\* ColumnSettingsPanel::initialize, and WindowEditor::changed: the sidebar's
\* copy is reset, the draft only if the spec it started from is another one.
Rerendered(name, w) ==
    /\ windows' = w /\ named' = name
    /\ IF ~form.open THEN UNCHANGED <<form, draft>>
       ELSE LET f == Form(name, w)
            IN IF f.initial # form.initial
               THEN /\ draft' = DraftOf(f.initial)
                    /\ form' = [f EXCEPT !.value = Validated(draft')]
               ELSE form' = f /\ UNCHANGED draft

Touch == touches < MaxTouches /\ touches' = touches + 1
ConfigStays == UNCHANGED <<schema, windows, named>>

Open ==
    /\ Touch /\ ~form.open
    /\ \E name \in {""} \cup DOMAIN windows.specs :
         LET f == Form(name, windows)
         IN /\ named' = name
            /\ draft' = DraftOf(f.initial)
            /\ form' = [f EXCEPT !.value = Validated(draft')]
    /\ UNCHANGED <<schema, windows, dragged>>

CloseWindow ==
    /\ Touch /\ form.open
    /\ form' = NoForm /\ draft' = NewDefault /\ named' = "" /\ dragged' = NoDragged
    /\ UNCHANGED <<schema, windows>>

\* WindowSlotColumn; a column of the column selector can be dragged here too.
InSlot(slot) ==
    CASE slot = "source" -> {draft.source} \ {""}
      [] slot = "order" -> {draft.order} \ {""}
      [] OTHER -> ToSet(draft.partition)

PickUp ==
    /\ Touch /\ form.open /\ dragged = NoDragged
    /\ \/ \E slot \in Slot : \E c \in InSlot(slot) : dragged' = [column |-> c, origin |-> slot]
       \/ \E c \in DOMAIN schema \cup Computed : dragged' = [column |-> c, origin |-> "selector"]
    /\ UNCHANGED <<form, draft>> /\ ConfigStays

\* A list without a column, which it holds at most once.
TakenOut(list, column) ==
    IF column \in ToSet(list) THEN RemoveAt(list, CHOOSE i \in DOMAIN list : list[i] = column) ELSE list

\* A column leaves the slot it is moved from.
Left(d, column, origin) ==
    CASE origin = "source" -> [d EXCEPT !.source = ""]
      [] origin = "order" -> [d EXCEPT !.order = ""]
      [] origin = "partition" -> [d EXCEPT !.partition = TakenOut(@, column)]
      [] OTHER -> d

\* A new source keeps the aggregate if it has it.
Sourced(d, column) ==
    LET available == Aggregates[schema[column]]
        sourced == [d EXCEPT !.source = column]
    IN IF Declared(column, d.op) = None /\ available # <<>> THEN [sourced EXCEPT !.op = available[1].name] ELSE sourced

\* Only columns of the Table stay where they are dropped.
PutInto(d, column, slot) ==
    IF column \notin DOMAIN schema THEN d
    ELSE CASE slot = "source" -> Sourced(d, column)
           [] slot = "order" -> [d EXCEPT !.order = column]
           [] slot = "partition" -> [d EXCEPT !.partition = IF column \in ToSet(@) THEN @ ELSE Append(@, column)]
           [] OTHER -> d

\* Drop on a slot, or elsewhere, which takes it out of the slot it was in.
DropInSlot ==
    /\ dragged # NoDragged
    /\ \E slot \in Slot \cup {"elsewhere"} : Emits(PutInto(Left(draft, dragged.column, dragged.origin), dragged.column, slot))
    /\ dragged' = NoDragged
    /\ UNCHANGED touches /\ ConfigStays

\* The column dropdown of an empty slot.
Choose ==
    /\ Touch /\ form.open
    /\ \E slot \in Slot, c \in DOMAIN schema : c \notin InSlot(slot) /\ Emits(PutInto(draft, c, slot))
    /\ UNCHANGED dragged /\ ConfigStays

ClearSlot ==
    /\ Touch /\ form.open
    /\ \/ draft.source # "" /\ Emits([draft EXCEPT !.source = ""])
       \/ draft.order # "" /\ Emits([draft EXCEPT !.order = ""])
       \/ \E i \in DOMAIN draft.partition : Emits([draft EXCEPT !.partition = RemoveAt(@, i)])
    /\ UNCHANGED dragged /\ ConfigStays

\* SetOp: a frame that it does not have becomes its first.
OpSet(d, op) ==
    LET declared == Declared(d.source, op)
        frames == declared[1].frames
    IN IF declared = None \/ frames = {} \/ d.frame \in frames THEN [d EXCEPT !.op = op]
       ELSE [d EXCEPT !.op = op, !.frame = declared[1].first]

SelectOp ==
    /\ Touch /\ form.open /\ draft.source \in DOMAIN schema
    /\ \E i \in DOMAIN Aggregates[schema[draft.source]] : Emits(OpSet(draft, Aggregates[schema[draft.source]][i].name))
    /\ UNCHANGED dragged /\ ConfigStays

\* The settings that are shown are those of the aggregate.
Shown(setting) ==
    LET declared == Declared(draft.source, draft.op)
    IN declared # None /\
         CASE setting = "frame" -> declared[1].frames # {}
           [] setting = "rows" -> declared[1].frames # {} /\ draft.frame = "Rows"
           [] setting = "range" -> declared[1].frames # {} /\ draft.frame = "Range"
           [] setting = "offset" -> declared[1].offset
           [] OTHER -> declared[1].alpha

\* Whole rows; an input that is none is one row.
Count(x) == IF x # NaN /\ x >= 0 THEN 100 * (x \div 100) ELSE 100
Positive(x) == IF x # NaN /\ x > 0 THEN x ELSE 100
Fraction(x) == IF x # NaN /\ x > 0 /\ x <= 100 THEN x ELSE 100

Set ==
    /\ Touch /\ form.open
    /\ \/ draft.order # "" /\ Emits([draft EXCEPT !.desc = ~@])
       \/ Shown("frame") /\ \E f \in Declared(draft.source, draft.op)[1].frames : Emits([draft EXCEPT !.frame = f])
       \/ \E x \in Amounts \cup {NaN} :
            \/ Shown("rows") /\ Emits([draft EXCEPT !.rows = Count(x)])
            \/ Shown("range") /\ Emits([draft EXCEPT !.range = Positive(x)])
            \/ Shown("offset") /\ Emits([draft EXCEPT !.offset = Count(x)])
            \/ Shown("alpha") /\ Emits([draft EXCEPT !.alpha = Fraction(x)])
    /\ UNCHANGED dragged /\ ConfigStays

----------------------------------------------------------------------------
(* Saving.                                                                 *)

\* update_window: the window goes by its new name wherever it is named.
Renamed(w, old, new, spec) ==
    [specs |-> [n \in (DOMAIN w.specs \ {old}) \cup {new} |-> IF n = new THEN spec ELSE w.specs[n]],
     used |-> IF old \in w.used THEN (w.used \ {old}) \cup {new} ELSE w.used]

\* save_window.
WithWindow(w, name, spec) == [w EXCEPT !.specs = [n \in DOMAIN @ \cup {name} |-> IF n = name THEN spec ELSE @[n]]]

\* The Save button of the window's tab: there is a spec, and it or its name
\* changed.  The config changes, and the sidebar opens on what was saved.
SaveWindow ==
    /\ Touch /\ form.open /\ form.value # None
    /\ \E name \in WindowNames :
         /\ name \notin DOMAIN windows.specs \ {named}
         /\ form.value # form.initial \/ name # named
         /\ Rerendered(name, IF named = "" THEN WithWindow(windows, name, form.value[1])
                             ELSE Renamed(windows, named, name, form.value[1]))
    /\ UNCHANGED <<schema, dragged>>

\* delete_window, of one that nothing names; the sidebar shuts.
DeleteWindow ==
    /\ Touch /\ form.open /\ named # "" /\ named \notin windows.used
    /\ windows' = [windows EXCEPT !.specs = [n \in DOMAIN @ \ {named} |-> @[n]]]
    /\ form' = NoForm /\ draft' = NewDefault /\ named' = "" /\ dragged' = NoDragged
    /\ UNCHANGED schema

\* Another commit: a window column becomes active or not, restore() puts
\* back what save() returned.
OtherConfig ==
    /\ Touch
    /\ \/ \E n \in DOMAIN windows.specs :
            Rerendered(named, [windows EXCEPT !.used = IF n \in @ THEN @ \ {n} ELSE @ \cup {n}])
       \/ Rerendered(named, [windows EXCEPT !.specs = [n \in DOMAIN @ |-> FromRaw(Raw(@[n]))]])
    /\ UNCHANGED <<schema, dragged>>

\* restore({table}), load(): the config starts afresh.  The draft stays if
\* it was of no saved window.
ReplaceTable ==
    /\ Touch
    /\ schema' \in Schemas \ {schema}
    /\ LET w == [specs |-> <<>>, used |-> {}]
       IN /\ windows' = w /\ named' = named
          /\ form' = IF form.open THEN Form(named, w) ELSE form
          /\ draft' = IF form.open /\ form.initial # None THEN NewDefault ELSE draft
    /\ UNCHANGED dragged

WindowNext ==
    \/ Open \/ CloseWindow \/ PickUp \/ DropInSlot \/ Choose \/ ClearSlot \/ SelectOp \/ Set
    \/ SaveWindow \/ DeleteWindow \/ OtherConfig \/ ReplaceTable

WindowEditSpec == WindowInit /\ [][WindowNext]_windowVars
----------------------------------------------------------------------------
(* Properties.                                                             *)

\* What the server can make of a spec.
Computable(spec) ==
    /\ spec.source \in DOMAIN schema
    /\ ToSet(spec.partition) \subseteq DOMAIN schema
    /\ IsInjective(spec.partition)
    /\ IF spec.order = None THEN ~NeedsOrder ELSE spec.order[1].column \in DOMAIN schema
    /\ Declared(spec.source, spec.op) # None
    /\ LET declared == Declared(spec.source, spec.op)[1]
       IN /\ spec.frame # None => spec.frame[1].kind \in declared.frames
          /\ spec.frame # None /\ spec.frame[1].kind = "Range" =>
               spec.frame[1].size > 0 /\ spec.order # None /\ schema[spec.order[1].column] \in Ordered
          /\ (spec.alpha # None <=> declared.alpha) /\ (spec.alpha # None => spec.alpha[1] \in 1..100)

(* Every window that was put together by hand is one that the server can   *)
(* compute for the Table that is there now, although the Table may have    *)
(* been replaced while its draft was open.                                 *)
WindowsAreComputable == \A n \in DOMAIN windows.specs : Computable(windows.specs[n])

(* A window that is saved, and opened again, perhaps after its config went *)
(* through save() and restore(), is the same: what the editor offers to    *)
(* save before anything is touched is the spec that it was opened on.      *)
SpecsReopen ==
    \A n \in DOMAIN windows.specs :
        LET spec == windows.specs[n]
        IN /\ Validated(FromSpec(spec)) = Some(spec)
           /\ RawIsSpec(Raw(spec)) /\ FromRaw(Raw(spec)) = spec

(* What the Save button saves is what the editor shows.  The code resets   *)
(* the sidebar's copy whenever the config changes, and the draft only when *)
(* the spec under edit does (column_settings_sidebar.rs:185).              *)
SavesTheDraft == form.open => form.value = Validated(draft)

(* A window in the config is one the server can compute, and opening it    *)
(* changes nothing of it.                                                  *)
WindowsAreSound == WindowsAreComputable /\ SpecsReopen
=============================================================================
