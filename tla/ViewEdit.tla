------------------------------ MODULE ViewEdit ------------------------------
(***************************************************************************)
(* Editing the ViewConfig of a panel by hand: columns dragged between the  *)
(* lists of the column selector, rows closed, columns picked in a          *)
(* dropdown, plugins chosen; and the commits of restore() that come in     *)
(* between.                                                                *)
(*                                                                         *)
(* A handler reads the config of the last render. A commit and the render  *)
(* that follows it are microtasks, so every gesture finds them done: a     *)
(* gesture is one step here. A drag is several. Indices count from 0, as   *)
(* in the source.                                                          *)
(***************************************************************************)
EXTENDS Naturals, Sequences, FiniteSets
LOCAL INSTANCE SequencesExt

CONSTANTS TableColumns, \* the columns of the Table, in order
          Numeric,      \* those that are numbers
          Typed,        \* expressions a user types into a dropdown
          Empty,        \* a slot without a column
          PluginKinds,  \* what plugins say of their columns
          MaxGestures   \* bound: gestures, drags and commits

ASSUME ViewEditAssumption ==
    /\ IsInjective(TableColumns) /\ TableColumns # <<>> /\ Numeric \subseteq Range(TableColumns)
    /\ Empty \notin Range(TableColumns) \cup Typed
    /\ PluginKinds \subseteq [names : Nat, min : Nat, mode : {"toggle", "select"}, total : BOOLEAN]
    /\ MaxGestures \in Nat

VARIABLES config,   \* ViewConfig
          plugin,   \* the PluginStaticConfig of the active plugin
          drag,     \* DragState: what is dragged, from where, and over what
          gestures, \* gestures so far
          shown     \* what the list showed under the last drop, and what was asked

editVars == <<config, plugin, drag, gestures, shown>>

Lists == {"Active", "GroupBy", "SplitBy", "Sort", "Filter"}
NoDrag == [column |-> Empty, effect |-> "Copy", over |-> <<>>]
NothingShown == [list |-> "none", column |-> Empty, states |-> <<>>]

EditInit ==
    /\ config = [columns |-> TableColumns, group_by |-> <<>>,
                 split_by |-> <<>>, sort |-> <<>>, filter |-> <<>>, aggregates |-> {},
                 expressions |-> {}, total |-> FALSE]
    /\ plugin \in PluginKinds
    /\ drag = NoDrag
    /\ gestures = 0
    /\ shown = NothingShown

----------------------------------------------------------------------------
(* Slots of columns.                                                       *)

Used(columns) == ToSet(columns) \ {Empty}
Blank(n) == [i \in 1..n |-> Empty]

\* pad_using.
PadTo(s, n) == s \o Blank(IF Len(s) < n THEN n - Len(s) ELSE 0)
Without(s, c) == SelectSeq(s, LAMBDA x : x # c)
IndexIn(s, c) == CHOOSE i \in 0..(Len(s) - 1) : s[i + 1] = c
SlotIsEmpty(columns, i) == i < Len(columns) /\ columns[i + 1] = Empty
Trimmed(columns) == SubSeq(columns, 1, CHOOSE n \in 0..Len(columns) :
                              /\ \A i \in (n + 1)..Len(columns) : columns[i] = Empty
                              /\ n > 0 => columns[n] # Empty)

IsSwap(p, i) == p.names # 0 /\ i < p.names - 1
IsRequired(p, i) == i < p.min

AllColumns == ToSet(TableColumns) \cup config.expressions

\* What a drag of c, over the slot i, means for the active columns.
FromRequired(c) == c \in Used(config.columns) /\ IsRequired(plugin, IndexIn(config.columns, c))
FromSwap(c) == c \in Used(config.columns) /\ IsSwap(plugin, IndexIn(config.columns, c))

\* is_invalid_columns_column.
IsInvalidDrop(c, i) == FromRequired(c) /\ (i >= Len(config.columns) \/ SlotIsEmpty(config.columns, i))

----------------------------------------------------------------------------
(* What the selector shows while c is dragged over the active slot i.      *)

HasBlankTail ==
    LET columns == config.columns
    IN \/ Last(columns) = Empty \/ Len(columns) < plugin.names
       \/ Cardinality(Used(columns)) = Cardinality(AllColumns)

\* ColumnsIteratorSet::active: the columns, "DragOver", "Invalid", and Empty.
Preview(c, i) ==
    LET columns == config.columns
        Before(s) == SubSeq(s, 1, IF i < Len(s) THEN i ELSE Len(s))
        Around(s, rest, state) == Before(PadTo(s, plugin.names)) \o <<state>> \o rest
        From(s, k) == SubSeq(s, k + 1, Len(s))
        target == IF i < Len(columns) THEN columns[i + 1] ELSE Empty
        swapped == FlattenSeq([k \in DOMAIN columns |->
                     IF columns[k] # c THEN <<columns[k]>>
                     ELSE IF SlotIsEmpty(columns, i) /\ ~FromSwap(c) THEN <<>> ELSE <<target>>])
        lifted == FlattenSeq([k \in DOMAIN columns |->
                    IF columns[k] # c THEN <<columns[k]>> ELSE IF FromSwap(c) THEN <<Empty>> ELSE <<>>])
        tail == IF c \in Used(columns) /\ ~FromSwap(c) /\ ~HasBlankTail THEN <<Empty>> ELSE <<>>
    IN PadTo(CASE IsInvalidDrop(c, i) -> Around(columns, From(columns, i + 1), "Invalid")
               [] ~IsInvalidDrop(c, i) /\ (IsSwap(plugin, i) \/ FromRequired(c)) ->
                    Around(swapped, From(swapped, i + 1), "DragOver")
               [] OTHER ->
                    IF ~FromSwap(c) /\ c \in Used(columns) /\ i = Len(columns)
                    THEN columns \o <<"Invalid">>
                    ELSE Around(lifted, From(lifted, IF target = Empty THEN i + 1 ELSE i) \o tail, "DragOver"),
             plugin.names)

\* The slots when nothing is dragged over them.
Slots == PadTo(IF HasBlankTail THEN config.columns ELSE Append(config.columns, Empty), plugin.names)

Displayed == IF drag.over # <<>> /\ drag.over[1] = "Active" THEN Preview(drag.column, drag.over[2]) ELSE Slots

\* DragDropList, for a list without duplicates: c takes its place in the list
\* without it; at the end it is invalid if it is in the list.
ListPreview(list, c, i) ==
    LET rest == Without(list, c)
    IN IF i = Len(list) THEN list \o <<IF c \in ToSet(list) THEN "Invalid" ELSE "DragOver">>
       ELSE IF i < Len(rest) THEN InsertAt(rest, i + 1, "DragOver") ELSE Append(rest, "DragOver")

----------------------------------------------------------------------------
(* create_drag_drop_update.                                                *)

LeavesActive(c, i, to) ==
    /\ \/ ~IsSwap(plugin, i) /\ FromSwap(c)
       \/ IsSwap(plugin, i) /\ ~FromSwap(c) /\ SlotIsEmpty(config.columns, i)
       \/ to \in {"GroupBy", "SplitBy"}
    /\ Len(config.columns) > 1 /\ ~FromRequired(c)
    /\ ~(c \in Used(config.columns) /\ i = Len(config.columns))

\* The config without c in the list it is moved from.
MovedFrom(cfg, c, i, from, to) ==
    CASE from = "GroupBy" -> [cfg EXCEPT !.group_by = Without(@, c)]
      [] from = "SplitBy" -> [cfg EXCEPT !.split_by = Without(@, c)]
      [] from = "Sort"    -> [cfg EXCEPT !.sort = SelectSeq(@, LAMBDA s : s.column # c)]
      [] from = "Filter"  -> [cfg EXCEPT !.filter = SelectSeq(@, LAMBDA f : f.column # c)]
      [] from = "Active" /\ LeavesActive(c, i, to) ->
           [cfg EXCEPT !.columns =
              IF IsSwap(plugin, i) \/ to \in {"GroupBy", "SplitBy"} THEN Without(@, c)
              ELSE [k \in DOMAIN @ |-> IF @[k] = c THEN Empty ELSE @[k]]]
      [] OTHER -> cfg

MutDroppedOnActive(columns, c, i) ==
    IF IsSwap(plugin, i) \/ FromRequired(c)
    THEN [PadTo(columns, i + 1) EXCEPT ![i + 1] = c]
    ELSE LET rest == PadTo(Without(columns, c), i)
         IN IF SlotIsEmpty(config.columns, i) THEN [rest EXCEPT ![i + 1] = c] ELSE InsertAt(rest, i + 1, c)

\* Dropped on an active slot: swapped with it, or put in its place.
DroppedOnActive(columns, c, i) ==
    IF IsSwap(plugin, i) \/ FromRequired(c)
    THEN LET fill == IF plugin.names = 0 \/ i > plugin.names - 1 THEN i ELSE plugin.names - 1
             padded == PadTo(columns, fill + 1)
         IN IF c \in Used(padded)
            THEN [padded EXCEPT ![i + 1] = c, ![IndexIn(padded, c) + 1] = padded[i + 1]]
            ELSE [padded EXCEPT ![i + 1] = c]
    ELSE LET rest == PadTo(Without(columns, c), i)
         IN IF SlotIsEmpty(config.columns, i) THEN [rest EXCEPT ![i + 1] = c] ELSE InsertAt(rest, i + 1, c)

DroppedIn(list, i, item) == InsertAt(list, (IF i < Len(list) THEN i ELSE Len(list)) + 1, item)

Clause(c) == [column |-> c, op |-> "==", term |-> <<>>]
SortBy(c) == [column |-> c, dir |-> "asc"]

DragDropUpdate(cfg, c, i, to, from) ==
    LET moved == MovedFrom(cfg, c, i, from, to)
    IN CASE to = "Active" -> IF c \in Used(cfg.columns) /\ i = Len(cfg.columns) THEN moved
                             ELSE [moved EXCEPT !.columns = DroppedOnActive(@, c, i)]
         [] to = "GroupBy" -> [moved EXCEPT !.group_by = DroppedIn(Without(@, c), i, c)]
         [] to = "SplitBy" -> [moved EXCEPT !.split_by = DroppedIn(Without(@, c), i, c)]
         [] to = "Sort"    -> [moved EXCEPT !.sort = DroppedIn(@, i, SortBy(c))]
         [] to = "Filter"  -> [moved EXCEPT !.filter = DroppedIn(@, i, Clause(c))]

----------------------------------------------------------------------------
(* commit_view_config.                                                     *)

\* apply_update: the total has no groups.
ApplyUpdate(cfg) ==
    IF ~cfg.total \/ cfg.group_by = <<>> THEN cfg
    ELSE IF config.total THEN [cfg EXCEPT !.total = FALSE] ELSE [cfg EXCEPT !.group_by = <<>>]

InView(cfg) == Used(cfg.columns) \cup ToSet(cfg.group_by) \cup ToSet(cfg.split_by)
                 \cup {s.column : s \in ToSet(cfg.sort)} \cup {f.column : f \in ToSet(cfg.filter)}

\* validate_names.
NamesValid(cfg) == InView(cfg) \subseteq ToSet(TableColumns) \cup cfg.expressions

\* normalize_view_config.
Normalized(cfg) ==
    LET full == IF cfg.columns = <<>> THEN [cfg EXCEPT !.columns = TableColumns] ELSE cfg
    IN [full EXCEPT !.aggregates = @ \cap InView(full)]

\* A commit of invalid names fails, and changes nothing.
CommitConfig(cfg) ==
    config' = IF NamesValid(ApplyUpdate(cfg)) THEN Normalized(ApplyUpdate(cfg)) ELSE config

----------------------------------------------------------------------------
(* Drags.                                                                  *)

Gestures == gestures < MaxGestures /\ gestures' = gestures + 1
Click == Gestures /\ drag = NoDrag
Still == UNCHANGED <<plugin, drag>> /\ shown' = NothingShown

ActiveRows == Used(config.columns)
InactiveRows == AllColumns \ ActiveRows
SortRows == {s.column : s \in ToSet(config.sort)}
FilterRows == {f.column : f \in ToSet(config.filter)}

\* An inactive column is copied; the others are moved.
Draggable(effect) ==
    CASE effect = "Copy" -> InactiveRows                [] effect = "Active" -> ActiveRows
      [] effect = "GroupBy" -> ToSet(config.group_by)   [] effect = "SplitBy" -> ToSet(config.split_by)
      [] effect = "Sort" -> SortRows                    [] effect = "Filter" -> FilterRows

DragStart ==
    /\ Click
    /\ \E effect \in Lists \cup {"Copy"} : \E c \in Draggable(effect) :
         drag' = [NoDrag EXCEPT !.column = c, !.effect = effect]
    /\ shown' = NothingShown
    /\ UNCHANGED <<config, plugin>>

RowsOf(list) ==
    CASE list = "Active" -> Len(Displayed) - 1
      [] list = "GroupBy" -> Len(config.group_by) [] list = "SplitBy" -> Len(config.split_by)
      [] list = "Sort" -> Len(config.sort) [] list = "Filter" -> Len(config.filter)

\* notify_drag_enter: over a slot, or the end of a list.
DragEnter ==
    /\ drag.column # Empty
    /\ \E list \in Lists : \E i \in 0..RowsOf(list) : drag' = [drag EXCEPT !.over = <<list, i>>]
    /\ drag' # drag
    /\ UNCHANGED <<config, plugin, gestures, shown>>

DragLeave ==
    /\ drag.over # <<>>
    /\ drag' = [drag EXCEPT !.over = <<>>]
    /\ UNCHANGED <<config, plugin, gestures, shown>>

DragEnd ==
    /\ drag.column # Empty
    /\ drag' = NoDrag
    /\ shown' = NothingShown
    /\ UNCHANGED <<config, plugin, gestures>>

Revealed(list, c, i) ==
    CASE list = "Active" -> Displayed
      [] list = "GroupBy" -> ListPreview(config.group_by, c, i)
      [] list = "SplitBy" -> ListPreview(config.split_by, c, i)
      [] OTHER -> <<>>

\* A required column is not moved to an empty slot.
CommitDrop(c, i, list) ==
    IF list = "Active" /\ drag.effect = "Active" /\ IsInvalidDrop(c, i) THEN UNCHANGED config
    ELSE CommitConfig(DragDropUpdate(config, c, i, list, drag.effect))

\* notify_drop.
Drop ==
    /\ drag.over # <<>> /\ drag.column \in AllColumns
    /\ LET c == drag.column
           list == drag.over[1]
           i == drag.over[2]
       IN /\ CommitDrop(c, i, list)
          /\ shown' = [list |-> list, column |-> c, states |-> Revealed(list, c, i)]
    /\ drag' = NoDrag
    /\ UNCHANGED <<plugin, gestures>>

DragSteps == DragStart \/ DragEnter \/ DragLeave \/ DragEnd \/ Drop
----------------------------------------------------------------------------
(* Clicks.                                                                 *)

\* activate_column: alone, or after the last column.
Activate ==
    /\ Click
    /\ \E c \in AllColumns \ Used(config.columns), shift \in BOOLEAN :
         LET kept == IF (plugin.mode = "select") # shift THEN <<>> ELSE Without(Trimmed(config.columns), c)
         IN CommitConfig([config EXCEPT !.columns =
              PadTo(IF Used(config.columns) = {} THEN @ ELSE Append(kept, c), plugin.names)])
    /\ Still

\* deactivate_column, of a column that is not required.
Deactivate ==
    /\ Click
    /\ \E c \in Used(config.columns), shift \in BOOLEAN :
         LET i == IndexIn(config.columns, c)
             columns == config.columns
         IN /\ ~IsRequired(plugin, i)
            /\ CommitConfig([config EXCEPT !.columns =
                 IF plugin.mode = "select" THEN Without(columns, c)
                 ELSE IF IsSwap(plugin, i) THEN [columns EXCEPT ![i + 1] = Empty]
                 ELSE IF shift THEN <<c>>
                 ELSE IF Len(columns) > 1 THEN Without(columns, c) ELSE columns])
    /\ Still

\* An empty slot, or the end of a list, is given a column picked, or typed:
\* an expression is made with it.
PickActive ==
    /\ Click
    /\ \E i \in 0..(Len(Slots) - 1), c \in (AllColumns \cup Typed) \ Used(config.columns) :
         /\ Slots[i + 1] = Empty
         /\ CommitConfig([config EXCEPT
              !.columns = IF i >= Len(@) THEN Append(@, c) ELSE [@ EXCEPT ![i + 1] = c],
              !.expressions = @ \cup ({c} \cap Typed)])
    /\ Still

\* The config with the expression that was typed, if one was.
Known(c) == [config EXCEPT !.expressions = @ \cup ({c} \cap Typed)]

PickPivot ==
    /\ Click
    /\ \/ \E c \in (AllColumns \cup Typed) \ ToSet(config.group_by) :
             CommitConfig([Known(c) EXCEPT !.group_by = Append(@, c)])
       \/ \E c \in (AllColumns \cup Typed) \ ToSet(config.split_by) :
             CommitConfig([Known(c) EXCEPT !.split_by = Append(@, c)])
    /\ Still

PickClause ==
    /\ Click
    /\ \/ \E c \in (AllColumns \cup Typed) \ SortRows :
             CommitConfig([Known(c) EXCEPT !.sort = Append(@, SortBy(c))])
       \/ \E c \in (AllColumns \cup Typed) \ FilterRows :
             CommitConfig([Known(c) EXCEPT !.filter = Append(@, Clause(c))])
    /\ Still

\* Close of a row; of the total's, the groups can be chosen again.
ClosePivot ==
    /\ Click
    /\ \/ \E i \in DOMAIN config.group_by : CommitConfig([config EXCEPT !.group_by = RemoveAt(@, i)])
       \/ config.total /\ CommitConfig([config EXCEPT !.total = FALSE])
       \/ \E i \in DOMAIN config.split_by : CommitConfig([config EXCEPT !.split_by = RemoveAt(@, i)])
    /\ Still

CloseSort ==
    /\ Click
    /\ \E i \in DOMAIN config.sort : CommitConfig([config EXCEPT !.sort = RemoveAt(@, i)])
    /\ Still

CloseFilter ==
    /\ Click
    /\ \E i \in DOMAIN config.filter : CommitConfig([config EXCEPT !.filter = RemoveAt(@, i)])
    /\ Still

TransposePivots ==
    /\ Click /\ config.group_by # config.split_by
    /\ config.split_by # <<>> \/ config.group_by # <<>>
    /\ CommitConfig([config EXCEPT !.group_by = config.split_by, !.split_by = config.group_by])
    /\ Still

\* The mode, where the plugin offers it.  From the total, groups come back.
SelectTotal ==
    /\ Click /\ plugin.total /\ ~config.total
    /\ CommitConfig([config EXCEPT !.total = TRUE, !.group_by = <<>>])
    /\ Still

SetAggregate ==
    /\ Click /\ (config.group_by # <<>> \/ config.total)
    /\ \E c \in Used(config.columns) : CommitConfig([config EXCEPT !.aggregates = @ \cup {c}])
    /\ Still

\* SortDir::cycle.
Cycle(dir) ==
    CASE dir = "none" -> "asc" [] dir = "asc" -> "desc"
      [] dir = "desc" -> IF config.split_by = <<>> THEN "none" ELSE "col asc"
      [] dir = "col asc" -> IF config.split_by = <<>> THEN "asc" ELSE "col desc"
      [] OTHER -> IF config.split_by = <<>> THEN "asc" ELSE "none"
CycleSort ==
    /\ Click
    /\ \E i \in DOMAIN config.sort : CommitConfig([config EXCEPT !.sort[i].dir = Cycle(@)])
    /\ Still

\* The operator keeps the term.
SelectFilterOp ==
    /\ Click
    /\ \E i \in DOMAIN config.filter : \E op \in {"==", "in"} \ {config.filter[i].op} :
         CommitConfig([config EXCEPT !.filter[i].op = op])
    /\ Still

\* update_filter_input: "in" takes words, with a comma between them.
TypeFilter ==
    /\ Click
    /\ \E i \in DOMAIN config.filter :
         \/ CommitConfig([config EXCEPT !.filter[i].term = <<"typed">>])
         \/ /\ config.filter[i].op = "in"
            /\ CommitConfig([config EXCEPT !.filter[i].term = <<"typed", "">>])
    /\ Still

\* SetFilterValue: a suggestion takes the place of the last word.
PickFilterValue ==
    /\ Click
    /\ \E i \in DOMAIN config.filter :
         CommitConfig([config EXCEPT !.filter[i].term =
           IF config.filter[i].op = "in" /\ @ # <<>> THEN Append(Front(@), "value") ELSE <<"value">>])
    /\ Still

Clicks ==
    \/ Activate \/ Deactivate \/ PickActive \/ PickPivot \/ PickClause
    \/ ClosePivot \/ CloseSort \/ CloseFilter \/ TransposePivots \/ SelectTotal
    \/ SetAggregate \/ CycleSort \/ SelectFilterOp \/ TypeFilter \/ PickFilterValue
----------------------------------------------------------------------------
(* Plugins and restore().                                                  *)

\* set_update_column_defaults: a plugin that needs columns is given numbers,
\* of those active first; another keeps its slots.
ColumnDefaults(columns, p) ==
    LET Take(s) == SubSeq(s, 1, IF Len(s) < p.min THEN Len(s) ELSE p.min)
        numbers == SelectSeq(columns, LAMBDA c : c \in Numeric)
        more == numbers \o SelectSeq(TableColumns, LAMBDA c : c \in Numeric \ ToSet(Take(numbers)))
        filled == Trimmed(columns)
    IN IF p.min > 0
       THEN IF Len(Take(more)) = p.min THEN PadTo(Take(more), p.names) ELSE Take(TableColumns)
       ELSE IF p.names = 0 THEN Without(filled, Empty)
            ELSE PadTo(SubSeq(filled, 1, IF Len(filled) < p.names THEN Len(filled) ELSE p.names)
                         \o Without(SubSeq(filled, p.names + 1, Len(filled)), Empty), p.names)

\* The first of the modes that the plugin renders is no total.
SelectPlugin ==
    /\ Click
    /\ \E p \in PluginKinds \ {plugin} :
         /\ plugin' = p
         /\ CommitConfig([config EXCEPT !.columns = ColumnDefaults(@, p), !.total = FALSE])
    /\ shown' = [NothingShown EXCEPT !.list = "plugin"]
    /\ UNCHANGED drag

\* restore() of a config, with a mode that the plugin renders, while a column
\* may be dragged.
RestoreConfig ==
    /\ Gestures
    /\ \E columns \in {<<>>, <<TableColumns[1]>>}, groups \in {<<>>, <<TableColumns[1]>>}, total \in BOOLEAN :
         CommitConfig([config EXCEPT !.columns = columns, !.group_by = groups, !.total = total /\ plugin.total,
                                     !.sort = <<>>, !.filter = <<>>])
    /\ Still

EditNext == DragSteps \/ Clicks \/ SelectPlugin \/ RestoreConfig
EditSpec == EditInit /\ [][EditNext]_editVars
----------------------------------------------------------------------------
(* Properties.                                                             *)

(* A drop does what the selector showed under the pointer: the column ends *)
(* where the placeholder was, the others as they were shown, and nothing   *)
(* happens on an invalid slot.                                             *)
DropIsPreviewed ==
    [][LET Shows(states) == [k \in DOMAIN states |-> IF states[k] = "DragOver" THEN shown'.column ELSE states[k]]
           valid == "Invalid" \notin ToSet(shown'.states)
           Foreseen == /\ drag.over[2] <= Len(config.columns)
                       /\ FromSwap(drag.column) => drag.over[2] < Len(config.columns)
                       /\ drag.column \in Used(config.columns) => drag.effect = "Active"
       IN shown' # shown =>
            CASE shown'.list = "Active" /\ Foreseen ->
                   IF valid THEN Trimmed(config'.columns) = Trimmed(Shows(shown'.states))
                   ELSE config'.columns = config.columns
              [] shown'.list = "GroupBy" -> valid => config'.group_by = Shows(shown'.states)
              [] shown'.list = "SplitBy" -> valid => config'.split_by = Shows(shown'.states)
              [] OTHER -> TRUE]_editVars

RequiredFilled(cfg, p) == \A i \in 1..p.min : i <= Len(cfg.columns) /\ cfg.columns[i] # Empty

(* A drag never empties a slot that the plugin requires, and a plugin that *)
(* is selected gets all the columns that it requires.                      *)
RequiredStayFilled ==
    [][shown' # shown /\ \/ shown'.list = "plugin" /\ plugin'.min <= Len(TableColumns)
                         \/ /\ shown'.list \in Lists /\ drag.effect \in {"Active", "Copy"}
                            /\ RequiredFilled(config, plugin)
         => RequiredFilled(config', plugin')]_editVars

(* Both: a drop does what was shown, and what the plugin requires stays.   *)
DropsAreSound == DropIsPreviewed /\ RequiredStayFilled

(* The second, wherever the column is dragged from. The code lets a pivot, *)
(* sort or filter row that is dragged over an empty slot take its column   *)
(* from the required slot.                                                 *)
RequiredSurviveDrags ==
    [][shown' # shown /\ shown'.list \in Lists /\ RequiredFilled(config, plugin)
         => RequiredFilled(config', plugin')]_editVars
=============================================================================
