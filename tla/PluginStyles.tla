---------------------------- MODULE PluginStyles ----------------------------
(***************************************************************************)
(* The styles of a panel: what the user, restore() and the plugins write   *)
(* in the buckets the renderer keeps for every plugin                      *)
(* (renderer/plugin_config.rs), the forms they are edited with (style_tab, *)
(* plugin_tab, primitive_field), and how the buckets reach the plugins.    *)
(*                                                                         *)
(* A config is a function from its keys to values, Unset where it has      *)
(* none. A plugin declares which keys a column has (the JavaScript of the  *)
(* plugin, modelled from how the datagrid uses it): a mode, in the mode    *)
(* "gradient" also the number a gradient ends at, which defaults to the    *)
(* largest value of the column and is sent to the plugin even when it was  *)
(* never set, and a pair of colors.                                        *)
(***************************************************************************)
EXTENDS Naturals, Sequences, FiniteSets
LOCAL INSTANCE SequencesExt

CONSTANTS
    StylePlugins,    \* the plugins of the viewer
    EditPlugins,     \* those of them with an edit mode
    StyledColumns,   \* the columns of the table
    Given,           \* the column configs restore() is called with
    MaxStyleActs     \* bound: edits and calls of the run

\* The first plugin has an edit mode.
ASSUME StylesAssumption ==
    /\ EditPlugins # {} /\ EditPlugins \subseteq StylePlugins
    /\ \A update \in Given : update.kind \in {"default", "missing", "columns"}

VARIABLES
    buckets,    \* plugin -> [columns, edit], what the renderer keeps
    restored,      \* plugin -> the same, what its restore() was given last
    chosen,     \* the active plugin
    visible,    \* the columns in the schema of the bound View, {} unbound
    stats,      \* the columns whose largest value is cached
    lookups,   \* the getMinMax() calls in flight, oldest first
    pushes,     \* the tasks that will restore the plugin, waiting for them
    run,        \* the locked run in flight, NoRun without
    raced,      \* plugin -> whether it was restored from an old snapshot
    styleActs   \* how many edits and calls there were

styleVars == <<buckets, restored, chosen, visible, stats, lookups, pushes, run, raced, styleActs>>

Unset == "unset"
StyleKeys == {"mode", "gradient", "pos", "neg"}
NoStyle == [k \in StyleKeys |-> Unset]
NoRun == [step |-> "none"]
EmptyBucket == [columns |-> [c \in StyledColumns |-> NoStyle], edit |-> Unset]

-----------------------------------------------------------------------------
(* Schemas                                                                 *)

Spec(kind, keys, default, include) == [kind |-> kind, keys |-> keys, default |-> default, include |-> include]
NumberDefault(known, column) == IF column \in known THEN "largest" ELSE "zero"

\* The plugin: the fields of a column, which depend on its current config.
DeclaredKeys(known, column, current) ==
    {Spec("Enum", {"mode"}, "plain", FALSE), Spec("ColorRange", {"pos", "neg"}, "c0", FALSE)}
    \cup (IF current["mode"] = "gradient" THEN {Spec("Number", {"gradient"}, NumberDefault(known, column), TRUE)} ELSE {})

\* query_column_config_schema: no schema before a View was bound, and no fields
\* for a column that is not in it.
HasSchema == visible # {}
SchemaWith(known, column, current) == IF column \in visible THEN DeclaredKeys(known, column, current) ELSE {}
ColumnSchema(column, current) == SchemaWith(stats, column, current)
PluginSchema(plugin) == IF plugin \in EditPlugins THEN {Spec("Enum", {"edit"}, "read", FALSE)} ELSE {}
ActiveKeys(schema) == UNION {s.keys : s \in schema}

\* A number that is always sent is kept even where it is the default: set by
\* hand it stays, while the default follows the data.
MutMatchesDefault(schema, k, v) == \E s \in schema : k \in s.keys /\ v = s.default
MatchesDefault(schema, k, v) == \E s \in schema : k \in s.keys /\ ~s.include /\ v = s.default
StripDefaults(schema, config) == [k \in StyleKeys |-> IF MatchesDefault(schema, k, config[k]) THEN Unset ELSE config[k]]
FilterToSchema(schema, config) == [k \in StyleKeys |-> IF k \in ActiveKeys(schema) THEN config[k] ELSE Unset]

-----------------------------------------------------------------------------
(* Buckets                                                                 *)

\* update_columns_configs: the columns given, each replaced as a whole.
Stripped(column, config) ==
    IF HasSchema
    THEN LET schema == ColumnSchema(column, config) IN StripDefaults(schema, FilterToSchema(schema, config))
    ELSE config
UpdateColumns(bucket, update) ==
    CASE update.kind = "default" -> [bucket EXCEPT !.columns = [c \in StyledColumns |-> NoStyle]]
      [] update.kind = "missing" -> bucket
      [] update.kind = "columns" ->
           [bucket EXCEPT !.columns = [c \in StyledColumns |->
               IF c \in DOMAIN update.columns THEN Stripped(c, update.columns[c]) ELSE @[c]]]
\* The bool it returns: whether the plugin has to be told.
ColumnsChanged(before, after) == before.columns # after.columns

\* update_columns_config_field: the keys of one field of one column.
UpdateColumnField(bucket, column, update) ==
    LET current == bucket.columns[column]
        value == IF HasSchema THEN StripDefaults(ColumnSchema(column, current), update.value) ELSE update.value
    IN  [bucket EXCEPT !.columns[column] = [k \in StyleKeys |-> IF k \in update.keys THEN value[k] ELSE current[k]]]

\* update_plugin_config, update_plugin_config_field
UpdatePlugin(bucket, plugin, edit) ==
    CASE edit = "missing" -> bucket
      [] edit = "default" -> [bucket EXCEPT !.edit = Unset]
      [] edit \notin {"missing", "default"} /\ "edit" \notin ActiveKeys(PluginSchema(plugin)) -> bucket
      [] OTHER -> [bucket EXCEPT !.edit = IF MatchesDefault(PluginSchema(plugin), "edit", edit) THEN Unset ELSE edit]
UpdatePluginField(bucket, edit) == [bucket EXCEPT !.edit = IF edit = "read" THEN Unset ELSE edit]

\* all_columns_configs_materialized: the columns whose largest value has to be
\* asked for, and the configs with the numbers that are always sent.
ToWarm(columns) ==
    {c \in visible \ stats : \E s \in ColumnSchema(c, columns[c]) :
        columns[c] # NoStyle /\ s.include /\ \E k \in s.keys : columns[c][k] = Unset}
Materialized(known, columns) ==
    [c \in StyledColumns |-> [k \in StyleKeys |->
        IF columns[c] # NoStyle /\ columns[c][k] = Unset /\ \E s \in SchemaWith(known, c, columns[c]) : s.include /\ k \in s.keys
        THEN NumberDefault(known, c) ELSE columns[c][k]]]

-----------------------------------------------------------------------------
(* Forms: what a field emits when it is changed                            *)

Update(keys, value) == [keys |-> keys, value |-> value]
Emit(key, value) == Update({key}, [NoStyle EXCEPT ![key] = value])
\* A choice that is the default is taken out of the config.
EnumUpdates(default) == {Emit("mode", IF v = default THEN Unset ELSE v) : v \in {"plain", "gradient"}}
\* A number that is always sent is written even when it is the default.
NumberUpdates(default) == {Emit("gradient", v) : v \in {default, "two"}}
\* Both colors are written, the one that was not touched as it is shown.
ColorRangeUpdates(current, default) ==
    LET seen(k) == IF current[k] = Unset THEN default ELSE current[k]
        put(v) == IF v = default THEN Unset ELSE v
        both(pos, neg) == Update({"pos", "neg"}, [NoStyle EXCEPT !["pos"] = put(pos), !["neg"] = put(neg)])
    IN  {both("c1", seen("neg")), both(seen("pos"), "c1"), Update({"pos", "neg"}, NoStyle)}

\* The fields of the style tab of a column.
FieldUpdates(column) ==
    LET current == buckets[chosen].columns[column]
        schema == ColumnSchema(column, current)
    IN  UNION {CASE s.kind = "Enum" -> EnumUpdates(s.default)
                 [] s.kind = "Number" -> NumberUpdates(s.default)
                 [] s.kind = "ColorRange" -> ColorRangeUpdates(current, s.default) : s \in schema}

-----------------------------------------------------------------------------
(* Behaviour                                                               *)

StylesInit ==
    /\ buckets = [p \in StylePlugins |-> EmptyBucket] /\ restored = buckets
    /\ chosen = CHOOSE p \in EditPlugins : TRUE
    /\ visible = {} /\ stats = {} /\ lookups = <<>> /\ pushes = {} /\ run = NoRun
    /\ raced = [p \in StylePlugins |-> FALSE] /\ styleActs = 0

Act == styleActs < MaxStyleActs /\ styleActs' = styleActs + 1

\* plugin.restore(): of the plugin that is active by now.  `old` tells whether
\* anybody wrote to its bucket after the snapshot was taken.
RestorePlugin(columns, edit, taken) ==
    /\ restored' = [restored EXCEPT ![chosen] = [columns |-> columns, edit |-> edit]]
    /\ raced' = [raced EXCEPT ![chosen] = buckets'[chosen] # taken]

\* Asks for what is missing of a snapshot and waits, or restores at once.
Push(kind, bucket) ==
    LET cold == ToWarm(bucket.columns)
        push == [id |-> styleActs', kind |-> kind, taken |-> bucket, plugin |-> chosen, cold |-> cold]
    IN  IF cold = {}
        THEN RestorePlugin(Materialized(stats, bucket.columns), bucket.edit, bucket) /\ UNCHANGED <<pushes, lookups>>
        ELSE /\ pushes' = pushes \cup {push}
             /\ lookups' = lookups \o SetToSeq({[id |-> styleActs', column |-> c] : c \in cold})
             /\ UNCHANGED <<restored, raced>>

\* send_column_config: the bucket is written at once, the plugin restored when
\* all numbers are there.
EditColumn ==
    /\ Act
    /\ \E c \in visible : \E update \in FieldUpdates(c) :
         /\ buckets' = [buckets EXCEPT ![chosen] = UpdateColumnField(@, c, update)]
         /\ Push("columns", buckets'[chosen])
    /\ UNCHANGED <<chosen, visible, stats, run>>

\* send_plugin_config from the plugin tab, set_edit_mode from the status bar.
EditPlugin ==
    /\ Act
    /\ \E edit \in {"read", "edit"} :
         /\ buckets' = [buckets EXCEPT ![chosen] =
                          IF chosen \in EditPlugins THEN UpdatePluginField(@, edit) ELSE UpdatePlugin(@, chosen, edit)]
         /\ IF buckets' # buckets THEN Push("plugin", buckets'[chosen]) ELSE UNCHANGED <<restored, raced, pushes, lookups>>
    /\ UNCHANGED <<chosen, visible, stats, run>>

\* The style tab is opened on a column.
OpenStyles ==
    /\ Act
    /\ \E c \in visible \ stats : lookups' = Append(lookups, [id |-> 0, column |-> c])
    /\ UNCHANGED <<buckets, restored, chosen, visible, stats, pushes, run, raced>>

\* A getMinMax() is answered: cached, and the task that waited for it goes on.
Warmed ==
    /\ lookups # <<>>
    /\ UNCHANGED <<buckets, chosen, visible, styleActs>>
    /\ LET r == Head(lookups) IN
         /\ lookups' = Tail(lookups)
         /\ stats' = stats \cup {r.column}
         /\ \/ /\ \E p \in pushes :
                    /\ p.id = r.id
                    /\ IF p.cold = {r.column}
                       THEN /\ pushes' = pushes \ {p}
                            /\ RestorePlugin(Materialized(stats \cup {r.column}, p.taken.columns),
                                             IF p.kind = "columns" THEN buckets[chosen].edit ELSE p.taken.edit, p.taken)
                            /\ run' = IF p.kind = "run" THEN NoRun ELSE run
                       ELSE /\ pushes' = (pushes \ {p}) \cup {[p EXCEPT !.cold = @ \ {r.column}]}
                            /\ UNCHANGED <<restored, raced, run>>
            \/ /\ \A p \in pushes : p.id # r.id
               /\ UNCHANGED <<pushes, restored, raced, run>>

\* restore() or a commit of the user: a locked run, which first swaps the
\* plugin and gives it its bucket as it is.
CommitPlugin ==
    /\ Act
    /\ run = NoRun
    /\ \E plugin \in StylePlugins, columns \in {{}, StyledColumns} \cup {{c} : c \in StyledColumns},
          update \in Given, edit \in {"missing", "default", "edit"} :
         /\ run' = [step |-> "bind", id |-> styleActs', swapped |-> plugin # chosen, columns |-> columns,
                    update |-> update, edit |-> edit]
         /\ chosen' = plugin
         /\ IF plugin # chosen
            THEN /\ restored' = [restored EXCEPT ![plugin] = buckets[plugin]]
                 /\ raced' = [raced EXCEPT ![plugin] = FALSE]
            ELSE UNCHANGED <<restored, raced>>
    /\ stats' = {}
    /\ UNCHANGED <<buckets, visible, lookups, pushes>>

\* The View is bound, then the buckets are updated under its schema.
Bound ==
    /\ run.step = "bind"
    /\ visible' = IF run.columns = {} THEN visible ELSE run.columns
    /\ run' = [run EXCEPT !.step = "update"]
    /\ UNCHANGED <<buckets, restored, chosen, stats, lookups, pushes, raced, styleActs>>
BindFails ==
    /\ run.step = "bind"
    /\ run' = NoRun
    /\ UNCHANGED <<buckets, restored, chosen, visible, stats, lookups, pushes, raced, styleActs>>
UpdateBuckets ==
    /\ run.step = "update"
    /\ LET before == buckets[chosen]
           after == UpdateColumns(UpdatePlugin(before, chosen, run.edit), run.update)
           changed == before.edit # after.edit \/ ColumnsChanged(before, after)
           cold == ToWarm(after.columns)
       IN  /\ buckets' = [buckets EXCEPT ![chosen] = after]
           /\ IF ~changed /\ ~run.swapped
              THEN run' = NoRun /\ UNCHANGED <<restored, raced, pushes, lookups>>
              ELSE IF cold = {}
              THEN /\ run' = NoRun
                   /\ RestorePlugin(Materialized(stats, after.columns), after.edit, after)
                   /\ UNCHANGED <<pushes, lookups>>
              ELSE /\ run' = [run EXCEPT !.step = "warm"]
                   /\ pushes' = pushes \cup {[id |-> run.id, kind |-> "run", taken |-> after, plugin |-> chosen, cold |-> cold]}
                   /\ lookups' = lookups \o SetToSeq({[id |-> run.id, column |-> c] : c \in cold})
                   /\ UNCHANGED <<restored, raced>>
    /\ UNCHANGED <<chosen, visible, stats, styleActs>>

StylesNext ==
    \/ EditColumn \/ EditPlugin \/ OpenStyles \/ Warmed
    \/ CommitPlugin \/ Bound \/ BindFails \/ UpdateBuckets
StylesSpec == StylesInit /\ [][StylesNext]_styleVars

-----------------------------------------------------------------------------
(* What is checked                                                         *)

\* What a plugin makes of a column config: the keys it declares, a number that
\* was never set being its own choice.
Effective(column, config) ==
    LET schema == ColumnSchema(column, config)
        default(k) == LET s == CHOOSE s \in schema : k \in s.keys IN IF s.include THEN "auto" ELSE s.default
    IN  [k \in ActiveKeys(schema) |-> IF config[k] = Unset THEN default(k) ELSE config[k]]

\* The styles of the columns in view come back: save() gives what is kept of
\* them, and restore() of it on a viewer without styles makes every plugin
\* draw the same (all_columns_configs, update_columns_configs).
SavedStylesComeBack ==
    HasSchema => \A p \in StylePlugins, c \in visible :
        Effective(c, Stripped(c, buckets[p].columns[c])) = Effective(c, buckets[p].columns[c])

\* With nothing in flight the active plugin was told of every change of its
\* bucket, unless it was restored from a snapshot somebody had overtaken
\* (locked_run, send_column_config, send_plugin_config, set_edit_mode).
ChangesArePushed ==
    run = NoRun /\ pushes = {} /\ ~raced[chosen] =>
        /\ restored[chosen].edit = buckets[chosen].edit
        /\ \A c \in StyledColumns, k \in StyleKeys :
             buckets[chosen].columns[c][k] # Unset \/ k # "gradient" =>
                 restored[chosen].columns[c][k] = buckets[chosen].columns[c][k]

\* By hand: nobody is ever overtaken.
NobodyIsOvertaken == \A p \in StylePlugins : ~raced[p]

\* What is kept of the styles, what is saved of them and what the plugins were
\* given are the same, whatever was changed while a push awaited.
StylesAgree == SavedStylesComeBack /\ ChangesArePushed
=============================================================================
