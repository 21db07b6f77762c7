----------------------------- MODULE MCBackend -----------------------------
(***************************************************************************)
(* The parts beside the engine: the virtual server, the SQL it writes, the *)
(* slices it answers with, the Python bindings and the JavaScript ones.    *)
(* Which one is chosen at the start, and the others stand still.           *)
(***************************************************************************)
EXTENDS VirtualServer, SqlView, VirtualData, Bindings, JsHandles, TLC

VARIABLE part

allVars == <<part, virtualVars, sqlVars, dataVars, bindingVars, jsVars>>

ViewTables == [u |-> "s", v |-> "t", w |-> "t"]
ServerHosts == {[serial |-> FALSE, unordered |-> FALSE],
                [serial |-> FALSE, unordered |-> TRUE],
                [serial |-> TRUE, unordered |-> FALSE]}

\* Three rows; values of the groups g and h, the split s and the column x.
SqlRows == [g : {1, 2}, h : {0, 1, 2}, s : {1, 2}, x : {1, 3}]
SqlSources == {<<a, b, c>> : a \in {r \in SqlRows : r.g = 1 /\ r.s = 1},
                             b \in {r \in SqlRows : r.x = 1}, c \in {r \in SqlRows : r.x = 3}}
Cfg(group, split, sort, filter, mode, roll) ==
    [group |-> group, split |-> split, columns |-> <<"x">>, sort |-> sort,
     filter |-> filter, mode |-> mode, splitRollup |-> roll]
Asc(c) == <<[column |-> c, dir |-> "asc"]>>
Desc(c) == <<[column |-> c, dir |-> "desc"]>>
SqlViews == {
    Cfg(<<"g", "h">>, <<>>, Desc("x"), {}, "rollup", FALSE),
    Cfg(<<"g", "h">>, <<"s">>, Asc("x"), {}, "rollup", TRUE),
    Cfg(<<"h">>, <<"s">>, <<[column |-> "x", dir |-> "col desc"]>>, {}, "rollup", FALSE),
    Cfg(<<"g", "h">>, <<>>, Asc("x"), {[column |-> "h", op |-> "!=", term |-> 1]}, "flat", FALSE),
    Cfg(<<>>, <<"s">>, Desc("h"), {}, "rollup", TRUE),
    Cfg(<<>>, <<>>, <<>>, {[column |-> "h", op |-> "==", term |-> 0]}, "total", FALSE)}
SqlAggregates == [x |-> "sum", h |-> "max"]

\* Pages without groups, flat ones, and rollups of one and two levels.
CellsOfType == [boolean |-> {TRUE, FALSE}, string |-> {"s", "t"}, float |-> {3, 7},
                integer |-> {1, 9}, datetime |-> {0, 12, 16}, date |-> {2, 5}]
PageRow(gid, path) == [gid |-> gid, path |-> path]
Skeletons(x, y) ==
    {[levels |-> 0, flat |-> FALSE, rows |-> [r \in 1..3 |-> PageRow(0, <<>>)]],
     [levels |-> 1, flat |-> TRUE, rows |-> <<PageRow(0, <<x>>), PageRow(0, <<Nothing>>)>>],
     [levels |-> 1, flat |-> FALSE,
      rows |-> <<PageRow(1, <<Nothing>>), PageRow(0, <<x>>), PageRow(0, <<y>>)>>],
     [levels |-> 2, flat |-> FALSE,
      rows |-> <<PageRow(3, <<Nothing, Nothing>>), PageRow(1, <<x, Nothing>>),
                 PageRow(0, <<x, y>>), PageRow(0, <<x, Nothing>>)>>]}
Filled(k, type, f) ==
    [levels |-> k.levels, flat |-> k.flat, type |-> type,
     rows |-> [r \in DOMAIN k.rows |-> [gid |-> k.rows[r].gid, path |-> k.rows[r].path,
                                        value |-> f[IF r > 2 THEN 2 ELSE r]]]]
ModelPages ==
    [t \in DOMAIN CellsOfType |->
        UNION {{Filled(k, t, f) : f \in [1..2 -> CellsOfType[t] \cup {Nothing}]} :
               k \in UNION {Skeletons(x, y) : x, y \in CellsOfType[t]}}]

\* Programs of a few calls each.
Programs ==
    {{"read", "delete", "onUpdate", "update"}, {"onDelete", "openView", "delete"}, {"typed", "openView", "delete"},
     {"onUpdate", "update", "remove"}, {"local", "getClient", "clear", "view", "delete"},
     {"table", "join", "onHosted", "remove"}, {"open", "names", "delete", "join"}, {"forward", "session", "delete"},
     {"onError", "update", "onUpdate"}, {"terminate", "update", "replace"}}

AnyOf(S) == CHOOSE x \in S : TRUE
SameThreads == Permutations(Threads)

\* A part that stands still starts from one of its initial states only.
BackendInit ==
    /\ part \in {"virtual", "sql", "data", "bindings", "handles"}
    /\ part # "virtual" => host = AnyOf(Hosts)
    /\ part # "data" => hostLanguage = "arrow" /\ page = AnyOf(SlicePages["string"])
    /\ part # "sql" => source = AnyOf(Sources) /\ shape = AnyOf(SqlConfigs)
    /\ part # "bindings" => onPoll = FALSE /\ closable = {}
    /\ part # "handles" => jsProgram = AnyOf(JsPrograms)
    /\ VirtualInit /\ DataInit /\ SqlInit /\ BindingsInit /\ JsInit

BackendNext ==
    /\ UNCHANGED part
    /\ \/ part = "virtual" /\ VirtualNext /\ UNCHANGED <<sqlVars, dataVars, bindingVars, jsVars>>
       \/ part = "sql" /\ SqlNext /\ UNCHANGED <<virtualVars, dataVars, bindingVars, jsVars>>
       \/ part = "data" /\ DataNext /\ UNCHANGED <<virtualVars, sqlVars, bindingVars, jsVars>>
       \/ part = "bindings" /\ BindingsNext /\ UNCHANGED <<virtualVars, sqlVars, dataVars, jsVars>>
       \/ part = "handles" /\ JsNext /\ UNCHANGED <<virtualVars, sqlVars, dataVars, bindingVars>>

BackendSpec == BackendInit /\ [][BackendNext]_allVars
============================================================================
