------------------------------ MODULE MCParts ------------------------------
(***************************************************************************)
(* The parts of the viewer around a panel, each in a run of its own: which *)
(* one is chosen at the start, and the others stand still.                 *)
(***************************************************************************)
EXTENDS Workspace, ViewEdit, Dropdowns, Editors, WindowEdit, PluginStyles, Agent, Geometry, Themes, Markdown

VARIABLE part

partVars == <<part, workspaceVars, editVars, dropVars, editorsVars, windowVars, styleVars, agentVars, geoVars, themeVars, markdownVars>>

Columns3 == <<"a", "b", "c">>
Kinds ==
    {[names |-> 0, min |-> 0, mode |-> "toggle", total |-> TRUE],
     [names |-> 3, min |-> 2, mode |-> "toggle", total |-> FALSE],
     [names |-> 3, min |-> 0, mode |-> "select", total |-> TRUE],
     [names |-> 2, min |-> 1, mode |-> "toggle", total |-> TRUE]}
Values == [c |-> <<"c1", "c2">>, d |-> <<"d1">>]
Choices == <<"c", "d">>
NewNames == <<"n1", "n2", "n3", "n4", "n5", "n6">>
Tables == {[i |-> "integer", s |-> "string"], [i |-> "string"]}
Sum == [name |-> "sum", frames |-> {"Rows", "Range", "Cumulative"}, first |-> "Rows", offset |-> FALSE, alpha |-> FALSE]
Lag == [name |-> "lag", frames |-> {}, first |-> "", offset |-> TRUE, alpha |-> FALSE]
Ema == [name |-> "ema", frames |-> {"Rows"}, first |-> "Rows", offset |-> FALSE, alpha |-> TRUE]
WindowAggregates == [integer |-> <<Sum, Lag, Ema>>, string |-> <<Lag>>]

Style(mode, gradient, pos, neg) == [mode |-> mode, gradient |-> gradient, pos |-> pos, neg |-> neg]
StyleUpdates ==
    {[kind |-> "missing"], [kind |-> "default"],
     [kind |-> "columns", columns |-> [x |-> Style("gradient", "unset", "c0", "c1")]],
     [kind |-> "columns", columns |-> [x |-> Style("unset", "two", "unset", "unset"),
                                       y |-> Style("gradient", "largest", "unset", "unset")]]}

Call(tool, target, setting) == [name |-> tool, panel |-> target, config |-> setting]
AgentSetups ==
    {[role |-> "system", grants |-> {"read_view", "configure_view", "manage_layout", "read_docs"}, docs |-> TRUE],
     [role |-> "user", grants |-> {"configure_view", "manage_layout"}, docs |-> FALSE]}
ModelReplies ==
    {<<Call("search_docs", 0, "a"), Call("set_view_config", 0, "failing")>>,
     <<Call("add_panel", 0, "failing"), Call("add_panel", 0, "invalid")>>,
     <<Call("set_view_config", 1, "invalid"), Call("remove_panel", 2, "a")>>,
     <<Call("add_panel", 0, "b"), Call("activate_panel", 2, "a")>>}

PointersMoved == {30, -30}

Rule(name, matches) == [name |-> name, matches |-> matches]
RulesOfSheets ==
    {<<Rule("light", TRUE), Rule("dark", TRUE)>>,
     <<Rule("dark", FALSE), Rule("light", TRUE), Rule("light", TRUE), Rule("dark", TRUE), Rule("green", TRUE)>>}
ListsGiven == {<<>>, <<"dark", "light">>, <<"dark">>}

Tokens(S) == {<<t>> : t \in S}
RepliesMixed ==
    {{<<"w", "nl">>, <<"-", " ">>, <<" ", " ">>, <<"1", ".", " ">>, <<"#", " ">>, <<"nl">>},
     {<<"w", "nl">>, <<"nl">>, <<">", " ">>, <<"tick", "tick", "tick">>, <<" ", " ", " ", " ">>},
     {<<"w", "|", "nl">>, <<"-", "|", "nl">>, <<"w", "|">>, <<"nl">>, <<"tick">>},
     Tokens({"w", "*", "_", "tick"}),
     Tokens({"w", "[", "!", "*"}) \cup {<<"]", "(u)">>},
     Tokens({"w", "nl", " ", "-"}) \cup {<<"~", "~">>, <<"*", "*">>}}

AnyOf(S) == CHOOSE x \in S : TRUE

\* A part that stands still starts from one of its initial states only.
PartsInit ==
    /\ part \in {"workspace", "edit", "dropdowns", "editors", "windows", "styles", "agent", "geometry", "themes", "markdown"}
    /\ part # "edit" => plugin = AnyOf(PluginKinds)
    /\ part # "geometry" => staging = {}
    /\ part # "windows" => schema = AnyOf(Schemas)
    /\ part # "themes" => sheets = AnyOf(SheetThemes) /\ host = AnyOf(AuthoredThemes)
    /\ part # "markdown" => alphabet = AnyOf(Alphabets)
    /\ WorkspaceInit /\ EditInit /\ DropInit /\ EditorsInit /\ WindowInit /\ StylesInit /\ AgentInit /\ GeoInit /\ ThemesInit /\ MarkdownInit
    /\ part # "geometry" => settingsPane.open
    /\ part # "dropdowns" => \A i \in DOMAIN filters : filters[i].column = AnyOf(FilterColumns)
    /\ part # "editors" => written.exprs = <<>>

PartsNext ==
    /\ UNCHANGED part
    /\ \/ /\ part = "workspace" /\ WorkspaceNext
          /\ UNCHANGED <<editVars, dropVars, editorsVars, windowVars, styleVars, agentVars, geoVars, themeVars, markdownVars>>
       \/ /\ part = "edit" /\ EditNext
          /\ UNCHANGED <<workspaceVars, dropVars, editorsVars, windowVars, styleVars, agentVars, geoVars, themeVars, markdownVars>>
       \/ /\ part = "dropdowns" /\ DropNext
          /\ UNCHANGED <<workspaceVars, editVars, editorsVars, windowVars, styleVars, agentVars, geoVars, themeVars, markdownVars>>
       \/ /\ part = "editors" /\ EditorsNext
          /\ UNCHANGED <<workspaceVars, editVars, dropVars, windowVars, styleVars, agentVars, geoVars, themeVars, markdownVars>>
       \/ /\ part = "windows" /\ WindowNext
          /\ UNCHANGED <<workspaceVars, editVars, dropVars, editorsVars, styleVars, agentVars, geoVars, themeVars, markdownVars>>
       \/ /\ part = "styles" /\ StylesNext
          /\ UNCHANGED <<workspaceVars, editVars, dropVars, editorsVars, windowVars, agentVars, geoVars, themeVars, markdownVars>>
       \/ /\ part = "agent" /\ AgentNext
          /\ UNCHANGED <<workspaceVars, editVars, dropVars, editorsVars, windowVars, styleVars, geoVars, themeVars, markdownVars>>
       \/ /\ part = "geometry" /\ GeoNext
          /\ UNCHANGED <<workspaceVars, editVars, dropVars, editorsVars, windowVars, styleVars, agentVars, themeVars, markdownVars>>
       \/ /\ part = "themes" /\ ThemesNext
          /\ UNCHANGED <<workspaceVars, editVars, dropVars, editorsVars, windowVars, styleVars, agentVars, geoVars, markdownVars>>
       \/ /\ part = "markdown" /\ MarkdownNext
          /\ UNCHANGED <<workspaceVars, editVars, dropVars, editorsVars, windowVars, styleVars, agentVars, geoVars, themeVars>>

PartsSpec == PartsInit /\ [][PartsNext]_partVars
=============================================================================
