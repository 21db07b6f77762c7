------------------------------- MODULE Themes -------------------------------
(***************************************************************************)
(* The themes of a viewer (presentation.rs, tasks/update_theme.rs, the     *)
(* theme part of renderer.rs): a registry that is parsed once the document *)
(* has loaded, the `theme` attribute of the host, which follows the active *)
(* panel, and of every panel its own theme, the default that its draws     *)
(* fall back on, the attribute of its plugin and the theme that the plugin *)
(* read its colours from. Who asks for the registry before the document    *)
(* has loaded waits; after that no read of it suspends.                    *)
(***************************************************************************)
EXTENDS Integers, Sequences, TLC
LOCAL INSTANCE SequencesExt

CONSTANTS
    PanelCount,      \* panels 1..PanelCount, in the order of the workspace
    SheetThemes,     \* the rules that name themes: [name, matches], in order
    AuthoredThemes,  \* what the page wrote into the host's attribute
    Picks,           \* themes that are restored
    ThemeLists,      \* lists given to resetThemes; <<>> is what no argument becomes
    NoThemes,        \* the registry before it is parsed
    ThemeActs,       \* what the user and the page do
    MaxThemeActs     \* bound: how often

ASSUME ThemesAssumption == PanelCount \in Nat \ {0} /\ MaxThemeActs \in Nat

VARIABLES
    sheets,      \* the rules of the document's style sheets that name themes
    registry,    \* PresentationHandle.themes, parsed once the document has loaded
    host,        \* the `theme` attribute of the viewer
    frontPanel,     \* the active panel
    skin,        \* of each panel: [own, default, attr, captured, drawn, due, restored, stamped]
    spawned,     \* tasks that were spawned, in order, and not polled yet
    waiting,     \* tasks that wait for the registry
    rows,        \* loops over the panels, each awaiting the restyle of one
    restyling,   \* panels that a task will restyle
    chrome,      \* [available, selected, inbox]: the root's presentation_props
    missed,      \* how a panel or the host came to miss a change, see ThemesSettle
    themeActs    \* how often somebody acted

themeVars == <<sheets, registry, host, frontPanel, skin, spawned, waiting, rows, restyling, chrome, missed, themeActs>>

SkinPanels == 1..PanelCount
NoTheme == ""
Never == "never"      \* captured: no colours were read; stamped: nothing is drawn

\* The default of a list is its first theme.
FirstOf(list) == IF list = <<>> THEN NoTheme ELSE list[1]
InList(theme, list) == \E i \in DOMAIN list : list[i] = theme

\* get_theme_names: the themes of the rules that match the viewer, each once.
ThemeNames(rules) ==
    FoldLeft(LAMBDA list, rule : IF rule.matches /\ ~InList(rule.name, list) THEN Append(list, rule.name) ELSE list,
             <<>>, rules)

Parsed == registry # NoThemes

EffectiveOf(s) == IF s.own # NoTheme THEN s.own ELSE s.default
\* Mutant of NeedsRestyle: only a theme of its own makes a panel stale.
MutNeedsRestyle(s) == s.captured # Never /\ s.own # NoTheme /\ s.captured # s.own
NeedsRestyle(s) == s.captured # Never /\ s.captured # EffectiveOf(s)
StampTheme(s) == [s EXCEPT !.attr = EffectiveOf(s)]

\* A named theme can be stamped at once, the default when it is known.
SetThemeStamped(s, theme) ==
    LET t == [s EXCEPT !.own = theme]
    IN IF theme # NoTheme \/ s.default # NoTheme THEN StampTheme(t) ELSE t

\* restyle_all: nothing happens before a first draw.
Restyled(s) == IF s.drawn THEN [StampTheme(s) EXCEPT !.captured = EffectiveOf(s)] ELSE s

\* The host's attribute after get_selected_theme_name.
Selected(h, list) == IF InList(h, list) THEN h ELSE FirstOf(list)

Seen(s, h) == <<s[frontPanel].own, h>>

----------------------------------------------------------------------------
(* A page with a viewer: its first panel adopts the theme that was         *)
(* authored; the tasks of Presentation::init and of the root's creation    *)
(* wait.                                                                   *)
ThemesInit ==
    /\ sheets \in SheetThemes
    /\ registry = NoThemes
    /\ host \in AuthoredThemes
    /\ frontPanel = 1
    /\ skin = [p \in SkinPanels |-> [own |-> IF p = 1 THEN host ELSE NoTheme, default |-> NoTheme, attr |-> NoTheme,
                                     captured |-> Never, drawn |-> FALSE, due |-> FALSE, restored |-> FALSE, stamped |-> Never]]
    /\ spawned = <<>>
    /\ waiting = {[task |-> [kind |-> "root"], told |-> FALSE, saw |-> Seen(skin, host)]}
    /\ rows = {}
    /\ restyling = {}
    /\ chrome = [available |-> <<>>, selected |-> NoTheme, inbox |-> <<>>]
    /\ missed = {}
    /\ themeActs = 0

ThemeAct(kind) == kind \in ThemeActs /\ themeActs < MaxThemeActs /\ themeActs' = themeActs + 1
SpawnTheme(task) == spawned' = Append(spawned, task)

----------------------------------------------------------------------------
(* The user and the page. A gesture and an event of the document find      *)
(* every task polled; calls may follow each other in one turn.             *)

\* update_theme, of the status bar, which offers the themes that the root knows:
\* the active panel records the theme.
PickTheme ==
    /\ ThemeAct("pick")
    /\ spawned = <<>> /\ waiting = {} /\ chrome.inbox = <<>>
    /\ chrome.selected # NoTheme /\ Len(chrome.available) > 1
    /\ \E theme \in {chrome.available[i] : i \in DOMAIN chrome.available} \cup {NoTheme} :
          /\ skin' = [skin EXCEPT ![frontPanel] = SetThemeStamped(@, theme)]
          /\ SpawnTheme([kind |-> "pick", theme |-> theme])
    /\ UNCHANGED <<sheets, registry, host, frontPanel, waiting, rows, restyling, chrome, missed>>

\* retarget_active, when another panel is activated.
ActivatePanel ==
    /\ ThemeAct("activate")
    /\ frontPanel' \in SkinPanels \ {frontPanel}
    /\ SpawnTheme([kind |-> "activate"])
    /\ UNCHANGED <<sheets, registry, host, skin, waiting, rows, restyling, chrome, missed>>

\* restore() with a theme, or with null.
RestoreTheme ==
    /\ ThemeAct("restore")
    /\ \E p \in SkinPanels, theme \in Picks \cup {NoTheme} :
          SpawnTheme([kind |-> "restore", panel |-> p, theme |-> theme])
    /\ UNCHANGED <<sheets, registry, host, frontPanel, skin, waiting, rows, restyling, chrome, missed>>

\* resetThemes(), restyleElement() and reset().
CallThemes ==
    /\ \/ ThemeAct("resetThemes") /\ \E list \in ThemeLists : SpawnTheme([kind |-> "resetThemes", list |-> list])
       \/ ThemeAct("restyleElement") /\ SpawnTheme([kind |-> "restyleElement"])
       \/ ThemeAct("reset") /\ \E all \in BOOLEAN : SpawnTheme([kind |-> "reset", panel |-> frontPanel, all |-> all])
    /\ UNCHANGED <<sheets, registry, host, frontPanel, skin, waiting, rows, restyling, chrome, missed>>

\* A style sheet is added.
AddSheet ==
    /\ ThemeAct("sheet")
    /\ sheets' \in SheetThemes \ {sheets}
    /\ UNCHANGED <<registry, host, frontPanel, skin, spawned, waiting, rows, restyling, chrome, missed>>

\* A Table is updated and its panel is drawn again.
UpdateTable ==
    /\ ThemeAct("update")
    /\ \E p \in SkinPanels : skin[p].drawn /\ ~skin[p].due /\ skin' = [skin EXCEPT ![p].due = TRUE]
    /\ UNCHANGED <<sheets, registry, host, frontPanel, spawned, waiting, rows, restyling, chrome, missed>>

----------------------------------------------------------------------------
(* The loops of resetThemes and restyleElement take the panels in order,   *)
(* and await the restyle of each that needs one before they come to the    *)
(* next.                                                                   *)

LoopOver(list, default, always) == [at |-> 0, list |-> list, default |-> default, always |-> always]

\* A pin to a theme that is gone is cleared; restyleElement leaves the pins.
Reseeded(s, loop) ==
    [s EXCEPT !.own = IF loop.always \/ InList(@, loop.list) THEN @ ELSE NoTheme, !.default = loop.default]

Stops(s, loop) ==
    {p \in SkinPanels : p > loop.at /\ (loop.always \/ NeedsRestyle(Reseeded(s[p], loop)))}
Stop(s, loop) ==
    IF Stops(s, loop) = {} THEN PanelCount + 1 ELSE CHOOSE p \in Stops(s, loop) : \A q \in Stops(s, loop) : p <= q

\* The panels when the loop has come to where it stops next.
LoopedTo(s, loop, stop) ==
    [p \in SkinPanels |-> IF p > loop.at /\ p <= stop THEN Reseeded(s[p], loop) ELSE s[p]]

StillGoing(s, loop) == IF Stops(s, loop) = {} THEN {} ELSE {[loop EXCEPT !.at = Stop(s, loop)]}

\* The panel at which a loop waits is restyled, and the loop goes on.
LoopOn ==
    /\ \E loop \in rows :
          LET here == [skin EXCEPT ![loop.at] = Restyled(@)]
          IN /\ skin[loop.at].stamped = Never
             /\ skin' = LoopedTo(here, loop, Stop(here, loop))
             /\ rows' = (rows \ {loop}) \cup StillGoing(here, loop)
             /\ missed' = IF loop.at < PanelCount /\ loop.list # registry THEN missed \cup {"loop"} ELSE missed
    /\ UNCHANGED <<sheets, registry, host, frontPanel, spawned, waiting, restyling, chrome, themeActs>>

----------------------------------------------------------------------------
(* The tasks, after their reads of the registry.  A task finds the host's  *)
(* attribute h, and told says whether set_theme_name has just changed it.  *)

\* set_theme_name: what the host's attribute becomes, and whether that is told.
NameTheme(theme, list, h) ==
    IF theme = NoTheme THEN [host |-> FirstOf(list), told |-> TRUE]
    ELSE [host |-> theme, told |-> h # theme]

\* to_props, when theme_config_updated is emitted.
Props(list, h) == [available |-> list, selected |-> IF InList(h, list) THEN h ELSE NoTheme]

Settle(list, named) ==
    /\ registry' = list
    /\ host' = named.host
    /\ chrome' = IF named.told THEN [chrome EXCEPT !.inbox = Append(@, Props(list, named.host))] ELSE chrome

Seeded(s, list) == [p \in SkinPanels |-> [s[p] EXCEPT !.default = FirstOf(list)]]

\* The root fetches the list once when it is created.
FinishRoot(h) ==
    /\ Settle(registry, [host |-> h, told |-> TRUE])
    /\ UNCHANGED <<skin, restyling, rows>>

\* update_theme: every panel learns the default, and the stale ones are restyled.
FinishPick(task, s, h, told) ==
    /\ Settle(registry, IF task.theme # NoTheme THEN [host |-> h, told |-> told]
                         ELSE NameTheme(FirstOf(registry), registry, h))
    /\ skin' = Seeded(s, registry)
    /\ restyling' = restyling \cup {p \in SkinPanels : NeedsRestyle(Seeded(s, registry)[p])}
    /\ UNCHANGED rows

\* retarget_active: the host takes the theme of whichever panel is active now.
FinishActivate(s, h) ==
    LET own == s[frontPanel].own
        theme == IF own # NoTheme THEN own ELSE FirstOf(registry)
    IN /\ Settle(registry, IF theme = NoTheme THEN [host |-> h, told |-> FALSE] ELSE NameTheme(theme, registry, h))
       /\ skin' = s
       /\ UNCHANGED <<restyling, rows>>

\* restore_and_render: the host if the panel is active, then its default and a draw.
FinishRestore(task, s, h, told) ==
    /\ Settle(registry,
              IF task.active /\ task.theme = NoTheme /\ Selected(h, registry) # NoTheme
              THEN NameTheme(NoTheme, registry, h) ELSE [host |-> h, told |-> told])
    /\ skin' = [s EXCEPT ![task.panel].default = FirstOf(registry), ![task.panel].due = TRUE,
                       ![task.panel].restored = TRUE]
    /\ UNCHANGED <<restyling, rows>>

\* reset_all: the registry is forgotten and parsed again.
FinishReset(task, s, h) ==
    LET list == ThemeNames(sheets) IN
    /\ Settle(list, IF task.all THEN NameTheme(FirstOf(list), list, h) ELSE [host |-> h, told |-> FALSE])
    /\ skin' = [s EXCEPT ![task.panel] =
                   [@ EXCEPT !.own = IF task.all THEN NoTheme ELSE @, !.default = FirstOf(list), !.due = TRUE]]
    /\ UNCHANGED <<restyling, rows>>

\* resetThemes: the host keeps its theme if it is still there; without an
\* argument the list becomes empty.
FinishResetThemes(task, s, h) ==
    LET list == task.list
        theme == IF InList(Selected(h, registry), list) THEN Selected(h, registry) ELSE NoTheme
        loop == LoopOver(list, FirstOf(list), FALSE)
    IN /\ Settle(list, NameTheme(theme, list, h))
       /\ skin' = LoopedTo(s, loop, Stop(s, loop))
       /\ rows' = rows \cup StillGoing(s, loop)
       /\ UNCHANGED restyling

FinishRestyleElement(s, h) ==
    LET loop == LoopOver(registry, FirstOf(registry), TRUE)
    IN /\ Settle(registry, [host |-> h, told |-> FALSE])
       /\ skin' = LoopedTo(s, loop, Stop(s, loop))
       /\ rows' = rows \cup StillGoing(s, loop)
       /\ UNCHANGED restyling

Finish(task, s, h, told) ==
    \/ task.kind = "root" /\ FinishRoot(h)
    \/ task.kind = "pick" /\ FinishPick(task, s, h, told)
    \/ task.kind = "activate" /\ FinishActivate(s, h)
    \/ task.kind = "restore" /\ FinishRestore(task, s, h, told)
    \/ task.kind = "reset" /\ FinishReset(task, s, h)
    \/ task.kind = "resetThemes" /\ FinishResetThemes(task, s, h)
    \/ task.kind = "restyleElement" /\ FinishRestyleElement(s, h)

\* The list changes and the root is not told; a task that waited sets the host's
\* theme, and somebody set it or the active panel's in the meantime, or the task
\* resets another panel than the active one; or the host has a theme that is not
\* in the list.
Unlisted(theme, list) == theme # NoTheme /\ ~InList(theme, list)
Misses(late) ==
    missed' = missed \cup {m \in {"told", "late", "unlisted"} :
                            \/ m = "told" /\ registry' # registry /\ chrome' = chrome
                            \/ m = "late" /\ late /\ host' # host
                            \/ m = "unlisted" /\ Unlisted(host', registry')}

----------------------------------------------------------------------------
\* A spawned task runs up to its read of the registry: a theme that is named
\* is stamped before (set_theme_name, restore_panel).
PollTask ==
    /\ spawned # <<>>
    /\ spawned' = Tail(spawned)
    /\ LET first == Head(spawned)
           task == IF first.kind = "restore" THEN first @@ [active |-> first.panel = frontPanel] ELSE first
           writes == \/ task.kind = "pick" /\ task.theme # NoTheme
                     \/ task.kind = "restore" /\ task.active /\ task.theme # NoTheme
           h == IF writes THEN task.theme ELSE host
           s == IF task.kind = "restore" THEN [skin EXCEPT ![task.panel] = SetThemeStamped(@, task.theme)] ELSE skin
       IN IF Parsed
          THEN Finish(task, s, h, h # host) /\ Misses(FALSE) /\ UNCHANGED waiting
          ELSE /\ waiting' = waiting \cup {[task |-> task, told |-> h # host, saw |-> Seen(s, h)]}
               /\ host' = h
               /\ skin' = s
               /\ UNCHANGED <<registry, chrome, restyling, rows, missed>>
    /\ UNCHANGED <<sheets, frontPanel, themeActs>>

\* The registry is there, and a task that waits for it goes on.
ResumeTask ==
    /\ Parsed
    /\ \E w \in waiting :
          /\ waiting' = waiting \ {w}
          /\ Finish(w.task, skin, host, w.told)
          /\ Misses(\/ Seen(skin, host) # w.saw
                    \/ w.task.kind = "reset" /\ w.task.panel # frontPanel)
    /\ UNCHANGED <<sheets, frontPanel, spawned, themeActs>>

\* Presentation::init holds the registry's lock until the document has loaded:
\* it parses the list and writes the host's attribute, and tells nobody.
InitThemes ==
    /\ ~Parsed /\ spawned = <<>>
    /\ registry' = ThemeNames(sheets)
    /\ host' = Selected(host, ThemeNames(sheets))
    /\ missed' = IF Unlisted(host, ThemeNames(sheets)) THEN missed \cup {"unlisted"} ELSE missed
    /\ UNCHANGED <<sheets, frontPanel, skin, spawned, waiting, rows, restyling, chrome, themeActs>>

\* on_update_presentation: the root pushes a default that it had not heard of.
RootHears ==
    /\ chrome.inbox # <<>>
    /\ LET props == Head(chrome.inbox)
           changed == FirstOf(props.available) # FirstOf(chrome.available)
           seeded == IF changed THEN Seeded(skin, props.available) ELSE skin
       IN /\ chrome' = [available |-> props.available, selected |-> props.selected, inbox |-> Tail(chrome.inbox)]
          /\ skin' = seeded
          /\ restyling' = IF changed THEN restyling \cup {p \in SkinPanels : NeedsRestyle(seeded[p])} ELSE restyling
    /\ UNCHANGED <<sheets, registry, host, frontPanel, spawned, waiting, rows, missed, themeActs>>

\* A task restyles a panel that nobody is drawing.
RestylePanel ==
    /\ \E p \in restyling :
          /\ skin[p].stamped = Never
          /\ skin' = [skin EXCEPT ![p] = Restyled(@)]
          /\ restyling' = restyling \ {p}
    /\ UNCHANGED <<sheets, registry, host, frontPanel, spawned, waiting, rows, chrome, missed, themeActs>>

\* load(): the default is read under the draw lock, and a first draw is due.
LoadPanel ==
    /\ Parsed
    /\ \E p \in SkinPanels :
          /\ ~skin[p].drawn /\ ~skin[p].due /\ skin[p].stamped = Never
          /\ skin' = [skin EXCEPT ![p] = StampTheme([@ EXCEPT !.default = FirstOf(registry), !.due = TRUE])]
    /\ UNCHANGED <<sheets, registry, host, frontPanel, spawned, waiting, rows, restyling, chrome, missed, themeActs>>

\* draw_view, up to the plugin's own draw.
BeginDraw ==
    /\ \E p \in SkinPanels :
          /\ skin[p].due /\ skin[p].stamped = Never
          /\ skin' = [skin EXCEPT ![p] = [StampTheme(@) EXCEPT
                        !.captured = IF NeedsRestyle(skin[p]) THEN EffectiveOf(skin[p]) ELSE @,
                        !.stamped = EffectiveOf(skin[p]), !.due = FALSE]]
    /\ UNCHANGED <<sheets, registry, host, frontPanel, spawned, waiting, rows, restyling, chrome, missed, themeActs>>

\* ... and after it.  A restore restyles its panel if it is stale by now.
EndDraw ==
    /\ \E p \in SkinPanels :
          /\ skin[p].stamped # Never
          /\ LET s == [skin[p] EXCEPT !.drawn = TRUE, !.stamped = Never, !.restored = FALSE,
                                      !.captured = IF skin[p].drawn THEN @ ELSE skin[p].stamped]
             IN /\ skin' = [skin EXCEPT ![p] = s]
                /\ restyling' = IF skin[p].restored /\ NeedsRestyle(s) THEN restyling \cup {p} ELSE restyling
                /\ missed' = IF ~skin[p].drawn /\ {s.attr, EffectiveOf(s)} # {s.captured} THEN missed \cup {"first"} ELSE missed
    /\ UNCHANGED <<sheets, registry, host, frontPanel, spawned, waiting, rows, chrome, themeActs>>

----------------------------------------------------------------------------
ThemesNext ==
    \/ PickTheme \/ ActivatePanel \/ RestoreTheme \/ CallThemes \/ AddSheet \/ UpdateTable
    \/ LoopOn \/ PollTask \/ ResumeTask \/ InitThemes \/ RootHears \/ RestylePanel
    \/ LoadPanel \/ BeginDraw \/ EndDraw

ThemesRest ==
    /\ Parsed /\ spawned = <<>> /\ waiting = {} /\ rows = {} /\ restyling = {} /\ chrome.inbox = <<>>
    /\ \A p \in SkinPanels : ~skin[p].due /\ skin[p].stamped = Never

(* Once every task has ended, each drawn panel carries its theme, read its *)
(* colours from it and falls back on the default that the registry has     *)
(* now, the host has the active panel's theme, and the status bar offers   *)
(* what there is, whatever order the picks, restores, resets and draws     *)
(* came in ("never inferred from which call site mutated a theme record",  *)
(* renderer.rs) -- unless a theme changed under a first draw (first), a    *)
(* list changed without theme_config_updated (told), a task wrote the      *)
(* host's theme over a later one (late), or the loop of an older           *)
(* resetThemes went on after a newer one (loop), or the host was given a   *)
(* theme that is not in the list (unlisted).                               *)
ThemesSettle ==
    ThemesRest /\ missed = {} /\ registry # <<>> =>
      /\ \A p \in SkinPanels : skin[p].drawn =>
            {skin[p].attr, skin[p].captured} = {EffectiveOf(skin[p])} /\ skin[p].default = FirstOf(registry)
      /\ host = IF skin[frontPanel].own # NoTheme THEN skin[frontPanel].own ELSE FirstOf(registry)
      /\ chrome.available = registry
      /\ chrome.selected = IF InList(host, registry) THEN host ELSE NoTheme
=============================================================================
