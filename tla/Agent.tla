-------------------------------- MODULE Agent --------------------------------
(***************************************************************************)
(* The embedded LLM agent of the viewer (agent/*.rs): one conversation,    *)
(* whose turns ask a model, run the tools it calls against the panels of   *)
(* the viewer and ask again, while the user stops, resets or reconfigures  *)
(* the agent and changes the panels by hand.                               *)
(*                                                                         *)
(* Everything runs on one event loop: an action is what happens between    *)
(* two awaits. A turn that is stopped is dropped at the await it is at,    *)
(* but the restore or addPanel it had started is a promise of the viewer   *)
(* and goes on without it.                                                 *)
(***************************************************************************)
EXTENDS Naturals, Sequences, FiniteSets
LOCAL INSTANCE SequencesExt

CONSTANTS
    AgentPanels,     \* the ids a panel can have, naturals from 1
    PanelConfigs,    \* the configs a tool or the user can give a panel
    FailingConfigs,  \* those of them the engine rejects after the commit
    InvalidConfigs,  \* those of them the viewer rejects before the commit
    Setups,          \* what an agent can be configured with: [role, grants, docs]:
                     \* where the preamble goes, which entitlements there are, and
                     \* whether the documentation can be read
    Replies,         \* the sequences of tool calls a model can answer with
    MaxModelTurns,   \* maxTurns of the configuration
    MaxEvents        \* bound: configurations, prompts and acts of the user

Absent == "absent"

\* A model that answers with tool calls calls at least one.
ToolCalls == [name : STRING, panel : Nat, config : PanelConfigs]
ASSUME AgentAssumption ==
    /\ AgentPanels \subseteq Nat \ {0} /\ 1 \in AgentPanels
    /\ PanelConfigs \ (FailingConfigs \cup InvalidConfigs) # {} /\ Absent \notin PanelConfigs
    /\ \A setup \in Setups : setup.role \in {"system", "user"}
    /\ Replies \subseteq Seq(ToolCalls) \ {<<>>}
    /\ MaxModelTurns \in Nat \ {0} /\ MaxEvents \in Nat

VARIABLES
    runtimes,     \* what agentConfig() was given, the last one is installed
    history,      \* runtime -> the messages its next turn starts with
    docs,         \* runtime -> whether its documentation was read
    transcript,   \* what the chat panel shows
    tail,         \* whether the chat panel shows an answer that streams in
    turn,         \* the turn in flight, NoTurn when the agent is not busy
    abortable,    \* whether the slot holds the abort handle of that turn
    resetting,    \* the runtimes whose reset waits for their history
    configOf,     \* panel -> its config, Absent without a panel
    activePanel,  \* the active panel, 0 without panels
    promises,     \* the calls of tools into the viewer that have not ended
    prompts, userActions   \* how many there were

agentVars == <<runtimes, history, docs, transcript, tail, turn, abortable, resetting, configOf, activePanel,
               promises, prompts, userActions>>

NoTurn == [phase |-> "none"]
\* What the turn knows of the tool it runs, and (touched, found) what the panels
\* were like when it was called, if nobody else changed them since.
NoTool == [step |-> "none", snapshot |-> Absent, panels |-> {}, touched |-> FALSE, found |-> <<>>]
Installed == Len(runtimes)
Events == Installed + prompts + userActions
OpenPanels == {p \in AgentPanels : configOf[p] # Absent}

-----------------------------------------------------------------------------
(* Messages and the conversation                                           *)

ChatMessage(role, text, calls, preamble) ==
    [role |-> role, text |-> text, calls |-> calls, preamble |-> preamble, failed |-> FALSE]
Preamble == ChatMessage("system", 0, <<>>, TRUE)
UserMessage(n, preamble) == ChatMessage("user", n, <<>>, preamble)
AssistantMessage(calls) == ChatMessage("assistant", 0, calls, FALSE)
ToolMessage(k, ok) == [ChatMessage("tool", k, <<>>, FALSE) EXCEPT !.failed = ~ok]

Entry(kind, n) == [kind |-> kind, n |-> n]

\* The messages a turn starts with: the preamble is a message of its own, or
\* it is folded into the first message of the user.
StartMessages(role, past, n) ==
    (IF role = "system" THEN <<Preamble>> ELSE <<>>)
    \o past \o <<UserMessage(n, role = "user" /\ past = <<>>)>>

\* What is sent: the last request of the budget asks for a summary.
RequestMessages(t) ==
    IF t.number = MaxModelTurns /\ MaxModelTurns > 1
    THEN t.messages \o <<ChatMessage(t.role, "nudge", <<>>, FALSE)>>
    ELSE t.messages

MutKept(t) == t.messages
\* What the runtime keeps of a turn that ended: everything but the preamble
\* that is a message of its own.
Kept(t) == IF t.role = "system" THEN Tail(t.messages) ELSE t.messages

-----------------------------------------------------------------------------
(* A streamed answer: fragments of its tool calls, by index                *)

\* ChunkAccumulator::push
Accumulate(calls, fragment) ==
    LET blank == [k \in 1..fragment.index |-> [id |-> 0, call |-> "none", arguments |-> FALSE]]
        room == IF Len(calls) < fragment.index
                THEN calls \o SubSeq(blank, Len(calls) + 1, fragment.index) ELSE calls
    IN  IF fragment.head
        THEN [room EXCEPT ![fragment.index].id = fragment.index, ![fragment.index].call = fragment.call]
        ELSE [room EXCEPT ![fragment.index].arguments = TRUE]

\* The orders in which a model can stream an answer: call by call, or the
\* heads of all calls before their arguments.
StreamsOf(reply) ==
    LET head(k) == [index |-> k, head |-> TRUE, call |-> reply[k]]
        rest(k) == [index |-> k, head |-> FALSE, call |-> reply[k]]
        n == Len(reply)
    IN  {[i \in 1..(2 * n) |-> IF i % 2 = 1 THEN head((i + 1) \div 2) ELSE rest(i \div 2)],
         [i \in 1..(2 * n) |-> IF i <= n THEN head(i) ELSE rest(i - n)]}

\* stream_sse, engine_completion: every chunk up to the end of the stream.
Streamed(fragments) == FoldLeft(Accumulate, <<>>, fragments)

-----------------------------------------------------------------------------
(* Tools                                                                   *)

ViewReaders == {"get_schema", "get_view_config"}
ViewWriters == {"set_view_config"}
PanelReaders == {"list_plugins", "validate_expression", "get_style_schema", "list_panels"}
LayoutTools == {"add_panel", "remove_panel", "activate_panel"}
DocsTools == {"search_docs"}

EntitlementOf(name) ==
    CASE name \in ViewReaders \cup PanelReaders -> "read_view"
      [] name \in ViewWriters -> "configure_view"
      [] name \in LayoutTools -> "manage_layout"
      [] name \in DocsTools -> "read_docs"
      [] OTHER -> "none"
Granted(name, grants) == EntitlementOf(name) \in grants

\* The panel a tool means: by name, or the active one.
AgentPanel(target) == IF target = 0 THEN activePanel ELSE target
KnownPanel(target) == AgentPanel(target) \in OpenPanels

\* The tools that only read: whether they answer or fail.  The engine can fail
\* any of the reads it is asked for.
ToolGetSchema(target) == {FALSE, KnownPanel(target)}
ToolGetViewConfig(target) == {KnownPanel(target)}
ToolListPlugins == {KnownPanel(0)}
ToolValidateExpression(target) == {FALSE, KnownPanel(target)}
ToolListPanels == {TRUE}
ToolGetStyleSchema(target) == {KnownPanel(target)}
ToolSearchDocs(runtime) == {runtimes[runtime].docs}

ReadOutcomes(call, runtime) ==
    CASE call.name = "get_schema" -> ToolGetSchema(call.panel)
      [] call.name = "get_view_config" -> ToolGetViewConfig(call.panel)
      [] call.name = "list_plugins" -> ToolListPlugins
      [] call.name = "validate_expression" -> ToolValidateExpression(call.panel)
      [] call.name = "list_panels" -> ToolListPanels
      [] call.name = "get_style_schema" -> ToolGetStyleSchema(call.panel)
      [] call.name = "search_docs" -> ToolSearchDocs(runtime)

-----------------------------------------------------------------------------
(* The slot                                                                *)

AgentInit ==
    /\ runtimes = <<>> /\ history = <<>> /\ docs = <<>>
    /\ transcript = <<>> /\ tail = FALSE
    /\ turn = NoTurn /\ abortable = FALSE /\ resetting = {}
    /\ configOf = [p \in AgentPanels |-> IF p = 1 THEN CHOOSE c \in PanelConfigs \ (FailingConfigs \cup InvalidConfigs) : TRUE
                                         ELSE Absent]
    /\ activePanel = 1
    /\ promises = {} /\ prompts = 0 /\ userActions = 0

viewerVars == <<configOf, activePanel, promises, userActions>>

\* abort_in_flight: the handle is taken, the task is dropped when it is polled.
AbortInFlight(t) == IF abortable THEN [t EXCEPT !.aborted = TRUE] ELSE t

\* agentConfig() with `url` or `engine`.
Configure ==
    /\ Events < MaxEvents
    /\ \E setup \in Setups : runtimes' = Append(runtimes, setup)
    /\ history' = Append(history, <<>>) /\ docs' = Append(docs, FALSE)
    /\ turn' = AbortInFlight(turn) /\ abortable' = FALSE
    /\ transcript' = <<>> /\ tail' = FALSE
    /\ UNCHANGED <<resetting, viewerVars, prompts>>

\* agentPrompt(), or Enter in the chat panel, which keeps the draft while the
\* agent is busy.  A reset that waits is resumed before a prompt can start.
Prompt ==
    /\ Installed # 0
    /\ turn = NoTurn /\ resetting = {}
    /\ Events < MaxEvents /\ prompts' = prompts + 1
    /\ abortable' = TRUE
    /\ transcript' = Append(transcript, Entry("user", prompts'))
    /\ turn' = [phase |-> "docs", runtime |-> Installed, prompt |-> prompts', number |-> 1, messages |-> <<>>,
                calls |-> <<>>, role |-> runtimes[Installed].role, aborted |-> FALSE, tool |-> NoTool]
    /\ UNCHANGED <<runtimes, history, docs, tail, resetting, viewerVars>>

\* The end of run_prompt: what is written of the turn.
EndTurn(kind) ==
    /\ turn' = NoTurn /\ abortable' = FALSE /\ tail' = FALSE
    /\ transcript' = Append(transcript, Entry(kind, 0))

StopTurn ==
    /\ abortable /\ ~turn.aborted
    /\ turn' = AbortInFlight(turn) /\ abortable' = FALSE
    /\ UNCHANGED <<runtimes, history, docs, transcript, tail, resetting, viewerVars, prompts>>

\* The dropped turn lets go of its history; tools it started go on.
Aborted ==
    /\ turn # NoTurn /\ turn.aborted
    /\ EndTurn("stopped")
    /\ UNCHANGED <<runtimes, history, docs, resetting, viewerVars, prompts>>

\* agentReset(): waits for the history, which a turn in flight holds.
HoldsHistory(g) == turn # NoTurn /\ turn.runtime = g
Cleared(g) ==
    /\ history' = [history EXCEPT ![g] = <<>>]
    /\ transcript' = <<>> /\ tail' = FALSE
AgentReset ==
    /\ Installed # 0 /\ Installed \notin resetting
    /\ turn' = AbortInFlight(turn) /\ abortable' = FALSE
    /\ IF HoldsHistory(Installed)
       THEN resetting' = resetting \cup {Installed} /\ UNCHANGED <<history, transcript, tail>>
       ELSE Cleared(Installed) /\ UNCHANGED resetting
    /\ UNCHANGED <<runtimes, docs, viewerVars, prompts>>
ResetDone ==
    \E g \in resetting :
      /\ ~HoldsHistory(g)
      /\ resetting' = resetting \ {g}
      /\ Cleared(g)
      /\ UNCHANGED <<runtimes, docs, turn, abortable, viewerVars, prompts>>

slotVars == <<runtimes, history, resetting, prompts>>

-----------------------------------------------------------------------------
(* A turn                                                                  *)

Going(phase) == turn # NoTurn /\ ~turn.aborted /\ turn.phase = phase

\* DocsCell::bundle: read once, and a failure is kept as well.
ReadDocs ==
    /\ Going("docs") /\ ~docs[turn.runtime]
    /\ docs' = [docs EXCEPT ![turn.runtime] = TRUE]
    /\ UNCHANGED <<slotVars, transcript, tail, turn, abortable, viewerVars>>

Begin ==
    /\ Going("docs") /\ docs[turn.runtime]
    /\ turn' = [turn EXCEPT !.phase = "asking",
                            !.messages = StartMessages(turn.role, history[turn.runtime], turn.prompt)]
    /\ tail' = TRUE
    /\ UNCHANGED <<slotVars, docs, transcript, abortable, viewerVars>>

\* The request or its stream fails, or the answer is none of an assistant:
\* the history stays as it was.
RequestFails ==
    /\ Going("asking")
    /\ EndTurn("error")
    /\ UNCHANGED <<slotVars, docs, viewerVars>>

AnswerText ==
    /\ Going("asking")
    /\ history' = [history EXCEPT ![turn.runtime] = Kept([turn EXCEPT !.messages = Append(@, AssistantMessage(<<>>))])]
    /\ EndTurn("assistant")
    /\ UNCHANGED <<runtimes, docs, resetting, viewerVars, prompts>>

AnswerCalls ==
    /\ Going("asking")
    /\ \E reply \in Replies : \E fragments \in StreamsOf(reply) :
         LET calls == Streamed(fragments)
         IN  turn' = [turn EXCEPT !.phase = "tools", !.calls = calls,
                                  !.messages = Append(@, AssistantMessage([k \in DOMAIN calls |-> calls[k].id]))]
    /\ UNCHANGED <<slotVars, docs, transcript, tail, abortable, viewerVars>>

\* The result of a call goes to the model; after the last one it is asked
\* again, or the budget is exhausted and the history kept.
AfterCall(t, ok) ==
    LET messages == Append(t.messages, ToolMessage(Head(t.calls).id, ok))
    IN  [t EXCEPT !.messages = messages, !.calls = Tail(@), !.tool = NoTool,
                  !.phase = IF Len(t.calls) > 1 THEN "tools" ELSE IF t.number < MaxModelTurns THEN "asking" ELSE "spent",
                  !.number = IF Len(t.calls) > 1 \/ t.number = MaxModelTurns THEN @ ELSE @ + 1]

BudgetExhausted ==
    /\ Going("spent")
    /\ history' = [history EXCEPT ![turn.runtime] = Kept(turn)]
    /\ EndTurn("error")
    /\ UNCHANGED <<runtimes, docs, resetting, viewerVars, prompts>>

\* That the transcript marks the tools that failed is not kept here.
ToolEnds(ok) ==
    /\ turn' = AfterCall(turn, ok)
    /\ tail' = (tail \/ turn'.phase = "asking")
    /\ UNCHANGED <<slotVars, docs, transcript, abortable>>

-----------------------------------------------------------------------------
(* tool_dispatch                                                           *)

Calling == Head(turn.calls).call
AtCall == Going("tools") /\ turn.tool.step = "none"

\* A tool nobody granted, or arguments that do not parse: the model is told,
\* the transcript is not.
RefuseTool ==
    /\ AtCall
    /\ ~Granted(Calling.name, runtimes[turn.runtime].grants) \/ ~Head(turn.calls).arguments \/ Calling.name = "unparsed"
    /\ turn' = AfterCall(turn, FALSE)
    /\ tail' = (tail \/ turn'.phase = "asking")
    /\ UNCHANGED <<slotVars, docs, transcript, abortable, viewerVars>>

Dispatch ==
    /\ AtCall
    /\ Granted(Calling.name, runtimes[turn.runtime].grants) /\ Head(turn.calls).arguments
    /\ transcript' = Append(transcript, Entry("tool", 0))
    /\ turn' = [turn EXCEPT !.tool = [NoTool EXCEPT !.step = "called", !.found = configOf]]
    /\ UNCHANGED <<slotVars, docs, tail, abortable, viewerVars>>

AtStep(step, name) == Going("tools") /\ turn.tool.step = step /\ Calling.name = name

Outcome(call, runtime) == IF EntitlementOf(call.name) \in {"read_view", "read_docs"} THEN ReadOutcomes(call, runtime) ELSE {}
ReadTool ==
    /\ Going("tools") /\ turn.tool.step = "called"
    /\ \E ok \in Outcome(Calling, turn.runtime) : ToolEnds(ok)
    /\ UNCHANGED viewerVars

\* A tool calls a method of the viewer and waits for its promise.
Await(step, kind, config) ==
    /\ turn' = [turn EXCEPT !.tool.step = step]
    /\ promises' = promises \cup {[owner |-> turn.prompt, kind |-> kind, panel |-> Calling.panel, config |-> config,
                                   old |-> Absent, state |-> "queued"]}
Answered(state) == \E p \in promises : p.owner = turn.prompt /\ p.state = state
Consumed == {p \in promises : p.owner # turn.prompt}

\* tool_set_view_config: a snapshot, the new config, and the snapshot again
\* when that was rejected.
TakeSnapshot ==
    /\ AtStep("called", "set_view_config")
    /\ IF KnownPanel(Calling.panel)
       THEN /\ turn' = [turn EXCEPT !.tool.step = "snapshot", !.tool.snapshot = configOf[AgentPanel(Calling.panel)]]
            /\ UNCHANGED <<slotVars, docs, transcript, tail, abortable>>
       ELSE ToolEnds(FALSE)
    /\ UNCHANGED viewerVars
SetConfig ==
    /\ AtStep("snapshot", "set_view_config")
    /\ Await("trying", "restore", Calling.config)
    /\ UNCHANGED <<slotVars, docs, transcript, tail, abortable, configOf, activePanel, userActions>>
RollBack ==
    /\ AtStep("trying", "set_view_config") /\ Answered("failed")
    /\ turn' = [turn EXCEPT !.tool.step = "rolling"]
    /\ promises' = Consumed \cup {[owner |-> turn.prompt, kind |-> "restore", panel |-> Calling.panel,
                                   config |-> turn.tool.snapshot, old |-> Absent, state |-> "queued"]}
    /\ UNCHANGED <<slotVars, docs, transcript, tail, abortable, configOf, activePanel, userActions>>

\* tool_add_panel: what an addPanel that failed has left behind is removed.
AddPanelTool ==
    /\ AtStep("called", "add_panel")
    /\ IF Calling.config \in InvalidConfigs
       THEN ToolEnds(FALSE) /\ UNCHANGED promises
       ELSE /\ turn' = [turn EXCEPT !.tool.step = "trying", !.tool.panels = OpenPanels]
            /\ promises' = promises \cup {[owner |-> turn.prompt, kind |-> "add", panel |-> 0, config |-> Calling.config,
                                           old |-> Absent, state |-> "queued"]}
            /\ UNCHANGED <<slotVars, docs, transcript, tail, abortable>>
    /\ UNCHANGED <<configOf, activePanel, userActions>>
MutLeftBehind(before) == {}
LeftBehind(before) == OpenPanels \ before
StartSweep ==
    /\ AtStep("trying", "add_panel") /\ Answered("failed")
    /\ turn' = [turn EXCEPT !.tool.step = "sweeping", !.tool.panels = LeftBehind(@)]
    /\ promises' = Consumed
    /\ UNCHANGED <<slotVars, docs, transcript, tail, abortable, configOf, activePanel, userActions>>

\* tool_remove_panel, tool_activate_panel
ChangeLayout ==
    /\ \E name \in {"remove_panel", "activate_panel"} :
         /\ AtStep("called", name)
         /\ IF KnownPanel(Calling.panel)
            THEN Await("trying", name, Absent) /\ UNCHANGED <<slotVars, docs, transcript, tail, abortable>>
            ELSE ToolEnds(FALSE) /\ UNCHANGED promises
    /\ UNCHANGED <<configOf, activePanel, userActions>>

\* What the tool answers to the model: a config that was accepted is read
\* back, a rolled back one is an error whatever the rollback did.  Reading a
\* config fails only without its panel here.
ReadBack ==
    CASE Calling.name = "set_view_config" -> KnownPanel(Calling.panel)
      [] Calling.name = "add_panel" -> \E p \in promises : p.owner = turn.prompt /\ p.panel \in OpenPanels
      [] OTHER -> TRUE
AnswerModel ==
    /\ Going("tools")
    /\ \/ turn.tool.step = "trying" /\ Answered("ok") /\ ToolEnds(ReadBack)
       \/ turn.tool.step = "rolling" /\ (Answered("ok") \/ Answered("failed")) /\ ToolEnds(FALSE)
       \/ turn.tool.step = "sweeping" /\ turn.tool.panels = {} /\ ToolEnds(FALSE)
    /\ promises' = Consumed
    /\ UNCHANGED <<configOf, activePanel, userActions>>

-----------------------------------------------------------------------------
(* The viewer: its methods as the tools and the user call them             *)

FreshPanel == CHOOSE p \in AgentPanels \ OpenPanels : \A q \in AgentPanels \ OpenPanels : p <= q
WithoutPanel(p) ==
    /\ configOf' = [configOf EXCEPT ![p] = Absent]
    /\ activePanel' = IF activePanel # p THEN activePanel
                      ELSE IF OpenPanels \subseteq {p} THEN 0 ELSE CHOOSE q \in OpenPanels \ {p} : TRUE
WithPanel(p, config) ==
    /\ configOf' = [configOf EXCEPT ![p] = config]
    /\ activePanel' = IF activePanel = 0 THEN p ELSE activePanel

\* Somebody else than the tool in flight changed a panel.
Touched(owner) ==
    IF turn # NoTurn /\ turn.prompt # owner THEN [turn EXCEPT !.tool.touched = TRUE] ELSE turn
Goes(p, to) ==
    /\ promises' = (promises \ {p}) \cup {to}
    /\ turn' = Touched(p.owner)
    /\ UNCHANGED <<slotVars, docs, transcript, tail, abortable, userActions>>

\* restore() with suppress_errors: the panel it names, or the active one when
\* it gets there; a panel that is not there is created.
RestoreCommits ==
    \E p \in promises :
      /\ p.kind = "restore" /\ p.state = "queued"
      /\ IF p.config \in InvalidConfigs
         THEN Goes(p, [p EXCEPT !.state = "failed"]) /\ UNCHANGED <<configOf, activePanel>>
         ELSE LET target == IF AgentPanel(p.panel) = 0 THEN FreshPanel ELSE AgentPanel(p.panel)
              IN  /\ Goes(p, [p EXCEPT !.state = "committed", !.panel = target, !.old = configOf[target]])
                  /\ WithPanel(target, p.config)

\* The panel goes back to what it was before a config the engine rejects; a
\* panel that was created by the call stays.
RestoreEnds ==
    \E p \in promises :
      /\ p.kind = "restore" /\ p.state = "committed"
      /\ IF p.config \in FailingConfigs
         THEN /\ Goes(p, [p EXCEPT !.state = "failed"])
              /\ configOf' = IF configOf[p.panel] = Absent \/ p.old = Absent THEN configOf
                             ELSE [configOf EXCEPT ![p.panel] = p.old]
              /\ UNCHANGED activePanel
         ELSE /\ Goes(p, [p EXCEPT !.state = IF configOf[p.panel] = Absent THEN "failed" ELSE "ok"])
              /\ UNCHANGED <<configOf, activePanel>>

\* addPanel()
AddCommits ==
    \E p \in promises :
      /\ p.kind = "add" /\ p.state = "queued"
      /\ OpenPanels # AgentPanels
      /\ Goes(p, [p EXCEPT !.state = "committed", !.panel = FreshPanel])
      /\ WithPanel(FreshPanel, p.config)
AddEnds ==
    \E p \in promises :
      /\ p.kind = "add" /\ p.state = "committed"
      /\ Goes(p, [p EXCEPT !.state = IF p.config \in FailingConfigs \/ configOf[p.panel] = Absent THEN "failed" ELSE "ok"])
      /\ UNCHANGED <<configOf, activePanel>>

\* removePanel(), setActivePanel(): messages to the root, done when they are
\* rendered; a panel that is gone by then is let be.
Rendered ==
    \E p \in promises :
      /\ p.kind \in {"remove_panel", "activate_panel"} /\ p.state = "queued"
      /\ Goes(p, [p EXCEPT !.state = "ok"])
      /\ IF ~KnownPanel(p.panel) THEN UNCHANGED <<configOf, activePanel>>
         ELSE IF p.kind = "remove_panel" THEN WithoutPanel(AgentPanel(p.panel))
         ELSE activePanel' = AgentPanel(p.panel) /\ UNCHANGED configOf

\* The loop of tool_add_panel over what was left behind, one removePanel after
\* the other.
SweepOne ==
    /\ Going("tools") /\ turn.tool.step = "sweeping"
    /\ \E p \in turn.tool.panels :
         /\ turn' = [turn EXCEPT !.tool.panels = @ \ {p}]
         /\ WithoutPanel(p)
    /\ UNCHANGED <<slotVars, docs, transcript, tail, abortable, promises, userActions>>

\* The promise of a turn that was stopped is nobody's.
Forget ==
    /\ promises' = {p \in promises : p.state \notin {"ok", "failed"} \/ (turn # NoTurn /\ p.owner = turn.prompt)}
    /\ promises' # promises
    /\ UNCHANGED <<slotVars, docs, transcript, tail, turn, abortable, configOf, activePanel, userActions>>

User ==
    /\ Installed # 0 /\ Events < MaxEvents /\ userActions' = userActions + 1
    /\ turn' = Touched(0)
    /\ \/ \E p \in OpenPanels, c \in PanelConfigs \ (FailingConfigs \cup InvalidConfigs) :
            c # configOf[p] /\ configOf' = [configOf EXCEPT ![p] = c] /\ UNCHANGED activePanel
       \/ \E p \in OpenPanels : p # activePanel /\ activePanel' = p /\ UNCHANGED configOf
       \/ \E p \in OpenPanels : WithoutPanel(p)
       \/ \E c \in PanelConfigs \ (FailingConfigs \cup InvalidConfigs) : OpenPanels # AgentPanels /\ WithPanel(FreshPanel, c)
    /\ UNCHANGED <<slotVars, docs, transcript, tail, abortable, promises>>

AgentNext ==
    \/ Configure \/ Prompt \/ StopTurn \/ Aborted \/ AgentReset \/ ResetDone
    \/ ReadDocs \/ Begin \/ RequestFails \/ AnswerText \/ AnswerCalls \/ BudgetExhausted
    \/ RefuseTool \/ Dispatch \/ ReadTool \/ TakeSnapshot \/ SetConfig \/ RollBack
    \/ AddPanelTool \/ StartSweep \/ SweepOne \/ ChangeLayout \/ AnswerModel
    \/ RestoreCommits \/ RestoreEnds \/ AddCommits \/ AddEnds \/ Rendered \/ Forget
    \/ User
AgentSpec == AgentInit /\ [][AgentNext]_agentVars

-----------------------------------------------------------------------------
(* What is checked                                                         *)

\* Messages a model can be asked with: one preamble, first; every call of the
\* assistant answered right after it, in order, and no answer without a call;
\* never two messages of the user in a row, which chat templates reject.
WellFormed(role, m) ==
    /\ \A i \in DOMAIN m : m[i].preamble <=> i = 1
    /\ m[1].role = role
    /\ \A i \in DOMAIN m : \A k \in DOMAIN m[i].calls :
         /\ m[i].calls[k] = k
         /\ i + k <= Len(m) /\ m[i + k].role = "tool" /\ m[i + k].text = k
    /\ \A i \in DOMAIN m : m[i].role = "tool" =>
         \E j \in DOMAIN m : j < i /\ i - j <= Len(m[j].calls)
    /\ \A i \in 1..(Len(m) - 1) : ~(m[i].role = "user" /\ m[i + 1].role = "user")
    /\ m[Len(m)].role # "assistant"

\* Every request to the model is well formed, whatever was stopped, refused,
\* reset or ran out of budget before (AgentRuntime::prompt, run_turn).
RequestsAreWellFormed ==
    turn # NoTurn /\ turn.phase = "asking" => WellFormed(turn.role, RequestMessages(turn))

\* With no turn in flight the chat panel shows every prompt the model will be
\* told of, each once and in their order (AgentSlot::configure, run_prompt, reset).
HistoryIsShown ==
    turn = NoTurn /\ resetting = {} /\ Installed # 0 =>
        LET past == history[Installed]
            told == {i \in DOMAIN past : past[i].role = "user"}
        IN  /\ \A i \in told : \E j \in DOMAIN transcript : transcript[j] = Entry("user", past[i].text)
            /\ \A i, j \in told : i < j => past[i].text < past[j].text

\* Both: what the model is told and what the user is shown of it.
ConversationIsSound == RequestsAreWellFormed /\ HistoryIsShown

\* A tool whose config the viewer rejected leaves every panel as it found it,
\* unless somebody else changed one meanwhile (tool_set_view_config,
\* tool_add_panel).
RejectedToolsChangeNothing ==
    [][turn # NoTurn /\ turn.phase = "tools" /\ turn.tool.step \in {"rolling", "sweeping"} /\ ~turn.tool.touched
         /\ turn' # NoTurn /\ turn'.tool.step = "none"
       => configOf' = turn.tool.found]_agentVars
=============================================================================
