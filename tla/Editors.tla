------------------------------ MODULE Editors ------------------------------
(***************************************************************************)
(* The sidebar in which an expression column is written, renamed, saved    *)
(* and deleted. Three components hold a part of the draft: the header its  *)
(* name, the editor its text, and the sidebar a copy of both, which is     *)
(* what it saves. The editor asks the server whether each text is valid;   *)
(* a request that fails counts as the answer that it is.                   *)
(*                                                                         *)
(* A commit is validated by the run that it schedules; only then do the    *)
(* metadata, and the sidebar, know of it. Renders follow at once.          *)
(***************************************************************************)
EXTENDS Naturals, Sequences, FiniteSets, TLC
LOCAL INSTANCE SequencesExt
LOCAL INSTANCE Functions

CONSTANTS Fields,      \* the columns of the Table
          GoodTexts,   \* expressions that the server can evaluate
          BadTexts,    \* and others
          FreshNames,  \* "New Column 1", "New Column 2" ...
          TypedNames,  \* names a user types into the header
          Roles,       \* where a config names columns: columns, sort ...
          NoColumn,    \* no sidebar, no name typed
          MaxEdits     \* bound: keys typed, buttons pressed, other commits

ASSUME EditorsAssumption ==
    /\ NoColumn \notin Fields \cup GoodTexts \cup BadTexts \cup TypedNames
    /\ GoodTexts \cap BadTexts = {} /\ Roles # {} /\ MaxEdits \in Nat

VARIABLES written, \* the expressions of ViewConfig, and who is named where
          known,   \* SessionMetadata: the expressions last found valid
          opened,  \* OpenColumnSettings: NoColumn, or who is edited
          sidebar, \* ColumnSettingsPanel
          header,  \* EditableHeader
          editor,  \* ExpressionEditor
          asked,   \* validate_expression that are under way
          running, \* runs scheduled, and which column each opens when it ends
          failed,  \* the session is in error
          edits    \* edits so far

editorsVars == <<written, known, opened, sidebar, header, editor, asked, running, failed, edits>>

Texts == GoodTexts \cup BadTexts
NoSidebar == [column_name |-> NoColumn]
\* lost: the request that failed, if it is the latest; 0 if none.
NoEditor == [text |-> NoColumn, req |-> 0, lost |-> 0]
Saved(name) == <<name>>
NewExpression == <<>>

Fresh == [exprs |-> <<>>, named |-> [r \in Roles |-> Fields]]

\* With no expression yet, or one that is in use.
EditorsInit ==
    /\ written \in {Fresh} \cup {[exprs |-> [n \in {FreshNames[1]} |-> text], named |-> [r \in Roles |-> {FreshNames[1]}]] :
                               text \in GoodTexts}
    /\ known = written.exprs
    /\ opened = NoColumn
    /\ sidebar = NoSidebar /\ header = NoColumn /\ editor = NoEditor
    /\ asked = {}
    /\ running = <<>>
    /\ failed = FALSE
    /\ edits = 0

----------------------------------------------------------------------------
(* Expressions of a config.                                                *)

Put(exprs, name, text) == [n \in DOMAIN exprs \cup {name} |-> IF n = name THEN text ELSE exprs[n]]
WithoutExpr(exprs, name) == Restrict(exprs, DOMAIN exprs \ {name})

\* An expression without a name goes by its text.
NameOf(name, text) == IF name = NoColumn THEN text ELSE name

MutReplaced(w, old, name, text) ==
    LET exprs == Put(WithoutExpr(w.exprs, old), name, text)
    IN IF old \in DOMAIN w.exprs THEN [w EXCEPT !.exprs = exprs] ELSE w

\* create_replace_expression_update: renamed wherever the config names it.
Replaced(w, old, name, text) ==
    LET renamed(names) == IF old \in names THEN (names \ {old}) \cup {name} ELSE names
        exprs == Put(WithoutExpr(w.exprs, old), name, text)
    IN [exprs |-> IF old \in DOMAIN w.exprs THEN exprs ELSE w.exprs,
        named |-> [r \in Roles |-> renamed(w.named[r])]]

InUse(w, name) == \E r \in Roles : name \in w.named[r]

\* make_new_column_name, of the metadata.
NewName(mt) == FreshNames[CHOOSE i \in DOMAIN FreshNames :
                  /\ FreshNames[i] \notin DOMAIN mt
                  /\ \A j \in 1..(i - 1) : FreshNames[j] \in DOMAIN mt]

----------------------------------------------------------------------------
(* What the sidebar shows once it is rendered with new props.              *)

NameShown(at, mt) == IF at = NewExpression THEN NewName(mt) ELSE at[1]

\* initial_expr, get_expression_by_alias.
TextOf(name, mt) == IF name \in DOMAIN mt THEN mt[name] ELSE ""

\* initialize: the drafts are those of the metadata; the rest is kept.
Initialized(s, at, mt) ==
    LET name == NameShown(at, mt)
        text == TextOf(name, mt)
        title == IF text = name THEN NoColumn ELSE name
    IN [s EXCEPT !.column_name = name,
                 !.expr_value = text, !.initial_expr = text,
                 !.header_value = title, !.initial_header = title,
                 !.header_valid = TRUE]

Mounted == [column_name |-> NoColumn, expr_value |-> "", initial_expr |-> "", header_value |-> NoColumn,
            initial_header |-> NoColumn, header_valid |-> TRUE, expr_valid |-> FALSE,
            save_enabled |-> FALSE, reset_enabled |-> FALSE]

\* validate_expression: what the editor hears. The server says whether the text
\* is valid; a request that fails is logged, and reported as no error.
Asked(text, req) == {[req |-> req, text |-> text]}
Answer(check, fails) == fails \/ check.text \in GoodTexts

\* SetExpr: the sidebar is told of the text, the server asked about it.
SetsText(text, s, req, checks) ==
    /\ editor' = [text |-> text, req |-> req + 1, lost |-> 0]
    /\ sidebar' = [s EXCEPT !.expr_value = text, !.reset_enabled = @ \/ s.expr_value # text]
    /\ asked' = checks \cup Asked(text, req + 1)

\* The alias of the editor; a new expression has none.
Aliased(at) == at # NewExpression

\* ExpressionEditor::changed.
EditorChanged(at, mt) == at # opened \/ (Aliased(at) /\ mt # known)

\* identity_eq.
SidebarChanged(at, w, mt) == at # opened \/ w # written \/ mt # known

\* The editor's text is not the sidebar's if only the sidebar changes.
Shows(at, w, mt) ==
    /\ opened' = at /\ written' = w /\ known' = mt
    /\ IF at = NoColumn
       THEN sidebar' = NoSidebar /\ header' = NoColumn /\ editor' = NoEditor /\ asked' = {}
       ELSE LET mounts == opened = NoColumn
                s == IF mounts THEN Initialized(Mounted, at, mt)
                     ELSE IF SidebarChanged(at, w, mt) THEN Initialized(sidebar, at, mt) ELSE sidebar
                text == TextOf(IF Aliased(at) THEN at[1] ELSE NoColumn, mt)
            IN /\ header' = IF mounts \/ s.initial_header # sidebar.initial_header THEN s.initial_header ELSE header
               /\ IF mounts THEN SetsText(text, s, 0, {})
                  ELSE IF EditorChanged(at, mt) THEN SetsText(text, s, editor.req, asked)
                  ELSE sidebar' = s /\ UNCHANGED <<editor, asked>>

----------------------------------------------------------------------------
(* Commits and runs.                                                       *)

\* validate_names.
NamesAreKnown(w) == \A r \in Roles : w.named[r] \subseteq Fields \cup DOMAIN w.exprs

\* apply_and_render: a session in error, and unknown names, are refused.
Commits(w) == ~failed /\ NamesAreKnown(w)

Runs(at) == running' = Append(running, at)

\* The oldest run ends: its expressions are validated all together; if one
\* is invalid, or the request fails, the session is in error.
RunEnds ==
    /\ running # <<>>
    /\ running' = Tail(running)
    /\ \E fails \in BOOLEAN :
       LET valid == Range(written.exprs) \subseteq GoodTexts
           at == Head(running)
       IN IF valid /\ ~fails
          THEN /\ Shows(IF at = NoColumn THEN opened ELSE at, written, written.exprs)
               /\ UNCHANGED failed
          ELSE /\ failed' = TRUE
               /\ UNCHANGED <<written, known, opened, sidebar, header, editor, asked>>
    /\ UNCHANGED edits

----------------------------------------------------------------------------
(* The user.                                                               *)

Edit == edits < MaxEdits /\ edits' = edits + 1
EditsNothing == UNCHANGED <<running, failed>>

\* AddExpressionButton, ExprEditButton: a second click shuts the sidebar.
OpenSettings ==
    /\ Edit
    /\ \E at \in {NewExpression} \cup {Saved(n) : n \in DOMAIN known} :
         Shows(IF at = opened THEN NoColumn ELSE at, written, known)
    /\ EditsNothing

\* get_column_locator: a name that is no column shuts the sidebar.
Locator(name) == IF name \in DOMAIN known THEN Saved(name) ELSE NoColumn

ToggleColumnSettings ==
    /\ Edit
    /\ \E name \in (DOMAIN known \cup TypedNames) \ Fields :
         Shows(IF Locator(name) = opened THEN NoColumn ELSE Locator(name), written, known)
    /\ EditsNothing

TypeText ==
    /\ Edit /\ opened # NoColumn
    /\ \E text \in Texts : SetsText(text, sidebar, editor.req, asked)
    /\ UNCHANGED <<written, known, opened, header>> /\ EditsNothing

\* save_enabled_effect.
SaveEnabled(s) ==
    [s EXCEPT !.save_enabled = /\ s.expr_value # s.initial_expr \/ s.header_value # s.initial_header
                               /\ s.expr_valid /\ s.header_valid]

\* SetNewValue: a name that exists is invalid, unless it is what was there.
NameIsValid(name) ==
    \/ name \in {NoColumn, sidebar.expr_value, sidebar.initial_header}
    \/ name \notin Fields \cup DOMAIN known

TypeName ==
    /\ Edit /\ opened # NoColumn
    /\ \E name \in TypedNames \cup {NoColumn} :
         /\ name # header
         /\ header' = name
         /\ sidebar' = SaveEnabled([sidebar EXCEPT !.header_value = name, !.header_valid = NameIsValid(name),
                                                   !.reset_enabled = @ \/ name # sidebar.header_value])
    /\ UNCHANGED <<written, known, opened, editor, asked>> /\ EditsNothing

MutIsLatest(check) == TRUE

\* The answer to an older text is dropped.
IsLatest(check) == check.req = editor.req

\* ValidateComplete, SetExprValid.
ValidateComplete ==
    /\ \E check \in asked, fails \in BOOLEAN :
         /\ asked' = asked \ {check}
         /\ sidebar' = IF IsLatest(check) THEN SaveEnabled([sidebar EXCEPT !.expr_valid = Answer(check, fails)])
                       ELSE sidebar
         /\ editor' = IF IsLatest(check) /\ fails THEN [editor EXCEPT !.lost = check.req] ELSE editor
    /\ UNCHANGED <<written, known, opened, header, running, failed, edits>>

\* OnResetAttributes; the new reset_count resets header and editor.
Reset ==
    /\ Edit /\ opened # NoColumn /\ Aliased(opened) /\ sidebar.reset_enabled
    /\ header' = sidebar.initial_header
    /\ SetsText(TextOf(opened[1], known),
                [sidebar EXCEPT !.header_value = sidebar.initial_header, !.expr_value = sidebar.initial_expr,
                                !.save_enabled = FALSE, !.reset_enabled = FALSE],
                editor.req, asked)
    /\ UNCHANGED <<written, known, opened>> /\ EditsNothing

\* save_expr, update_expr.
Edited(name, text) ==
    IF Aliased(opened) THEN Replaced(written, opened[1], name, text)
    ELSE [written EXCEPT !.exprs = Put(@, name, text)]

\* Of an expression that the metadata does not know update_expr panics.
SaveCommits(w) == Commits(w) /\ (Aliased(opened) => opened[1] \in DOMAIN known)

Clean(s) == [s EXCEPT !.initial_expr = s.expr_value, !.initial_header = s.header_value,
                      !.save_enabled = FALSE, !.reset_enabled = FALSE]

\* OnSaveAttributes.  The button asks save_enabled; Shift+Enter does not.
Save ==
    /\ Edit /\ opened # NoColumn
    /\ LET text == sidebar.expr_value
           name == NameOf(sidebar.header_value, text)
           saved == Clean(sidebar)
           commits == SaveCommits(Edited(name, text))
       IN /\ written' = IF commits THEN Edited(name, text) ELSE written
          /\ running' = IF commits THEN Append(running, Saved(name)) ELSE running
          /\ sidebar' = IF written' = written THEN saved ELSE Initialized(saved, opened, known)
          /\ header' = IF sidebar'.initial_header # sidebar.initial_header THEN sidebar'.initial_header ELSE header
    /\ UNCHANGED <<known, opened, editor, asked, failed>>

DeleteEnabled == ~InUse(written, opened[1])

\* OnDelete, which closes the sidebar.
Delete ==
    /\ Edit /\ opened # NoColumn /\ Aliased(opened)
    /\ DeleteEnabled
    /\ LET w == [written EXCEPT !.exprs = WithoutExpr(@, sidebar.column_name)]
       IN IF Commits(w) THEN Shows(NoColumn, w, known) /\ Runs(NoColumn)
          ELSE Shows(NoColumn, written, known) /\ UNCHANGED running
    /\ UNCHANGED failed

\* Another commit: a column is put into a role, or taken out; restore()
\* removes an expression or replaces them all, and ends an error.
OtherCommit ==
    /\ Edit
    /\ \/ /\ ~failed
          /\ \E r \in Roles, n \in DOMAIN written.exprs :
               Shows(opened, [written EXCEPT !.named[r] = IF n \in @ THEN @ \ {n} ELSE @ \cup {n}], known)
          /\ UNCHANGED failed
       \/ Shows(opened, Fresh, known) /\ failed' = FALSE
    /\ Runs(NoColumn)

EditorsNext ==
    \/ OpenSettings \/ ToggleColumnSettings \/ TypeText \/ TypeName \/ ValidateComplete \/ Reset
    \/ Save \/ Delete \/ OtherCommit \/ RunEnds

EditorsSpec == EditorsInit /\ [][EditorsNext]_editorsVars
----------------------------------------------------------------------------
(* Properties.                                                             *)

(* Once the request for the text that the editor shows is over, the Save   *)
(* button is enabled only if the server found that text valid, or if that  *)
(* request failed, which the code takes as valid (validate_expression.rs:  *)
(* 38). What is heard of earlier texts, and of this one before it was      *)
(* replaced, does not count, whatever order it comes in.                   *)
SaveHeedsTheLatest ==
    (opened # NoColumn /\ sidebar.save_enabled /\ \A c \in asked : c.req # editor.req)
        => editor.text \in GoodTexts \/ editor.lost = editor.req

(* An edit of an expression that the config still has is not lost: saved   *)
(* under a name that is free, or deleted when nothing names it, it is what *)
(* the next config holds.                                                  *)
EditsAreCommitted ==
    /\ [][\A old \in DOMAIN written.exprs \cap DOMAIN known :
            (Save /\ ~failed /\ opened = Saved(old)) =>
                LET name == NameOf(sidebar.header_value, sidebar.expr_value)
                IN name \notin DOMAIN written.exprs \ {old} =>
                     name \in DOMAIN written'.exprs /\ written'.exprs[name] = sidebar.expr_value]_editorsVars
    /\ [][(Delete /\ ~failed) => opened[1] \notin DOMAIN written'.exprs]_editorsVars

Settled == running = <<>> /\ asked = {} /\ ~failed

(* When the server has answered everything, the sidebar compares its draft *)
(* with the expression that the config holds, under its name.              *)
SidebarFollowsConfig ==
    Settled /\ opened # NoColumn /\ Aliased(opened) /\ opened[1] \in DOMAIN written.exprs =>
        /\ sidebar.column_name = opened[1]
        /\ sidebar.initial_expr = written.exprs[opened[1]]

(* What is saved is what the editor and the header show.  The code resets  *)
(* the sidebar's copy on every change of the config, which "wipes          *)
(* in-progress expression/window drafts" (column_settings_sidebar.rs:185), *)
(* but the editor keeps the text and shows it.                             *)
SavesWhatIsShown ==
    opened # NoColumn => sidebar.expr_value = editor.text /\ sidebar.header_value = header

(* A text is saved only if the server found it valid. It is not so: the    *)
(* code offers to save one whose validation failed.                        *)
SavesValidTextsOnly ==
    (opened # NoColumn /\ sidebar.save_enabled /\ \A c \in asked : c.req # editor.req)
        => editor.text \in GoodTexts

(* The sidebar is in step with the server and with the config: its button  *)
(* heeds what became of the latest request, and it compares its draft with *)
(* what the config holds.                                                  *)
SidebarIsInStep == SaveHeedsTheLatest /\ SidebarFollowsConfig
=============================================================================
