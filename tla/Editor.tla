------------------------------- MODULE Editor -------------------------------
(***************************************************************************)
(* The SQL editor (backend/web/static/js/sql.js) and the button "use in    *)
(* sql" of the maintenance planner (planner.js, sendToSql).                *)
(*                                                                         *)
(* A rendering of the page awaits the selectors, the snippets and the      *)
(* schema of the database for the completion, one after the other, and     *)
(* then makes an editor.  It looks most elements up again after each       *)
(* await, so that it may go on in the page of a later rendering.  _editor  *)
(* is the editor that was made last, wherever it is.                       *)
(*                                                                         *)
(* The plain text area that replaces an editor that cannot be loaded is    *)
(* left out, and so are the snippets and the history, which only fill the  *)
(* editor or a panel.                                                      *)
(***************************************************************************)
EXTENDS Naturals, FiniteSets

CONSTANTS
  Database,   \* the databases that may be chosen
  FirstDb,    \* the one at the start
  MaxFrames,  \* the renderings
  MaxRuns,    \* the queries run in one rendering
  MaxDrafts   \* the drafts sent by the planner

ASSUME EditorAssumption ==
  /\ FirstDb \in Database
  /\ MaxFrames \in Nat \ {0} /\ MaxRuns \in Nat /\ MaxDrafts \in Nat

VARIABLES
  frame,       \* the rendering whose elements are there, 0 off the page
  frames,      \* the renderings so far
  renders,     \* the renderings under way
  editors,     \* the editors on the screen, each named after its rendering
  _editor,     \* 0 for null
  draft,       \* sessionStorage: pgaio_sql_draft
  drafts,      \* the drafts sent so far
  text,        \* the draft that each editor has got, 0 for none
  hash,        \* the event of a changed location is about to come
  db,          \* DbSelector
  _schemaCache,
  completes,   \* the schema that _editor completes with
  reloads,     \* the requests of _reloadSchema under way
  ran, result, \* the last query that was run, and whose result is shown
  runs,        \* the queries under way, with the rendering they belong to
  disabled,    \* the button "run"
  overlapped,  \* history: a rendering began before the last was through
  failed,      \* history: the last rendering got no further than its selectors
  astray,      \* history: the database was chosen elsewhere, or another schema
               \* was under way when one was asked for
  twice        \* history: a query was run while another of the rendering was

frameVars  == <<frame, frames>>
editorVars == <<renders, editors, _editor, text>>
draftVars  == <<draft, drafts>>
schemaVars == <<_schemaCache, completes, reloads>>
runVars    == <<ran, result, runs, disabled>>
sqlVars    == <<frameVars, editorVars, draftVars, hash, db, schemaVars, runVars,
                overlapped, failed, astray, twice>>

NoSchema == "none"
Render == [of : 1 .. MaxFrames, at : {"opening", "snippets", "schema"},
           into : 0 .. MaxFrames, schema : Database \cup {NoSchema}]

EditorTypeOK ==
  /\ frame \in {0, frames} /\ frames \in 0 .. MaxFrames
  /\ renders \subseteq Render /\ editors \subseteq 1 .. MaxFrames /\ _editor \in 0 .. MaxFrames
  /\ draft \in 0 .. drafts /\ drafts \in 0 .. MaxDrafts /\ text \in [1 .. MaxFrames -> 0 .. drafts]
  /\ hash \in BOOLEAN /\ db \in Database
  /\ {_schemaCache, completes} \cup reloads \subseteq Database \cup {NoSchema}
  /\ ran \in 0 .. MaxRuns /\ result \in 0 .. ran /\ disabled \in BOOLEAN
  /\ runs \subseteq [of : 1 .. MaxFrames, nr : 1 .. MaxRuns]
  /\ {overlapped, failed, astray, twice} \subseteq BOOLEAN

EditorInit ==
  /\ frame = 0 /\ frames = 0 /\ renders = {} /\ editors = {} /\ _editor = 0
  /\ draft = 0 /\ drafts = 0 /\ text = [f \in 1 .. MaxFrames |-> 0] /\ hash = FALSE
  /\ db = FirstDb /\ _schemaCache = NoSchema /\ completes = NoSchema /\ reloads = {}
  /\ ran = 0 /\ result = 0 /\ runs = {} /\ disabled = FALSE
  /\ overlapped = FALSE /\ failed = FALSE /\ astray = FALSE /\ twice = FALSE

-----------------------------------------------------------------------------
(* The page is made and left. *)

\* navigate and render, up to the first await.
render ==
  /\ frames < MaxFrames
  /\ frames' = frames + 1 /\ frame' = frames'
  /\ renders' = renders \cup {[of |-> frames', at |-> "opening", into |-> 0, schema |-> NoSchema]}
  /\ overlapped' = (renders # {}) /\ failed' = FALSE
  /\ editors' = {}
  /\ ran' = 0 /\ result' = 0 /\ disabled' = FALSE /\ twice' = FALSE
  /\ UNCHANGED <<_editor, text, db, schemaVars, runs, astray>>

\* The link in the menu, or the refresh button.
OpenEditor == render /\ UNCHANGED <<draftVars, hash>>

\* The location changes, and with it goes an event, after its own navigate.
sendToSql ==
  /\ frame = 0 /\ drafts < MaxDrafts /\ ~hash
  /\ drafts' = drafts + 1 /\ draft' = drafts'
  /\ hash' = TRUE
  /\ render

hashchange ==
  /\ hash
  /\ hash' = FALSE
  /\ render /\ UNCHANGED draftVars

LeaveEditor ==
  /\ frame # 0 /\ ~hash
  /\ frame' = 0 /\ editors' = {}
  /\ ran' = 0 /\ result' = 0 /\ disabled' = FALSE
  /\ UNCHANGED <<frames, renders, _editor, text, draftVars, hash, db, schemaVars, runs,
                 overlapped, failed, astray, twice>>

\* The selectors are there.  Without the page, or when the profiles cannot be
\* loaded, the rendering ends in an exception.
Rendered ==
  /\ \E r \in renders, ok \in BOOLEAN :
       /\ r.at = "opening"
       /\ IF ok /\ frame # 0
          THEN renders' = (renders \ {r}) \cup {[r EXCEPT !.at = "snippets"]} /\ UNCHANGED failed
          ELSE renders' = renders \ {r} /\ failed' = TRUE
  /\ UNCHANGED <<frameVars, editors, _editor, text, draftVars, hash, db, schemaVars, runVars,
                 overlapped, astray, twice>>

\* The schema requests under way.
Asking == reloads # {} \/ \E r \in renders : r.at = "schema" /\ r.schema # _schemaCache

\* _setQuery, after which the draft is gone.
TakeDraft(e, texts) ==
  /\ draft' = 0
  /\ text' = IF draft # 0 /\ e # 0 THEN [texts EXCEPT ![e] = draft] ELSE texts

\* The snippets are there, or not.  A rendering that finds no container goes on
\* without an editor of its own.
loadSnippets ==
  /\ \E r \in renders :
       /\ r.at = "snippets"
       /\ IF frame = 0
          THEN renders' = renders \ {r} /\ TakeDraft(_editor, text) /\ UNCHANGED astray
          ELSE /\ renders' = (renders \ {r}) \cup
                    {[r EXCEPT !.at = "schema", !.into = frame,
                               !.schema = IF _schemaCache = NoSchema THEN db ELSE _schemaCache]}
               /\ astray' = (astray \/ (_schemaCache = NoSchema /\ Asking))
               /\ UNCHANGED <<draft, text>>
  /\ UNCHANGED <<frameVars, editors, _editor, drafts, hash, db, schemaVars, runVars,
                 overlapped, failed, twice>>

\* The schema is there, or not: a new editor in the container that was there
\* when it was asked for, and then the draft.
_initCodeMirror ==
  /\ \E r \in renders :
       /\ r.at = "schema"
       /\ renders' = renders \ {r}
       /\ \E schema \in {r.schema, NoSchema} :
            /\ completes' = schema
            /\ _schemaCache' = IF schema = NoSchema THEN _schemaCache ELSE schema
       /\ _editor' = r.of
       /\ editors' = IF r.into = frame THEN editors \cup {r.of} ELSE editors
       /\ TakeDraft(r.of, text)
  /\ UNCHANGED <<frameVars, drafts, hash, db, reloads, runVars, overlapped, failed, astray, twice>>

-----------------------------------------------------------------------------
(* The database *)

\* The selector on the page: without an editor only the cache is dropped.
_reloadSchema(d) ==
  /\ _schemaCache' = NoSchema
  /\ IF _editor = 0 THEN UNCHANGED reloads ELSE reloads' = reloads \cup {d}
  /\ UNCHANGED completes

ChooseDb ==
  /\ frame # 0
  /\ \E d \in Database \ {db} : db' = d /\ _reloadSchema(d)
  /\ astray' = (reloads # {} \/ renders # {})
  /\ UNCHANGED <<frameVars, editorVars, draftVars, hash, runVars, overlapped, failed, twice>>

\* The selector of another page.
ChooseDbElsewhere ==
  /\ frame = 0
  /\ \E d \in Database \ {db} : db' = d
  /\ astray' = TRUE
  /\ UNCHANGED <<frameVars, editorVars, draftVars, hash, schemaVars, runVars, overlapped, failed, twice>>

\* What _fetchSchema got is kept and goes into the editor there is by now.
SchemaReloaded ==
  /\ \E d \in reloads, ok \in BOOLEAN :
       /\ reloads' = reloads \ {d}
       /\ _schemaCache' = IF ok THEN d ELSE _schemaCache
       /\ completes' = IF ok THEN d ELSE NoSchema
  /\ UNCHANGED <<frameVars, editorVars, draftVars, hash, db, runVars, overlapped, failed, astray, twice>>

-----------------------------------------------------------------------------
(* Queries *)

\* The button, or Ctrl-Enter, which does not look whether the button is
\* disabled.  What is run is the text of _editor, which may be one that is not
\* on the screen.
execute ==
  /\ frame # 0 /\ _editor # 0 /\ ran < MaxRuns
  /\ ran' = ran + 1
  /\ runs' = runs \cup {[of |-> frame, nr |-> ran']}
  /\ disabled' = TRUE
  /\ twice' = (twice \/ disabled)
  /\ UNCHANGED <<frameVars, editorVars, draftVars, hash, db, schemaVars, result, overlapped, failed, astray>>

\* Variant for checking the properties: an empty result forgets the button.
ExecutedNoFinally ==
  /\ \E r \in runs :
       /\ runs' = runs \ {r}
       /\ IF r.of = frame THEN result' = r.nr ELSE UNCHANGED result
  /\ UNCHANGED <<frameVars, editorVars, draftVars, hash, db, schemaVars, ran, disabled,
                 overlapped, failed, astray, twice>>

\* Rows, no rows or an error go to the elements of the page it was run on.
Executed ==
  /\ \E r \in runs :
       /\ runs' = runs \ {r}
       /\ IF r.of = frame THEN result' = r.nr /\ disabled' = FALSE ELSE UNCHANGED <<result, disabled>>
  /\ UNCHANGED <<frameVars, editorVars, draftVars, hash, db, schemaVars, ran,
                 overlapped, failed, astray, twice>>

-----------------------------------------------------------------------------
EditorNext ==
  \/ OpenEditor \/ sendToSql \/ hashchange \/ LeaveEditor
  \/ Rendered \/ loadSnippets \/ _initCodeMirror
  \/ ChooseDb \/ ChooseDbElsewhere \/ SchemaReloaded
  \/ execute \/ Executed

EditorSpec == EditorInit /\ [][EditorNext]_sqlVars

-----------------------------------------------------------------------------
Settled == frame # 0 /\ ~hash /\ renders = {}

\* Once the page is there, and unless its selectors failed, it has its editor,
\* which is the only one and the one whose text is run if no other rendering was
\* under way when it was opened.
OneEditor == Settled /\ ~failed => frame \in editors /\ (overlapped \/ editors = {_editor})

\* The completion knows the database that is chosen, or none, unless that was
\* chosen on another page or while a schema was under way.
CompletionFits ==
  Settled /\ reloads = {} /\ ~astray => completes \in {db, NoSchema}

\* The result is that of the last query, which the button waits for, unless two
\* were run at once.
ResultIsLast ==
  frame # 0 /\ ~twice =>
    /\ disabled <=> \E r \in runs : r.of = frame
    /\ ~disabled => result = ran

\* What the page shows and runs belongs together (sql.js, render to execute):
\* its one editor, the schema of its database, the result of its last query.
EditorExplained == OneEditor /\ CompletionFits /\ ResultIsLast

(* What these rest on. *)

\* A rendering makes the editor of its page.
MadeInv ==
  frame # 0 /\ ~failed =>
    frame \in editors \/ \E r \in renders : r.of = frame /\ (r.at = "schema" => r.into = frame)

\* One that began when no other was under way is the only one.
RenderInv ==
  /\ MadeInv
  /\ frame # 0 /\ ~overlapped =>
       /\ \A r \in renders : r.of = frame /\ (r.at = "schema" => r.into = frame)
       /\ \A r, q \in renders : r = q
       /\ renders # {} => ~failed /\ editors = {}
       /\ renders = {} /\ ~failed => editors = {_editor}

\* The schema that is cached or asked for is that of the database.
SchemaInv ==
  /\ _editor = 0 => completes = NoSchema /\ reloads = {}
  /\ ~astray => /\ _schemaCache \in {db, NoSchema} /\ reloads \subseteq {db}
                /\ \A r \in renders : r.schema \in {db, NoSchema}
                /\ reloads = {} => completes \in {db, NoSchema}

\* The query under way on the page is its last.
RunsInv ==
  /\ \A r \in runs : r.of <= frames /\ (r.of = frame => r.nr <= ran)
  /\ frame # 0 /\ ~twice => \A r \in runs : r.of = frame => r.nr = ran

EditorInductive == EditorTypeOK /\ EditorExplained /\ RenderInv /\ SchemaInv /\ RunsInv
=============================================================================
