------------------------------- MODULE Panels -------------------------------
(***************************************************************************)
(* The pages of the web front end that show a list of something and act on *)
(* its rows (backend/web/static/js: vacuum.js, locks.js, s3.js, jobs.js,   *)
(* extensions.js, indexes.js, queries.js, planner.js, drift.js, roles.js,  *)
(* config.js, server.js, pgbouncer.js), and how app.js moves between them. *)
(*                                                                         *)
(* Every page asks the server for the list of what is chosen (a database,  *)
(* a tab, a folder, a filter) and puts the answer into its element when it *)
(* comes.  No page remembers which request was the last.  Some look their  *)
(* element up before they ask, so that an answer for an earlier visit goes *)
(* nowhere, others when the answer is there; some show an error, others    *)
(* keep what was shown.  The buttons of a row act on the database that is  *)
(* chosen when they act.                                                   *)
(*                                                                         *)
(* Of a list the model keeps what was asked for; of the page what it would *)
(* have to show.  A behaviour goes back and forth between one page and the *)
(* rest of the application.                                                *)
(***************************************************************************)
EXTENDS Naturals, FiniteSets, Confirm

CONSTANTS
  Page,       \* the pages a behaviour may be about
  Key1, Key2, \* two databases, folders or types of job
  Unkeyed,    \* where there is nothing to choose
  MaxVisits,  \* how often the page is opened
  MaxAsks     \* the requests under way at once

ASSUME PanelsAssumption ==
  /\ Page \subseteq {"vacuum", "locks", "s3", "jobs", "extensions", "indexes",
                     "queries", "planner", "drift", "roles", "config",
                     "server", "pgbouncer"}
  /\ Key1 # Key2 /\ Unkeyed \notin {Key1, Key2} /\ "none" \notin {Key1, Key2, Unkeyed}
  /\ MaxVisits \in Nat \ {0} /\ MaxAsks \in Nat \ {0}

VARIABLES
  home,     \* the page the behaviour is about
  here,     \* whether it is on the screen
  visit,    \* which rendering of it
  key,      \* the choice that goes with the request
  tab,      \* the tab or filter: asked for, or a way to look at the answer
  kept,     \* _data: what the answer was for that a page keeps
  shown,    \* what its content shows
  asks,     \* the requests under way
  timer,    \* _repackTimer
  later,    \* the loads that an await or setTimeout still holds back
  last,     \* history: what became of the newest request of this visit
  missed,   \* history: the answer shown is not that request's
  row,      \* what was listed where the button of each open dialog was pressed
  excused,  \* history: the open dialogs that were asked for before the newest
            \* request was answered or over another's answer, and those under
            \* which the choice changed
  deeds     \* history: what was carried out in the last step

pageVars  == <<home, here, visit>>
askVars   == <<asks, last>>
listVars  == <<kept, shown, missed>>
rowVars   == <<row, excused>>
panelVars == <<pageVars, key, tab, askVars, listVars, timer, later, rowVars, deeds, confirmVars>>

Keys == {Key1, Key2}

\* The pages whose choice is the database, kept across pages by DbSelector; of
\* the two that drift compares, the first starts from it.
DbPages == {"vacuum", "extensions", "indexes", "queries", "planner", "drift"}
Keyed   == DbPages \cup {"s3", "jobs"}

\* The pages that keep the answer and show it again when their tab changes.
DataPages == {"extensions", "indexes", "roles", "config"}

Tabs(p) ==
  CASE p = "vacuum"     -> {"vacuum", "bloat", "repack"}
    [] p = "locks"      -> {"conflicts", "tree"}
    [] p = "jobs"       -> {"any status", "failed"}
    [] p = "extensions" -> {"all", "installed"}
    [] p = "indexes"    -> {"missing", "unused"}
    [] p = "roles"      -> {"roles", "grants"}
    [] p = "config"     -> {"every source", "one source"}
    [] OTHER            -> {p}

FirstTab(p) ==
  CHOOSE t \in Tabs(p) :
    t \in {p, "conflicts", "any status", "all", "missing", "every source"}

Kind(p, t) == IF p \in {"vacuum", "locks"} THEN t ELSE p

\* What the page has to show for what is chosen on it; the breadcrumb of the
\* object browser is part of it.
Chosen == [kind |-> Kind(home, tab), key |-> key, view |-> IF home = "s3" THEN key ELSE tab]

\* "loading...", and an error message.
Blank == [kind |-> "loading", key |-> Unkeyed, view |-> "loading"]
Error == [kind |-> "error", key |-> Unkeyed, view |-> "error"]
None  == "none"
Late  == 0    \* the element is looked up when the answer is there

Kinds == UNION {{Kind(p, t) : t \in Tabs(p)} : p \in Page}
Ask   == [kind : Kinds, key : Keys \cup {Unkeyed}, el : 0 .. MaxVisits, new : BOOLEAN]

PanelsTypeOK ==
  /\ ConfirmTypeOK
  /\ home \in Page /\ here \in BOOLEAN /\ visit \in 0 .. MaxVisits
  /\ key \in (IF home \in Keyed THEN Keys ELSE {Unkeyed}) /\ tab \in Tabs(home)
  /\ kept \in Keys \cup {Unkeyed, None}
  /\ shown \in {Blank, Error}
       \cup [kind : Kinds, key : Keys \cup {Unkeyed}, view : Tabs(home) \cup Keys]
  /\ asks \subseteq Ask /\ timer \in BOOLEAN /\ later \subseteq {"load", "loadRepack"}
  /\ last \in {"none", "pending", "shown", "failed"} /\ missed \in BOOLEAN
  /\ row \in [Box -> Keys \cup {Unkeyed, None}] /\ excused \subseteq open
  /\ deeds \subseteq [as : Keys \cup {Unkeyed}, on : Keys \cup {Unkeyed}, excused : BOOLEAN, agreed : BOOLEAN]

PanelsInit ==
  /\ ConfirmInit
  /\ home \in Page /\ here = FALSE /\ visit = 0
  /\ key = (IF home \in Keyed THEN Key1 ELSE Unkeyed) /\ tab = FirstTab(home)
  /\ kept = None /\ shown = Blank /\ asks = {}
  /\ timer = FALSE /\ later = {} /\ last = "none" /\ missed = FALSE
  /\ row = [b \in Box |-> None] /\ excused = {} /\ deeds = {}

-----------------------------------------------------------------------------
(* Asking.  k and t are the key and the tab after the step. *)

\* The page's element, for a load that looks it up first and gives up without it.
Early == IF here THEN {visit} ELSE {}

\* A request of the page for els; its newest one, if the page has to show it.
Send(kind, k, els, newest) ==
  IF els = {} THEN UNCHANGED askVars
  ELSE /\ Cardinality(asks) < MaxAsks
       /\ asks' = {[a EXCEPT !.new = @ /\ ~newest] : a \in asks}
            \cup {[kind |-> kind, key |-> k, el |-> el, new |-> newest] : el \in els}
       /\ last' = IF newest THEN "pending" ELSE last

loadRepack(k, t) == Send("repack", k, Early, t = "repack")

VacuumLoad(k, t) ==
  IF t = "repack" THEN loadRepack(k, t) ELSE Send(t, k, {Late}, TRUE)

LocksLoad(k, t) == Send(t, k, IF t = "tree" THEN Early ELSE {Late}, TRUE)

loadObjects(k)     == Send("s3", k, Early, TRUE)
JobsLoad(k)        == Send("jobs", k, Early, TRUE)
ExtensionsLoad(k)  == Send("extensions", k, {Late}, TRUE)
IndexesLoad(k)     == Send("indexes", k, {Late}, TRUE)
QueriesLoad(k)     == Send("queries", k, {Late}, TRUE)
PlannerLoad(k)     == Send("planner", k, Early, TRUE)
DriftLoad(k)       == Send("drift", k, Early, TRUE)
RolesLoad(k)       == Send("roles", k, Early, TRUE)
loadConfig(k)      == Send("config", k, {Late}, TRUE)
loadOverview(k)    == Send("server", k, Early, TRUE)
loadStats(k)       == Send("pgbouncer", k, {Late}, TRUE)

load(k, t) ==
  CASE home = "vacuum"     -> VacuumLoad(k, t)
    [] home = "locks"      -> LocksLoad(k, t)
    [] home = "s3"         -> loadObjects(k)
    [] home = "jobs"       -> JobsLoad(k)
    [] home = "extensions" -> ExtensionsLoad(k)
    [] home = "indexes"    -> IndexesLoad(k)
    [] home = "queries"    -> QueriesLoad(k)
    [] home = "planner"    -> PlannerLoad(k)
    [] home = "drift"      -> DriftLoad(k)
    [] home = "roles"      -> RolesLoad(k)
    [] home = "config"     -> loadConfig(k)
    [] home = "server"     -> loadOverview(k)
    [] home = "pgbouncer"  -> loadStats(k)

-----------------------------------------------------------------------------
(* Moving about *)

\* The choice changes under the dialogs that are open.
Unsettle == excused' = open

\* navigate, and render of the page: content is emptied.  A page with a
\* selector awaits the list of databases before it loads; the object browser
\* starts at the root again.
Open ==
  /\ visit < MaxVisits
  /\ visit' = visit + 1 /\ here' = TRUE
  /\ shown' = Blank /\ missed' = FALSE
  /\ key' = IF home = "s3" THEN Key1 ELSE key
  /\ asks' = {[a EXCEPT !.new = FALSE] : a \in asks} /\ last' = "none"
  /\ later' = later \cup {"load"}
  /\ IF key' # key THEN Unsettle ELSE UNCHANGED excused
  /\ UNCHANGED <<home, tab, kept, timer, row, confirmVars>>

Leave ==
  /\ here
  /\ here' = FALSE /\ shown' = Blank
  /\ UNCHANGED <<home, visit, key, tab, askVars, kept, missed, timer, later, rowVars, confirmVars>>

\* On another page another database is chosen.
ChooseElsewhere ==
  /\ ~here /\ home \in DbPages
  /\ \E k \in Keys \ {key} : key' = k
  /\ Unsettle
  /\ UNCHANGED <<pageVars, tab, askVars, listVars, timer, later, row, confirmVars>>

\* Variant for checking the properties: the selector does not load.
ChooseOnly ==
  /\ here /\ home \in Keyed
  /\ \E k \in Keys \ {key} : key' = k
  /\ Unsettle
  /\ UNCHANGED <<pageVars, tab, askVars, listVars, timer, later, row, confirmVars>>

\* DbSelector, a folder of the object browser or a filter of the jobs.
Choose ==
  /\ here /\ home \in Keyed \ {"drift"}
  /\ \E k \in Keys \ {key} : key' = k /\ load(k, tab)
  /\ Unsettle
  /\ UNCHANGED <<pageVars, tab, listVars, timer, later, row, confirmVars>>

\* The databases to compare: nothing is asked for until "compare" is pressed.
ChooseToCompare ==
  /\ here /\ home = "drift"
  /\ \E k \in Keys \ {key} : key' = k
  /\ asks' = {[a EXCEPT !.new = FALSE] : a \in asks} /\ last' = "none"
  /\ Unsettle
  /\ UNCHANGED <<pageVars, tab, listVars, timer, later, row, confirmVars>>

\* The tabs and the filter that have to ask again.
switchTab ==
  /\ here /\ home \in {"vacuum", "locks", "jobs"}
  /\ \E t \in Tabs(home) : tab' = t /\ load(key, t)
  /\ timer' = FALSE
  /\ UNCHANGED <<pageVars, key, listVars, later, rowVars, confirmVars>>

\* The tabs and filters that show what is there again.
renderTab ==
  /\ here /\ home \in DataPages
  /\ \E t \in Tabs(home) \ {tab} :
       /\ tab' = t
       /\ shown' = IF kept = None THEN shown ELSE [kind |-> home, key |-> kept, view |-> t]
  /\ UNCHANGED <<pageVars, key, askVars, kept, missed, timer, later, rowVars, confirmVars>>

\* "comparing schemas..." takes the place of the last comparison.
Comparing ==
  /\ shown' = IF here /\ home = "drift" THEN Blank ELSE shown
  /\ UNCHANGED <<kept, missed>>

Refresh ==
  /\ here
  /\ load(key, tab) /\ Comparing
  /\ UNCHANGED <<pageVars, key, tab, timer, later, rowVars, confirmVars>>

\* What was held back runs, whatever page is shown by then.
RunLater ==
  /\ \E what \in later :
       /\ later' = later \ {what}
       /\ IF what = "load" THEN load(key, tab) ELSE loadRepack(key, tab)
  /\ Comparing
  /\ UNCHANGED <<pageVars, key, tab, timer, rowVars, confirmVars>>

Poll ==
  /\ timer
  /\ loadRepack(key, tab)
  /\ UNCHANGED <<pageVars, key, tab, listVars, timer, later, rowVars, confirmVars>>

-----------------------------------------------------------------------------
(* Answers *)

\* The roles are put into the element there is by then, their error is not.
Visible(a) == here /\ (a.el \in {Late, visit} \/ a.kind = "roles")

Taken(a, outcome) ==
  /\ asks' = asks \ {a}
  /\ last' = IF a.new THEN outcome ELSE last

\* The answer to a is put into its element.
Show(a, view) ==
  /\ Taken(a, "shown")
  /\ shown' = IF Visible(a) THEN [kind |-> a.kind, key |-> a.key, view |-> view] ELSE shown
  /\ missed' = IF Visible(a) THEN ~a.new ELSE missed

ShowError(a, els) ==
  /\ Taken(a, "failed")
  /\ shown' = IF here /\ a.el \in els THEN Error ELSE shown
  /\ UNCHANGED missed

\* "handled": by the toast; what was shown stays.
KeepShown(a) == Taken(a, "failed") /\ UNCHANGED <<shown, missed>>

VacuumAnswered(a) == Show(a, a.kind) /\ UNCHANGED <<kept, timer>>

\* A running repack is polled for, whether or not its tab is still shown.
RepackAnswered(a) ==
  /\ Show(a, a.kind)
  /\ timer' \in BOOLEAN
  /\ UNCHANGED kept

LocksAnswered(a)   == Show(a, a.kind) /\ UNCHANGED <<kept, timer>>

\* The breadcrumb is that of the folder that is open when the answer comes.
ObjectsAnswered(a) == Show(a, key) /\ UNCHANGED <<kept, timer>>

\* So is the filter by status.
JobsAnswered(a)    == Show(a, tab) /\ UNCHANGED <<kept, timer>>

QueriesAnswered(a) == Show(a, tab) /\ UNCHANGED <<kept, timer>>
PlannerAnswered(a) == Show(a, tab) /\ UNCHANGED <<kept, timer>>
DriftAnswered(a)   == Show(a, tab) /\ UNCHANGED <<kept, timer>>
ServerAnswered(a)  == Show(a, tab) /\ UNCHANGED <<kept, timer>>
PgBouncerAnswered(a) == Show(a, tab) /\ UNCHANGED <<kept, timer>>

\* The pages that keep their data keep it even when they are not on the screen.
Keep(a) == Show(a, tab) /\ kept' = a.key /\ UNCHANGED timer

ExtensionsAnswered(a) == Keep(a)
IndexesAnswered(a)    == Keep(a)
RolesAnswered(a)      == Keep(a)
ConfigAnswered(a)     == Keep(a)

Answered(a) ==
  /\ CASE a.kind \in {"vacuum", "bloat"}    -> VacuumAnswered(a)
       [] a.kind = "repack"                 -> RepackAnswered(a)
       [] a.kind \in {"conflicts", "tree"}  -> LocksAnswered(a)
       [] a.kind = "s3"                     -> ObjectsAnswered(a)
       [] a.kind = "jobs"                   -> JobsAnswered(a)
       [] a.kind = "queries"                -> QueriesAnswered(a)
       [] a.kind = "planner"                -> PlannerAnswered(a)
       [] a.kind = "drift"                  -> DriftAnswered(a)
       [] a.kind = "server"                 -> ServerAnswered(a)
       [] a.kind = "pgbouncer"              -> PgBouncerAnswered(a)
       [] a.kind = "extensions"             -> ExtensionsAnswered(a)
       [] a.kind = "indexes"                -> IndexesAnswered(a)
       [] a.kind = "roles"                  -> RolesAnswered(a)
       [] a.kind = "config"                 -> ConfigAnswered(a)
  /\ UNCHANGED <<pageVars, key, tab, later, rowVars, confirmVars>>

\* An error, or a login dialog that is turned away.
Failed(a) ==
  /\ CASE a.kind \in {"vacuum", "bloat", "conflicts", "extensions", "indexes", "queries"}
                                                           -> KeepShown(a)
       [] a.kind \in {"config", "pgbouncer"}               -> ShowError(a, {Late})
       [] OTHER                                            -> ShowError(a, {Late, visit})
  /\ UNCHANGED <<pageVars, key, tab, kept, timer, later, rowVars, confirmVars>>

-----------------------------------------------------------------------------
(* The buttons of a row *)

\* The pages that ask before they act, and those that act without asking.
AskingPages == {"vacuum", "locks", "s3", "extensions", "queries", "config", "pgbouncer"}
ActingPages == {"vacuum", "extensions", "config", "pgbouncer"}

\* A button of a row, or one above the list.
Offered == shown \notin {Blank, Error} \/ home \in {"queries", "config", "pgbouncer"}

\* The list is the answer to the newest request.
UpToDate == last = "shown" /\ ~missed

\* A button is pressed and asks first.
Pressed(b) ==
  /\ here /\ home \in AskingPages /\ Offered
  /\ showConfirm(b)
  /\ row' = [row EXCEPT ![b] = shown.key]
  /\ excused' = IF UpToDate THEN excused ELSE excused \cup {b}
  /\ UNCHANGED <<pageVars, key, tab, askVars, listVars, timer, later>>

\* A button is pressed and acts: vacuum, install, reload, pause, resume.
ActAtOnce ==
  /\ here /\ home \in ActingPages /\ Offered
  /\ deeds' = {[as |-> shown.key, on |-> IF home \in DbPages THEN key ELSE shown.key,
                excused |-> ~UpToDate, agreed |-> TRUE]}
  /\ later' = later \cup {"load"}
  /\ UNCHANGED <<pageVars, key, tab, askVars, listVars, timer, rowVars, confirmVars>>

\* The key of an object or a process is in the button itself; the database is
\* read from the selector when the request is made.
Target(b) == IF home \in DbPages THEN key ELSE row[b]

\* The load that follows: at once, or after some seconds.
Afterwards == IF home = "vacuum" THEN {"load", "loadRepack"} ELSE {"load"}

\* The callers of the dialogs bs go on with a yes; gone are the others settled.
CarryOut(bs, gone) ==
  /\ deeds' = {[as |-> row[b], on |-> Target(b), excused |-> b \in excused,
                agreed |-> b = box \/ b \in swapped] : b \in bs}
  /\ IF bs = {} THEN UNCHANGED later ELSE \E what \in Afterwards : later' = later \cup {what}
  /\ row' = [b \in Box |-> IF b \in gone THEN None ELSE row[b]]
  /\ excused' = excused \ gone
  /\ UNCHANGED <<pageVars, key, tab, askVars, listVars, timer>>

AnswerBox ==
  \E yes \in BOOLEAN :
    \/ Press /\ CarryOut(IF yes THEN {box} ELSE {}, {box})
    \/ Key /\ CarryOut(IF yes THEN open ELSE {}, open)

-----------------------------------------------------------------------------
Server == \E a \in asks : Answered(a) \/ Failed(a)

User ==
  \/ Open \/ Leave \/ ChooseElsewhere \/ Choose \/ ChooseToCompare \/ switchTab \/ renderTab \/ Refresh
  \/ \E b \in Box : Pressed(b)

PanelsNext ==
  \/ (User \/ Server \/ RunLater \/ Poll) /\ deeds' = {}
  \/ ActAtOnce \/ AnswerBox

PanelsSpec == PanelsInit /\ [][PanelsNext]_panelVars

-----------------------------------------------------------------------------
\* A page shows something else than what is chosen, or still nothing, only
\* while what is chosen was not asked for or not answered, after that request
\* failed, or when another answer came after its answer.
ShownExplained ==
  here /\ shown \notin {Error, Chosen}
    => last \in {"none", "pending", "failed"} \/ missed

\* An action is carried out on what its row was listed under, unless the list
\* was not the answer to the newest request when the button was pressed, or
\* the choice changed before the confirmation.
ActsAsListed == \A d \in deeds : d.on = d.as \/ d.excused

\* Nothing is carried out without the user's yes to its own dialog, unless
\* another dialog had removed that.
DoneWasAgreed == \A d \in deeds : d.agreed

\* What showConfirm (app.js) is asked for comes about as it was asked.
DeedsExplained == ActsAsListed /\ DoneWasAgreed

\* What these rest on.  Of the requests under way one at most is the newest; on
\* the screen it is for what is chosen and its answer will be seen.
AskInv(a) ==
  /\ a.kind \in {Kind(home, t) : t \in Tabs(home)}
  /\ home \in DataPages \ {"roles"} => a.el = Late
  /\ a.new => last = "pending"
  /\ a.new /\ here => a.key = key /\ a.kind = Chosen.kind /\ a.el \in {Late, visit}

NewestInv ==
  /\ \A a \in asks : AskInv(a)
  /\ \A a, b \in asks : a.new /\ b.new => a = b

\* Once it is answered, the list and what is kept of it are of what is chosen.
ListInv ==
  /\ here /\ UpToDate => shown \in {Error, Chosen} /\ (home \in DataPages => kept = key)
  /\ home = "queries" => shown # Error

\* Only the page of the vacuum polls.
LaterInv == home # "vacuum" => timer = FALSE /\ "loadRepack" \notin later

\* A dialog that is not excused was opened over the database that is chosen, and
\* one that is not on the screen was removed by another.
RowInv ==
  /\ \A b \in open : row[b] \in Keys \cup {Unkeyed} /\ (b = box \/ b \in swapped)
  /\ home \in DbPages => \A b \in open \ excused : row[b] = key

PanelsInductive ==
  PanelsTypeOK /\ NewestInv /\ ListInv /\ LaterInv /\ RowInv /\ DeedsExplained
=============================================================================
