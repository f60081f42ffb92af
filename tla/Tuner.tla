-------------------------------- MODULE Tuner --------------------------------
(***************************************************************************)
(* The tuning wizard (backend/web/static/js/tuner.js) and the part of the  *)
(* analysis that it repeats (backend/service/tuner.go,                     *)
(* calculateConnections).                                                  *)
(*                                                                         *)
(* Three steps share one element: the detected system, the inputs, the     *)
(* recommendations.  Each is put there by an answer or a button, whatever  *)
(* the element shows by then.  What is applied is confirmed first, and     *)
(* applying is followed by another analysis or, after a restart, by        *)
(* another detection.                                                      *)
(*                                                                         *)
(* Of an analysis the model keeps the expected connections it was asked    *)
(* for; the profile goes with them.  One confirmation dialog is open at a  *)
(* time (module Confirm has more).                                         *)
(***************************************************************************)
EXTENDS Integers, FiniteSets, Functions

CONSTANTS
  Cores,      \* the processors of the server
  Typed,      \* what may be typed for the connections, 0 for nothing
  Setting,    \* the settings that are recommended
  Restarting, \* those of them that take a restart
  MaxWizards, \* how often the page is opened
  MaxLoads,   \* the detections and the analyses under way at once
  MaxApplies  \* the applications under way at once

ASSUME TunerAssumption ==
  /\ Cores \in Nat \ {0} /\ Typed \subseteq Int
  /\ Restarting \subseteq Setting
  /\ \A n \in {MaxWizards, MaxLoads, MaxApplies} : n \in Nat \ {0}

VARIABLES
  wizard,     \* which rendering of the page is on the screen, 0 when none
  opened,     \* the renderings so far
  step,       \* _step, as the progress bar shows it
  content,    \* what the element of the steps shows
  typed,      \* the input of step 2
  known,      \* _system is there
  _result,    \* the connections that the last analysis was for
  _selected,  \* the settings that are ticked
  detections, \* the answers about the system under way, by rendering
  analyses,   \* the analyses under way
  asked,      \* the confirmation that is open
  applies,    \* the applications under way
  timers,     \* what the page does after an application
  crossed     \* history: in this rendering an analysis was answered, or a
              \* detection begun, while the system was being detected

wizardVars == <<wizard, opened>>
stepVars   == <<step, content, typed>>
resultVars == <<_result, _selected>>
tunerVars  == <<wizardVars, stepVars, known, resultVars, detections, analyses,
                asked, applies, timers, crossed>>

NoResult == 0
NoDialog == [open |-> FALSE]

StepOf == [detecting |-> 1, system |-> 1, undetected |-> 1, config |-> 2, review |-> 3]

\* parseInt(...) || 200
Parsed(n) == IF n = 0 THEN 200 ELSE n
Conns == {Parsed(n) : n \in Typed \cup {0}}

\* What the confirmation asks.  renewed: an analysis was answered under it.
Question == [open : {TRUE}, from : Conns, picked : (SUBSET Setting) \ {{}},
             renewed : BOOLEAN, restart : BOOLEAN]

TunerTypeOK ==
  /\ wizard \in {0, opened} /\ opened \in 0 .. MaxWizards
  /\ step \in 1 .. 3 /\ content \in DOMAIN StepOf \cup {"none"} /\ typed \in Typed \cup {200}
  /\ known \in BOOLEAN /\ _result \in Conns \cup {NoResult} /\ _selected \subseteq Setting
  /\ detections \in [1 .. MaxWizards -> Nat]
  /\ analyses \subseteq [conn : Conns, mine : BOOLEAN]
  /\ asked \in {NoDialog} \cup Question
  /\ IsFiniteSet(applies) /\ Cardinality(applies) <= MaxApplies /\ timers \subseteq {"analyze", "renderStep1"}
  /\ crossed \in BOOLEAN

TunerInit ==
  /\ wizard = 0 /\ opened = 0 /\ step = 1 /\ content = "none" /\ typed = 200
  /\ known = FALSE /\ _result = NoResult /\ _selected = {}
  /\ detections = [v \in 1 .. MaxWizards |-> 0] /\ analyses = {}
  /\ asked = NoDialog /\ applies = {} /\ timers = {} /\ crossed = FALSE

-----------------------------------------------------------------------------
(* The connections *)

AtLeast(n, m) == IF n < m THEN m ELSE n
AtMost(n, m)  == IF n > m THEN m ELSE n

\* The analysis: an expectation that is not positive counts as 100.
calculatePGMaxConn(conn, cpu) ==
  AtMost(AtLeast(cpu * 4, 50), AtMost(AtLeast(conn \div 2, 50), 500))

calculateConnections(expected, cpu) ==
  LET conn == IF expected <= 0 THEN 100 ELSE expected
      pg   == calculatePGMaxConn(conn, cpu)
      pool == AtLeast((pg - 3) \div 2, 5)
  IN  [pg |-> pg, clients |-> conn, pool |-> pool, db |-> pg - 3,
       min |-> AtLeast(pool \div 4, 2), reserve |-> AtLeast(pool \div 4, 2)]

\* Variant for checking the properties: without the upper bound.
previewUncapped(conn, cpu) ==
  LET wanted == IF cpu * 4 < 50 THEN 50 ELSE cpu * 4
      half   == IF conn \div 2 < 50 THEN 50 ELSE conn \div 2
      pg     == wanted
      pool   == IF (pg - 3) \div 2 > 5 THEN (pg - 3) \div 2 ELSE 5
      spare  == IF pool \div 4 > 2 THEN pool \div 4 ELSE 2
  IN  [pg |-> pg, clients |-> conn, pool |-> pool, db |-> pg - 3, min |-> spare, reserve |-> spare]

\* "Mirror backend logic"
previewConnections(conn, cpu) ==
  LET wanted == IF cpu * 4 < 50 THEN 50 ELSE cpu * 4
      half   == IF conn \div 2 < 50 THEN 50 ELSE conn \div 2
      cap    == IF half > 500 THEN 500 ELSE half
      pg     == IF wanted > cap THEN cap ELSE wanted
      pool   == IF (pg - 3) \div 2 > 5 THEN (pg - 3) \div 2 ELSE 5
      spare  == IF pool \div 4 > 2 THEN pool \div 4 ELSE 2
  IN  [pg |-> pg, clients |-> conn, pool |-> pool, db |-> pg - 3, min |-> spare, reserve |-> spare]

-----------------------------------------------------------------------------
(* Step 1 *)

Here == wizard # 0

Loads == SumFunction(detections) + Cardinality(analyses)

\* The requests for the page v; an exception before one when there is no page.
DetectSystem(v) ==
  /\ Loads < MaxLoads
  /\ detections' = [detections EXCEPT ![v] = @ + 1]

\* The buttons of the analyses under way are off the screen now.
Outrun == {[a EXCEPT !.mine = FALSE] : a \in analyses}

renderStep1 ==
  /\ step' = 1 /\ content' = "detecting"
  /\ DetectSystem(wizard) /\ crossed' = (crossed \/ detections[wizard] > 0)
  /\ analyses' = Outrun
  /\ UNCHANGED typed

\* render
OpenWizard ==
  /\ opened < MaxWizards
  /\ opened' = opened + 1 /\ wizard' = opened'
  /\ step' = 1 /\ content' = "detecting" /\ _selected' = {}
  /\ DetectSystem(wizard') /\ crossed' = FALSE
  /\ analyses' = Outrun
  /\ UNCHANGED <<typed, known, _result, asked, applies, timers>>

LeaveWizard ==
  /\ Here
  /\ wizard' = 0 /\ content' = "none" /\ analyses' = Outrun
  /\ UNCHANGED <<opened, step, typed, known, resultVars, detections, asked, applies, timers, crossed>>

\* The answer goes into the element its rendering had, over whatever is there.
SystemDetected ==
  /\ \E v \in 1 .. MaxWizards, new \in {"system", "undetected"} :
       /\ detections[v] > 0
       /\ detections' = [detections EXCEPT ![v] = @ - 1]
       /\ known' = (known \/ new = "system")
       /\ content' = IF v = wizard THEN new ELSE content
       /\ analyses' = IF v = wizard THEN Outrun ELSE analyses
  /\ UNCHANGED <<wizardVars, step, typed, resultVars, asked, applies, timers, crossed>>

\* The button "back" of step 2, or five seconds after a restart.
BackToStep1 ==
  /\ content = "config"
  /\ renderStep1
  /\ UNCHANGED <<wizardVars, known, resultVars, asked, applies, timers>>

Redetect ==
  /\ "renderStep1" \in timers
  /\ timers' = timers \ {"renderStep1"}
  /\ IF Here THEN renderStep1
     ELSE step' = 1 /\ UNCHANGED <<content, typed, detections, analyses, crossed>>
  /\ UNCHANGED <<wizardVars, known, resultVars, asked, applies>>

-----------------------------------------------------------------------------
(* Step 2 *)

\* "next" of step 1 and "back" of step 3: the inputs start again.
goStep2 ==
  /\ content \in {"system", "review"}
  /\ step' = 2 /\ content' = "config" /\ typed' = 200
  /\ analyses' = Outrun
  /\ UNCHANGED <<wizardVars, known, resultVars, detections, asked, applies, timers, crossed>>

TypeConnections ==
  /\ content = "config"
  /\ \E n \in Typed : typed' = n
  /\ UNCHANGED <<wizardVars, step, content, known, resultVars, detections, analyses,
                 asked, applies, timers, crossed>>

\* The inputs are those on the screen; without them, the defaults.
analyze ==
  /\ Loads < MaxLoads
  /\ analyses' = analyses \cup
       {IF content = "config" THEN [conn |-> Parsed(typed), mine |-> TRUE]
        ELSE [conn |-> Parsed(0), mine |-> FALSE]}

PressAnalyze ==
  /\ content = "config" /\ \A a \in analyses : ~a.mine
  /\ analyze
  /\ UNCHANGED <<wizardVars, stepVars, known, resultVars, detections, asked, applies, timers, crossed>>

\* One second after an application.
Reanalyze ==
  /\ "analyze" \in timers
  /\ timers' = timers \ {"analyze"}
  /\ analyze
  /\ UNCHANGED <<wizardVars, stepVars, known, resultVars, detections, asked, applies, crossed>>

-----------------------------------------------------------------------------
(* Step 3 *)

\* An answer is kept, everything is ticked, and step 3 is shown: off the page
\* that fails after the step was set.
Analyzed ==
  /\ \E a \in analyses :
       /\ _result' = a.conn /\ _selected' = Setting
       /\ step' = 3
       /\ IF Here THEN content' = "review" /\ analyses' = {[b EXCEPT !.mine = FALSE] : b \in analyses \ {a}}
          ELSE UNCHANGED content /\ analyses' = analyses \ {a}
  /\ crossed' = (crossed \/ (Here /\ detections[wizard] > 0))
  /\ asked' = IF asked = NoDialog THEN asked ELSE [asked EXCEPT !.renewed = TRUE]
  /\ UNCHANGED <<wizardVars, typed, known, detections, applies, timers>>

AnalysisFailed ==
  /\ \E a \in analyses : analyses' = analyses \ {a}
  /\ UNCHANGED <<wizardVars, stepVars, known, resultVars, detections, asked, applies, timers, crossed>>

toggle ==
  /\ content = "review"
  /\ \E s \in Setting :
       _selected' = IF s \in _selected THEN _selected \ {s} ELSE _selected \cup {s}
  /\ UNCHANGED <<wizardVars, stepVars, known, _result, detections, analyses, asked, applies, timers, crossed>>

toggleAll ==
  /\ content = "review" /\ _selected' \in {Setting, {}}
  /\ UNCHANGED <<wizardVars, stepVars, known, _result, detections, analyses, asked, applies, timers, crossed>>

\* The settings are noted before the question.
applySelected ==
  /\ content = "review" /\ _selected # {} /\ asked = NoDialog
  /\ \E restart \in BOOLEAN :
       asked' = [open |-> TRUE, from |-> _result, picked |-> _selected, renewed |-> FALSE,
                 restart |-> restart /\ _selected \cap Restarting # {}]
  /\ UNCHANGED <<wizardVars, stepVars, known, resultVars, detections, analyses, applies, timers, crossed>>

\* Variant for checking the properties: the settings are looked up after it.
PayloadLate(question) ==
  [from |-> _result, picked |-> _selected, pgbouncer |-> _result,
   restart |-> question.restart]

\* PgBouncer's are looked up after it.
Payload(question) ==
  [from |-> question.from, picked |-> question.picked, pgbouncer |-> _result,
   restart |-> question.restart]

Confirmed ==
  /\ asked # NoDialog /\ Cardinality(applies) < MaxApplies
  /\ applies' = applies \cup {Payload(asked)}
  /\ asked' = NoDialog
  /\ UNCHANGED <<wizardVars, stepVars, known, resultVars, detections, analyses, timers, crossed>>

Declined ==
  /\ asked # NoDialog /\ asked' = NoDialog
  /\ UNCHANGED <<wizardVars, stepVars, known, resultVars, detections, analyses, applies, timers, crossed>>

\* The answers to /tuner/apply and, where asked for, /config/restart; or an
\* error of either.
Applied ==
  /\ \E a \in applies :
       /\ applies' = applies \ {a}
       /\ \/ UNCHANGED timers
          \/ LET next == IF a.restart THEN "renderStep1" ELSE "analyze"
             IN  next \notin timers /\ timers' = timers \cup {next}
  /\ UNCHANGED <<wizardVars, stepVars, known, resultVars, detections, analyses, asked, crossed>>

-----------------------------------------------------------------------------
TunerNext ==
  \/ OpenWizard \/ LeaveWizard \/ SystemDetected \/ BackToStep1 \/ Redetect
  \/ goStep2 \/ TypeConnections \/ PressAnalyze \/ Reanalyze \/ Analyzed \/ AnalysisFailed
  \/ toggle \/ toggleAll \/ applySelected \/ Confirmed \/ Declined \/ Applied

TunerSpec == TunerInit /\ [][TunerNext]_tunerVars

-----------------------------------------------------------------------------
\* The progress bar is that of the step on the screen, unless an answer or
\* another detection crossed the detection of the system.
StepIsContent == Here /\ ~crossed => step = StepOf[content]

\* The settings sent are those the dialog listed, and PgBouncer's belong to
\* them, unless another analysis was answered under the dialog.
AppliesAsAgreed ==
  [][\A a \in applies' \ applies :
       /\ a.from = asked.from /\ a.picked = asked.picked
       /\ a.pgbouncer = a.from \/ asked.renewed]_tunerVars

\* "Mirror backend logic": step 2 shows what the analysis will answer, unless
\* a negative number is typed.
PreviewIsAnalysis ==
  content = "config" /\ typed >= 0 =>
    previewConnections(Parsed(typed), IF known THEN Cores ELSE 4)
      = calculateConnections(Parsed(typed), Cores)

\* The wizard (tuner.js) shows the step it is at and, in step 2, the truth.
WizardExplained == StepIsContent /\ PreviewIsAnalysis

(* What these rest on. *)

\* While its system is being detected a rendering shows that, if nothing crossed it.
DetectInv ==
  /\ Here <=> content # "none"
  /\ \A v \in 1 .. MaxWizards : v > opened => detections[v] = 0
  /\ Here /\ ~crossed /\ detections[wizard] > 0 => content = "detecting" /\ detections[wizard] = 1

\* Nothing gets past step 1 before the system is known.
KnownInv ==
  ~known => /\ content \notin {"system", "config", "review"}
            /\ analyses = {} /\ asked = NoDialog /\ applies = {} /\ timers = {}

\* The question is about the result there is, or was answered under it.
AskedInv ==
  /\ content = "review" => _result \in Conns
  /\ asked # NoDialog => asked.from = _result \/ asked.renewed

TunerInductive == TunerTypeOK /\ WizardExplained /\ DetectInv /\ KnownInv /\ AskedInv
=============================================================================
