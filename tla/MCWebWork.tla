------------------------------ MODULE MCWebWork ------------------------------
(***************************************************************************)
(* Small instances of the pages that follow a job, tune the server, run    *)
(* and explain queries and save the settings.  They share no state, so a   *)
(* behaviour is one of the five; the others stay as they start.            *)
(***************************************************************************)
EXTENDS Trackers, Tuner, Editor, Plans, Forms, TLC

CONSTANT Filled   \* what is saved for an empty number

VARIABLE part     \* which one

WorkInit ==
  /\ part \in {"trackers", "tuner", "editor", "plans", "forms"}
  /\ (part # "trackers" => of = "vacuum") /\ (part # "plans" => chosenDb = CHOOSE d \in Selectable : TRUE)
  /\ server = [s \in Section |-> Blank]
  /\ TrackersInit /\ TunerInit /\ EditorInit /\ PlansInit /\ FormsInit

WorkNext ==
  /\ UNCHANGED part
  /\ \/ part = "trackers" /\ TrackersNext /\ UNCHANGED <<tunerVars, sqlVars, plansVars, formsVars>>
     \/ part = "tuner" /\ TunerNext /\ UNCHANGED <<trackVars, sqlVars, plansVars, formsVars>>
     \/ part = "editor" /\ EditorNext /\ UNCHANGED <<trackVars, tunerVars, plansVars, formsVars>>
     \/ part = "plans" /\ PlansNext /\ UNCHANGED <<trackVars, tunerVars, sqlVars, formsVars>>
     \/ part = "forms" /\ FormsNext /\ UNCHANGED <<trackVars, tunerVars, sqlVars, plansVars>>

WorkSpec ==
  WorkInit /\ [][WorkNext]_<<part, trackVars, tunerVars, sqlVars, plansVars, formsVars>>

\* The type invariants of the five.
WorkTypeOK == TrackersTypeOK /\ TunerTypeOK /\ EditorTypeOK /\ PlansTypeOK /\ FormsTypeOK

\* An expectation that calculateConnections takes for another.
TypedNegative == {-5}

\* What the forms make of an empty input: alerts and schedule save a number, the
\* text of a profile is shown as it is.
MCDefault == [s \in Section |-> IF s = "connections" THEN Blank ELSE Filled]

\* Jobs differ in what they are remembered under, and loads in nothing.
Symmetry == Permutations(Job) \cup Permutations(Lister)

\* The page with two jobs is not opened again while it still loads.
OneLoading == of = "database" => Cardinality(later) <= 1

\* What was agreed to is applied before the next question.
AppliedFirst == applies # {} => asked = NoDialog

\* The dialogs of queries.js share only the saves with its list of plans, and the
\* comparison only the ticks: plans are saved and listed from one dialog, and
\* compared when nothing else is under way.  The clock starts with the first plan.
ListsLoading == \E l \in Lister : lists[l].step # "idle"

OneAtATime ==
  /\ given # 0 \/ ListsLoading =>
       /\ explains = {} /\ ~crowded /\ ~moved
       /\ modal = (CHOOSE e \in Explain : TRUE) /\ chosenDb = CHOOSE d \in Selectable : TRUE
  /\ compares \cup compared # {} => ~ListsLoading /\ saves \cup pending = {}
  /\ given # 0 => created[1] = 0

\* A request to save that cannot be stored any more changes nothing.
SavesLeft == saved = MaxSaves => \A p \in posts : p.stored

\* The schedule and the profiles are enough for the selector.
SelectorApart ==
  _settings # NoConfig \/ (\E g \in gets : g.why = "selector") =>
    _config["alerts"] = NoConfig /\ server["alerts"] = Blank
=============================================================================
