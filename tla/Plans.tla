-------------------------------- MODULE Plans --------------------------------
(***************************************************************************)
(* Query plans: the dialog that explains a slow query and saves its plan,  *)
(* and the comparison of two saved plans (backend/web/static/js/queries.js)*)
(* over the store of saved plans (backend/service/plan_store.go).          *)
(*                                                                         *)
(* An explanation writes into whichever dialog there is when it is         *)
(* answered, and gives that dialog's button "save plan" one thing more to  *)
(* do: to save the plan of its own query, on the database chosen by then.  *)
(* The store reads the clock before it takes its lock, and keeps the Limit *)
(* plans put in last.  The page loads them in three moments, asked, listed *)
(* and answered: of two loads under way either may be answered last.  It   *)
(* shows the newest Shows of what it has and remembers what was ticked,    *)
(* shown or not.                                                           *)
(***************************************************************************)
EXTENDS Naturals, Sequences, FiniteSets, SequencesExt

CONSTANTS
  Explain,    \* the explanations at once
  NoExplain,  \* no dialog
  Selectable, \* the databases that may be chosen
  MaxPlans,   \* the plans ever saved
  Limit,      \* PlanStore.limit
  Shows,      \* the saved plans that the page shows
  Lister      \* the loads of the page under way at once

ASSUME PlansAssumption ==
  /\ NoExplain \notin Explain
  /\ {MaxPlans, Limit, Shows} \subseteq Nat /\ Shows <= Limit

VARIABLES
  explains,    \* the explanations that are not answered
  modal,       \* whose dialog is on the screen
  shows,       \* whose plan, or error, is in it
  listeners,   \* whose plans its button saves
  planDb,      \* the database of each explanation
  chosenDb,    \* DbSelector
  saves,       \* the explanations whose plans are about to be saved
  given,       \* PlanStore.seq: the ids given out
  created,     \* SavedPlan.CreatedAt
  pending,     \* the plans that have their id and wait for the lock
  order,       \* the store: the ids, the last one put in first
  inserted,    \* history: how many were ever put in
  place,       \* history: each plan's number among them, 0 before
  lists,       \* what each load of the page has been answered so far
  _savedPlans, \* the ids the page has
  asOf,        \* history: how many had been put in when they were listed
  _compare,    \* the ids ticked, at most two
  compares,    \* the ids that compareSelected waits for
  compared,    \* the ids it showed last
  crowded,     \* history: the dialog was opened while an explanation was under way
  moved        \* history: the database was chosen again under the dialog

dialogVars == <<explains, modal, shows, listeners, planDb, crowded, moved>>
storeVars   == <<given, created, pending, order, inserted, place>>
listVars    == <<lists, _savedPlans, asOf>>
savedVars   == <<storeVars, listVars>>
compareVars == <<_compare, compares, compared>>
plansVars  == <<dialogVars, chosenDb, saves, savedVars, compareVars>>

Ids == 1 .. MaxPlans

\* A load that was listed has the plans that were in the store then.
Listing == [step : {"idle", "asked", "listed"}, ids : SUBSET Ids, asOf : 0 .. MaxPlans]

PlansTypeOK ==
  /\ explains \subseteq Explain /\ modal \in Explain \cup {NoExplain}
  /\ shows \in Explain \cup {NoExplain} /\ listeners \subseteq Explain
  /\ planDb \in [Explain -> Selectable] /\ chosenDb \in Selectable
  /\ saves \subseteq Explain
  /\ given \in 0 .. MaxPlans /\ created \in [Ids -> Nat] /\ pending \subseteq Ids
  /\ order \in Seq(Ids) /\ Len(order) <= Limit
  /\ inserted \in 0 .. MaxPlans /\ place \in [Ids -> 0 .. MaxPlans]
  /\ lists \in [Lister -> Listing]
  /\ _savedPlans \subseteq Ids /\ asOf \in 0 .. MaxPlans
  /\ _compare \in Seq(Ids) /\ Len(_compare) <= 2
  /\ compares \subseteq Ids /\ compared \subseteq Ids
  /\ crowded \in BOOLEAN /\ moved \in BOOLEAN

NoList == [step |-> "idle", ids |-> {}, asOf |-> 0]

PlansInit ==
  /\ explains = {} /\ modal = NoExplain /\ shows = NoExplain /\ listeners = {}
  /\ chosenDb \in Selectable /\ planDb = [e \in Explain |-> chosenDb]
  /\ saves = {} /\ order = <<>> /\ inserted = 0 /\ given = 0 /\ pending = {}
  /\ created = [id \in Ids |-> 0] /\ place = [id \in Ids |-> 0]
  /\ lists = [l \in Lister |-> NoList] /\ _savedPlans = {} /\ asOf = 0
  /\ _compare = <<>> /\ compares = {} /\ compared = {}
  /\ crowded = FALSE /\ moved = FALSE

-----------------------------------------------------------------------------
(* The dialog *)

\* Variant for checking the properties: the dialog is used again as it is.
explainAgain(e) ==
  /\ e \notin explains \cup listeners
  /\ explains' = explains \cup {e} /\ planDb' = [planDb EXCEPT ![e] = chosenDb]
  /\ modal' = e /\ UNCHANGED <<shows, listeners>>
  /\ crowded' = (explains # {}) /\ moved' = FALSE
  /\ UNCHANGED <<chosenDb, saves, savedVars, compareVars>>

\* A dialog that is there is replaced, and its button with it.
explain(e) ==
  /\ e \notin explains \cup listeners
  /\ explains' = explains \cup {e} /\ planDb' = [planDb EXCEPT ![e] = chosenDb]
  /\ modal' = e /\ shows' = NoExplain /\ listeners' = {}
  /\ crowded' = (explains # {}) /\ moved' = FALSE
  /\ UNCHANGED <<chosenDb, saves, savedVars, compareVars>>

\* Without a dialog the answer ends in an exception.
Explained ==
  /\ \E e \in explains, ok \in BOOLEAN :
       /\ explains' = explains \ {e}
       /\ IF modal = NoExplain THEN UNCHANGED <<shows, listeners>>
          ELSE shows' = e /\ listeners' = IF ok THEN listeners \cup {e} ELSE listeners
  /\ UNCHANGED <<modal, planDb, crowded, moved, chosenDb, saves, savedVars, compareVars>>

closeModal ==
  /\ modal # NoExplain
  /\ modal' = NoExplain /\ shows' = NoExplain /\ listeners' = {}
  /\ UNCHANGED <<explains, planDb, crowded, moved, chosenDb, saves, savedVars, compareVars>>

\* On any page, dialog or not.
ChooseDatabase ==
  /\ \E d \in Selectable \ {chosenDb} : chosenDb' = d
  /\ moved' = TRUE
  /\ UNCHANGED <<explains, modal, shows, listeners, planDb, crowded, saves, savedVars, compareVars>>

\* "save plan": every plan that was answered into this dialog, on the database
\* that is chosen.
savePlan ==
  /\ modal # NoExplain /\ listeners # {}
  /\ saves' = saves \cup listeners
  /\ UNCHANGED <<dialogVars, chosenDb, savedVars, compareVars>>

-----------------------------------------------------------------------------
(* The store *)

\* PlanStore.Save reads the clock and takes the next id ...
Stamp(s) ==
  /\ given < MaxPlans /\ given' = given + 1
  /\ saves' = saves \ {s} /\ pending' = pending \cup {given'}
  /\ \E tick \in {0, 1} :
       created' = [created EXCEPT ![given'] = (IF given = 0 THEN 0 ELSE created[given]) + tick]
  /\ UNCHANGED <<order, inserted, place>>

\* ... and then the lock.  The plan that was put in first goes.
Insert(id) ==
  /\ pending' = pending \ {id}
  /\ inserted' = inserted + 1 /\ place' = [place EXCEPT ![id] = inserted']
  /\ order' = SubSeq(<<id>> \o order, 1, IF Len(order) < Limit THEN Len(order) + 1 ELSE Limit)
  /\ UNCHANGED <<saves, given, created>>

\* The plan is explained once more and kept, or that fails.
PlanSaved ==
  /\ \/ \E s \in saves : Stamp(s) \/ (saves' = saves \ {s} /\ UNCHANGED storeVars)
     \/ \E id \in pending : Insert(id)
  /\ UNCHANGED <<dialogVars, chosenDb, listVars, compareVars>>

-----------------------------------------------------------------------------
(* The page's list *)

\* load: when the page is opened or refreshed, another database or profile is
\* chosen, a plan was saved or the statistics were reset, whatever other loads
\* are under way.
loadPlans(l) ==
  /\ lists[l].step = "idle"
  /\ lists' = [lists EXCEPT ![l].step = "asked"]
  /\ UNCHANGED <<dialogVars, chosenDb, saves, storeVars, _savedPlans, asOf, compareVars>>

\* PlanStore.List
List(l) ==
  /\ lists[l].step = "asked"
  /\ lists' = [lists EXCEPT ![l] = [step |-> "listed", ids |-> ToSet(order), asOf |-> inserted]]
  /\ UNCHANGED <<dialogVars, chosenDb, saves, storeVars, _savedPlans, asOf, compareVars>>

\* Both answers are there, the slow queries' too; or one of them failed.
plansLoaded(l) ==
  /\ lists[l].step # "idle"
  /\ lists' = [lists EXCEPT ![l] = NoList]
  /\ \/ lists[l].step = "listed" /\ _savedPlans' = lists[l].ids /\ asOf' = lists[l].asOf
     \/ UNCHANGED <<_savedPlans, asOf>>
  /\ UNCHANGED <<dialogVars, chosenDb, saves, storeVars, compareVars>>

\* Variant for checking the properties: the sort is turned round.
OldestBefore(a, b) == created[a] < created[b] \/ (created[a] = created[b] /\ place[a] > place[b])

\* List sorts by creation time, stably, what it took in the store's order.
Before(a, b) == created[a] > created[b] \/ (created[a] = created[b] /\ place[a] > place[b])

\* renderSavedPlans
OnPage == {id \in _savedPlans : Cardinality({a \in _savedPlans : Before(a, id)}) < Shows}

-----------------------------------------------------------------------------
(* Comparing *)

\* Variant for checking the properties: the third tick is added.
toggleThird(id) ==
  _compare' = IF id \in ToSet(_compare) THEN RemoveFirst(_compare, id)
              ELSE Append(IF Len(_compare) > 2 THEN Tail(_compare) ELSE _compare, id)

\* A third tick takes the first away.  An id is ticked once, so that filter takes
\* one away.
toggleCompare(id) ==
  _compare' = IF id \in ToSet(_compare) THEN RemoveFirst(_compare, id)
              ELSE Append(IF Len(_compare) >= 2 THEN Tail(_compare) ELSE _compare, id)

Toggle ==
  /\ \E id \in OnPage : toggleCompare(id)
  /\ UNCHANGED <<dialogVars, chosenDb, saves, savedVars, compares, compared>>

compareSelected ==
  /\ Len(_compare) = 2 /\ compares = {}
  /\ compares' = ToSet(_compare)
  /\ UNCHANGED <<dialogVars, chosenDb, saves, savedVars, _compare, compared>>

\* Both are needed; the store may have dropped one.
Compared ==
  /\ compares # {}
  /\ compares' = {}
  /\ compared' = IF compares \subseteq ToSet(order) THEN compares ELSE compared
  /\ UNCHANGED <<dialogVars, chosenDb, saves, savedVars, _compare>>

-----------------------------------------------------------------------------
PlansNext ==
  \/ \E e \in Explain : explain(e)
  \/ Explained \/ closeModal \/ ChooseDatabase \/ savePlan \/ PlanSaved
  \/ \E l \in Lister : loadPlans(l) \/ List(l) \/ plansLoaded(l)
  \/ Toggle \/ compareSelected \/ Compared

PlansSpec == PlansInit /\ [][PlansNext]_plansVars

-----------------------------------------------------------------------------
\* The dialog shows the plan of its own query and saves that one, on the
\* database it was explained on; unless another explanation was under way when
\* it was opened, or the database was chosen again.
PlanOfDialog ==
  modal # NoExplain /\ ~crowded =>
    /\ shows \in {modal, NoExplain} /\ listeners \subseteq {modal}
    /\ ~moved => planDb[modal] = chosenDb

\* A ticked plan that the page does not show was pushed off by plans that were
\* created or put in after it, unless the page has gone back to a list from
\* before it was saved: that was asked for earlier and answered later.
TickedExplained ==
  \A id \in ToSet(_compare) \ OnPage :
    \/ asOf < place[id]
    \/ Cardinality({a \in _savedPlans : created[a] > created[id] \/ place[a] > place[id]}) >= Shows

\* Both dialogs of queries.js keep to the plans they were opened for.
PlansExplained == PlanOfDialog /\ TickedExplained

(* What these rest on. *)

DialogInv == modal # NoExplain /\ ~crowded => explains \subseteq {modal}

Lesser(m, n) == IF m < n THEN m ELSE n

\* Each plan has its number, and the store has the last ones.
StoreInv ==
  /\ inserted + Cardinality(pending) = given /\ Len(order) = Lesser(inserted, Limit)
  /\ \A id \in pending : id <= given /\ place[id] = 0
  /\ \A id \in Ids : place[id] <= inserted /\ (id > given => place[id] = 0)
  /\ \A a, b \in Ids : place[a] = place[b] /\ place[a] # 0 => a = b
  /\ \A i \in DOMAIN order : place[order[i]] + i = inserted + 1

\* A list has the last plans that were put in before it was made, all of them.
ListInv(ids, upto) ==
  /\ upto <= inserted /\ Cardinality(ids) = Lesser(upto, Limit)
  /\ \A id \in Ids :
       id \in ids <=> place[id] # 0 /\ place[id] <= upto /\ place[id] + Limit > upto

ListsInv == ListInv(_savedPlans, asOf) /\ \A l \in Lister : ListInv(lists[l].ids, lists[l].asOf)

\* What is ticked was put in, and is ticked once.
TicksInv == (\A id \in ToSet(_compare) : place[id] # 0) /\ IsInjective(_compare)

PlansInductive ==
  PlansTypeOK /\ PlansExplained /\ DialogInv /\ StoreInv /\ ListsInv /\ TicksInv
=============================================================================
