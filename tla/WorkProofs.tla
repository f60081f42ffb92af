----------------------------- MODULE WorkProofs -----------------------------
(***************************************************************************)
(* The pages at work, for any number of requests under way and whatever is *)
(* answered in which order: the tuner shows and applies what was analysed, *)
(* the editor runs what is on its screen, the dialogs of the plans are     *)
(* about the plans that exist, the forms save what was typed into them,    *)
(* and a job that is followed is not shown as running for ever.            *)
(***************************************************************************)
EXTENDS MCWebWork, FiniteSetTheorems, TLAPS

-----------------------------------------------------------------------------
(* The connections that the tuner recommends, for every number of expected *)
(* connections and of processors.                                          *)

\* "Mirror backend logic": step 2 of the wizard (tuner.js) computes what
\* calculateConnections (tuner.go) will, when a positive number is expected.
THEOREM PreviewMirrorsAnalysis ==
  \A conn \in Nat \ {0}, cpu \in Nat :
    previewConnections(conn, cpu) = calculateConnections(conn, cpu)
  BY DEF previewConnections, calculateConnections, calculatePGMaxConn,
         AtLeast, AtMost

\* tuner.go, calculatePGMaxConn: between 50 and 500, whatever is asked for.
LEMMA MaxConnBounded ==
  ASSUME NEW conn \in Int, NEW cpu \in Nat
  PROVE  calculatePGMaxConn(conn, cpu) \in 50 .. 500
  BY DEF calculatePGMaxConn, AtLeast, AtMost

\* calculateConnections (tuner.go): a full pool of PgBouncer and its reserve fit
\* into the connections PostgreSQL has beside the three that it keeps for
\* superusers, even when the expectation is out of range.
THEOREM PoolFits ==
  \A expected \in Int, cpu \in Nat :
    LET c == calculateConnections(expected, cpu)
    IN  /\ c.pg \in 50 .. 500 /\ c.db = c.pg - 3
        /\ c.min <= c.pool /\ c.pool + c.reserve <= c.db
<1> TAKE expected \in Int, cpu \in Nat
<1> DEFINE conn == IF expected <= 0 THEN 100 ELSE expected
           pg   == calculatePGMaxConn(conn, cpu)
<1>1. pg \in 50 .. 500
  <2>1. conn \in Int
    OBVIOUS
  <2> QED
    BY <2>1, MaxConnBounded
<1> HIDE DEF pg
<1> QED
  BY <1>1 DEF calculateConnections, AtLeast, pg

-----------------------------------------------------------------------------
(* The wizard *)

LEMMA ConnsPositive == Conns \subseteq Int /\ NoResult \notin Conns
  BY TunerAssumption DEF Conns, Parsed, NoResult

\* In step 2 the system is known, and what is typed is a number.
LEMMA PreviewHolds ==
  ASSUME TunerTypeOK, KnownInv
  PROVE  PreviewIsAnalysis
<1> SUFFICES ASSUME content = "config", typed >= 0
             PROVE  previewConnections(Parsed(typed), IF known THEN Cores ELSE 4)
                      = calculateConnections(Parsed(typed), Cores)
  BY DEF PreviewIsAnalysis
<1>1. known
  BY DEF KnownInv
<1>2. Parsed(typed) \in Nat \ {0}
  BY TunerAssumption DEF TunerTypeOK, Parsed
<1>3. Cores \in Nat
  BY TunerAssumption
<1> QED
  BY <1>1, <1>2, <1>3, PreviewMirrorsAnalysis

\* The rendering that is on the screen.
LEMMA ScreenIs ==
  ASSUME TunerTypeOK, Here
  PROVE  wizard \in 1 .. MaxWizards /\ detections[wizard] \in Nat
  BY TunerAssumption DEF TunerTypeOK, Here

LEMMA OutrunIs ==
  ASSUME TunerTypeOK
  PROVE  Outrun \subseteq [conn : Conns, mine : BOOLEAN] /\ (analyses = {} => Outrun = {})
<1>1. ASSUME NEW a \in analyses
      PROVE  [a EXCEPT !.mine = FALSE] \in [conn : Conns, mine : BOOLEAN]
  <2>1. a \in [conn : Conns, mine : BOOLEAN]
    BY DEF TunerTypeOK
  <2> QED
    BY <2>1
<1> QED
  BY <1>1 DEF Outrun

\* Another detection of the rendering that is there.
LEMMA DetectsAgain ==
  ASSUME TunerInductive, Here, renderStep1, UNCHANGED <<wizardVars, known, resultVars, asked, applies>>,
         timers' \subseteq timers
  PROVE  TunerTypeOK' /\ StepIsContent' /\ DetectInv' /\ KnownInv' /\ AskedInv'
<1> USE DEF TunerInductive, WizardExplained, wizardVars, resultVars
<1>1. /\ step' = 1 /\ content' = "detecting" /\ analyses' = Outrun /\ UNCHANGED typed
      /\ detections' = [detections EXCEPT ![wizard] = @ + 1]
      /\ crossed' = (crossed \/ detections[wizard] > 0)
  BY DEF renderStep1, DetectSystem
<1>2. wizard \in 1 .. MaxWizards /\ detections[wizard] \in Nat
  BY ScreenIs
<1>3. Outrun \subseteq [conn : Conns, mine : BOOLEAN] /\ (analyses = {} => Outrun = {})
  BY OutrunIs
<1>4. crossed' \in BOOLEAN
  BY <1>1
<1>5. detections' \in [1 .. MaxWizards -> Nat]
  BY <1>1, <1>2 DEF TunerTypeOK
<1>6. TunerTypeOK'
  BY <1>1, <1>3, <1>4, <1>5 DEF TunerTypeOK, StepOf
<1>7. StepIsContent'
  BY <1>1 DEF StepIsContent, StepOf
<1>8. ~crossed' => detections'[wizard] = 1
  <2>1. detections'[wizard] = detections[wizard] + 1
    BY <1>1, <1>2 DEF TunerTypeOK
  <2>2. ~crossed' => ~(detections[wizard] > 0)
    BY <1>1
  <2> QED
    BY <1>2, <2>1, <2>2
<1>9. DetectInv'
  BY <1>1, <1>2, <1>8 DEF DetectInv, Here, TunerTypeOK
<1>10. KnownInv' /\ AskedInv'
  BY <1>1, <1>3 DEF KnownInv, AskedInv
<1> QED
  BY <1>6, <1>7, <1>9, <1>10

LEMMA BackToStep1Keeps ==
  ASSUME TunerInductive, BackToStep1
  PROVE  TunerTypeOK' /\ StepIsContent' /\ DetectInv' /\ KnownInv' /\ AskedInv'
<1>1. Here
  BY DEF BackToStep1, TunerInductive, DetectInv
<1> QED
  BY <1>1, DetectsAgain DEF BackToStep1

LEMMA RedetectKeeps ==
  ASSUME TunerInductive, Redetect
  PROVE  TunerTypeOK' /\ StepIsContent' /\ DetectInv' /\ KnownInv' /\ AskedInv'
<1>1. CASE Here
  BY <1>1, DetectsAgain DEF Redetect
<1>2. CASE ~Here
  <2> USE DEF TunerInductive, WizardExplained, wizardVars, resultVars
  <2>1. /\ step' = 1 /\ timers' \subseteq timers
        /\ UNCHANGED <<wizardVars, content, typed, known, resultVars, detections, analyses, asked, applies, crossed>>
    BY <1>2 DEF Redetect
  <2>2. TunerTypeOK'
    BY <2>1 DEF TunerTypeOK
  <2>3. StepIsContent' /\ DetectInv'
    BY <1>2, <2>1 DEF StepIsContent, DetectInv, Here
  <2>4. KnownInv' /\ AskedInv'
    BY <2>1 DEF KnownInv, AskedInv
  <2> QED
    BY <2>2, <2>3, <2>4
<1> QED
  BY <1>1, <1>2

LEMMA OpenWizardKeeps ==
  ASSUME TunerInductive, OpenWizard
  PROVE  TunerTypeOK' /\ StepIsContent' /\ DetectInv' /\ KnownInv' /\ AskedInv'
<1> USE DEF TunerInductive, WizardExplained
<1>1. /\ opened < MaxWizards /\ opened' = opened + 1 /\ wizard' = opened'
      /\ step' = 1 /\ content' = "detecting" /\ _selected' = {} /\ crossed' = FALSE /\ analyses' = Outrun
      /\ detections' = [detections EXCEPT ![wizard'] = @ + 1]
      /\ UNCHANGED <<typed, known, _result, asked, applies, timers>>
  BY DEF OpenWizard, DetectSystem
<1>2. Outrun \subseteq [conn : Conns, mine : BOOLEAN] /\ (analyses = {} => Outrun = {})
  BY OutrunIs
<1>3. wizard' \in 1 .. MaxWizards /\ detections[wizard'] = 0 /\ wizard' # 0 /\ wizard' > opened
  BY <1>1, TunerAssumption DEF TunerTypeOK, DetectInv
<1>4. detections' \in [1 .. MaxWizards -> Nat]
  BY <1>1, <1>3 DEF TunerTypeOK
<1>5. TunerTypeOK'
  <2>1. wizard' \in {0, opened'} /\ opened' \in 0 .. MaxWizards
    BY <1>1, TunerAssumption DEF TunerTypeOK
  <2>2. step' \in 1 .. 3 /\ content' \in DOMAIN StepOf \cup {"none"}
    BY <1>1 DEF StepOf
  <2>3. crossed' \in BOOLEAN
    BY <1>1
  <2> QED
    BY <1>1, <1>2, <1>4, <2>1, <2>2, <2>3 DEF TunerTypeOK
<1>6. StepIsContent'
  BY <1>1 DEF StepIsContent, StepOf
<1>7. DetectInv'
  BY <1>1, <1>3 DEF DetectInv, Here, TunerTypeOK
<1>8. KnownInv' /\ AskedInv'
  BY <1>1, <1>2 DEF KnownInv, AskedInv
<1> QED
  BY <1>5, <1>6, <1>7, <1>8

LEMMA LeaveWizardKeeps ==
  ASSUME TunerInductive, LeaveWizard
  PROVE  TunerTypeOK' /\ StepIsContent' /\ DetectInv' /\ KnownInv' /\ AskedInv'
<1> USE DEF TunerInductive, WizardExplained, resultVars
<1>1. /\ wizard' = 0 /\ content' = "none" /\ analyses' = Outrun
      /\ UNCHANGED <<opened, step, typed, known, resultVars, detections, asked, applies, timers, crossed>>
  BY DEF LeaveWizard
<1>2. Outrun \subseteq [conn : Conns, mine : BOOLEAN] /\ (analyses = {} => Outrun = {})
  BY OutrunIs
<1>3. TunerTypeOK'
  BY <1>1, <1>2 DEF TunerTypeOK, StepOf
<1>4. StepIsContent' /\ DetectInv'
  BY <1>1 DEF StepIsContent, DetectInv, Here
<1>5. KnownInv' /\ AskedInv'
  BY <1>1, <1>2 DEF KnownInv, AskedInv
<1> QED
  BY <1>3, <1>4, <1>5

LEMMA SystemDetectedKeeps ==
  ASSUME TunerInductive, SystemDetected
  PROVE  TunerTypeOK' /\ StepIsContent' /\ DetectInv' /\ KnownInv' /\ AskedInv'
<1> USE DEF TunerInductive, WizardExplained, wizardVars, resultVars
<1>1. PICK v \in 1 .. MaxWizards, new \in {"system", "undetected"} :
        /\ detections[v] > 0 /\ detections' = [detections EXCEPT ![v] = @ - 1]
        /\ known' = (known \/ new = "system")
        /\ content' = IF v = wizard THEN new ELSE content
        /\ analyses' = IF v = wizard THEN Outrun ELSE analyses
  BY DEF SystemDetected
<1>2. UNCHANGED <<wizardVars, step, typed, resultVars, asked, applies, timers, crossed>>
  BY DEF SystemDetected
<1>3. Outrun \subseteq [conn : Conns, mine : BOOLEAN] /\ (analyses = {} => Outrun = {})
  BY OutrunIs
<1>4. /\ detections' \in [1 .. MaxWizards -> Nat] /\ detections'[v] = detections[v] - 1
      /\ \A w \in 1 .. MaxWizards : w # v => detections'[w] = detections[w]
  BY <1>1 DEF TunerTypeOK
<1>5. known' \in BOOLEAN /\ (known => known')
  BY <1>1
<1>6. TunerTypeOK'
  BY <1>1, <1>2, <1>3, <1>4, <1>5 DEF TunerTypeOK, StepOf
<1>7. DetectInv' /\ StepIsContent'
  <2>1. CASE v = wizard
    <3>1. Here /\ content' # "none" /\ content' \in {"system", "undetected"}
      BY <1>1, <2>1 DEF Here
    <3>2. ~crossed => content = "detecting" /\ detections'[wizard] = 0
      BY <1>1, <1>4, <2>1, <3>1 DEF DetectInv
    <3>3. ~crossed => step' = 1
      <4> SUFFICES ASSUME ~crossed
                   PROVE  step = 1
        BY <1>2
      <4>1. step = StepOf[content] /\ content = "detecting"
        BY <3>1, <3>2 DEF StepIsContent
      <4> QED
        BY <4>1 DEF StepOf
    <3>4. StepIsContent'
      BY <1>2, <3>1, <3>3 DEF StepIsContent, StepOf
    <3>5. v <= opened
      BY <1>1, <2>1 DEF DetectInv, TunerTypeOK, Here
    <3>6. DetectInv'
      BY <1>2, <1>4, <2>1, <3>1, <3>2, <3>5 DEF DetectInv, Here, TunerTypeOK
    <3> QED
      BY <3>4, <3>6
  <2>2. CASE v # wizard
    <3>0. content' = content /\ UNCHANGED <<wizard, step, crossed>>
      BY <1>1, <1>2, <2>2
    <3>1. StepIsContent'
      BY <3>0 DEF WizardExplained, StepIsContent, Here
    <3>2. v <= opened
      BY <1>1 DEF DetectInv, TunerTypeOK
    <3>3. DetectInv'
      BY <1>1, <1>2, <1>4, <2>2, <3>2, ScreenIs DEF DetectInv, Here, TunerTypeOK
    <3> QED
      BY <3>1, <3>3
  <2> QED
    BY <2>1, <2>2
<1>8. KnownInv' /\ AskedInv'
  BY <1>1, <1>2, <1>3, <1>5 DEF KnownInv, AskedInv
<1> QED
  BY <1>6, <1>7, <1>8

\* What is on the screen stays, and what is being detected.
LEMMA ScreenKept ==
  ASSUME TunerInductive, UNCHANGED <<wizard, opened, step, content, detections, crossed>>
  PROVE  StepIsContent' /\ DetectInv'
<1> USE DEF TunerInductive, WizardExplained
<1>1. StepIsContent'
  BY DEF StepIsContent, Here
<1>2. DetectInv'
  BY DEF DetectInv, Here
<1> QED
  BY <1>1, <1>2

LEMMA GoStep2Keeps ==
  ASSUME TunerInductive, goStep2
  PROVE  TunerTypeOK' /\ StepIsContent' /\ DetectInv' /\ KnownInv' /\ AskedInv'
<1> USE DEF TunerInductive, WizardExplained, wizardVars, resultVars
<1>1. /\ content \in {"system", "review"} /\ step' = 2 /\ content' = "config" /\ typed' = 200
      /\ analyses' = Outrun
      /\ UNCHANGED <<wizardVars, known, resultVars, detections, asked, applies, timers, crossed>>
  BY DEF goStep2
<1>2. Outrun \subseteq [conn : Conns, mine : BOOLEAN] /\ (analyses = {} => Outrun = {})
  BY OutrunIs
<1>3. TunerTypeOK'
  BY <1>1, <1>2 DEF TunerTypeOK, StepOf
<1>4. StepIsContent'
  BY <1>1 DEF StepIsContent, StepOf
<1>5. Here /\ ~(~crossed /\ detections[wizard] > 0)
  BY <1>1 DEF DetectInv
<1>6. DetectInv'
  BY <1>1, <1>5 DEF DetectInv, Here
<1>7. KnownInv' /\ AskedInv'
  BY <1>1, <1>2 DEF KnownInv, AskedInv
<1> QED
  BY <1>3, <1>4, <1>6, <1>7

LEMMA TypeConnectionsKeeps ==
  ASSUME TunerInductive, TypeConnections
  PROVE  TunerTypeOK' /\ StepIsContent' /\ DetectInv' /\ KnownInv' /\ AskedInv'
<1> USE DEF TunerInductive, wizardVars, resultVars
<1>1. /\ typed' \in Typed
      /\ UNCHANGED <<wizard, opened, step, content, known, _result, _selected, detections, analyses,
                     asked, applies, timers, crossed>>
  BY DEF TypeConnections
<1>2. TunerTypeOK'
  BY <1>1 DEF TunerTypeOK
<1>3. StepIsContent' /\ DetectInv'
  BY <1>1, ScreenKept
<1>4. KnownInv' /\ AskedInv'
  BY <1>1 DEF KnownInv, AskedInv
<1> QED
  BY <1>2, <1>3, <1>4

LEMMA AnalyzeKeeps ==
  ASSUME TunerInductive, PressAnalyze \/ Reanalyze
  PROVE  TunerTypeOK' /\ StepIsContent' /\ DetectInv' /\ KnownInv' /\ AskedInv'
<1> USE DEF TunerInductive, wizardVars, stepVars, resultVars
<1>1. /\ UNCHANGED <<wizard, opened, step, content, typed, known, _result, _selected, detections,
                     asked, applies, crossed>>
      /\ timers' \subseteq timers /\ analyze
  BY DEF PressAnalyze, Reanalyze
<1>2. known
  BY DEF PressAnalyze, Reanalyze, KnownInv
<1>3. Parsed(typed) \in Conns /\ Parsed(0) \in Conns
  BY DEF TunerTypeOK, Conns, Parsed
<1>4. analyses' \subseteq [conn : Conns, mine : BOOLEAN]
  <2> DEFINE a == [conn |-> Parsed(typed), mine |-> TRUE]
             b == [conn |-> Parsed(0), mine |-> FALSE]
  <2>1. a \in [conn : Conns, mine : BOOLEAN] /\ b \in [conn : Conns, mine : BOOLEAN]
    BY <1>3
  <2>2. analyses' = analyses \cup {IF content = "config" THEN a ELSE b}
    BY <1>1 DEF analyze
  <2> HIDE DEF a, b
  <2> QED
    BY <2>1, <2>2 DEF TunerTypeOK
<1>5. TunerTypeOK'
  BY <1>1, <1>4 DEF TunerTypeOK
<1>6. StepIsContent' /\ DetectInv'
  BY <1>1, ScreenKept
<1>7. KnownInv'
  BY <1>1, <1>2 DEF KnownInv
<1>8. AskedInv'
  BY <1>1 DEF AskedInv
<1> QED
  BY <1>5, <1>6, <1>7, <1>8

LEMMA AnalyzedKeeps ==
  ASSUME TunerInductive, Analyzed
  PROVE  TunerTypeOK' /\ StepIsContent' /\ DetectInv' /\ KnownInv' /\ AskedInv'
<1> USE DEF TunerInductive, WizardExplained, wizardVars
<1>1. UNCHANGED <<wizard, opened, typed, known, detections, applies, timers>>
  BY DEF Analyzed
<1>2. PICK a \in analyses :
        /\ _result' = a.conn /\ _selected' = Setting /\ step' = 3
        /\ IF Here THEN content' = "review" /\ analyses' = {[b EXCEPT !.mine = FALSE] : b \in analyses \ {a}}
           ELSE UNCHANGED content /\ analyses' = analyses \ {a}
  BY DEF Analyzed
<1>3. crossed' = (crossed \/ (Here /\ detections[wizard] > 0))
  BY DEF Analyzed
<1>4. asked' = IF asked = NoDialog THEN asked ELSE [asked EXCEPT !.renewed = TRUE]
  BY DEF Analyzed
<1>5. known /\ known' = known
  BY <1>1 DEF KnownInv
<1>6. a.conn \in Conns
  BY DEF TunerTypeOK
<1>7. analyses' \subseteq [conn : Conns, mine : BOOLEAN]
  <2>1. ASSUME NEW b \in analyses
        PROVE  [b EXCEPT !.mine = FALSE] \in [conn : Conns, mine : BOOLEAN]
    <3>1. b \in [conn : Conns, mine : BOOLEAN]
      BY DEF TunerTypeOK
    <3> QED
      BY <3>1
  <2> QED
    BY <1>2, <2>1 DEF TunerTypeOK
<1>8. asked' \in {NoDialog} \cup Question /\ (asked' # NoDialog => asked'.renewed)
  <2>1. CASE asked = NoDialog
    BY <1>4, <2>1
  <2>2. CASE asked # NoDialog
    <3>1. asked \in Question
      BY <2>2 DEF TunerTypeOK
    <3>2. asked' = [asked EXCEPT !.renewed = TRUE]
      BY <1>4, <2>2
    <3> QED
      BY <3>1, <3>2 DEF Question
  <2> QED
    BY <2>1, <2>2
<1>9. crossed' \in BOOLEAN
  BY <1>3
<1>10. content' \in DOMAIN StepOf \cup {"none"} /\ step' \in 1 .. 3
  BY <1>2 DEF TunerTypeOK, StepOf
<1>11. TunerTypeOK'
  BY <1>1, <1>2, <1>5, <1>6, <1>7, <1>8, <1>9, <1>10 DEF TunerTypeOK
<1>12. StepIsContent'
  <2>1. CASE Here
    BY <1>2, <2>1 DEF StepIsContent, StepOf
  <2>2. CASE ~Here
    BY <1>1, <2>2 DEF StepIsContent, Here
  <2> QED
    BY <2>1, <2>2
<1>13. DetectInv'
  <2>1. CASE Here
    <3>1. ~crossed' => ~(detections[wizard] > 0)
      BY <1>3, <2>1
    <3> QED
      BY <1>1, <1>2, <2>1, <3>1 DEF DetectInv, Here
  <2>2. CASE ~Here
    BY <1>1, <1>2, <2>2 DEF DetectInv, Here
  <2> QED
    BY <2>1, <2>2
<1>14. KnownInv'
  BY <1>5 DEF KnownInv
<1>15. AskedInv'
  BY <1>2, <1>6, <1>8 DEF AskedInv
<1> QED
  BY <1>11, <1>12, <1>13, <1>14, <1>15

\* What fails, is ticked or is answered beside the steps.
LEMMA TickingKeeps ==
  ASSUME TunerInductive, AnalysisFailed \/ toggle \/ toggleAll \/ Declined
  PROVE  TunerTypeOK' /\ StepIsContent' /\ DetectInv' /\ KnownInv' /\ AskedInv'
<1> USE DEF TunerInductive, wizardVars, stepVars, resultVars
<1>1. /\ UNCHANGED <<wizard, opened, step, content, typed, known, _result, detections, applies, timers, crossed>>
      /\ analyses' \subseteq analyses /\ _selected' \subseteq Setting
      /\ asked' = asked \/ asked' = NoDialog
  BY DEF AnalysisFailed, toggle, toggleAll, Declined, TunerTypeOK
<1>2. TunerTypeOK'
  BY <1>1 DEF TunerTypeOK
<1>3. StepIsContent' /\ DetectInv'
  BY <1>1, ScreenKept
<1>4. KnownInv' /\ AskedInv'
  BY <1>1 DEF KnownInv, AskedInv
<1> QED
  BY <1>2, <1>3, <1>4

LEMMA ApplySelectedKeeps ==
  ASSUME TunerInductive, applySelected
  PROVE  TunerTypeOK' /\ StepIsContent' /\ DetectInv' /\ KnownInv' /\ AskedInv'
<1> USE DEF TunerInductive, wizardVars, stepVars, resultVars
<1>1. /\ content = "review" /\ _selected # {}
      /\ UNCHANGED <<wizard, opened, step, content, typed, known, _result, _selected, detections, analyses,
                     applies, timers, crossed>>
  BY DEF applySelected
<1>2. PICK restart \in BOOLEAN :
        asked' = [open |-> TRUE, from |-> _result, picked |-> _selected, renewed |-> FALSE,
                  restart |-> restart /\ _selected \cap Restarting # {}]
  BY DEF applySelected
<1>3. _result \in Conns /\ known
  BY <1>1 DEF AskedInv, KnownInv
<1>4. asked' \in Question
  <2>1. (restart /\ _selected \cap Restarting # {}) \in BOOLEAN
    OBVIOUS
  <2>2. _selected \in (SUBSET Setting) \ {{}}
    <3>1. _selected \subseteq Setting
      BY DEF TunerTypeOK
    <3> QED
      BY <1>1, <3>1
  <2> QED
    BY <1>2, <1>3, <2>1, <2>2 DEF Question
<1>5. asked'.from = _result
  BY <1>2
<1>6. TunerTypeOK'
  BY <1>1, <1>4 DEF TunerTypeOK
<1>7. StepIsContent' /\ DetectInv'
  BY <1>1, ScreenKept
<1>8. KnownInv' /\ AskedInv'
  BY <1>1, <1>3, <1>5 DEF KnownInv, AskedInv
<1> QED
  BY <1>6, <1>7, <1>8

LEMMA ApplyingKeeps ==
  ASSUME TunerInductive, Confirmed \/ Applied
  PROVE  TunerTypeOK' /\ StepIsContent' /\ DetectInv' /\ KnownInv' /\ AskedInv'
<1> USE DEF TunerInductive, wizardVars, stepVars, resultVars
<1>1. /\ UNCHANGED <<wizard, opened, step, content, typed, known, _result, _selected, detections, analyses, crossed>>
      /\ asked' = asked \/ asked' = NoDialog
  BY DEF Confirmed, Applied
<1>2. known
  BY DEF Confirmed, Applied, KnownInv
<1>3. IsFiniteSet(applies') /\ Cardinality(applies') <= MaxApplies /\ timers' \subseteq {"analyze", "renderStep1"}
  <2>1. IsFiniteSet(applies) /\ Cardinality(applies) <= MaxApplies /\ timers \subseteq {"analyze", "renderStep1"}
    BY DEF TunerTypeOK
  <2>2. MaxApplies \in Nat
    BY TunerAssumption
  <2>3. CASE Confirmed
    <3>1. applies' = applies \cup {Payload(asked)} /\ Cardinality(applies) < MaxApplies /\ timers' = timers
      BY <2>3 DEF Confirmed
    <3>2. /\ IsFiniteSet(applies \cup {Payload(asked)}) /\ Cardinality(applies) \in Nat
          /\ Cardinality(applies \cup {Payload(asked)}) \in {Cardinality(applies), Cardinality(applies) + 1}
      BY <2>1, FS_AddElement, FS_CardinalityType
    <3> QED
      BY <2>1, <2>2, <3>1, <3>2
  <2>4. CASE Applied
    <3>1. PICK a \in applies : applies' = applies \ {a}
      BY <2>4 DEF Applied
    <3>2. /\ IsFiniteSet(applies \ {a}) /\ Cardinality(applies) \in Nat
          /\ Cardinality(applies \ {a}) = Cardinality(applies) - 1
      BY <2>1, FS_RemoveElement, FS_CardinalityType
    <3>3. timers' \subseteq {"analyze", "renderStep1"}
      BY <2>1, <2>4 DEF Applied
    <3> QED
      BY <2>1, <2>2, <3>1, <3>2, <3>3
  <2> QED
    BY <2>3, <2>4
<1>4. TunerTypeOK'
  BY <1>1, <1>3 DEF TunerTypeOK
<1>5. StepIsContent' /\ DetectInv'
  BY <1>1, ScreenKept
<1>6. KnownInv'
  BY <1>1, <1>2 DEF KnownInv
<1>7. AskedInv'
  BY <1>1 DEF AskedInv
<1> QED
  BY <1>4, <1>5, <1>6, <1>7

LEMMA TunerStarts == TunerInit => TunerInductive
<1> SUFFICES ASSUME TunerInit
             PROVE  TunerInductive
  OBVIOUS
<1>1. TunerTypeOK
  <2>1. MaxApplies \in Nat /\ MaxWizards \in Nat /\ IsFiniteSet({}) /\ Cardinality({}) = 0
    BY TunerAssumption, FS_EmptySet
  <2>2. detections \in [1 .. MaxWizards -> Nat]
    BY DEF TunerInit
  <2>3. step \in 1 .. 3 /\ opened \in 0 .. MaxWizards /\ wizard \in {0, opened}
    BY <2>1 DEF TunerInit
  <2>4. known \in BOOLEAN /\ crossed \in BOOLEAN
    BY DEF TunerInit
  <2> QED
    BY <2>1, <2>2, <2>3, <2>4 DEF TunerInit, TunerTypeOK
<1>2. StepIsContent /\ DetectInv /\ KnownInv /\ AskedInv
  BY DEF TunerInit, StepIsContent, DetectInv, KnownInv, AskedInv, Here
<1> QED
  BY <1>1, <1>2, PreviewHolds DEF TunerInductive, WizardExplained

LEMMA TunerSteps == TunerInductive /\ [TunerNext]_tunerVars => TunerInductive'
<1> SUFFICES ASSUME TunerInductive, [TunerNext]_tunerVars
             PROVE  TunerInductive'
  OBVIOUS
<1>1. TunerTypeOK' /\ StepIsContent' /\ DetectInv' /\ KnownInv' /\ AskedInv'
  <2>1. CASE UNCHANGED tunerVars
    <3> USE <2>1 DEF tunerVars, wizardVars, stepVars, resultVars
    <3>1. StepIsContent' /\ DetectInv'
      BY ScreenKept
    <3>2. TunerTypeOK' /\ KnownInv' /\ AskedInv'
      BY DEF TunerInductive, TunerTypeOK, KnownInv, AskedInv
    <3> QED
      BY <3>1, <3>2
  <2> QED
    BY <2>1, OpenWizardKeeps, LeaveWizardKeeps, SystemDetectedKeeps, BackToStep1Keeps, RedetectKeeps,
       GoStep2Keeps, TypeConnectionsKeeps, AnalyzeKeeps, AnalyzedKeeps, TickingKeeps, ApplySelectedKeeps,
       ApplyingKeeps DEF TunerNext
<1>2. PreviewIsAnalysis'
  BY <1>1, PreviewHolds, PTL
<1> QED
  BY <1>1, <1>2 DEF TunerInductive, WizardExplained

\* The wizard of tuner.js: the progress bar is that of the step on the screen
\* unless an answer crossed the detection of the system, and step 2 shows what
\* the analysis will answer.
THEOREM WizardTrue == TunerSpec => [](TunerTypeOK /\ WizardExplained)
<1>1. TunerInductive => TunerTypeOK /\ WizardExplained
  BY DEF TunerInductive
<1> QED
  BY <1>1, TunerStarts, TunerSteps, PTL DEF TunerSpec

\* applySelected of tuner.js: the settings that are sent are those the dialog
\* listed, and PgBouncer's belong to them, unless another analysis was answered
\* while the question was open.
THEOREM AppliedAsAgreed == TunerSpec => AppliesAsAgreed
<1> DEFINE Agreed ==
      \A a \in applies' \ applies :
        /\ a.from = asked.from /\ a.picked = asked.picked
        /\ a.pgbouncer = a.from \/ asked.renewed
<1>1. TunerInductive /\ [TunerNext]_tunerVars => [Agreed]_tunerVars
  <2> SUFFICES ASSUME TunerInductive, TunerNext, NEW a \in applies' \ applies
               PROVE  /\ a.from = asked.from /\ a.picked = asked.picked
                      /\ a.pgbouncer = a.from \/ asked.renewed
    OBVIOUS
  <2>1. Confirmed
    BY DEF TunerNext, OpenWizard, LeaveWizard, SystemDetected, BackToStep1, Redetect, goStep2, TypeConnections,
           PressAnalyze, Reanalyze, Analyzed, AnalysisFailed, toggle, toggleAll, applySelected, Declined, Applied
  <2>2. a = [from |-> asked.from, picked |-> asked.picked, pgbouncer |-> _result, restart |-> asked.restart]
    BY <2>1 DEF Confirmed, Payload
  <2>3. a.from = asked.from /\ a.picked = asked.picked /\ a.pgbouncer = _result
    BY <2>2
  <2>4. asked.from = _result \/ asked.renewed
    BY <2>1 DEF Confirmed, TunerInductive, AskedInv
  <2> QED
    BY <2>3, <2>4
<1> QED
  BY <1>1, TunerStarts, TunerSteps, PTL DEF TunerSpec, AppliesAsAgreed

-----------------------------------------------------------------------------
(* The SQL editor *)

LEMMA EditorFollows ==
  ASSUME RenderInv, SchemaInv, ResultIsLast
  PROVE  EditorExplained
<1>1. OneEditor
  BY DEF RenderInv, MadeInv, OneEditor, Settled
<1>2. CompletionFits
  BY DEF SchemaInv, CompletionFits
<1> QED
  BY <1>1, <1>2 DEF EditorExplained

\* What a step leaves alone.
LEMMA RenderInvKept ==
  ASSUME EditorInductive, UNCHANGED <<frame, overlapped, failed, renders, editors, _editor>>
  PROVE  RenderInv'
  BY DEF EditorInductive, RenderInv, MadeInv

LEMMA SchemaInvKept ==
  ASSUME EditorInductive, UNCHANGED <<_editor, completes, reloads, astray, _schemaCache, db>>,
         \A r \in renders' : r.schema = NoSchema \/ \E q \in renders : r.schema = q.schema
  PROVE  SchemaInv'
  BY DEF EditorInductive, SchemaInv

LEMMA RunsInvKept ==
  ASSUME EditorInductive, UNCHANGED <<frame, frames, runs, twice, ran, disabled, result>>
  PROVE  RunsInv' /\ ResultIsLast'
<1>1. RunsInv'
  BY DEF EditorInductive, RunsInv
<1>2. ResultIsLast'
  BY DEF EditorInductive, EditorExplained, ResultIsLast
<1> QED
  BY <1>1, <1>2

\* The page is made anew.
LEMMA RenderKeeps ==
  ASSUME EditorInductive, render, drafts' \in 0 .. MaxDrafts, drafts' >= drafts, draft' \in 0 .. drafts', hash' \in BOOLEAN
  PROVE  EditorTypeOK' /\ RenderInv' /\ SchemaInv' /\ RunsInv' /\ ResultIsLast'
<1> USE DEF EditorInductive
<1> DEFINE r == [of |-> frames', at |-> "opening", into |-> 0, schema |-> NoSchema]
<1>1. /\ frames < MaxFrames /\ frames' = frames + 1 /\ frame' = frames' /\ renders' = renders \cup {r}
      /\ overlapped' = (renders # {}) /\ failed' = FALSE /\ editors' = {}
      /\ ran' = 0 /\ result' = 0 /\ disabled' = FALSE /\ twice' = FALSE
      /\ UNCHANGED <<_editor, text, db, _schemaCache, completes, reloads, runs, astray>>
  BY DEF render, schemaVars
<1>2. /\ frames' \in 1 .. MaxFrames /\ frames \in 0 .. MaxFrames /\ MaxFrames \in Nat /\ MaxRuns \in Nat
  BY <1>1, EditorAssumption DEF EditorTypeOK
<1>3. r \in Render
  BY <1>2 DEF Render
<1>4. r.of = frames' /\ r.at = "opening" /\ r.schema = NoSchema
  OBVIOUS
<1> HIDE DEF r
<1>5. EditorTypeOK'
  <2>1. /\ frame' \in {0, frames'} /\ frames' \in 0 .. MaxFrames /\ renders' \subseteq Render
        /\ editors' \subseteq 1 .. MaxFrames /\ _editor' \in 0 .. MaxFrames /\ db' \in Database
        /\ {_schemaCache', completes'} \cup reloads' \subseteq Database \cup {NoSchema}
        /\ ran' \in 0 .. MaxRuns /\ result' \in 0 .. ran'
        /\ runs' \subseteq [of : 1 .. MaxFrames, nr : 1 .. MaxRuns]
    BY <1>1, <1>2, <1>3 DEF EditorTypeOK
  <2>2. text' \in [1 .. MaxFrames -> 0 .. drafts']
    <3>1. text \in [1 .. MaxFrames -> 0 .. drafts] /\ drafts \in Nat /\ drafts' \in Nat
      BY EditorAssumption DEF EditorTypeOK
    <3> QED
      BY <1>1, <3>1
  <2>3. disabled' \in BOOLEAN /\ {overlapped', failed', astray', twice'} \subseteq BOOLEAN
    BY <1>1 DEF EditorTypeOK
  <2> QED
    BY <2>1, <2>2, <2>3 DEF EditorTypeOK
<1>6. RenderInv'
  BY <1>1, <1>4 DEF RenderInv, MadeInv
<1>7. SchemaInv'
  BY <1>1, <1>4 DEF SchemaInv
<1>8. \A q \in runs' : q.of <= frames /\ q.of \in Nat
  BY <1>1 DEF RunsInv, EditorTypeOK
<1>9. \A q \in runs' : q.of <= frames' /\ q.of # frame'
  BY <1>1, <1>2, <1>8
<1>10. RunsInv' /\ ResultIsLast'
  BY <1>1, <1>9 DEF RunsInv, ResultIsLast
<1> QED
  BY <1>5, <1>6, <1>7, <1>10

LEMMA OpenEditorKeeps ==
  ASSUME EditorInductive, OpenEditor \/ sendToSql \/ hashchange
  PROVE  EditorTypeOK' /\ RenderInv' /\ SchemaInv' /\ RunsInv' /\ ResultIsLast'
<1>1. draft \in 0 .. drafts /\ drafts \in 0 .. MaxDrafts /\ MaxDrafts \in Nat /\ hash \in BOOLEAN
  BY EditorAssumption DEF EditorInductive, EditorTypeOK
<1>2. CASE OpenEditor
  BY <1>1, <1>2, RenderKeeps DEF OpenEditor, draftVars
<1>3. CASE sendToSql
  <2>1. drafts' \in 0 .. MaxDrafts /\ drafts' >= drafts /\ draft' \in 0 .. drafts' /\ hash' \in BOOLEAN /\ render
    BY <1>1, <1>3 DEF sendToSql
  <2> QED
    BY <2>1, RenderKeeps
<1>4. CASE hashchange
  <2>1. render /\ hash' = FALSE /\ draft' = draft /\ drafts' = drafts
    BY <1>4 DEF hashchange, draftVars
  <2>2. drafts' \in 0 .. MaxDrafts /\ drafts' >= drafts /\ draft' \in 0 .. drafts'
    BY <1>1, <2>1
  <2>3. hash' \in BOOLEAN
    BY <2>1
  <2> QED
    BY <2>1, <2>2, <2>3, RenderKeeps
<1> QED
  BY <1>2, <1>3, <1>4

LEMMA LeaveEditorKeeps ==
  ASSUME EditorInductive, LeaveEditor
  PROVE  EditorTypeOK' /\ RenderInv' /\ SchemaInv' /\ RunsInv' /\ ResultIsLast'
<1>1. /\ frame' = 0 /\ editors' = {} /\ ran' = 0 /\ result' = 0 /\ disabled' = FALSE
      /\ UNCHANGED <<frames, renders, _editor, text, draft, drafts, hash, db, _schemaCache, completes, reloads,
                     runs, overlapped, failed, astray, twice>>
  BY DEF LeaveEditor, draftVars, schemaVars
<1>2. EditorTypeOK'
  <2>1. /\ frame' \in {0, frames'} /\ editors' \subseteq 1 .. MaxFrames
        /\ ran' \in 0 .. MaxRuns /\ result' \in 0 .. ran'
    BY <1>1, EditorAssumption
  <2>2. disabled' \in BOOLEAN
    BY <1>1
  <2> QED
    BY <1>1, <2>1, <2>2 DEF EditorInductive, EditorTypeOK
<1>3. SchemaInv'
  BY <1>1, SchemaInvKept
<1>4. RenderInv' /\ ResultIsLast'
  BY <1>1 DEF EditorInductive, RenderInv, MadeInv, ResultIsLast
<1>5. \A r \in runs : r.of # 0
  BY DEF EditorInductive, EditorTypeOK
<1>6. RunsInv'
  BY <1>1, <1>5 DEF EditorInductive, RunsInv
<1> QED
  BY <1>2, <1>3, <1>4, <1>6

LEMMA RenderedKeeps ==
  ASSUME EditorInductive, Rendered
  PROVE  EditorTypeOK' /\ RenderInv' /\ SchemaInv' /\ RunsInv' /\ ResultIsLast'
<1> USE DEF EditorInductive
<1>1. UNCHANGED <<frame, frames, editors, _editor, text, draft, drafts, hash, db, _schemaCache, completes, reloads,
                  ran, result, runs, disabled, overlapped, astray, twice>>
  BY DEF Rendered, frameVars, draftVars, schemaVars, runVars
<1>2. PICK r \in renders, ok \in BOOLEAN :
        /\ r.at = "opening"
        /\ IF ok /\ frame # 0
           THEN renders' = (renders \ {r}) \cup {[r EXCEPT !.at = "snippets"]} /\ UNCHANGED failed
           ELSE renders' = renders \ {r} /\ failed' = TRUE
  BY DEF Rendered
<1>3. r \in Render
  BY DEF EditorTypeOK
<1> DEFINE q == [r EXCEPT !.at = "snippets"]
<1>4. q \in Render /\ q.of = r.of /\ q.at = "snippets" /\ q.schema = r.schema
  BY <1>3 DEF Render
<1>5. \/ renders' = (renders \ {r}) \cup {q} /\ failed' = failed
      \/ renders' = renders \ {r} /\ failed' = TRUE
  BY <1>2
<1> HIDE DEF q
<1>6. EditorTypeOK'
  <2>1. renders' \subseteq Render /\ failed' \in BOOLEAN
    BY <1>4, <1>5 DEF EditorTypeOK
  <2> QED
    BY <1>1, <2>1 DEF EditorTypeOK
<1>7. RenderInv'
  BY <1>1, <1>4, <1>5 DEF RenderInv, MadeInv
<1>8. SchemaInv'
  BY <1>1, <1>4, <1>5, SchemaInvKept
<1>9. RunsInv' /\ ResultIsLast'
  BY <1>1, RunsInvKept
<1> QED
  BY <1>6, <1>7, <1>8, <1>9

LEMMA TakeDraftIs ==
  ASSUME EditorTypeOK, NEW e \in 0 .. MaxFrames, TakeDraft(e, text)
  PROVE  draft' \in 0 .. drafts /\ text' \in [1 .. MaxFrames -> 0 .. drafts]
<1>1. draft \in 0 .. drafts /\ drafts \in Nat /\ text \in [1 .. MaxFrames -> 0 .. drafts] /\ MaxFrames \in Nat
  BY EditorAssumption DEF EditorTypeOK
<1> QED
  BY <1>1 DEF TakeDraft

LEMMA LoadSnippetsKeeps ==
  ASSUME EditorInductive, loadSnippets
  PROVE  EditorTypeOK' /\ RenderInv' /\ SchemaInv' /\ RunsInv' /\ ResultIsLast'
<1> USE DEF EditorInductive
<1>1. UNCHANGED <<frame, frames, editors, _editor, drafts, hash, db, _schemaCache, completes, reloads,
                  ran, result, runs, disabled, overlapped, failed, twice>>
  BY DEF loadSnippets, frameVars, schemaVars, runVars
<1>2. RunsInv' /\ ResultIsLast'
  BY <1>1, RunsInvKept
<1>3. PICK r \in renders :
        /\ r.at = "snippets"
        /\ IF frame = 0
           THEN renders' = renders \ {r} /\ TakeDraft(_editor, text) /\ UNCHANGED astray
           ELSE /\ renders' = (renders \ {r}) \cup
                     {[r EXCEPT !.at = "schema", !.into = frame,
                                !.schema = IF _schemaCache = NoSchema THEN db ELSE _schemaCache]}
                /\ astray' = (astray \/ (_schemaCache = NoSchema /\ Asking))
                /\ UNCHANGED <<draft, text>>
  BY DEF loadSnippets
<1>4. CASE frame = 0
  <2>1. renders' = renders \ {r} /\ TakeDraft(_editor, text) /\ UNCHANGED astray
    BY <1>3, <1>4
  <2>2. draft' \in 0 .. drafts /\ text' \in [1 .. MaxFrames -> 0 .. drafts]
    BY <2>1, TakeDraftIs DEF EditorTypeOK
  <2>3. EditorTypeOK'
    BY <1>1, <2>1, <2>2 DEF EditorTypeOK
  <2>4. RenderInv'
    BY <1>1, <1>4 DEF RenderInv, MadeInv
  <2>5. SchemaInv'
    BY <1>1, <2>1, SchemaInvKept
  <2> QED
    BY <1>2, <2>3, <2>4, <2>5
<1>5. CASE frame # 0
  <2> DEFINE schema == IF _schemaCache = NoSchema THEN db ELSE _schemaCache
             q == [r EXCEPT !.at = "schema", !.into = frame, !.schema = schema]
  <2>1. /\ renders' = (renders \ {r}) \cup {q} /\ UNCHANGED <<draft, text>>
        /\ astray' = (astray \/ (_schemaCache = NoSchema /\ Asking))
    BY <1>3, <1>5
  <2>2. r \in Render /\ frame \in 0 .. MaxFrames /\ schema \in Database \cup {NoSchema}
    BY EditorAssumption DEF EditorTypeOK
  <2>3. q \in Render /\ q.of = r.of /\ q.at = "schema" /\ q.into = frame /\ q.schema = schema
    BY <2>2 DEF Render
  <2> HIDE DEF q
  <2>4. EditorTypeOK'
    <3>1. renders' \subseteq Render
      BY <2>1, <2>3 DEF EditorTypeOK
    <3>2. astray' \in BOOLEAN
      BY <2>1
    <3> QED
      BY <1>1, <2>1, <3>1, <3>2 DEF EditorTypeOK
  <2>5. RenderInv'
    BY <1>1, <2>1, <2>3 DEF RenderInv, MadeInv
  <2>6. SchemaInv'
    <3>1. ~astray' => ~astray
      BY <2>1
    <3>2. ~astray => schema \in {db, NoSchema}
      BY DEF SchemaInv
    <3> QED
      BY <1>1, <2>1, <2>3, <3>1, <3>2 DEF SchemaInv
  <2> QED
    BY <1>2, <2>4, <2>5, <2>6
<1> QED
  BY <1>4, <1>5

LEMMA InitCodeMirrorKeeps ==
  ASSUME EditorInductive, _initCodeMirror
  PROVE  EditorTypeOK' /\ RenderInv' /\ SchemaInv' /\ RunsInv' /\ ResultIsLast'
<1> USE DEF EditorInductive
<1>1. UNCHANGED <<frame, frames, drafts, hash, db, reloads, ran, result, runs, disabled, overlapped, failed,
                  astray, twice>>
  BY DEF _initCodeMirror, frameVars, runVars
<1>2. PICK r \in renders :
        /\ r.at = "schema" /\ renders' = renders \ {r}
        /\ \E schema \in {r.schema, NoSchema} :
             /\ completes' = schema
             /\ _schemaCache' = IF schema = NoSchema THEN _schemaCache ELSE schema
        /\ _editor' = r.of
        /\ editors' = IF r.into = frame THEN editors \cup {r.of} ELSE editors
        /\ TakeDraft(r.of, text)
  BY DEF _initCodeMirror
<1>3. /\ completes' \in {r.schema, NoSchema}
      /\ _schemaCache' = _schemaCache \/ _schemaCache' = r.schema
  BY <1>2
<1>4. r \in Render /\ r.of \in 1 .. MaxFrames /\ r.of \in 0 .. MaxFrames /\ r.schema \in Database \cup {NoSchema}
  BY EditorAssumption DEF EditorTypeOK, Render
<1>5. draft' \in 0 .. drafts /\ text' \in [1 .. MaxFrames -> 0 .. drafts]
  BY <1>2, <1>4, TakeDraftIs
<1>6. EditorTypeOK'
  <2>1. /\ renders' \subseteq Render /\ _editor' \in 0 .. MaxFrames
        /\ {_schemaCache', completes'} \cup reloads' \subseteq Database \cup {NoSchema}
    BY <1>1, <1>2, <1>3, <1>4 DEF EditorTypeOK
  <2>2. editors' \subseteq 1 .. MaxFrames
    BY <1>2, <1>4 DEF EditorTypeOK
  <2>3. drafts' = drafts /\ draft' \in 0 .. drafts' /\ text' \in [1 .. MaxFrames -> 0 .. drafts']
    BY <1>1, <1>5
  <2>4. /\ frame' \in {0, frames'} /\ frames' \in 0 .. MaxFrames /\ db' \in Database /\ drafts' \in 0 .. MaxDrafts
        /\ ran' \in 0 .. MaxRuns /\ result' \in 0 .. ran' /\ runs' \subseteq [of : 1 .. MaxFrames, nr : 1 .. MaxRuns]
    BY <1>1 DEF EditorTypeOK
  <2>5. hash' \in BOOLEAN /\ disabled' \in BOOLEAN /\ {overlapped', failed', astray', twice'} \subseteq BOOLEAN
    BY <1>1 DEF EditorTypeOK
  <2> QED
    BY <2>1, <2>2, <2>3, <2>4, <2>5 DEF EditorTypeOK
<1>7. RenderInv'
  <2>1. MadeInv'
    <3>1. CASE r.of = frame /\ r.into = frame
      BY <1>1, <1>2, <3>1 DEF MadeInv
    <3>2. CASE ~(r.of = frame /\ r.into = frame)
      <4>1. editors \subseteq editors' /\ renders' = renders \ {r}
        BY <1>2
      <4>2. frame # 0 /\ ~failed => frame \in editors \/
              \E q \in renders : q # r /\ q.of = frame /\ (q.at = "schema" => q.into = frame)
        BY <1>2, <3>2 DEF RenderInv, MadeInv
      <4> QED
        BY <1>1, <4>1, <4>2 DEF MadeInv
    <3> QED
      BY <3>1, <3>2
  <2>2. ASSUME frame # 0, ~overlapped
        PROVE  renders' = {} /\ editors' = {_editor'}
    <3>1. renders' = {} /\ r.into = frame /\ editors = {}
      BY <1>2, <2>2 DEF RenderInv
    <3> QED
      BY <1>2, <3>1
  <2> QED
    BY <1>1, <2>1, <2>2 DEF RenderInv
<1>8. SchemaInv'
  <2>1. _editor' # 0
    BY <1>2, <1>4
  <2> QED
    BY <1>1, <1>2, <1>3, <2>1 DEF SchemaInv
<1>9. RunsInv' /\ ResultIsLast'
  BY <1>1, RunsInvKept
<1> QED
  BY <1>6, <1>7, <1>8, <1>9

LEMMA ChooseDbKeeps ==
  ASSUME EditorInductive, ChooseDb \/ ChooseDbElsewhere \/ SchemaReloaded
  PROVE  EditorTypeOK' /\ RenderInv' /\ SchemaInv' /\ RunsInv' /\ ResultIsLast'
<1> USE DEF EditorInductive
<1>1. UNCHANGED <<frame, frames, renders, editors, _editor, text, draft, drafts, hash,
                  ran, result, runs, disabled, overlapped, failed, twice>>
  BY DEF ChooseDb, ChooseDbElsewhere, SchemaReloaded, frameVars, editorVars, draftVars, runVars
<1>2. RenderInv' /\ RunsInv' /\ ResultIsLast'
  BY <1>1, RenderInvKept, RunsInvKept
<1>3. CASE ChooseDb
  <2>1. PICK d \in Database : db' = d /\ _reloadSchema(d)
    BY <1>3 DEF ChooseDb
  <2>2. /\ _schemaCache' = NoSchema /\ completes' = completes /\ db' = d
        /\ reloads' = IF _editor = 0 THEN reloads ELSE reloads \cup {d}
    BY <2>1 DEF _reloadSchema
  <2>3. astray' = (reloads # {} \/ renders # {})
    BY <1>3 DEF ChooseDb
  <2>4. astray' \in BOOLEAN
    BY <2>3
  <2>5. EditorTypeOK'
    BY <1>1, <2>2, <2>4 DEF EditorTypeOK
  <2>6. SchemaInv'
    <3>1. ~astray' => reloads = {} /\ renders = {}
      BY <2>3
    <3> QED
      BY <1>1, <2>2, <3>1 DEF SchemaInv
  <2> QED
    BY <1>2, <2>5, <2>6
<1>4. CASE ChooseDbElsewhere
  <2>1. db' \in Database /\ astray' = TRUE /\ UNCHANGED <<_schemaCache, completes, reloads>>
    BY <1>4 DEF ChooseDbElsewhere, schemaVars
  <2>2. astray' \in BOOLEAN
    BY <2>1
  <2>3. EditorTypeOK'
    BY <1>1, <2>1, <2>2 DEF EditorTypeOK
  <2>4. SchemaInv'
    BY <1>1, <2>1 DEF SchemaInv
  <2> QED
    BY <1>2, <2>3, <2>4
<1>5. CASE SchemaReloaded
  <2>1. PICK d \in reloads, ok \in BOOLEAN :
          /\ reloads' = reloads \ {d}
          /\ _schemaCache' = IF ok THEN d ELSE _schemaCache
          /\ completes' = IF ok THEN d ELSE NoSchema
    BY <1>5 DEF SchemaReloaded
  <2>2. UNCHANGED <<db, astray>> /\ completes' \in {d, NoSchema} /\ _schemaCache' \in {d, _schemaCache}
    BY <1>5, <2>1 DEF SchemaReloaded
  <2>3. EditorTypeOK'
    BY <1>1, <2>1, <2>2 DEF EditorTypeOK
  <2>4. SchemaInv'
    BY <1>1, <2>1, <2>2 DEF SchemaInv
  <2> QED
    BY <1>2, <2>3, <2>4
<1> QED
  BY <1>3, <1>4, <1>5

LEMMA ExecuteKeeps ==
  ASSUME EditorInductive, execute
  PROVE  EditorTypeOK' /\ RenderInv' /\ SchemaInv' /\ RunsInv' /\ ResultIsLast'
<1> USE DEF EditorInductive
<1>1. UNCHANGED <<frame, frames, renders, editors, _editor, text, draft, drafts, hash, db,
                  _schemaCache, completes, reloads, result, overlapped, failed, astray>>
  BY DEF execute, frameVars, editorVars, draftVars, schemaVars
<1> DEFINE q == [of |-> frame, nr |-> ran']
<1>2. /\ frame # 0 /\ ran < MaxRuns /\ ran' = ran + 1 /\ disabled' = TRUE /\ runs' = runs \cup {q}
  BY DEF execute
<1>3. twice' = (twice \/ disabled)
  BY DEF execute
<1>4. /\ frame = frames /\ frame \in 1 .. MaxFrames /\ ran \in Nat /\ ran' \in 1 .. MaxRuns
      /\ result' \in 0 .. ran'
  BY <1>1, <1>2, EditorAssumption DEF EditorTypeOK
<1>5. q.of = frame /\ q.nr = ran' /\ q \in [of : 1 .. MaxFrames, nr : 1 .. MaxRuns]
  BY <1>4
<1> HIDE DEF q
<1>6. EditorTypeOK'
  <2>1. ran' \in 0 .. MaxRuns /\ runs' \subseteq [of : 1 .. MaxFrames, nr : 1 .. MaxRuns]
    BY <1>2, <1>4, <1>5 DEF EditorTypeOK
  <2>2. twice' \in BOOLEAN /\ disabled' \in BOOLEAN
    BY <1>2, <1>3
  <2> QED
    BY <1>1, <1>4, <2>1, <2>2 DEF EditorTypeOK
<1>7. RenderInv' /\ SchemaInv'
  BY <1>1, RenderInvKept, SchemaInvKept
<1>8. \A r \in runs' : r.of <= frames' /\ (r.of = frame => r.nr <= ran')
  <2>1. \A r \in runs : r.nr \in Nat
    BY DEF EditorTypeOK
  <2> QED
    BY <1>1, <1>2, <1>4, <1>5, <2>1 DEF RunsInv
<1>9. ~twice' => \A r \in runs : r.of # frame
  <2>1. ~twice' => ~twice /\ ~disabled
    BY <1>3
  <2> QED
    BY <1>2, <2>1 DEF EditorExplained, ResultIsLast
<1>10. RunsInv'
  BY <1>1, <1>2, <1>5, <1>8, <1>9 DEF RunsInv
<1>11. ResultIsLast'
  BY <1>1, <1>2, <1>5 DEF ResultIsLast
<1> QED
  BY <1>6, <1>7, <1>10, <1>11

LEMMA ExecutedKeeps ==
  ASSUME EditorInductive, Executed
  PROVE  EditorTypeOK' /\ RenderInv' /\ SchemaInv' /\ RunsInv' /\ ResultIsLast'
<1> USE DEF EditorInductive
<1>1. UNCHANGED <<frame, frames, renders, editors, _editor, text, draft, drafts, hash, db,
                  _schemaCache, completes, reloads, ran, overlapped, failed, astray, twice>>
  BY DEF Executed, frameVars, editorVars, draftVars, schemaVars
<1>2. PICK r \in runs :
        /\ runs' = runs \ {r}
        /\ IF r.of = frame THEN result' = r.nr /\ disabled' = FALSE ELSE UNCHANGED <<result, disabled>>
  BY DEF Executed
<1>3. r \in [of : 1 .. MaxFrames, nr : 1 .. MaxRuns]
  BY DEF EditorTypeOK
<1>4. RunsInv'
  BY <1>1, <1>2 DEF RunsInv
<1>5. RenderInv' /\ SchemaInv'
  BY <1>1, RenderInvKept, SchemaInvKept
<1>6. CASE r.of = frame
  <2>0. result' = r.nr /\ disabled' = FALSE
    BY <1>2, <1>6
  <2>1. ~twice => r.nr = ran /\ \A q \in runs' : q.of # frame
    <3> SUFFICES ASSUME ~twice
                 PROVE  r.nr = ran /\ \A q \in runs' : q.of # frame
      OBVIOUS
    <3>1. frame # 0
      BY <1>3, <1>6
    <3>2. \A q \in runs : q.of = frame => q.nr = ran
      BY <3>1 DEF RunsInv
    <3>3. \A q \in runs : q.of = frame => q = r
      <4> SUFFICES ASSUME NEW q \in runs, q.of = frame
                   PROVE  q = r
        OBVIOUS
      <4>1. q \in [of : 1 .. MaxFrames, nr : 1 .. MaxRuns]
        BY DEF EditorTypeOK
      <4>2. q.of = r.of /\ q.nr = r.nr
        BY <1>6, <3>2
      <4> QED
        BY <1>3, <4>1, <4>2
    <3> QED
      BY <1>2, <1>6, <3>2, <3>3
  <2>2. ResultIsLast'
    BY <1>1, <2>0, <2>1 DEF ResultIsLast
  <2>3. EditorTypeOK'
    <3>1. r.nr <= ran /\ r.nr \in Nat
      BY <1>3, <1>6 DEF RunsInv
    <3>2. result' \in 0 .. ran' /\ runs' \subseteq [of : 1 .. MaxFrames, nr : 1 .. MaxRuns]
      BY <1>1, <1>2, <2>0, <3>1 DEF EditorTypeOK
    <3>3. disabled' \in BOOLEAN
      BY <2>0
    <3> QED
      BY <1>1, <3>2, <3>3 DEF EditorTypeOK
  <2> QED
    BY <1>4, <1>5, <2>2, <2>3
<1>7. CASE r.of # frame
  <2>0. runs' = runs \ {r} /\ UNCHANGED <<result, disabled>>
    BY <1>2, <1>7
  <2>1. EditorTypeOK'
    BY <1>1, <2>0 DEF EditorTypeOK
  <2>2. (\E q \in runs' : q.of = frame) <=> (\E q \in runs : q.of = frame)
    BY <1>7, <2>0
  <2>3. ResultIsLast'
    BY <1>1, <2>0, <2>2 DEF EditorExplained, ResultIsLast
  <2> QED
    BY <1>4, <1>5, <2>1, <2>3
<1> QED
  BY <1>6, <1>7

LEMMA EditorStarts == EditorInit => EditorInductive
<1> SUFFICES ASSUME EditorInit
             PROVE  EditorInductive
  OBVIOUS
<1>1. EditorTypeOK
  <2>1. /\ frame \in {0, frames} /\ frames \in 0 .. MaxFrames /\ renders \subseteq Render
        /\ editors \subseteq 1 .. MaxFrames /\ _editor \in 0 .. MaxFrames /\ db \in Database
        /\ draft \in 0 .. drafts /\ drafts \in 0 .. MaxDrafts
        /\ {_schemaCache, completes} \cup reloads \subseteq Database \cup {NoSchema}
        /\ ran \in 0 .. MaxRuns /\ result \in 0 .. ran
        /\ runs \subseteq [of : 1 .. MaxFrames, nr : 1 .. MaxRuns]
    BY EditorAssumption DEF EditorInit
  <2>2. text \in [1 .. MaxFrames -> 0 .. drafts]
    BY DEF EditorInit
  <2>3. disabled \in BOOLEAN /\ hash \in BOOLEAN /\ {overlapped, failed, astray, twice} \subseteq BOOLEAN
    BY DEF EditorInit
  <2> QED
    BY <2>1, <2>2, <2>3 DEF EditorTypeOK
<1>2. RenderInv /\ SchemaInv /\ RunsInv /\ ResultIsLast
  BY DEF EditorInit, RenderInv, MadeInv, SchemaInv, RunsInv, ResultIsLast
<1> QED
  BY <1>1, <1>2, EditorFollows DEF EditorInductive

LEMMA EditorSteps == EditorInductive /\ [EditorNext]_sqlVars => EditorInductive'
<1> SUFFICES ASSUME EditorInductive, [EditorNext]_sqlVars
             PROVE  EditorInductive'
  OBVIOUS
<1>1. EditorTypeOK' /\ RenderInv' /\ SchemaInv' /\ RunsInv' /\ ResultIsLast'
  <2>1. CASE UNCHANGED sqlVars
    <3> USE <2>1 DEF sqlVars, frameVars, editorVars, draftVars, schemaVars, runVars
    <3>1. RenderInv' /\ SchemaInv' /\ RunsInv' /\ ResultIsLast'
      BY RenderInvKept, SchemaInvKept, RunsInvKept
    <3>2. EditorTypeOK'
      BY DEF EditorInductive, EditorTypeOK
    <3> QED
      BY <3>1, <3>2
  <2> QED
    BY <2>1, OpenEditorKeeps, LeaveEditorKeeps, RenderedKeeps, LoadSnippetsKeeps, InitCodeMirrorKeeps,
       ChooseDbKeeps, ExecuteKeeps, ExecutedKeeps DEF EditorNext
<1>2. EditorExplained'
  BY <1>1, EditorFollows, PTL
<1> QED
  BY <1>1, <1>2 DEF EditorInductive

\* The SQL editor (sql.js, render to execute): one editor, whose text is run, on
\* a page that was opened once; the schema of the database it is for; the result
\* of its last query.
THEOREM EditorTrue == EditorSpec => [](EditorTypeOK /\ EditorExplained)
<1>1. EditorInductive => EditorTypeOK /\ EditorExplained
  BY DEF EditorInductive
<1> QED
  BY <1>1, EditorStarts, EditorSteps, PTL DEF EditorSpec

-----------------------------------------------------------------------------
(* The plans *)

LEMMA Elements ==
  ASSUME NEW S, NEW s \in Seq(S)
  PROVE  /\ DOMAIN s = 1 .. Len(s) /\ Len(s) \in Nat
         /\ \A i \in 1 .. Len(s) : s[i] \in S /\ s[i] \in ToSet(s)
         /\ \A x \in ToSet(s) : x \in S /\ \E i \in 1 .. Len(s) : s[i] = x
         /\ s # <<>> => Len(s) >= 1 /\ s[1] \in S
  BY DEF ToSet

LEMMA TailOfTwo ==
  ASSUME NEW S, NEW s \in Seq(S), Len(s) = 2
  PROVE  Tail(s) \in Seq(S) /\ Len(Tail(s)) = 1 /\ Tail(s)[1] = s[2]
<1>1. s # <<>>
  OBVIOUS
<1>2. Tail(s) \in Seq(S)
  BY <1>1
<1>3. Len(Tail(s)) = 1
  BY <1>1
<1>4. Tail(s)[1] = s[2]
  BY <1>1
<1> QED
  BY <1>2, <1>3, <1>4

LEMMA OneOfTwo ==
  ASSUME NEW S, NEW s \in Seq(S), NEW k \in ToSet(s), Len(s) <= 2
  PROVE  /\ RemoveFirst(s, k) \in Seq(S) /\ Len(RemoveFirst(s, k)) < 2
         /\ ToSet(RemoveFirst(s, k)) \subseteq ToSet(s)
<1> DEFINE I == {i \in 1 .. Len(s) : s[i] = k}
           n == SelectInSeq(s, LAMBDA v : v = k)
<1>1. I # {} /\ (\E i \in 1 .. Len(s) : s[i] = k)
  BY DEF ToSet
<1>3. \E x \in I : \A y \in I : x <= y
  <2>1. CASE 1 \in I
    BY <2>1
  <2>2. CASE 1 \notin I
    <3>1. \A y \in I : y = 2
      BY <2>2
    <3> QED
      BY <1>1, <3>1
  <2> QED
    BY <2>1, <2>2
<1>2. n \in 1 .. Len(s)
  BY <1>1, <1>3 DEF SelectInSeq, Min
<1>4. RemoveFirst(s, k) = RemoveAt(s, n)
  BY <1>1 DEF RemoveFirst
<1> HIDE DEF n
<1> DEFINE a == SubSeq(s, 1, n - 1)
           b == SubSeq(s, n + 1, Len(s))
<1>5. a \in Seq(S) /\ Len(a) = n - 1 /\ \A j \in 1 .. n - 1 : a[j] = s[j]
  BY <1>2
<1>6. b \in Seq(S) /\ Len(b) = Len(s) - n /\ \A j \in 1 .. Len(s) - n : b[j] = s[n + j]
  <2>1. n \in Nat /\ Len(s) \in Nat /\ n <= Len(s) /\ n >= 1
    BY <1>2
  <2>2. \A i \in n + 1 .. Len(s) : s[i] \in S
    BY <2>1
  <2>3. b \in Seq(S)
    BY <2>1, <2>2
  <2>4. Len(b) = Len(s) - n
    BY <2>1
  <2>5. \A j \in 1 .. Len(s) - n : b[j] = s[n + j]
    BY <2>1
  <2> QED
    BY <2>3, <2>4, <2>5
<1>7. RemoveFirst(s, k) = a \o b
  BY <1>4 DEF RemoveAt
<1> HIDE DEF a, b
<1>8. a \o b \in Seq(S) /\ Len(a \o b) = Len(s) - 1
  BY <1>2, <1>5, <1>6
<1>9. ASSUME NEW j \in 1 .. Len(a \o b)
      PROVE  (a \o b)[j] \in ToSet(s)
  <2>1. (a \o b)[j] = IF j <= Len(a) THEN a[j] ELSE b[j - Len(a)]
    BY <1>5, <1>6, <1>8
  <2> QED
    BY <1>2, <1>5, <1>6, <1>8, <2>1 DEF ToSet
<1> QED
  BY <1>7, <1>8, <1>9, <1>2 DEF ToSet

\* What every step keeps; what is said of the ticks follows.
PlansKept == PlansTypeOK' /\ PlanOfDialog' /\ DialogInv' /\ StoreInv' /\ ListsInv' /\ TicksInv'

LEMMA PlansNumbers ==
  ASSUME PlansTypeOK
  PROVE  /\ MaxPlans \in Nat /\ Limit \in Nat /\ Shows \in Nat /\ Shows <= Limit
         /\ given \in Nat /\ inserted \in Nat /\ asOf \in Nat
         /\ given <= MaxPlans /\ inserted <= MaxPlans /\ asOf <= MaxPlans
         /\ \A id \in Ids : id \in Nat /\ id >= 1 /\ id <= MaxPlans /\ place[id] \in Nat
         /\ \A l \in Lister : lists[l].asOf \in Nat /\ lists[l].ids \subseteq Ids
         /\ IsFiniteSet(Ids)
<1>1. MaxPlans \in Nat /\ Limit \in Nat /\ Shows \in Nat /\ Shows <= Limit
  BY PlansAssumption
<1>2. IsFiniteSet(Ids)
  BY <1>1, FS_Interval DEF Ids
<1>3. \A l \in Lister : lists[l].asOf \in Nat /\ lists[l].ids \subseteq Ids
  BY <1>1 DEF PlansTypeOK, Listing
<1>4. /\ given \in Nat /\ inserted \in Nat /\ asOf \in Nat
      /\ given <= MaxPlans /\ inserted <= MaxPlans /\ asOf <= MaxPlans
  BY <1>1 DEF PlansTypeOK
<1>5. \A id \in Ids : id \in Nat /\ id >= 1 /\ id <= MaxPlans /\ place[id] \in Nat
  BY <1>1 DEF PlansTypeOK, Ids
<1> QED
  BY <1>1, <1>2, <1>3, <1>4, <1>5

LEMMA LesserIs ==
  ASSUME NEW m \in Nat, NEW n \in Nat
  PROVE  Lesser(m, n) \in Nat /\ Lesser(m, n) <= m /\ Lesser(m, n) <= n /\ Lesser(m, n) \in {m, n}
  BY DEF Lesser

LEMMA PendingAre ==
  ASSUME PlansInductive
  PROVE  /\ IsFiniteSet(pending) /\ Cardinality(pending) \in Nat
         /\ pending # {} => Cardinality(pending) >= 1
<1>1. IsFiniteSet(pending)
  <2>1. pending \subseteq Ids /\ IsFiniteSet(Ids)
    BY PlansNumbers DEF PlansInductive, PlansTypeOK
  <2> QED
    BY <2>1, FS_Subset
<1>2. Cardinality(pending) \in Nat
  BY <1>1, FS_CardinalityType
<1> QED
  BY <1>1, <1>2, FS_EmptySet

\* Of a list the plans that are not on the page are preceded by Shows others; and
\* what is not in a list is older than all of it, if it is older than the list.
LEMMA TicksFollow ==
  ASSUME PlansTypeOK, ListsInv, TicksInv
  PROVE  TickedExplained
<1> SUFFICES ASSUME NEW id \in ToSet(_compare) \ OnPage, ~(asOf < place[id])
             PROVE  Cardinality({a \in _savedPlans : created[a] > created[id] \/ place[a] > place[id]}) >= Shows
  BY DEF TickedExplained
<1> DEFINE before == {a \in _savedPlans : Before(a, id)}
           after  == {a \in _savedPlans : created[a] > created[id] \/ place[a] > place[id]}
<1>1. /\ Limit \in Nat /\ Shows \in Nat /\ Shows <= Limit /\ asOf \in Nat /\ IsFiniteSet(Ids)
      /\ \A a \in Ids : place[a] \in Nat
  BY PlansNumbers
<1>2. id \in Ids /\ place[id] # 0
  <2>1. _compare \in Seq(Ids)
    BY DEF PlansTypeOK
  <2> QED
    BY <2>1, Elements DEF TicksInv
<1>3. _savedPlans \subseteq Ids /\ IsFiniteSet(_savedPlans)
  <2>1. _savedPlans \subseteq Ids
    BY DEF PlansTypeOK
  <2> QED
    BY <1>1, <2>1, FS_Subset
<1>4. before \subseteq after /\ after \subseteq _savedPlans
  BY DEF Before
<1>5. IsFiniteSet(before) /\ IsFiniteSet(after)
  BY <1>3, <1>4, FS_Subset
<1>6. /\ Cardinality(before) \in Nat /\ Cardinality(after) \in Nat
      /\ Cardinality(before) <= Cardinality(after)
  BY <1>4, <1>5, FS_CardinalityType, FS_Subset
<1>7. CASE id \in _savedPlans
  <2>1. ~(Cardinality(before) < Shows)
    BY <1>7 DEF OnPage
  <2> HIDE DEF before, after
  <2>2. Cardinality(after) >= Shows
    BY <1>1, <1>6, <2>1
  <2> QED
    BY <2>2 DEF after
<1>8. CASE id \notin _savedPlans
  <2>1. /\ Cardinality(_savedPlans) = Lesser(asOf, Limit)
        /\ \A a \in Ids : a \in _savedPlans <=> place[a] # 0 /\ place[a] <= asOf /\ place[a] + Limit > asOf
    BY DEF ListsInv, ListInv
  <2>2. place[id] \in Nat /\ place[id] <= asOf /\ place[id] + Limit <= asOf
    <3>1. place[id] \in Nat /\ place[id] <= asOf
      BY <1>1, <1>2
    <3>2. ~(place[id] + Limit > asOf)
      BY <1>2, <1>8, <2>1, <3>1
    <3> QED
      BY <1>1, <3>1, <3>2
  <2>3. ASSUME NEW a \in _savedPlans
        PROVE  place[a] > place[id]
    <3>1. place[a] \in Nat /\ place[a] + Limit > asOf
      BY <1>1, <1>3, <2>1
    <3> QED
      BY <1>1, <2>2, <3>1
  <2>4. after = _savedPlans
    BY <2>3
  <2>5. Lesser(asOf, Limit) >= Shows
    <3>1. asOf >= Limit
      BY <1>1, <2>2
    <3> QED
      BY <1>1, <3>1 DEF Lesser
  <2> QED
    BY <2>1, <2>4, <2>5
<1> QED
  BY <1>7, <1>8

LEMMA DialogKept ==
  ASSUME PlansInductive, UNCHANGED <<explains, modal, shows, listeners, planDb, crowded, moved, chosenDb>>
  PROVE  PlanOfDialog' /\ DialogInv'
  BY DEF PlansInductive, PlansExplained, PlanOfDialog, DialogInv

LEMMA StoreKept ==
  ASSUME PlansInductive, UNCHANGED <<given, pending, order, inserted, place>>
  PROVE  StoreInv'
  BY DEF PlansInductive, StoreInv

LEMMA ListsKept ==
  ASSUME PlansInductive, UNCHANGED <<inserted, place, lists, _savedPlans, asOf>>
  PROVE  ListsInv'
  BY DEF PlansInductive, ListsInv, ListInv

LEMMA TicksKept ==
  ASSUME PlansInductive, UNCHANGED <<place, _compare>>
  PROVE  TicksInv'
  BY DEF PlansInductive, TicksInv

LEMMA SavedKept ==
  ASSUME PlansInductive, UNCHANGED <<given, pending, order, inserted, place, lists, _savedPlans, asOf, _compare>>
  PROVE  StoreInv' /\ ListsInv' /\ TicksInv'
  BY StoreKept, ListsKept, TicksKept

LEMMA ExplainKeeps ==
  ASSUME PlansInductive, NEW e \in Explain, explain(e)
  PROVE  PlansKept
<1>1. /\ explains' = explains \cup {e} /\ planDb' = [planDb EXCEPT ![e] = chosenDb]
      /\ modal' = e /\ shows' = NoExplain /\ listeners' = {} /\ moved' = FALSE
      /\ UNCHANGED <<chosenDb, saves, given, created, pending, order, inserted, place, lists, _savedPlans,
                  asOf, _compare, compares, compared>>
  BY DEF explain, savedVars, storeVars, listVars, compareVars
<1>2. crowded' = (explains # {})
  BY DEF explain
<1>3. crowded' \in BOOLEAN /\ moved' \in BOOLEAN
  BY <1>1, <1>2
<1>4. PlansTypeOK'
  BY <1>1, <1>3 DEF PlansInductive, PlansTypeOK
<1>5. planDb'[e] = chosenDb
  BY <1>1 DEF PlansInductive, PlansTypeOK
<1>6. PlanOfDialog' /\ DialogInv'
  BY <1>1, <1>2, <1>5 DEF PlanOfDialog, DialogInv
<1> QED
  BY <1>1, <1>4, <1>6, SavedKept DEF PlansKept

LEMMA ExplainedKeeps ==
  ASSUME PlansInductive, Explained
  PROVE  PlansKept
<1>1. UNCHANGED <<modal, planDb, crowded, moved, chosenDb, saves, given, created, pending, order, inserted, place, lists, _savedPlans,
                  asOf, _compare, compares, compared>>
  BY DEF Explained, savedVars, storeVars, listVars, compareVars
<1>2. PICK e \in explains, ok \in BOOLEAN :
        /\ explains' = explains \ {e}
        /\ IF modal = NoExplain THEN UNCHANGED <<shows, listeners>>
           ELSE shows' = e /\ listeners' = IF ok THEN listeners \cup {e} ELSE listeners
  BY DEF Explained
<1>3. e \in Explain
  BY DEF PlansInductive, PlansTypeOK
<1>4. shows' \in {shows, e} /\ listeners' \subseteq listeners \cup {e}
  BY <1>2
<1>5. PlansTypeOK'
  BY <1>1, <1>2, <1>3, <1>4 DEF PlansInductive, PlansTypeOK
<1>6. modal # NoExplain /\ ~crowded => e = modal
  BY DEF PlansInductive, DialogInv
<1>7. PlanOfDialog' /\ DialogInv'
  BY <1>1, <1>2, <1>4, <1>6 DEF PlansInductive, PlansExplained, PlanOfDialog, DialogInv
<1> QED
  BY <1>1, <1>5, <1>7, SavedKept DEF PlansKept

LEMMA DialogKeeps ==
  ASSUME PlansInductive, closeModal \/ ChooseDatabase \/ savePlan
  PROVE  PlansKept
<1>1. UNCHANGED <<explains, planDb, crowded, given, created, pending, order, inserted, place, lists, _savedPlans,
                  asOf, _compare, compares, compared>>
  BY DEF closeModal, ChooseDatabase, savePlan, dialogVars, savedVars, storeVars, listVars, compareVars
<1>2. StoreInv' /\ ListsInv' /\ TicksInv'
  BY <1>1, SavedKept
<1>3. CASE closeModal
  <2>1. modal' = NoExplain /\ shows' = NoExplain /\ listeners' = {} /\ UNCHANGED <<moved, chosenDb, saves>>
    BY <1>3 DEF closeModal
  <2>2. PlansTypeOK'
    BY <1>1, <2>1 DEF PlansInductive, PlansTypeOK
  <2>3. PlanOfDialog' /\ DialogInv'
    BY <2>1 DEF PlanOfDialog, DialogInv
  <2> QED
    BY <1>2, <2>2, <2>3 DEF PlansKept
<1>4. CASE ChooseDatabase
  <2>1. chosenDb' \in Selectable /\ moved' = TRUE /\ UNCHANGED <<modal, shows, listeners, saves>>
    BY <1>4 DEF ChooseDatabase
  <2>2. moved' \in BOOLEAN
    BY <2>1
  <2>3. PlansTypeOK'
    BY <1>1, <2>1, <2>2 DEF PlansInductive, PlansTypeOK
  <2>4. PlanOfDialog' /\ DialogInv'
    BY <1>1, <2>1 DEF PlansInductive, PlansExplained, PlanOfDialog, DialogInv
  <2> QED
    BY <1>2, <2>3, <2>4 DEF PlansKept
<1>5. CASE savePlan
  <2>1. saves' = saves \cup listeners /\ UNCHANGED <<modal, shows, listeners, moved, chosenDb>>
    BY <1>5 DEF savePlan, dialogVars
  <2>2. PlansTypeOK'
    BY <1>1, <2>1 DEF PlansInductive, PlansTypeOK
  <2>3. PlanOfDialog' /\ DialogInv'
    BY <1>1, <2>1, DialogKept
  <2> QED
    BY <1>2, <2>2, <2>3 DEF PlansKept
<1> QED
  BY <1>3, <1>4, <1>5

\* PlanStore.Save puts the plan in front, and keeps no more than Limit.
LEMMA SaveIs ==
  ASSUME NEW stored \in Seq(Ids), NEW id \in Ids, Len(stored) <= Limit
  PROVE  LET n     == IF Len(stored) < Limit THEN Len(stored) + 1 ELSE Limit
             after == SubSeq(<<id>> \o stored, 1, n)
         IN  /\ after \in Seq(Ids) /\ Len(after) = n /\ n <= Limit
             /\ \A i \in 1 .. n : after[i] = IF i = 1 THEN id ELSE stored[i - 1]
<1>1. Limit \in Nat
  BY PlansAssumption
<1>2. Len(stored) \in Nat /\ \A i \in 1 .. Len(stored) : stored[i] \in Ids
  BY Elements
<1> DEFINE n == IF Len(stored) < Limit THEN Len(stored) + 1 ELSE Limit
           all == <<id>> \o stored
<1>3. n \in 0 .. Len(stored) + 1 /\ n <= Limit
  BY <1>1, <1>2
<1>4. all \in Seq(Ids) /\ Len(all) = Len(stored) + 1 /\ \A i \in 1 .. Len(stored) + 1 : all[i] = IF i = 1 THEN id ELSE stored[i - 1]
  <2>1. <<id>> \in Seq(Ids) /\ Len(<<id>>) = 1 /\ <<id>>[1] = id
    OBVIOUS
  <2>2. all \in Seq(Ids) /\ Len(all) = Len(stored) + 1
    BY <2>1
  <2>3. ASSUME NEW i \in 1 .. Len(stored) + 1
        PROVE  all[i] = IF i = 1 THEN id ELSE stored[i - 1]
    BY <1>2, <2>1
  <2> QED
    BY <2>2, <2>3
<1> HIDE DEF n, all
<1>5. n \in Nat /\ n <= Len(all) /\ Len(all) \in Nat /\ \A i \in 1 .. n : all[i] \in Ids
  BY <1>2, <1>3, <1>4, Elements
<1>6. SubSeq(all, 1, n) \in Seq(Ids)
  BY <1>5
<1>7. Len(SubSeq(all, 1, n)) = n
  BY <1>4, <1>5
<1>8. \A i \in 1 .. n : SubSeq(all, 1, n)[i] = all[i]
  BY <1>4, <1>5
<1>9. \A i \in 1 .. n : SubSeq(all, 1, n)[i] = IF i = 1 THEN id ELSE stored[i - 1]
  BY <1>2, <1>3, <1>4, <1>8
<1> QED
  BY <1>3, <1>6, <1>7, <1>9 DEF n, all

LEMMA StampKeeps ==
  ASSUME PlansInductive, NEW s \in saves, Stamp(s)
  PROVE  /\ StoreInv' /\ given' \in 0 .. MaxPlans /\ created' \in [Ids -> Nat]
         /\ pending' \subseteq Ids /\ UNCHANGED <<order, inserted, place>>
<1>1. /\ given < MaxPlans /\ given' = given + 1 /\ pending' = pending \cup {given'}
      /\ UNCHANGED <<order, inserted, place>>
  BY DEF Stamp
<1>2. PICK tick \in {0, 1} :
        created' = [created EXCEPT ![given'] = (IF given = 0 THEN 0 ELSE created[given]) + tick]
  BY DEF Stamp
<1>3. /\ PlansTypeOK /\ StoreInv /\ pending \subseteq Ids /\ created \in [Ids -> Nat]
  BY DEF PlansInductive, PlansTypeOK
<1>4. /\ MaxPlans \in Nat /\ given \in Nat /\ inserted \in Nat
      /\ \A id \in Ids : id \in Nat /\ place[id] \in Nat
  BY <1>3, PlansNumbers
<1>5. given' \in Ids /\ given' \in 0 .. MaxPlans /\ given' > given /\ (given # 0 => given \in Ids)
  BY <1>1, <1>4 DEF Ids
<1>6. created' \in [Ids -> Nat]
  <2>1. (IF given = 0 THEN 0 ELSE created[given]) \in Nat
    BY <1>3, <1>5
  <2>2. (IF given = 0 THEN 0 ELSE created[given]) + tick \in Nat
    BY <2>1
  <2> QED
    BY <1>2, <1>3, <2>2
<1>7. given' \notin pending /\ place[given'] = 0
  <2>1. \A id \in pending : id <= given
    BY <1>3 DEF StoreInv
  <2>2. ~(given' <= given)
    BY <1>4, <1>5
  <2>3. place[given'] = 0
    BY <1>3, <1>5 DEF StoreInv
  <2> QED
    BY <2>1, <2>2, <2>3
<1>8. inserted' + Cardinality(pending') = given'
  <2>1. Cardinality(pending') = Cardinality(pending) + 1
    BY <1>1, <1>7, PendingAre, FS_AddElement
  <2>2. Cardinality(pending) \in Nat /\ inserted + Cardinality(pending) = given
    BY <1>3, PendingAre DEF StoreInv
  <2> QED
    BY <1>1, <1>4, <2>1, <2>2
<1>9. \A id \in pending' : id <= given' /\ place'[id] = 0
  <2> SUFFICES ASSUME NEW id \in pending'
               PROVE  id <= given' /\ place'[id] = 0
    OBVIOUS
  <2>1. CASE id = given'
    BY <1>1, <1>4, <1>7, <2>1
  <2>2. CASE id # given'
    <3>1. id \in pending /\ id \in Nat
      BY <1>1, <1>3, <1>4, <2>2
    <3>2. id <= given /\ place[id] = 0
      BY <1>3, <3>1 DEF StoreInv
    <3> QED
      BY <1>1, <1>4, <3>1, <3>2
  <2> QED
    BY <2>1, <2>2
<1>10. \A id \in Ids : place'[id] <= inserted' /\ (id > given' => place'[id] = 0)
  <2> SUFFICES ASSUME NEW id \in Ids
               PROVE  place'[id] <= inserted' /\ (id > given' => place'[id] = 0)
    OBVIOUS
  <2>1. place[id] <= inserted /\ (id > given => place[id] = 0)
    BY <1>3 DEF StoreInv
  <2> QED
    BY <1>1, <1>4, <2>1
<1>11. StoreInv'
  BY <1>1, <1>3, <1>8, <1>9, <1>10 DEF StoreInv
<1> QED
  BY <1>1, <1>3, <1>5, <1>6, <1>11

\* The plan that is put in has the next number, and the others keep theirs.
LEMMA InsertKeeps ==
  ASSUME PlansInductive, NEW id \in pending, Insert(id)
  PROVE  /\ StoreInv' /\ order' \in Seq(Ids) /\ Len(order') <= Limit /\ pending' \subseteq Ids
         /\ inserted' = inserted + 1 /\ inserted' \in 0 .. MaxPlans
         /\ place[id] = 0 /\ place' = [place EXCEPT ![id] = inserted']
         /\ place' \in [Ids -> 0 .. MaxPlans] /\ id \in Ids /\ UNCHANGED <<given, created>>
<1>1. /\ pending' = pending \ {id} /\ inserted' = inserted + 1
      /\ place' = [place EXCEPT ![id] = inserted'] /\ UNCHANGED <<given, created>>
      /\ order' = SubSeq(<<id>> \o order, 1, IF Len(order) < Limit THEN Len(order) + 1 ELSE Limit)
  BY DEF Insert
<1>2. /\ PlansTypeOK /\ StoreInv /\ pending \subseteq Ids /\ id \in Ids
      /\ order \in Seq(Ids) /\ Len(order) <= Limit /\ place \in [Ids -> 0 .. MaxPlans]
  BY DEF PlansInductive, PlansTypeOK
<1>3. /\ MaxPlans \in Nat /\ Limit \in Nat /\ given \in Nat /\ given <= MaxPlans /\ inserted \in Nat
      /\ \A a \in Ids : a \in Nat /\ place[a] \in Nat
  BY <1>2, PlansNumbers
<1>4. place[id] = 0 /\ id <= given
  BY <1>2 DEF StoreInv
<1>5. inserted' + Cardinality(pending') = given'
  <2>1. Cardinality(pending') = Cardinality(pending) - 1
    BY <1>1, PendingAre, FS_RemoveElement
  <2>2. Cardinality(pending) \in Nat /\ inserted + Cardinality(pending) = given
    BY <1>2, PendingAre DEF StoreInv
  <2> QED
    BY <1>1, <1>3, <2>1, <2>2
<1>6. inserted' \in 0 .. MaxPlans
  <2>1. Cardinality(pending) >= 1 /\ Cardinality(pending) \in Nat /\ inserted + Cardinality(pending) = given
    BY <1>2, PendingAre DEF StoreInv
  <2> QED
    BY <1>1, <1>3, <2>1
<1>7. place' \in [Ids -> 0 .. MaxPlans] /\ place'[id] = inserted' /\ \A a \in Ids \ {id} : place'[a] = place[a]
  BY <1>1, <1>2, <1>6
<1>8. /\ order' \in Seq(Ids) /\ Len(order') = (IF Len(order) < Limit THEN Len(order) + 1 ELSE Limit)
      /\ Len(order') <= Limit
      /\ \A i \in 1 .. Len(order') : order'[i] = IF i = 1 THEN id ELSE order[i - 1]
  BY <1>1, <1>2, SaveIs
<1>9. /\ Len(order) \in Nat /\ DOMAIN order = 1 .. Len(order)
      /\ Len(order') \in Nat /\ DOMAIN order' = 1 .. Len(order') /\ \A i \in 1 .. Len(order) : order[i] \in Ids
  BY <1>2, <1>8, Elements
<1>10. Len(order) = Lesser(inserted, Limit)
  BY <1>2 DEF StoreInv
<1>11. Len(order') = Lesser(inserted', Limit) /\ Len(order) <= inserted /\ Len(order') <= Len(order) + 1
  BY <1>1, <1>3, <1>8, <1>9, <1>10 DEF Lesser
<1>12. \A a \in pending' : a <= given' /\ place'[a] = 0
  BY <1>1, <1>2, <1>7 DEF StoreInv
<1>13. ASSUME NEW a \in Ids
       PROVE  place'[a] <= inserted' /\ (a > given' => place'[a] = 0)
  <2>1. place[a] <= inserted /\ (a > given => place[a] = 0)
    BY <1>2 DEF StoreInv
  <2>2. CASE a = id
    BY <1>1, <1>3, <1>4, <1>6, <1>7, <2>2
  <2>3. CASE a # id
    BY <1>1, <1>3, <1>7, <2>1, <2>3
  <2> QED
    BY <2>2, <2>3
<1>14. ASSUME NEW a \in Ids, NEW b \in Ids, place'[a] = place'[b], place'[a] # 0
       PROVE  a = b
  <2>1. ASSUME NEW c \in Ids \ {id}
        PROVE  place'[c] # inserted'
    <3>1. place[c] <= inserted /\ place'[c] = place[c] /\ place[c] \in Nat
      BY <1>2, <1>3, <1>7, <2>1 DEF StoreInv
    <3> QED
      BY <1>1, <1>3, <3>1
  <2>2. CASE a = id \/ b = id
    BY <1>7, <1>14, <2>1, <2>2
  <2>3. CASE a # id /\ b # id
    BY <1>2, <1>7, <1>14, <2>3 DEF StoreInv
  <2> QED
    BY <2>2, <2>3
<1>15. ASSUME NEW i \in DOMAIN order'
       PROVE  place'[order'[i]] + i = inserted' + 1
  <2>1. i \in 1 .. Len(order')
    BY <1>9
  <2>2. CASE i = 1
    BY <1>1, <1>3, <1>7, <1>8, <2>1, <2>2
  <2>3. CASE i # 1
    <3>1. i - 1 \in 1 .. Len(order) /\ order'[i] = order[i - 1]
      BY <1>8, <1>9, <1>11, <2>1, <2>3
    <3>2. order[i - 1] \in Ids
      BY <1>9, <3>1
    <3>3. place[order[i - 1]] + (i - 1) = inserted + 1
      BY <1>2, <1>9, <3>1 DEF StoreInv
    <3>4. place[order[i - 1]] \in Nat /\ place[order[i - 1]] # 0
      <4>1. place[order[i - 1]] \in Nat /\ i - 1 <= inserted /\ i \in Int
        BY <1>3, <1>9, <1>11, <3>1, <3>2
      <4> QED
        BY <1>3, <3>3, <4>1
    <3>5. place'[order[i - 1]] = place[order[i - 1]]
      BY <1>4, <1>7, <3>2, <3>4
    <3>6. place'[order'[i]] = place[order[i - 1]]
      BY <3>1, <3>5
    <3> QED
      BY <1>1, <1>3, <2>1, <3>3, <3>4, <3>6
  <2> QED
    BY <2>2, <2>3
<1>16. StoreInv'
  BY <1>5, <1>11, <1>12, <1>13, <1>14, <1>15 DEF StoreInv
<1> QED
  BY <1>1, <1>2, <1>4, <1>6, <1>7, <1>8, <1>16

\* A list that is there stays one, whatever is put into the store.
LEMMA ListStays ==
  ASSUME PlansInductive, NEW id \in pending, Insert(id),
         NEW S \in SUBSET Ids, NEW n \in Nat, ListInv(S, n)
  PROVE  ListInv(S, n)'
<1>1. /\ inserted' = inserted + 1 /\ place[id] = 0 /\ id \in Ids
      /\ place' = [place EXCEPT ![id] = inserted'] /\ inserted \in Nat /\ place \in [Ids -> 0 .. MaxPlans]
  BY InsertKeeps, PlansNumbers DEF PlansInductive, PlansTypeOK
<1>2. n <= inserted /\ Cardinality(S) = Lesser(n, Limit)
  BY DEF ListInv
<1>3. n <= inserted' /\ ~(inserted' <= n)
  BY <1>1, <1>2
<1>4. \A a \in Ids : a \in S <=> place[a] # 0 /\ place[a] <= n /\ place[a] + Limit > n
  BY DEF ListInv
<1>5. place'[id] = inserted' /\ \A a \in Ids \ {id} : place'[a] = place[a]
  BY <1>1
<1>6. \A a \in Ids : a \in S <=> place'[a] # 0 /\ place'[a] <= n /\ place'[a] + Limit > n
  BY <1>1, <1>3, <1>4, <1>5
<1> QED
  BY <1>2, <1>3, <1>6 DEF ListInv

LEMMA PlanSavedKeeps ==
  ASSUME PlansInductive, PlanSaved
  PROVE  PlansKept
<1>1. /\ UNCHANGED <<explains, modal, shows, listeners, planDb, crowded, moved, chosenDb, lists, _savedPlans, asOf,
                     _compare, compares, compared>>
      /\ saves' \subseteq saves
  BY DEF PlanSaved, Stamp, Insert, dialogVars, listVars, compareVars
<1>2. PlanOfDialog' /\ DialogInv'
  BY <1>1, DialogKept
<1>3. CASE UNCHANGED storeVars
  <2>1. UNCHANGED <<given, created, pending, order, inserted, place>>
    BY <1>3 DEF storeVars
  <2>2. PlansTypeOK'
    BY <1>1, <2>1 DEF PlansInductive, PlansTypeOK
  <2> QED
    BY <1>1, <1>2, <2>1, <2>2, SavedKept DEF PlansKept
<1>4. ASSUME NEW s \in saves, Stamp(s)
      PROVE  PlansKept
  <2>1. /\ StoreInv' /\ given' \in 0 .. MaxPlans /\ created' \in [Ids -> Nat]
        /\ pending' \subseteq Ids /\ UNCHANGED <<order, inserted, place>>
    BY <1>4, StampKeeps
  <2>2. PlansTypeOK'
    BY <1>1, <2>1 DEF PlansInductive, PlansTypeOK
  <2> QED
    BY <1>1, <1>2, <2>1, <2>2, ListsKept, TicksKept DEF PlansKept
<1>5. ASSUME NEW id \in pending, Insert(id)
      PROVE  PlansKept
  <2>1. /\ StoreInv' /\ order' \in Seq(Ids) /\ Len(order') <= Limit /\ pending' \subseteq Ids
        /\ inserted' = inserted + 1 /\ inserted' \in 0 .. MaxPlans
        /\ place[id] = 0 /\ place' = [place EXCEPT ![id] = inserted']
        /\ place' \in [Ids -> 0 .. MaxPlans] /\ id \in Ids /\ UNCHANGED <<given, created>>
    BY <1>5, InsertKeeps
  <2>2. PlansTypeOK'
    BY <1>1, <2>1 DEF PlansInductive, PlansTypeOK
  <2>3. ListInv(_savedPlans, asOf)' /\ \A l \in Lister : ListInv(lists[l].ids, lists[l].asOf)'
    <3>1. /\ _savedPlans \in SUBSET Ids /\ asOf \in Nat /\ ListInv(_savedPlans, asOf)
          /\ \A l \in Lister : /\ lists[l].ids \in SUBSET Ids /\ lists[l].asOf \in Nat
                               /\ ListInv(lists[l].ids, lists[l].asOf)
      BY PlansNumbers DEF PlansInductive, PlansTypeOK, ListsInv
    <3>2. ASSUME NEW S \in SUBSET Ids, NEW n \in Nat, ListInv(S, n)
          PROVE  /\ n <= inserted' /\ Cardinality(S) = Lesser(n, Limit)
                 /\ \A a \in Ids : a \in S <=> place'[a] # 0 /\ place'[a] <= n /\ place'[a] + Limit > n
      BY <1>5, <3>2, ListStays DEF ListInv
    <3> QED
      BY <1>1, <3>1, <3>2 DEF ListInv
  <2>4. TicksInv'
    <3>1. _compare \in Seq(Ids) /\ inserted \in Nat /\ place \in [Ids -> 0 .. MaxPlans] /\ TicksInv
      BY PlansNumbers DEF PlansInductive, PlansTypeOK
    <3>2. \A a \in ToSet(_compare) : a \in Ids
      BY <3>1, Elements
    <3>3. \A a \in ToSet(_compare) : place'[a] # 0
      BY <2>1, <3>1, <3>2 DEF TicksInv
    <3> QED
      BY <1>1, <3>1, <3>3 DEF TicksInv
  <2> QED
    BY <1>1, <1>2, <2>1, <2>2, <2>3, <2>4 DEF PlansKept, ListsInv
<1> QED
  BY <1>3, <1>4, <1>5 DEF PlanSaved

\* The store's plans are the last ones put in, as many as it has.
LEMMA StoreIsList ==
  ASSUME PlansTypeOK, StoreInv
  PROVE  ListInv(ToSet(order), inserted)
<1>1. /\ Limit \in Nat /\ inserted \in Nat /\ \A id \in Ids : place[id] \in Nat
  BY PlansNumbers
<1>2. order \in Seq(Ids)
  BY DEF PlansTypeOK
<1>3. /\ DOMAIN order = 1 .. Len(order) /\ Len(order) \in Nat
      /\ \A i \in 1 .. Len(order) : order[i] \in Ids /\ order[i] \in ToSet(order)
      /\ \A x \in ToSet(order) : x \in Ids /\ \E i \in 1 .. Len(order) : order[i] = x
  BY <1>2, Elements
<1>4. Len(order) = Lesser(inserted, Limit) /\ Len(order) <= inserted /\ Len(order) <= Limit
  BY <1>1, LesserIs DEF StoreInv
<1>5. \A i \in 1 .. Len(order) : place[order[i]] + i = inserted + 1
  BY <1>3 DEF StoreInv
<1>6. \A i, j \in 1 .. Len(order) : order[i] = order[j] => i = j
  <2> SUFFICES ASSUME NEW i \in 1 .. Len(order), NEW j \in 1 .. Len(order), order[i] = order[j]
               PROVE  i = j
    OBVIOUS
  <2>1. place[order[i]] \in Nat /\ place[order[i]] + i = inserted + 1 /\ place[order[i]] + j = inserted + 1
    BY <1>1, <1>3, <1>5
  <2> QED
    BY <1>1, <2>1
<1>7. Cardinality(ToSet(order)) = Len(order)
  <2>1. order \in Bijection(1 .. Len(order), ToSet(order))
    BY <1>2, <1>3, <1>6 DEF Bijection, Injection, Surjection, IsInjective
  <2>2. IsFiniteSet(1 .. Len(order)) /\ Cardinality(1 .. Len(order)) = Len(order)
    <3>1. 1 \in Int /\ Len(order) \in Int
      BY <1>3
    <3>2. /\ IsFiniteSet(1 .. Len(order))
          /\ Cardinality(1 .. Len(order)) = IF 1 > Len(order) THEN 0 ELSE Len(order) - 1 + 1
      BY <3>1, FS_Interval, Zenon
    <3> QED
      BY <1>3, <3>2
  <2> QED
    BY <2>1, <2>2, FS_Bijection DEF ExistsBijection
<1>8. ASSUME NEW id \in ToSet(order)
      PROVE  place[id] # 0 /\ place[id] <= inserted /\ place[id] + Limit > inserted
  <2>1. PICK i \in 1 .. Len(order) : order[i] = id
    BY <1>3
  <2>2. place[id] \in Nat /\ place[id] + i = inserted + 1 /\ i >= 1 /\ i <= inserted /\ i <= Limit
    BY <1>1, <1>3, <1>4, <1>5, <2>1
  <2> QED
    BY <1>1, <2>2
<1>9. ASSUME NEW id \in Ids, place[id] # 0, place[id] <= inserted, place[id] + Limit > inserted
      PROVE  id \in ToSet(order)
  <2> DEFINE i == inserted + 1 - place[id]
  <2>1. i \in 1 .. Len(order) /\ i + place[id] = inserted + 1 /\ place[id] \in Nat
    <3>1. place[id] \in Nat
      BY <1>1
    <3>2. i \in Int /\ i >= 1 /\ i <= inserted /\ i <= Limit
      BY <1>1, <1>9, <3>1
    <3>3. Len(order) = inserted \/ Len(order) = Limit
      <4>1. Lesser(inserted, Limit) \in {inserted, Limit}
        BY <1>1, LesserIs
      <4> QED
        BY <1>4, <4>1
    <3>4. i + place[id] = inserted + 1
      BY <1>1, <3>1
    <3>5. i \in 1 .. Len(order)
      BY <1>3, <3>2, <3>3
    <3> QED
      BY <3>1, <3>4, <3>5
  <2> HIDE DEF i
  <2>2. place[order[i]] + i = inserted + 1 /\ order[i] \in Ids /\ order[i] \in ToSet(order)
    BY <1>3, <1>5, <2>1
  <2>3. place[order[i]] = place[id]
    <3>1. place[order[i]] \in Nat /\ i \in Int
      BY <1>1, <1>3, <2>1, <2>2
    <3> QED
      BY <1>1, <2>1, <2>2, <3>1
  <2>4. order[i] = id
    BY <1>9, <2>2, <2>3 DEF StoreInv
  <2> QED
    BY <2>2, <2>4
<1>10. inserted <= inserted
  BY <1>1
<1>11. \A id \in Ids :
         id \in ToSet(order) <=> place[id] # 0 /\ place[id] <= inserted /\ place[id] + Limit > inserted
  BY <1>8, <1>9
<1> QED
  BY <1>4, <1>7, <1>10, <1>11 DEF ListInv

\* A list of nothing, as of the start.
LEMMA NoListIs ==
  ASSUME PlansTypeOK
  PROVE  NoList \in Listing /\ ListInv(NoList.ids, NoList.asOf)
<1>1. MaxPlans \in Nat /\ Limit \in Nat /\ inserted \in Nat /\ \A id \in Ids : place[id] \in Nat
  BY PlansNumbers
<1>2. NoList \in Listing
  BY <1>1 DEF NoList, Listing
<1>3. NoList.ids = {} /\ NoList.asOf = 0
  BY DEF NoList
<1>4. Cardinality({}) = 0 /\ Lesser(0, Limit) = 0
  BY <1>1, FS_EmptySet DEF Lesser
<1>5. \A id \in Ids : id \in {} <=> place[id] # 0 /\ place[id] <= 0 /\ place[id] + Limit > 0
  BY <1>1
<1> QED
  BY <1>1, <1>2, <1>3, <1>4, <1>5 DEF ListInv

LEMMA ListingKeeps ==
  ASSUME PlansInductive, NEW l \in Lister, loadPlans(l) \/ List(l) \/ plansLoaded(l)
  PROVE  PlansKept
<1>1. UNCHANGED <<explains, modal, shows, listeners, planDb, crowded, moved, chosenDb, saves, given, created,
                  pending, order, inserted, place, _compare, compares, compared>>
  BY DEF loadPlans, List, plansLoaded, dialogVars, storeVars, compareVars
<1>2. /\ PlansTypeOK /\ StoreInv /\ lists \in [Lister -> Listing] /\ lists[l] \in Listing
      /\ ListInv(_savedPlans, asOf) /\ \A k \in Lister : ListInv(lists[k].ids, lists[k].asOf)
  BY DEF PlansInductive, PlansTypeOK, ListsInv
<1>3. PICK new \in Listing : lists' = [lists EXCEPT ![l] = new] /\ ListInv(new.ids, new.asOf)
  <2>1. CASE loadPlans(l)
    <3> DEFINE new == [lists[l] EXCEPT !.step = "asked"]
    <3>1. lists' = [lists EXCEPT ![l] = new]
      BY <2>1 DEF loadPlans
    <3>2. new \in Listing /\ new.ids = lists[l].ids /\ new.asOf = lists[l].asOf
      BY <1>2 DEF Listing
    <3> QED
      BY <1>2, <3>1, <3>2
  <2>2. CASE List(l)
    <3> DEFINE new == [step |-> "listed", ids |-> ToSet(order), asOf |-> inserted]
    <3>1. lists' = [lists EXCEPT ![l] = new]
      BY <2>2 DEF List
    <3>2. new \in Listing
      <4>1. ToSet(order) \subseteq Ids /\ inserted \in 0 .. MaxPlans
        BY <1>2, Elements DEF PlansTypeOK
      <4> QED
        BY <4>1 DEF Listing
    <3>3. ListInv(new.ids, new.asOf)
      BY <1>2, StoreIsList
    <3> QED
      BY <3>1, <3>2, <3>3
  <2>3. CASE plansLoaded(l)
    BY <1>2, <2>3, NoListIs DEF plansLoaded
  <2> QED
    BY <2>1, <2>2, <2>3
<1>4. \/ UNCHANGED <<_savedPlans, asOf>>
      \/ _savedPlans' = lists[l].ids /\ asOf' = lists[l].asOf
  BY DEF loadPlans, List, plansLoaded
<1>5. lists' \in [Lister -> Listing] /\ \A k \in Lister : lists'[k] = IF k = l THEN new ELSE lists[k]
  BY <1>2, <1>3
<1>6. _savedPlans' \subseteq Ids /\ asOf' \in 0 .. MaxPlans /\ ListInv(_savedPlans', asOf')
  <2>1. _savedPlans \subseteq Ids /\ asOf \in 0 .. MaxPlans /\ lists[l].ids \subseteq Ids /\ lists[l].asOf \in 0 .. MaxPlans
    BY <1>2 DEF PlansTypeOK, Listing
  <2> QED
    BY <1>2, <1>4, <2>1
<1>7. \A k \in Lister : ListInv(lists'[k].ids, lists'[k].asOf)
  BY <1>2, <1>3, <1>5
<1>8. ListsInv'
  BY <1>1, <1>6, <1>7 DEF ListsInv, ListInv
<1>9. PlansTypeOK'
  BY <1>1, <1>2, <1>5, <1>6 DEF PlansTypeOK
<1> QED
  BY <1>1, <1>8, <1>9, DialogKept, StoreKept, TicksKept DEF PlansKept

LEMMA ToggleKeeps ==
  ASSUME PlansInductive, Toggle
  PROVE  PlansKept
<1>1. UNCHANGED <<explains, modal, shows, listeners, planDb, crowded, moved, chosenDb, saves, given, created,
                  pending, order, inserted, place, lists, _savedPlans, asOf, compares, compared>>
  BY DEF Toggle, dialogVars, savedVars, storeVars, listVars
<1>2. PICK id \in OnPage : toggleCompare(id)
  BY DEF Toggle
<1>3. _savedPlans \subseteq Ids /\ _compare \in Seq(Ids) /\ Len(_compare) <= 2
  BY DEF PlansInductive, PlansTypeOK
<1>4. id \in Ids /\ place[id] # 0
  BY <1>3 DEF OnPage, PlansInductive, ListsInv, ListInv
<1>5. /\ _compare' \in Seq(Ids) /\ Len(_compare') <= 2 /\ IsInjective(_compare')
      /\ ToSet(_compare') \subseteq ToSet(_compare) \cup {id}
  <2>1. CASE id \in ToSet(_compare)
    <3>1. _compare' = RemoveFirst(_compare, id)
      BY <1>2, <2>1 DEF toggleCompare
    <3>2. _compare' \in Seq(Ids) /\ Len(_compare') < 2 /\ ToSet(_compare') \subseteq ToSet(_compare)
      BY <1>3, <2>1, <3>1, OneOfTwo
    <3>3. DOMAIN _compare' = 1 .. Len(_compare') /\ Len(_compare') \in Nat
      BY <3>2, Elements
    <3>4. IsInjective(_compare')
      BY <3>2, <3>3 DEF IsInjective
    <3> QED
      BY <3>2, <3>3, <3>4
  <2>2. CASE id \notin ToSet(_compare)
    <3> DEFINE t == IF Len(_compare) >= 2 THEN Tail(_compare) ELSE _compare
    <3>1. _compare' = Append(t, id)
      BY <1>2, <2>2 DEF toggleCompare
    <3>2. Len(_compare) \in Nat /\ DOMAIN _compare = 1 .. Len(_compare) /\ \A i \in 1 .. Len(_compare) : _compare[i] \in ToSet(_compare)
      BY <1>3, Elements
    <3>3. t \in Seq(Ids) /\ Len(t) <= 1 /\ \A i \in 1 .. Len(t) : t[i] \in ToSet(_compare)
      <4>1. CASE Len(_compare) >= 2
        <5>1. t = Tail(_compare) /\ Len(_compare) = 2 /\ _compare # <<>>
          BY <1>3, <3>2, <4>1
        <5>2. /\ Tail(_compare) \in Seq(Ids) /\ Len(Tail(_compare)) = 1
              /\ Tail(_compare)[1] = _compare[2]
          BY <1>3, <5>1, TailOfTwo
        <5>3. _compare[2] \in ToSet(_compare)
          BY <3>2, <5>1
        <5>4. t \in Seq(Ids) /\ Len(t) = 1 /\ t[1] \in ToSet(_compare)
          BY <5>1, <5>2, <5>3
        <5> HIDE DEF t
        <5>5. ASSUME NEW i \in 1 .. Len(t)
              PROVE  t[i] \in ToSet(_compare)
          <6>1. i = 1
            BY <5>4
          <6> QED
            BY <5>4, <6>1
        <5> QED
          BY <5>4, <5>5
      <4>2. CASE ~(Len(_compare) >= 2)
        BY <1>3, <3>2, <4>2
      <4> QED
        BY <4>1, <4>2
    <3> HIDE DEF t
    <3>4. Len(t) \in Nat
      BY <3>3
    <3>5. /\ _compare' \in Seq(Ids) /\ Len(_compare') = Len(t) + 1 /\ _compare'[Len(t) + 1] = id
          /\ \A i \in 1 .. Len(t) : _compare'[i] = t[i]
      BY <1>4, <3>1, <3>3, <3>4
    <3>6. DOMAIN _compare' = 1 .. Len(t) + 1
      BY <3>5, Elements
    <3>7. \A i \in 1 .. Len(t) + 1 : i # Len(t) + 1 => i = 1 /\ i \in 1 .. Len(t)
      BY <3>3, <3>4
    <3>8. IsInjective(_compare')
      BY <2>2, <3>3, <3>5, <3>6, <3>7 DEF IsInjective
    <3>9. ToSet(_compare') \subseteq ToSet(_compare) \cup {id}
      <4> SUFFICES ASSUME NEW x \in ToSet(_compare')
                   PROVE  x \in ToSet(_compare) \cup {id}
        OBVIOUS
      <4>1. PICK i \in 1 .. Len(t) + 1 : _compare'[i] = x
        BY <3>5, Elements
      <4> QED
        BY <3>3, <3>5, <3>7, <4>1
    <3> QED
      BY <3>3, <3>4, <3>5, <3>8, <3>9
  <2> QED
    BY <2>1, <2>2
<1>6. PlansTypeOK'
  BY <1>1, <1>5 DEF PlansInductive, PlansTypeOK
<1>7. TicksInv'
  BY <1>1, <1>4, <1>5 DEF PlansInductive, TicksInv
<1> QED
  BY <1>1, <1>6, <1>7, DialogKept, StoreKept, ListsKept DEF PlansKept

LEMMA ComparingKeeps ==
  ASSUME PlansInductive, compareSelected \/ Compared
  PROVE  PlansKept
<1>1. UNCHANGED <<explains, modal, shows, listeners, planDb, crowded, moved, chosenDb, saves, given, created,
                  pending, order, inserted, place, lists, _savedPlans, asOf, _compare>>
  BY DEF compareSelected, Compared, dialogVars, savedVars, storeVars, listVars
<1>2. ToSet(_compare) \subseteq Ids
  BY Elements DEF PlansInductive, PlansTypeOK
<1>3. compares' \subseteq Ids /\ compared' \subseteq Ids
  BY <1>2 DEF compareSelected, Compared, PlansInductive, PlansTypeOK
<1>4. PlansTypeOK'
  BY <1>1, <1>3 DEF PlansInductive, PlansTypeOK
<1> QED
  BY <1>1, <1>4, DialogKept, SavedKept DEF PlansKept

LEMMA PlansStart == PlansInit => PlansInductive
<1> SUFFICES ASSUME PlansInit
             PROVE  PlansInductive
  OBVIOUS
<1>1. PlansTypeOK
  <2>1. order \in Seq(Ids) /\ _compare \in Seq(Ids) /\ Len(order) <= Limit /\ Len(_compare) <= 2
    BY PlansAssumption DEF PlansInit
  <2>2. crowded \in BOOLEAN /\ moved \in BOOLEAN
    BY DEF PlansInit
  <2>3. /\ given \in 0 .. MaxPlans /\ inserted \in 0 .. MaxPlans /\ asOf \in 0 .. MaxPlans
        /\ created \in [Ids -> Nat] /\ place \in [Ids -> 0 .. MaxPlans] /\ lists \in [Lister -> Listing]
    BY PlansAssumption DEF PlansInit, NoList, Listing
  <2> QED
    BY <2>1, <2>2, <2>3 DEF PlansInit, PlansTypeOK
<1>2. PlanOfDialog /\ DialogInv
  BY DEF PlansInit, PlanOfDialog, DialogInv
<1>3. ListsInv
  <2>1. ListInv(NoList.ids, NoList.asOf) /\ NoList.ids = {} /\ NoList.asOf = 0
    BY <1>1, NoListIs DEF NoList
  <2>2. _savedPlans = {} /\ asOf = 0 /\ \A l \in Lister : lists[l] = NoList
    BY DEF PlansInit
  <2> QED
    BY <2>1, <2>2 DEF ListsInv
<1>4. StoreInv
  <2>1. /\ given = 0 /\ inserted = 0 /\ pending = {} /\ order = <<>> /\ \A id \in Ids : place[id] = 0
    BY DEF PlansInit
  <2>2. Cardinality(pending) = 0 /\ Len(order) = 0 /\ Lesser(0, Limit) = 0 /\ DOMAIN order = {}
    BY <2>1, FS_EmptySet, PlansAssumption DEF Lesser
  <2> QED
    BY <2>1, <2>2 DEF StoreInv
<1>5. TicksInv
  BY DEF PlansInit, TicksInv, ToSet, IsInjective
<1> QED
  BY <1>1, <1>2, <1>3, <1>4, <1>5, TicksFollow DEF PlansInductive, PlansExplained

LEMMA PlansSteps == PlansInductive /\ [PlansNext]_plansVars => PlansInductive'
<1> SUFFICES ASSUME PlansInductive, [PlansNext]_plansVars
             PROVE  PlansInductive'
  OBVIOUS
<1>1. PlansKept
  <2>1. CASE UNCHANGED plansVars
    <3> USE <2>1 DEF plansVars, dialogVars, savedVars, storeVars, listVars, compareVars
    <3>1. PlanOfDialog' /\ DialogInv' /\ StoreInv' /\ ListsInv' /\ TicksInv'
      BY DialogKept, SavedKept
    <3>2. PlansTypeOK'
      BY DEF PlansInductive, PlansTypeOK
    <3> QED
      BY <3>1, <3>2 DEF PlansKept
  <2> QED
    BY <2>1, ExplainKeeps, ExplainedKeeps, DialogKeeps, PlanSavedKeeps, ListingKeeps, ToggleKeeps,
       ComparingKeeps DEF PlansNext
<1>2. PlansTypeOK' /\ ListsInv' /\ TicksInv'
  BY <1>1 DEF PlansKept
<1>3. TickedExplained'
  BY <1>2, TicksFollow, PTL
<1> QED
  BY <1>1, <1>3 DEF PlansInductive, PlansExplained, PlansKept
\* The plans of queries.js over PlanStore (plan_store.go): a dialog keeps to its
\* own query and database unless it was opened over another explanation or the
\* database was chosen again; what is ticked is on the page, or was pushed off it
\* by plans created or put in later, or the page went back to a list from before
\* the plan was saved.
THEOREM PlansTrue == PlansSpec => [](PlansTypeOK /\ PlansExplained)
<1>1. PlansInductive => PlansTypeOK /\ PlansExplained
  BY DEF PlansInductive
<1> QED
  BY <1>1, PlansStart, PlansSteps, PTL DEF PlansSpec

-----------------------------------------------------------------------------
(* The forms of the settings *)

LEMMA OwnSection == Own \in [Form -> Section]
  BY DEF Own, Form, Section

\* A request for the settings that is no newer now than o was.
Like(h, o) ==
  /\ h.why = o.why /\ h.conf = o.conf /\ h.pressed = o.pressed
  /\ (h.fresh => o.fresh) /\ (h.same => o.same)

\* What the selector has, and what is on its way to it, is accounted for.
Sure == ~behind /\ ~Unanswered

\* The requests for the settings, something having been saved.
Old == {[g EXCEPT !.fresh = FALSE] : g \in gets}

LEMMA LikeSelf == \A o \in gets : Like(o, o)
  BY DEF Like

LEMMA SureKept ==
  ASSUME UNCHANGED <<posts, behind>>
  PROVE  Sure' => Sure
  BY DEF Sure, Unanswered

LEMMA GetAged ==
  ASSUME NEW o \in Get
  PROVE  /\ [o EXCEPT !.el = FALSE, !.same = FALSE] \in Get
         /\ [o EXCEPT !.same = FALSE] \in Get
         /\ [o EXCEPT !.fresh = FALSE] \in Get
         /\ Like([o EXCEPT !.el = FALSE, !.same = FALSE], o)
         /\ Like([o EXCEPT !.same = FALSE], o)
         /\ Like([o EXCEPT !.fresh = FALSE], o)
         /\ [o EXCEPT !.el = FALSE, !.same = FALSE].same = FALSE
         /\ [o EXCEPT !.same = FALSE].same = FALSE
         /\ [o EXCEPT !.fresh = FALSE].fresh = FALSE
  BY DEF Get, Like

LEMMA Aged ==
  ASSUME gets \subseteq Get
  PROVE  /\ Detached \subseteq Get /\ \A h \in Detached : h.same = FALSE /\ \E o \in gets : Like(h, o)
         /\ Changed \subseteq Get /\ \A h \in Changed : h.same = FALSE /\ \E o \in gets : Like(h, o)
         /\ Old \subseteq Get /\ \A h \in Old : h.fresh = FALSE /\ \E o \in gets : Like(h, o)
<1>1. ASSUME NEW h \in Detached
      PROVE  h \in Get /\ h.same = FALSE /\ \E o \in gets : Like(h, o)
  <2> PICK o \in gets : h = [o EXCEPT !.el = FALSE, !.same = FALSE]
    BY DEF Detached
  <2> QED
    BY GetAged
<1>2. ASSUME NEW h \in Changed
      PROVE  h \in Get /\ h.same = FALSE /\ \E o \in gets : Like(h, o)
  <2> PICK o \in gets : h = [o EXCEPT !.same = FALSE]
    BY DEF Changed
  <2> QED
    BY GetAged
<1>3. ASSUME NEW h \in Old
      PROVE  h \in Get /\ h.fresh = FALSE /\ \E o \in gets : Like(h, o)
  <2> PICK o \in gets : h = [o EXCEPT !.fresh = FALSE]
    BY DEF Old
  <2> QED
    BY GetAged
<1> QED
  BY <1>1, <1>2, <1>3

\* The requests for the settings keep to the rules while nothing is saved.
LEMMA GetsKept ==
  ASSUME FormsInductive, server' = server, Sure' => Sure,
         \A h \in gets' : \E o \in gets : Like(h, o),
         \A h \in gets' : h.why = "save" /\ h.same => UNCHANGED <<screen, inputs>>
  PROVE  PressedInv' /\ SelectorInv' /\ GetsFresh'
<1> USE DEF FormsInductive
<1>1. PressedInv'
  BY DEF PressedInv, Like
<1>2. SelectorInv'
  BY DEF SelectorInv, Like, Sure
<1>3. GetsFresh'
  BY DEF GetsFresh, Like
<1> QED
  BY <1>1, <1>2, <1>3

\* A new one has not been handed anything yet.
NewGet(why) == [why |-> why, el |-> TRUE, conf |-> NoConfig, fresh |-> FALSE,
                pressed |-> IF why = "save" THEN inputs ELSE Absent, same |-> TRUE]

LEMMA NewGetIs ==
  ASSUME NEW why \in Form \cup {"selector", "save"}, inputs \in Value \cup {Absent}
  PROVE  /\ NewGet(why) \in Get /\ NewGet(why).why = why /\ NewGet(why).conf = NoConfig /\ NewGet(why).fresh = FALSE
         /\ why = "save" => NewGet(why).pressed = inputs
  BY DEF NewGet, Get

LEMMA GetAsked ==
  ASSUME FormsInductive, NEW others, NEW why \in Form \cup {"selector", "save"},
         server' = server, Sure' => Sure,
         Ask(others, why), others \subseteq Get,
         \A h \in others : \E o \in gets : Like(h, o),
         \A h \in others : h.why = "save" /\ h.same => UNCHANGED <<screen, inputs>>,
         why = "save" => inputs # Absent /\ screen = "schedule" /\ UNCHANGED <<screen, inputs>>
  PROVE  PressedInv' /\ SelectorInv' /\ GetsFresh' /\ gets' \subseteq Get
<1>1. inputs \in Value \cup {Absent}
  BY DEF FormsInductive, FormsTypeOK
<1> DEFINE g == NewGet(why)
<1>2. gets' = others \cup {g}
  BY DEF Ask, NewGet
<1>3. /\ g \in Get /\ g.why = why /\ g.conf = NoConfig /\ g.fresh = FALSE
      /\ why = "save" => g.pressed = inputs
  BY <1>1, NewGetIs
<1> HIDE DEF g
<1>4. PressedInv'
  BY <1>2, <1>3 DEF FormsInductive, PressedInv, Like
<1>5. SelectorInv'
  BY <1>2, <1>3 DEF FormsInductive, SelectorInv, Like, Sure
<1>6. GetsFresh'
  BY <1>2, <1>3 DEF FormsInductive, GetsFresh, Like
<1> QED
  BY <1>2, <1>3, <1>4, <1>5, <1>6

\* p saves what was meant, or a default, or what the server has.
Meant(p, conf) ==
  \/ p.conf[Own[p.form]] = p.pressed
  \/ /\ p.pressed \in {Absent, Blank}
     /\ IF p.form = "profiles" THEN p.fresh => p.conf[Own[p.form]] = conf["connections"]
        ELSE p.conf[Own[p.form]] = Default[Own[p.form]]
  \/ p.form = "schedule" /\ p.late

LEMMA MeantAll == SavesInputs <=> \A p \in posts : Meant(p, server)
  BY DEF SavesInputs, Meant

\* The requests to save that are left, nothing being saved.
LEMMA PostsKept ==
  ASSUME FormsInductive, posts' \subseteq posts, server' = server
  PROVE  posts' \subseteq Posted /\ SavesInputs' /\ PostsFresh'
  BY DEF FormsInductive, FormsTypeOK, FormsExplained, SavesInputs, PostsFresh

\* p was o before something was saved.
Aging(p, o) ==
  /\ p.fresh = FALSE /\ p.form = o.form /\ p.conf = o.conf /\ p.pressed = o.pressed /\ p.late = o.late

LEMMA PostAged ==
  ASSUME NEW o \in Posted
  PROVE  LET a == [o EXCEPT !.fresh = FALSE]
             b == [[o EXCEPT !.stored = TRUE] EXCEPT !.fresh = FALSE]
         IN  /\ a \in Posted /\ Aging(a, o) /\ a.stored = o.stored
             /\ b \in Posted /\ Aging(b, o) /\ b.stored = TRUE
             /\ o.fresh \in BOOLEAN /\ o.stored \in BOOLEAN
  BY DEF Posted, Aging

\* Those that are left when something was saved.
LEMMA PostsAged ==
  ASSUME FormsInductive, \A p \in posts' : p \in Posted /\ \E o \in posts : Aging(p, o)
  PROVE  posts' \subseteq Posted /\ SavesInputs' /\ PostsFresh'
<1>1. posts' \subseteq Posted /\ PostsFresh'
  BY DEF PostsFresh, Aging
<1>2. ASSUME NEW p \in posts'
      PROVE  Meant(p, server')
  <2>1. PICK o \in posts : Aging(p, o)
    OBVIOUS
  <2>2. Meant(o, server)
    BY MeantAll DEF FormsInductive, FormsExplained
  <2> QED
    BY <2>1, <2>2 DEF Meant, Aging
<1>3. SavesInputs'
  BY <1>2 DEF SavesInputs, Meant
<1> QED
  BY <1>1, <1>3

LEMMA Posting ==
  ASSUME FormsInductive, UNCHANGED <<server, behind>>, NEW p \in Posted, posts' = posts \cup {p},
         Meant(p, server), p.stored = FALSE,
         p.fresh => \A s \in Section : s # Own[p.form] => p.conf[s] = server[s]
  PROVE  posts' \subseteq Posted /\ SavesInputs' /\ PostsFresh' /\ (Sure' => Sure)
<1>1. posts' \subseteq Posted
  BY DEF FormsInductive, FormsTypeOK
<1>2. SavesInputs'
  <2>1. \A q \in posts' : Meant(q, server)
    BY MeantAll DEF FormsInductive, FormsExplained
  <2> QED
    BY <2>1 DEF SavesInputs, Meant
<1>3. PostsFresh'
  BY DEF FormsInductive, PostsFresh
<1>4. Sure' => Sure
  BY DEF Sure, Unanswered
<1> QED
  BY <1>1, <1>2, <1>3, <1>4

LEMMA SelectorKept ==
  ASSUME FormsInductive, UNCHANGED <<server, _settings>>, Sure' => Sure
  PROVE  SelectorIsCurrent'
  BY DEF FormsInductive, FormsExplained, SelectorIsCurrent, Sure

LEMMA LoadedKept ==
  ASSUME FormsInductive, UNCHANGED <<server, _config, fresh>>
  PROVE  LoadedFresh'
  BY DEF FormsInductive, LoadedFresh

LEMMA ServedKeeps ==
  ASSUME FormsInductive, NEW g \in gets, Served(g)
  PROVE  FormsInductive'
<1> DEFINE new == [g EXCEPT !.conf = server, !.fresh = TRUE]
<1>1. /\ UNCHANGED <<server, saved, screen, opens, inputs, _config, posts, _settings, fresh, behind>>
      /\ gets' = (gets \ {g}) \cup {new}
  BY DEF Served
<1>2. g \in Get /\ server \in Config /\ gets \subseteq Get
  BY DEF FormsInductive, FormsTypeOK
<1>3. /\ new \in Get /\ new.conf = server
      /\ new.why = g.why /\ new.pressed = g.pressed /\ new.same = g.same
  BY <1>2 DEF Get
<1> HIDE DEF new
<1>4. PressedInv'
  BY <1>1, <1>3 DEF FormsInductive, PressedInv
<1>5. SelectorInv'
  <2>1. Sure' => Sure
    BY <1>1, SureKept
  <2> QED
    BY <1>1, <1>3, <2>1 DEF FormsInductive, SelectorInv, Sure
<1>6. GetsFresh'
  BY <1>1, <1>3 DEF FormsInductive, GetsFresh
<1>7. SelectorIsCurrent' /\ LoadedFresh'
  BY <1>1, SureKept, SelectorKept, LoadedKept
<1>8. posts' \subseteq Posted /\ SavesInputs' /\ PostsFresh'
  BY <1>1, PostsKept
<1>9. FormsTypeOK'
  BY <1>1, <1>2, <1>3, <1>8 DEF FormsInductive, FormsTypeOK
<1> QED
  BY <1>4, <1>5, <1>6, <1>7, <1>8, <1>9 DEF FormsInductive, FormsExplained

LEMMA FillIs ==
  ASSUME FormsInductive, NEW g \in gets, g.why \in Form, g.conf \in Config, Fill(g)
  PROVE  /\ inputs' \in Value \cup {Absent} /\ gets' \subseteq Get
         /\ \A h \in gets' : \E o \in gets : Like(h, o)
         /\ \A h \in gets' : h.same => inputs' = inputs
<1>1. inputs \in Value \cup {Absent} /\ gets \subseteq Get
  BY DEF FormsInductive, FormsTypeOK
<1>2. CASE inputs' = inputs /\ gets' = gets \ {g}
  BY <1>1, <1>2, LikeSelf
<1>3. CASE /\ inputs' \in {Default[Own[g.why]], g.conf[Own[g.why]]}
           /\ gets' = {[o EXCEPT !.same = FALSE] : o \in gets \ {g}}
  <2>1. inputs' \in Value
    BY <1>3, OwnSection, FormsAssumption DEF Config
  <2>2. ASSUME NEW h \in gets'
        PROVE  h \in Get /\ h.same = FALSE /\ \E o \in gets : Like(h, o)
    <3> PICK o \in gets : h = [o EXCEPT !.same = FALSE]
      BY <1>3
    <3> QED
      BY <1>1, GetAged
  <2> QED
    BY <2>1, <2>2
<1> QED
  BY <1>2, <1>3 DEF Fill

LEMMA OpenFormKeeps ==
  ASSUME FormsInductive, NEW f \in Form, OpenForm(f)
  PROVE  FormsInductive'
<1>1. UNCHANGED <<server, saved, _config, posts, _settings, fresh, behind>>
  BY DEF OpenForm
<1>2. PressedInv' /\ SelectorInv' /\ GetsFresh' /\ gets' \subseteq Get
  <2>1. Detached \subseteq Get /\ \A h \in Detached : h.same = FALSE /\ \E o \in gets : Like(h, o)
    BY Aged DEF FormsInductive, FormsTypeOK
  <2>2. f # "save"
    BY DEF Form
  <2>3. Ask(Detached, f)
    BY DEF OpenForm
  <2> QED
    BY <1>1, <2>1, <2>2, <2>3, GetAsked, SureKept
<1>3. posts' \subseteq Posted /\ SavesInputs' /\ PostsFresh'
  BY <1>1, PostsKept
<1>4. SelectorIsCurrent' /\ LoadedFresh'
  BY <1>1, SureKept, SelectorKept, LoadedKept
<1>5. FormsTypeOK'
  BY <1>1, <1>2, <1>3, FormsAssumption DEF FormsInductive, FormsTypeOK, OpenForm
<1> QED
  BY <1>2, <1>3, <1>4, <1>5 DEF FormsInductive, FormsExplained

LEMMA LeaveFormKeeps ==
  ASSUME FormsInductive, LeaveForm
  PROVE  FormsInductive'
<1>1. UNCHANGED <<server, saved, _config, posts, _settings, fresh, behind, opens>> /\ gets' = Detached
  BY DEF LeaveForm
<1>2. Detached \subseteq Get /\ \A h \in Detached : h.same = FALSE /\ \E o \in gets : Like(h, o)
  BY Aged DEF FormsInductive, FormsTypeOK
<1>3. PressedInv' /\ SelectorInv' /\ GetsFresh'
  BY <1>1, <1>2, GetsKept, SureKept
<1>4. posts' \subseteq Posted /\ SavesInputs' /\ PostsFresh'
  BY <1>1, PostsKept
<1>5. SelectorIsCurrent' /\ LoadedFresh'
  BY <1>1, SureKept, SelectorKept, LoadedKept
<1>6. FormsTypeOK'
  BY <1>1, <1>2, <1>4 DEF FormsInductive, FormsTypeOK, LeaveForm
<1> QED
  BY <1>3, <1>4, <1>5, <1>6 DEF FormsInductive, FormsExplained

LEMMA LoadKeeps ==
  ASSUME FormsInductive, NEW g \in gets, load(g)
  PROVE  FormsInductive'
<1>1. UNCHANGED <<server, saved, screen, opens, posts, _settings, behind>> /\ g.why \in Form
  BY DEF load
<1>2. /\ Fill(g) /\ g.conf # NoConfig
      /\ _config' = IF g.why = "schedule" THEN _config ELSE [_config EXCEPT ![g.why] = g.conf]
      /\ fresh' = IF g.fresh THEN fresh \cup {g.why} ELSE fresh \ {g.why}
  BY DEF load
<1>3. g.conf \in Config /\ g.fresh \in BOOLEAN /\ (g.fresh => g.conf = server)
  BY <1>2 DEF FormsInductive, FormsTypeOK, Get, GetsFresh
<1>4. /\ inputs' \in Value \cup {Absent} /\ gets' \subseteq Get
      /\ \A h \in gets' : \E o \in gets : Like(h, o)
      /\ \A h \in gets' : h.same => inputs' = inputs
  BY <1>1, <1>2, <1>3, FillIs
<1>5. PressedInv' /\ SelectorInv' /\ GetsFresh'
  BY <1>1, <1>4, GetsKept, SureKept
<1>6. posts' \subseteq Posted /\ SavesInputs' /\ PostsFresh'
  BY <1>1, PostsKept
<1>7. SelectorIsCurrent'
  BY <1>1, SureKept, SelectorKept
<1>8. fresh' \subseteq Form /\ _config' \in [{"alerts", "profiles"} -> Config \cup {NoConfig}]
  BY <1>1, <1>2, <1>3 DEF FormsInductive, FormsTypeOK, Form
<1>9. LoadedFresh'
  <2> SUFFICES ASSUME NEW f \in fresh' \ {"schedule"}, NEW s \in Section, _config'[f] # NoConfig,
                      s # Own[f] \/ f = "profiles"
               PROVE  _config'[f][s] = server[s]
    BY <1>1 DEF LoadedFresh
  <2>0. f \in {"alerts", "profiles"} /\ _config \in [{"alerts", "profiles"} -> Config \cup {NoConfig}]
    BY <1>8 DEF Form, FormsInductive, FormsTypeOK
  <2>1. CASE f = g.why
    <3>1. g.fresh
      BY <1>2, <2>1
    <3>2. _config'[f] = g.conf
      BY <1>2, <2>0, <2>1
    <3> QED
      BY <1>3, <3>1, <3>2
  <2>2. CASE f # g.why
    <3>1. f \in fresh /\ _config'[f] = _config[f]
      BY <1>2, <2>0, <2>2
    <3> QED
      BY <3>1 DEF FormsInductive, LoadedFresh
  <2> QED
    BY <2>1, <2>2
<1>10. FormsTypeOK'
  BY <1>1, <1>4, <1>6, <1>8 DEF FormsInductive, FormsTypeOK
<1> QED
  BY <1>5, <1>6, <1>7, <1>9, <1>10 DEF FormsInductive, FormsExplained

LEMMA LoadFailedKeeps ==
  ASSUME FormsInductive, NEW g \in gets, loadFailed(g)
  PROVE  FormsInductive'
<1>1. UNCHANGED <<server, saved, screen, opens, _config, posts, _settings, fresh, behind>> /\ gets' = gets \ {g}
  BY DEF loadFailed
<1>2. \A h \in gets' : h.why = "save" /\ h.same => UNCHANGED <<screen, inputs>>
  BY <1>1 DEF loadFailed, FormsInductive, PressedInv
<1>3. PressedInv' /\ SelectorInv' /\ GetsFresh'
  BY <1>1, <1>2, LikeSelf, GetsKept, SureKept
<1>4. posts' \subseteq Posted /\ SavesInputs' /\ PostsFresh'
  BY <1>1, PostsKept
<1>5. SelectorIsCurrent' /\ LoadedFresh'
  BY <1>1, SureKept, SelectorKept, LoadedKept
<1>6. FormsTypeOK'
  BY <1>1, <1>4 DEF FormsInductive, FormsTypeOK, loadFailed
<1> QED
  BY <1>3, <1>4, <1>5, <1>6 DEF FormsInductive, FormsExplained

LEMMA TypeKeeps ==
  ASSUME FormsInductive, Type
  PROVE  FormsInductive'
<1>1. UNCHANGED <<server, saved, screen, opens, _config, posts, _settings, fresh, behind>> /\ gets' = Changed
  BY DEF Type
<1>2. Changed \subseteq Get /\ \A h \in Changed : h.same = FALSE /\ \E o \in gets : Like(h, o)
  BY Aged DEF FormsInductive, FormsTypeOK
<1>3. PressedInv' /\ SelectorInv' /\ GetsFresh'
  BY <1>1, <1>2, GetsKept, SureKept
<1>4. posts' \subseteq Posted /\ SavesInputs' /\ PostsFresh'
  BY <1>1, PostsKept
<1>5. SelectorIsCurrent' /\ LoadedFresh'
  BY <1>1, SureKept, SelectorKept, LoadedKept
<1>6. FormsTypeOK'
  BY <1>1, <1>2, <1>4 DEF FormsInductive, FormsTypeOK, Type
<1> QED
  BY <1>3, <1>4, <1>5, <1>6 DEF FormsInductive, FormsExplained

LEMMA OrIs ==
  ASSUME NEW value \in Value \cup {Absent}, NEW other \in Value
  PROVE  /\ Or(value, other) \in Value
         /\ Or(value, other) = value \/ (value \in {Absent, Blank} /\ Or(value, other) = other)
  BY DEF Or

LEMMA SaveAlertsKeeps ==
  ASSUME FormsInductive, saveAlerts
  PROVE  FormsInductive'
<1> DEFINE v == Or(inputs, Default["alerts"])
<1>1. UNCHANGED <<server, saved, screen, opens, inputs, gets, _settings, fresh, behind>>
  BY DEF saveAlerts
<1>2. /\ _config["alerts"] \in Config /\ inputs \in Value \cup {Absent}
      /\ _config \in [{"alerts", "profiles"} -> Config \cup {NoConfig}]
  BY DEF saveAlerts, FormsInductive, FormsTypeOK
<1>3. v \in Value /\ (v = inputs \/ (inputs \in {Absent, Blank} /\ v = Default["alerts"]))
  <2>1. Default["alerts"] \in Value
    BY FormsAssumption DEF Section
  <2> QED
    BY <1>2, <2>1, OrIs
<1>4. _config' = [_config EXCEPT !["alerts"] = [_config["alerts"] EXCEPT !["alerts"] = v]]
  BY DEF saveAlerts
<1>5. Post("alerts", _config'["alerts"], inputs, FALSE, "alerts" \in fresh)
  BY DEF saveAlerts
<1> HIDE DEF v
<1>6. /\ _config'["alerts"] \in Config /\ _config'["alerts"]["alerts"] = v
      /\ \A s \in Section : s # "alerts" => _config'["alerts"][s] = _config["alerts"][s]
      /\ _config'["profiles"] = _config["profiles"]
      /\ _config' \in [{"alerts", "profiles"} -> Config \cup {NoConfig}]
  BY <1>2, <1>3, <1>4 DEF Config, Section
<1>7. _config["alerts"] # NoConfig
  BY DEF saveAlerts
<1>8. Own["alerts"] = "alerts" /\ Own["profiles"] = "connections" /\ "alerts" \in Form
  BY DEF Own, Form
<1>9. "alerts" \in fresh => \A s \in Section : s # "alerts" => _config'["alerts"][s] = server[s]
  BY <1>6, <1>7, <1>8 DEF FormsInductive, LoadedFresh
<1>10. posts' \subseteq Posted /\ SavesInputs' /\ PostsFresh' /\ (Sure' => Sure)
  <2> DEFINE p == [form |-> "alerts", conf |-> _config'["alerts"], pressed |-> inputs, late |-> FALSE,
                   fresh |-> "alerts" \in fresh, stored |-> FALSE]
  <2>1. posts' = posts \cup {p}
    BY <1>5 DEF Post
  <2>2. p \in Posted
    BY <1>2, <1>6, <1>8 DEF Posted
  <2>3. Meant(p, server)
    BY <1>3, <1>6, <1>8 DEF Meant
  <2>4. p.fresh => \A s \in Section : s # Own[p.form] => p.conf[s] = server[s]
    BY <1>8, <1>9
  <2>5. p.stored = FALSE
    OBVIOUS
  <2> HIDE DEF p
  <2> QED
    BY <1>1, <2>1, <2>2, <2>3, <2>4, <2>5, Posting
<1>11. PressedInv' /\ SelectorInv' /\ GetsFresh'
  BY <1>1, <1>10, LikeSelf, GetsKept
<1>12. SelectorIsCurrent'
  BY <1>1, <1>10, SelectorKept
<1>13. LoadedFresh'
  <2>1. fresh \subseteq Form
    BY DEF FormsInductive, FormsTypeOK
  <2> QED
    BY <1>1, <1>6, <1>8, <1>9, <2>1 DEF FormsInductive, LoadedFresh, Form
<1>14. FormsTypeOK'
  BY <1>1, <1>6, <1>10 DEF FormsInductive, FormsTypeOK
<1> QED
  BY <1>10, <1>11, <1>12, <1>13, <1>14 DEF FormsInductive, FormsExplained

LEMMA SaveProfilesKeeps ==
  ASSUME FormsInductive, saveProfiles
  PROVE  FormsInductive'
<1> DEFINE old  == _config["profiles"]
           v    == Or(inputs, old["connections"])
           conf == [old EXCEPT !["connections"] = v]
<1>1. UNCHANGED <<server, saved, screen, opens, inputs, _config, gets, _settings, fresh, behind>>
  BY DEF saveProfiles
<1>2. old \in Config /\ inputs \in Value \cup {Absent} /\ old # NoConfig
  BY DEF saveProfiles, FormsInductive, FormsTypeOK
<1>3. Post("profiles", conf, inputs, FALSE, "profiles" \in fresh)
  BY DEF saveProfiles
<1>4. v \in Value /\ (v = inputs \/ (inputs \in {Absent, Blank} /\ v = old["connections"]))
  <2>1. old["connections"] \in Value
    BY <1>2 DEF Config, Section
  <2> HIDE DEF old
  <2> QED
    BY <1>2, <2>1, OrIs
<1>5. Own["profiles"] = "connections" /\ "profiles" \in Form /\ "profiles" # "schedule" /\ "connections" \in Section
  BY DEF Own, Form, Section
<1>6. "profiles" \in fresh => \A s \in Section : old[s] = server[s]
  BY <1>2, <1>5 DEF FormsInductive, LoadedFresh
<1> HIDE DEF v
<1>7. conf \in Config /\ conf["connections"] = v /\ \A s \in Section : s # "connections" => conf[s] = old[s]
  BY <1>2, <1>4 DEF Config, Section
<1> HIDE DEF conf
<1>8. posts' \subseteq Posted /\ SavesInputs' /\ PostsFresh' /\ (Sure' => Sure)
  <2>1. \/ conf["connections"] = inputs
        \/ inputs \in {Absent, Blank} /\ ("profiles" \in fresh => conf["connections"] = server["connections"])
    BY <1>4, <1>5, <1>6, <1>7
  <2>2. "profiles" \in fresh => \A s \in Section : s # "connections" => conf[s] = server[s]
    BY <1>6, <1>7
  <2> DEFINE p == [form |-> "profiles", conf |-> conf, pressed |-> inputs, late |-> FALSE,
                   fresh |-> "profiles" \in fresh, stored |-> FALSE]
  <2>3. posts' = posts \cup {p}
    BY <1>3 DEF Post
  <2>4. p \in Posted
    BY <1>2, <1>5, <1>7 DEF Posted
  <2>5. Meant(p, server)
    BY <1>5, <2>1 DEF Meant
  <2>6. p.fresh => \A s \in Section : s # Own[p.form] => p.conf[s] = server[s]
    BY <1>5, <2>2
  <2>7. p.stored = FALSE
    OBVIOUS
  <2> HIDE DEF p
  <2> QED
    BY <1>1, <2>3, <2>4, <2>5, <2>6, <2>7, Posting
<1>9. PressedInv' /\ SelectorInv' /\ GetsFresh'
  BY <1>1, <1>8, LikeSelf, GetsKept
<1>10. SelectorIsCurrent' /\ LoadedFresh'
  BY <1>1, <1>8, SelectorKept, LoadedKept
<1>11. FormsTypeOK'
  BY <1>1, <1>8 DEF FormsInductive, FormsTypeOK
<1> QED
  BY <1>8, <1>9, <1>10, <1>11 DEF FormsInductive, FormsExplained

LEMMA SaveScheduleKeeps ==
  ASSUME FormsInductive, saveSchedule
  PROVE  FormsInductive'
<1>1. /\ UNCHANGED <<server, saved, screen, opens, inputs, _config, posts, _settings, fresh, behind>>
      /\ Ask(gets, "save") /\ inputs # Absent /\ screen = "schedule"
  BY DEF saveSchedule
<1>2. gets \subseteq Get
  BY DEF FormsInductive, FormsTypeOK
<1>3. PressedInv' /\ SelectorInv' /\ GetsFresh' /\ gets' \subseteq Get
  BY <1>1, <1>2, LikeSelf, GetAsked, SureKept
<1>4. posts' \subseteq Posted /\ SavesInputs' /\ PostsFresh'
  BY <1>1, PostsKept
<1>5. SelectorIsCurrent' /\ LoadedFresh'
  BY <1>1, SureKept, SelectorKept, LoadedKept
<1>6. FormsTypeOK'
  BY <1>1, <1>3, <1>4 DEF FormsInductive, FormsTypeOK
<1> QED
  BY <1>3, <1>4, <1>5, <1>6 DEF FormsInductive, FormsExplained

LEMMA GoesOnKeeps ==
  ASSUME FormsInductive, NEW g \in gets, saveScheduleGoesOn(g)
  PROVE  FormsInductive'
<1> DEFINE now  == IF screen = "schedule" THEN inputs ELSE Absent
           v    == Or(now, Default["backup"])
           conf == [g.conf EXCEPT !["backup"] = v]
<1>1. /\ UNCHANGED <<server, saved, screen, opens, inputs, _config, _settings, fresh, behind>>
      /\ g.why = "save" /\ g.conf # NoConfig /\ gets' = gets \ {g}
  BY DEF saveScheduleGoesOn
<1>2. Post("schedule", conf, g.pressed, ~g.same, g.fresh)
  BY DEF saveScheduleGoesOn
<1>3. /\ g.conf \in Config /\ g.fresh \in BOOLEAN /\ (g.fresh => g.conf = server)
      /\ g.pressed \in Value \cup {Absent} /\ (~g.same) \in BOOLEAN
  BY <1>1 DEF FormsInductive, FormsTypeOK, Get, GetsFresh
<1>4. now \in Value \cup {Absent}
  BY DEF FormsInductive, FormsTypeOK
<1>5. g.same => now = g.pressed
  BY <1>1 DEF FormsInductive, PressedInv
<1> HIDE DEF now
<1>6. v \in Value /\ (v = now \/ (now \in {Absent, Blank} /\ v = Default["backup"]))
  <2>1. Default["backup"] \in Value
    BY FormsAssumption DEF Section
  <2> QED
    BY <1>4, <2>1, OrIs
<1> HIDE DEF v
<1>7. conf \in Config /\ conf["backup"] = v /\ \A s \in Section : s # "backup" => conf[s] = g.conf[s]
  BY <1>3, <1>6 DEF Config, Section
<1>8. Own["schedule"] = "backup" /\ "schedule" \in Form /\ "schedule" # "profiles"
  BY DEF Own, Form
<1> HIDE DEF conf
<1>9. posts' \subseteq Posted /\ SavesInputs' /\ PostsFresh' /\ (Sure' => Sure)
  <2>1. \/ conf["backup"] = g.pressed
        \/ g.pressed \in {Absent, Blank} /\ conf["backup"] = Default["backup"]
        \/ ~g.same
    BY <1>5, <1>6, <1>7
  <2>2. g.fresh => \A s \in Section : s # "backup" => conf[s] = server[s]
    BY <1>3, <1>7
  <2> DEFINE p == [form |-> "schedule", conf |-> conf, pressed |-> g.pressed, late |-> ~g.same,
                   fresh |-> g.fresh, stored |-> FALSE]
  <2>3. posts' = posts \cup {p}
    BY <1>2 DEF Post
  <2>4. p \in Posted
    BY <1>3, <1>7, <1>8 DEF Posted
  <2>5. Meant(p, server)
    BY <1>8, <2>1 DEF Meant
  <2>6. p.fresh => \A s \in Section : s # Own[p.form] => p.conf[s] = server[s]
    BY <1>8, <2>2
  <2>7. p.stored = FALSE
    OBVIOUS
  <2> HIDE DEF p
  <2> QED
    BY <1>1, <2>3, <2>4, <2>5, <2>6, <2>7, Posting
<1>10. PressedInv' /\ SelectorInv' /\ GetsFresh'
  BY <1>1, <1>9, LikeSelf, GetsKept
<1>11. SelectorIsCurrent' /\ LoadedFresh'
  BY <1>1, <1>9, SelectorKept, LoadedKept
<1>12. FormsTypeOK'
  BY <1>1, <1>9 DEF FormsInductive, FormsTypeOK
<1> QED
  BY <1>9, <1>10, <1>11, <1>12 DEF FormsInductive, FormsExplained

LEMMA SaveFailsKeeps ==
  ASSUME FormsInductive, NEW g \in gets, saveScheduleFails(g)
  PROVE  FormsInductive'
<1>1. /\ UNCHANGED <<server, saved, screen, opens, inputs, _config, posts, _settings, fresh, behind>>
      /\ gets' = gets \ {g}
  BY DEF saveScheduleFails
<1>2. PressedInv' /\ SelectorInv' /\ GetsFresh'
  BY <1>1, LikeSelf, GetsKept, SureKept
<1>3. posts' \subseteq Posted /\ SavesInputs' /\ PostsFresh'
  BY <1>1, PostsKept
<1>4. SelectorIsCurrent' /\ LoadedFresh'
  BY <1>1, SureKept, SelectorKept, LoadedKept
<1>5. FormsTypeOK'
  BY <1>1, <1>3 DEF FormsInductive, FormsTypeOK
<1> QED
  BY <1>2, <1>3, <1>4, <1>5 DEF FormsInductive, FormsExplained

\* Unless something is outdated, what is on its way to the selector is what the
\* server has.
LEMMA NotOutdated ==
  ASSUME FormsInductive, ~Outdated, NEW g \in gets, g.why = "selector", g.conf # NoConfig
  PROVE  g.conf["connections"] = server["connections"]
  BY DEF FormsInductive, Outdated, GetsFresh

LEMMA LoadSettingsKeeps ==
  ASSUME FormsInductive, _loadSettings
  PROVE  FormsInductive'
<1>1. /\ UNCHANGED <<server, saved, screen, opens, inputs, _config, posts, _settings, fresh>>
      /\ _settings = NoConfig /\ Ask(gets, "selector") /\ behind' = Outdated
  BY DEF _loadSettings
<1> DEFINE g == NewGet("selector")
<1>2. g \in Get /\ gets' = gets \cup {g} /\ g.why = "selector" /\ g.conf = NoConfig /\ g.fresh = FALSE
  <2>1. gets' = gets \cup {g}
    BY <1>1 DEF Ask, NewGet
  <2>2. inputs \in Value \cup {Absent}
    BY DEF FormsInductive, FormsTypeOK
  <2> QED
    BY <2>1, <2>2, NewGetIs
<1> HIDE DEF g
<1>3. posts' \subseteq Posted /\ SavesInputs' /\ PostsFresh'
  BY <1>1, PostsKept
<1>4. LoadedFresh'
  BY <1>1, LoadedKept
<1>5. PressedInv' /\ GetsFresh'
  BY <1>1, <1>2 DEF FormsInductive, PressedInv, GetsFresh
<1>6. SelectorInv'
  BY <1>1, <1>2, NotOutdated DEF SelectorInv
<1>7. SelectorIsCurrent'
  BY <1>1 DEF SelectorIsCurrent
<1>8. behind' \in BOOLEAN
  BY <1>1 DEF Outdated
<1>9. FormsTypeOK'
  BY <1>1, <1>2, <1>3, <1>8 DEF FormsInductive, FormsTypeOK
<1> QED
  BY <1>3, <1>4, <1>5, <1>6, <1>7, <1>9 DEF FormsInductive, FormsExplained

LEMMA SettingsLoadedKeeps ==
  ASSUME FormsInductive, NEW g \in gets, SettingsLoaded(g)
  PROVE  FormsInductive'
<1>1. /\ UNCHANGED <<server, saved, screen, opens, inputs, _config, posts, fresh, behind>>
      /\ gets' = gets \ {g} /\ g.why = "selector"
  BY DEF SettingsLoaded
<1>2. posts' \subseteq Posted /\ SavesInputs' /\ PostsFresh'
  BY <1>1, PostsKept
<1>3. LoadedFresh'
  BY <1>1, LoadedKept
<1>4. PressedInv' /\ SelectorInv' /\ GetsFresh'
  BY <1>1, LikeSelf, GetsKept, SureKept
<1>5. SelectorIsCurrent' /\ _settings' \in Value \cup {NoConfig}
  <2>1. CASE UNCHANGED _settings
    BY <1>1, <2>1, SureKept, SelectorKept DEF FormsInductive, FormsTypeOK
  <2>2. CASE g.conf # NoConfig /\ _settings' = g.conf["connections"]
    <3>1. g.conf \in Config
      BY <2>2 DEF FormsInductive, FormsTypeOK, Get
    <3>2. g.conf["connections"] \in Value
      BY <3>1 DEF Config, Section
    <3>3. Sure' => g.conf["connections"] = server["connections"]
      BY <1>1, <2>2, SureKept DEF FormsInductive, SelectorInv, Sure
    <3> QED
      BY <1>1, <2>2, <3>2, <3>3 DEF SelectorIsCurrent, Sure
  <2> QED
    BY <2>1, <2>2 DEF SettingsLoaded
<1>6. FormsTypeOK'
  BY <1>1, <1>2, <1>5 DEF FormsInductive, FormsTypeOK
<1> QED
  BY <1>2, <1>3, <1>4, <1>5, <1>6 DEF FormsInductive, FormsExplained

\* Something was saved: nothing that is under way is fresh.
LEMMA StoreIs ==
  ASSUME FormsInductive, NEW conf \in Config, NEW others, Store(conf, others),
         UNCHANGED <<screen, inputs, _config>>,
         \A p \in posts' : p \in Posted /\ \E o \in posts : Aging(p, o)
  PROVE  /\ server' = conf /\ fresh' = {} /\ saved' \in 0 .. MaxSaves /\ LoadedFresh'
         /\ posts' \subseteq Posted /\ SavesInputs' /\ PostsFresh'
         /\ gets' \subseteq Get /\ PressedInv' /\ GetsFresh' /\ \A h \in gets' : \E o \in gets : Like(h, o)
<1>1. posts' \subseteq Posted /\ SavesInputs' /\ PostsFresh'
  BY PostsAged
<1>2. server' = conf /\ fresh' = {} /\ saved' \in 0 .. MaxSaves
  BY FormsAssumption DEF Store, FormsInductive, FormsTypeOK
<1>3. gets' \subseteq Get /\ \A h \in gets' : h.fresh = FALSE /\ \E o \in gets : Like(h, o)
  <2>1. gets' = Old /\ gets \subseteq Get
    BY DEF Store, Old, FormsInductive, FormsTypeOK
  <2> QED
    BY <2>1, Aged
<1>4. PressedInv' /\ GetsFresh'
  BY <1>3 DEF FormsInductive, PressedInv, GetsFresh, Like
<1>5. LoadedFresh'
  BY <1>2 DEF LoadedFresh
<1> QED
  BY <1>1, <1>2, <1>3, <1>4, <1>5

LEMMA StoredKeeps ==
  ASSUME FormsInductive, NEW p \in posts, Stored(p)
  PROVE  FormsInductive'
<1> DEFINE others == (posts \ {p}) \cup {[p EXCEPT !.stored = TRUE]}
<1>1. /\ UNCHANGED <<screen, opens, inputs, _config, _settings>> /\ Store(p.conf, others)
      /\ behind' = (behind \/ (p.form # "profiles" /\ p.conf["connections"] # server["connections"]))
  BY DEF Stored
<1>2. posts \subseteq Posted /\ p.conf \in Config /\ p.form \in Form
  BY DEF FormsInductive, FormsTypeOK, Posted
<1>3. posts' = {[o EXCEPT !.fresh = FALSE] : o \in others}
  BY <1>1 DEF Store
<1>4. ASSUME NEW q \in posts'
      PROVE  q \in Posted /\ \E o \in posts : Aging(q, o)
  <2>1. PICK o \in others : q = [o EXCEPT !.fresh = FALSE]
    BY <1>3
  <2>2. CASE o \in posts
    BY <1>2, <2>1, <2>2, PostAged
  <2>3. CASE o = [p EXCEPT !.stored = TRUE]
    BY <1>2, <2>1, <2>3, PostAged
  <2> QED
    BY <2>2, <2>3
<1>5. Sure' => p.form # "profiles" /\ Sure
  <2>1. CASE p.form = "profiles"
    <3>1. [[p EXCEPT !.stored = TRUE] EXCEPT !.fresh = FALSE] \in posts'
      BY <1>3
    <3>2. LET b == [[p EXCEPT !.stored = TRUE] EXCEPT !.fresh = FALSE] IN b.stored = TRUE /\ b.form = p.form
      BY <1>2 DEF Posted
    <3>3. Unanswered'
      BY <2>1, <3>1, <3>2 DEF Unanswered
    <3> QED
      BY <3>3 DEF Sure
  <2>2. CASE p.form # "profiles"
    <3>1. ASSUME NEW o \in posts, o.stored, o.form = "profiles"
          PROVE  Unanswered'
      <4>1. [o EXCEPT !.fresh = FALSE] \in posts'
        BY <1>3, <2>2, <3>1
      <4>2. LET a == [o EXCEPT !.fresh = FALSE] IN a.stored = o.stored /\ a.form = o.form
        BY <1>2 DEF Posted
      <4> QED
        BY <3>1, <4>1, <4>2 DEF Unanswered
    <3> QED
      BY <1>1, <2>2, <3>1 DEF Sure, Unanswered
  <2> QED
    BY <2>1, <2>2
<1> HIDE DEF others
<1>6. /\ server' = p.conf /\ fresh' = {} /\ saved' \in 0 .. MaxSaves /\ LoadedFresh'
      /\ posts' \subseteq Posted /\ SavesInputs' /\ PostsFresh'
      /\ gets' \subseteq Get /\ PressedInv' /\ GetsFresh' /\ \A h \in gets' : \E o \in gets : Like(h, o)
  BY <1>1, <1>2, <1>4, StoreIs
<1>7. Sure' => server'["connections"] = server["connections"]
  BY <1>1, <1>5, <1>6 DEF Sure
<1>8. SelectorInv' /\ SelectorIsCurrent'
  BY <1>1, <1>5, <1>6, <1>7 DEF FormsInductive, FormsExplained, SelectorInv, SelectorIsCurrent, Sure, Like
<1>9. behind' \in BOOLEAN
  BY <1>1
<1>10. FormsTypeOK'
  BY <1>1, <1>2, <1>6, <1>9 DEF FormsInductive, FormsTypeOK
<1> QED
  BY <1>6, <1>8, <1>10 DEF FormsInductive, FormsExplained

LEMMA SavedKeeps ==
  ASSUME FormsInductive, NEW p \in posts, Saved(p)
  PROVE  FormsInductive'
<1>1. /\ UNCHANGED <<server, saved, screen, opens, inputs, _config, fresh>>
      /\ posts' = posts \ {p} /\ Reload(p.form)
      /\ _settings' = IF p.form = "profiles" THEN NoConfig ELSE _settings
      /\ behind' = IF p.form = "profiles" THEN Outdated ELSE behind
  BY DEF Saved
<1>2. p.form \in Form /\ "save" \notin Form /\ gets \subseteq Get /\ inputs \in Value \cup {Absent}
  BY DEF FormsInductive, FormsTypeOK, Posted, Form
<1>3. /\ gets' \subseteq Get
      /\ \A h \in gets' : h \in gets \/ (h.why # "save" /\ h.conf = NoConfig /\ h.fresh = FALSE)
  <2>1. CASE UNCHANGED gets
    BY <1>2, <2>1
  <2>2. CASE Ask(gets, p.form)
    <3> DEFINE g == NewGet(p.form)
    <3>1. gets' = gets \cup {g}
      BY <2>2 DEF Ask, NewGet
    <3>2. g \in Get /\ g.why = p.form /\ g.conf = NoConfig /\ g.fresh = FALSE
      BY <1>2, NewGetIs
    <3> HIDE DEF g
    <3> QED
      BY <1>2, <3>1, <3>2
  <2> QED
    BY <1>1, <2>1, <2>2 DEF Reload
<1>4. PressedInv' /\ GetsFresh'
  BY <1>1, <1>3 DEF FormsInductive, PressedInv, GetsFresh
<1>5. posts' \subseteq Posted /\ SavesInputs' /\ PostsFresh'
  BY <1>1, PostsKept
<1>6. LoadedFresh'
  BY <1>1, LoadedKept
<1>7. SelectorInv' /\ SelectorIsCurrent'
  <2>1. CASE p.form = "profiles"
    BY <1>1, <1>3, <2>1, NotOutdated DEF SelectorInv, SelectorIsCurrent
  <2>2. CASE p.form # "profiles"
    <3>1. Sure' => Sure
      BY <1>1, <2>2 DEF Sure, Unanswered
    <3>2. SelectorInv'
      BY <1>1, <1>3, <3>1 DEF FormsInductive, SelectorInv, Sure
    <3> QED
      BY <1>1, <2>2, <3>1, <3>2, SelectorKept
  <2> QED
    BY <2>1, <2>2
<1>8. behind' \in BOOLEAN /\ _settings' \in Value \cup {NoConfig}
  <2>1. behind' \in BOOLEAN
    BY <1>1 DEF Outdated, FormsInductive, FormsTypeOK
  <2> QED
    BY <1>1, <2>1 DEF FormsInductive, FormsTypeOK
<1>9. FormsTypeOK'
  BY <1>1, <1>3, <1>5, <1>8 DEF FormsInductive, FormsTypeOK
<1> QED
  BY <1>4, <1>5, <1>6, <1>7, <1>9 DEF FormsInductive, FormsExplained

LEMMA SaveLostKeeps ==
  ASSUME FormsInductive, NEW p \in posts, SaveLost(p)
  PROVE  FormsInductive'
<1>1. /\ UNCHANGED <<server, saved, screen, opens, inputs, _config, gets, _settings, fresh>>
      /\ posts' = posts \ {p} /\ behind' = (behind \/ (p.stored /\ p.form = "profiles"))
  BY DEF SaveLost
<1>2. Sure' => Sure
  BY <1>1 DEF Sure, Unanswered
<1>3. posts' \subseteq Posted /\ SavesInputs' /\ PostsFresh'
  BY <1>1, PostsKept
<1>4. PressedInv' /\ SelectorInv' /\ GetsFresh'
  BY <1>1, <1>2, LikeSelf, GetsKept
<1>5. SelectorIsCurrent' /\ LoadedFresh'
  BY <1>1, <1>2, SelectorKept, LoadedKept
<1>6. behind' \in BOOLEAN
  BY <1>1
<1>7. FormsTypeOK'
  BY <1>1, <1>3, <1>6 DEF FormsInductive, FormsTypeOK
<1> QED
  BY <1>3, <1>4, <1>5, <1>7 DEF FormsInductive, FormsExplained

LEMMA SavedElsewhereKeeps ==
  ASSUME FormsInductive, SavedElsewhere
  PROVE  FormsInductive'
<1>1. PICK s \in Section, v \in Value : Store([server EXCEPT ![s] = v], posts)
  BY DEF SavedElsewhere
<1>2. UNCHANGED <<screen, opens, inputs, _config, _settings>> /\ behind' = TRUE
  BY DEF SavedElsewhere
<1> DEFINE conf == [server EXCEPT ![s] = v]
<1>3. conf \in Config /\ posts \subseteq Posted
  BY DEF FormsInductive, FormsTypeOK, Config
<1> HIDE DEF conf
<1>4. Store(conf, posts)
  BY <1>1 DEF conf
<1>5. ASSUME NEW q \in posts'
      PROVE  q \in Posted /\ \E o \in posts : Aging(q, o)
  <2>1. PICK o \in posts : q = [o EXCEPT !.fresh = FALSE]
    BY <1>4 DEF Store
  <2> QED
    BY <1>3, <2>1, PostAged
<1>6. /\ server' = conf /\ fresh' = {} /\ saved' \in 0 .. MaxSaves /\ LoadedFresh'
      /\ posts' \subseteq Posted /\ SavesInputs' /\ PostsFresh'
      /\ gets' \subseteq Get /\ PressedInv' /\ GetsFresh'
  BY <1>2, <1>3, <1>4, <1>5, StoreIs
<1>7. SelectorInv' /\ SelectorIsCurrent'
  BY <1>2 DEF SelectorInv, SelectorIsCurrent
<1>8. behind' \in BOOLEAN
  BY <1>2
<1>9. FormsTypeOK'
  BY <1>2, <1>3, <1>6, <1>8 DEF FormsInductive, FormsTypeOK
<1> QED
  BY <1>6, <1>7, <1>9 DEF FormsInductive, FormsExplained

LEMMA FormsStarts == FormsInit => FormsInductive
<1> SUFFICES ASSUME FormsInit
             PROVE  FormsInductive
  OBVIOUS
<1>1. FormsTypeOK
  <2>1. server \in Config
    BY DEF FormsInit, Config
  <2>2. 0 \in 0 .. MaxSaves /\ 0 \in 0 .. MaxOpens
    BY FormsAssumption
  <2>3. _config \in [{"alerts", "profiles"} -> Config \cup {NoConfig}]
    BY DEF FormsInit
  <2> QED
    BY <2>1, <2>2, <2>3 DEF FormsInit, FormsTypeOK
<1>2. FormsExplained
  BY DEF FormsInit, FormsExplained, SavesInputs, SelectorIsCurrent
<1>3. PressedInv /\ SelectorInv /\ GetsFresh /\ LoadedFresh /\ PostsFresh
  BY DEF FormsInit, PressedInv, SelectorInv, GetsFresh, LoadedFresh, PostsFresh
<1> QED
  BY <1>1, <1>2, <1>3 DEF FormsInductive

LEMMA FormsSteps == FormsInductive /\ [FormsNext]_formsVars => FormsInductive'
<1> SUFFICES ASSUME FormsInductive, [FormsNext]_formsVars
             PROVE  FormsInductive'
  OBVIOUS
<1>1. CASE UNCHANGED formsVars
  <2>1. UNCHANGED <<server, saved, screen, opens, inputs, _config, gets, posts, _settings, fresh, behind>>
    BY <1>1 DEF formsVars
  <2>2. PressedInv' /\ SelectorInv' /\ GetsFresh'
    BY <2>1, LikeSelf, GetsKept, SureKept
  <2>3. posts' \subseteq Posted /\ SavesInputs' /\ PostsFresh'
    BY <2>1, PostsKept
  <2>4. SelectorIsCurrent' /\ LoadedFresh'
    BY <2>1, SureKept, SelectorKept, LoadedKept
  <2>5. FormsTypeOK'
    BY <2>1 DEF FormsInductive, FormsTypeOK
  <2> QED
    BY <2>2, <2>3, <2>4, <2>5 DEF FormsInductive, FormsExplained
<1>2. ASSUME NEW g \in gets,
             \/ Served(g) \/ load(g) \/ loadFailed(g)
             \/ saveScheduleGoesOn(g) \/ saveScheduleFails(g) \/ SettingsLoaded(g)
      PROVE  FormsInductive'
  BY <1>2, ServedKeeps, LoadKeeps, LoadFailedKeeps, GoesOnKeeps, SaveFailsKeeps, SettingsLoadedKeeps
<1>3. ASSUME NEW p \in posts, Stored(p) \/ Saved(p) \/ SaveLost(p)
      PROVE  FormsInductive'
  BY <1>3, StoredKeeps, SavedKeeps, SaveLostKeeps
<1> QED
  BY <1>1, <1>2, <1>3, OpenFormKeeps, LeaveFormKeeps, TypeKeeps, SaveAlertsKeeps, SaveProfilesKeeps,
     SaveScheduleKeeps, SavedElsewhereKeeps, LoadSettingsKeeps DEF FormsNext

\* The settings forms (alerts.js, profiles.js, backup.js and ProfileSelector of
\* app.js): a form saves what its inputs held when its button was pressed, or
\* where they were empty a default or the profiles it had loaded, and only the
\* schedule may save what they held later; and the selector offers the profiles
\* that are stored, but for those whose form was not answered yet, that others
\* saved, or that were handed out before.
THEOREM FormsTrue == FormsSpec => [](FormsTypeOK /\ FormsExplained)
<1>1. FormsInductive => FormsTypeOK /\ FormsExplained
  BY DEF FormsInductive
<1> QED
  BY <1>1, FormsStarts, FormsSteps, PTL DEF FormsSpec

\* A request to save carries the whole configuration (PUT /api/settings of
\* alerts.js, profiles.js and backup.js), and still changes one section, unless
\* something else was saved after it was loaded.
THEOREM SectionsKept == FormsSpec => SavesOwnSection
<1> DEFINE Kept ==
      \A p \in posts :
        saved' > saved /\ p.fresh /\ [p EXCEPT !.fresh = FALSE] \notin posts' =>
          \A s \in Section \ {Own[p.form]} : server'[s] = server[s]
<1>1. FormsInductive /\ [FormsNext]_formsVars => [Kept]_formsVars
  <2> SUFFICES ASSUME FormsInductive, FormsNext, NEW p \in posts, saved' > saved, p.fresh,
                      [p EXCEPT !.fresh = FALSE] \notin posts'
               PROVE  \A s \in Section \ {Own[p.form]} : server'[s] = server[s]
    OBVIOUS
  <2>1. ASSUME NEW q \in posts, Stored(q)
        PROVE  \A s \in Section \ {Own[p.form]} : server'[s] = server[s]
    <3>1. /\ server' = q.conf
          /\ posts' = {[o EXCEPT !.fresh = FALSE] : o \in (posts \ {q}) \cup {[q EXCEPT !.stored = TRUE]}}
      BY <2>1 DEF Stored, Store
    <3>2. p = q
      BY <3>1
    <3> QED
      BY <3>1, <3>2 DEF FormsInductive, PostsFresh
  <2>2. ~SavedElsewhere
    BY DEF SavedElsewhere, Store
  <2>3. saved' # saved
    BY DEF FormsInductive, FormsTypeOK
  <2> QED
    BY <2>1, <2>2, <2>3 DEF FormsNext, OpenForm, LeaveForm, Type, saveAlerts, saveProfiles, saveSchedule,
       Served, load, loadFailed, saveScheduleGoesOn, saveScheduleFails, SettingsLoaded, Saved, SaveLost,
       _loadSettings
<1> QED
  BY <1>1, FormsStarts, FormsSteps, PTL DEF FormsSpec, SavesOwnSection

-----------------------------------------------------------------------------
(* The trackers of the pages: what is followed is not shown as running for *)
(* ever.                                                                   *)

LEMMA TrackersAre ==
  ASSUME TrackersInductive
  PROVE  /\ of \in Of /\ here \in BOOLEAN /\ visit \in 0 .. MaxVisits /\ later \subseteq 1 .. MaxVisits
         /\ status \in [Job -> {"none", "running", "over"}] /\ slot \in [Job -> Slot]
         /\ starts \subseteq Job /\ ids \in [Slot -> Job \cup {NoJob}] /\ poller \in BOOLEAN
         /\ polls \subseteq Poll /\ IsFiniteSet(polls) /\ Cardinality(polls) <= MaxPolls
         /\ DOMAIN shown \subseteq Job /\ misled \in BOOLEAN
         /\ SlotInv /\ PollInv /\ ShownInv /\ OverInv /\ NoJob \notin Job
         /\ Followed \subseteq Job /\ visit <= visit /\ ~(visit < visit)
<1>1. visit <= visit /\ ~(visit < visit)
  BY TrackersAssumption DEF TrackersInductive, TrackersTypeOK
<1> QED
  BY <1>1, TrackersAssumption DEF TrackersInductive, TrackersTypeOK, Followed

LEMMA ImageAndOne ==
  ASSUME NEW S, NEW T, NEW r, NEW n \in Nat, NEW f \in Surjection(S, T),
         IsFiniteSet(S), Cardinality(S) < n
  PROVE  IsFiniteSet(T \cup {r}) /\ Cardinality(T \cup {r}) <= n
<1>1. IsFiniteSet(T) /\ Cardinality(T) <= Cardinality(S)
  BY FS_Surjection
<1>2. /\ IsFiniteSet(T \cup {r})
      /\ Cardinality(T \cup {r}) = IF r \in T THEN Cardinality(T) ELSE Cardinality(T) + 1
  BY <1>1, FS_AddElement
<1>3. Cardinality(T) \in Nat /\ Cardinality(S) \in Nat
  BY <1>1, FS_CardinalityType
<1> QED
  BY <1>1, <1>2, <1>3

LEMMA LessOne ==
  ASSUME NEW S, NEW x \in S, NEW n \in Nat, IsFiniteSet(S), Cardinality(S) <= n
  PROVE  Cardinality(S \ {x}) < n
<1>1. Cardinality(S \ {x}) = Cardinality(S) - 1 /\ IsFiniteSet(S \ {x})
  BY FS_RemoveElement
<1>2. Cardinality(S) \in Nat
  BY FS_CardinalityType
<1> QED
  BY <1>1, <1>2

\* A request has been made, and of the others some are left.
Asked(others, jobs, kind) ==
  /\ polls' \subseteq Poll /\ IsFiniteSet(polls') /\ Cardinality(polls') <= MaxPolls
  /\ PollInv'
  /\ \A p \in others : \E q \in polls' : q.step = p.step /\ q.el = p.el /\ q.jobs = p.jobs
  /\ \E r \in polls' : /\ r.jobs = jobs /\ r.el = visit /\ r.new /\ r.step = kind
                       /\ \A j \in jobs : r.seen[j] = status[j]
                       /\ \A p \in polls' : p.new => p = r

\* A request that is made is about what runs or is over, and the newest.
LEMMA Requesting ==
  ASSUME TrackersInductive, NEW others \in SUBSET polls, NEW kind \in {"show", "show, then ask", "ask"},
         NEW jobs \in SUBSET Job, \A j \in jobs : status[j] # "none",
         Cardinality(others) < MaxPolls,
         polls' = Newest(others, Request(jobs, kind)), visit' = visit, status' = status
  PROVE  Asked(others, jobs, kind)
<1> DEFINE r   == Request(jobs, kind)
           Elder == {[o EXCEPT !.new = FALSE] : o \in others}
<1>1. /\ r.jobs = jobs /\ r.el = visit /\ r.new = TRUE /\ r.step = kind
      /\ r.seen = [j \in jobs |-> status[j]]
  BY DEF Request, ReadAll
<1>2. r \in Poll
  <2>1. [j \in jobs |-> status[j]] \in [jobs -> {"running", "over"}]
    BY TrackersAre
  <2>2. [j \in jobs |-> status[j]] \in UNION {[js -> {"running", "over"}] : js \in SUBSET Job}
    BY <2>1
  <2>3. visit \in 0 .. MaxVisits
    BY TrackersAre
  <2> QED
    BY <2>2, <2>3 DEF Request, ReadAll, Poll
<1>3. ASSUME NEW o \in others
      PROVE  /\ [o EXCEPT !.new = FALSE] \in Poll
             /\ [o EXCEPT !.new = FALSE].jobs = o.jobs /\ [o EXCEPT !.new = FALSE].el = o.el
             /\ [o EXCEPT !.new = FALSE].step = o.step /\ [o EXCEPT !.new = FALSE].seen = o.seen
             /\ [o EXCEPT !.new = FALSE].new = FALSE
  <2>1. o \in Poll
    BY TrackersAre
  <2> QED
    BY <2>1 DEF Poll
<1>4. polls' = Elder \cup {r}
  BY DEF Newest
<1> HIDE DEF r, Elder
<1>0. \A p \in Elder : \E o \in others : p = [o EXCEPT !.new = FALSE]
  BY DEF Elder
<1>5. polls' \subseteq Poll
  BY <1>0, <1>2, <1>3, <1>4
<1>6. IsFiniteSet(polls') /\ Cardinality(polls') <= MaxPolls
  <2> DEFINE f == [o \in others |-> [o EXCEPT !.new = FALSE]]
  <2>1. f \in Surjection(others, Elder)
    BY DEF Surjection, Elder
  <2>2. IsFiniteSet(others) /\ MaxPolls \in Nat
    BY TrackersAre, FS_Subset, TrackersAssumption
  <2> QED
    BY <1>4, <2>1, <2>2, ImageAndOne
<1>7. \A p \in polls' : p.new => p = r
  BY <1>0, <1>3, <1>4
<1>8. \A p \in polls' : p.el <= visit
  <2>1. visit <= visit
    BY TrackersAre
  <2>2. \A o \in others : o.el <= visit
    BY TrackersAre DEF PollInv
  <2>3. ASSUME NEW p \in Elder
        PROVE  p.el <= visit
    <3>1. PICK o \in others : p = [o EXCEPT !.new = FALSE]
      BY <1>0
    <3>2. p.el = o.el
      BY <1>3, <3>1
    <3> QED
      BY <2>2, <3>2
  <2> QED
    BY <1>1, <1>4, <2>1, <2>3
<1>9. PollInv'
  <2>1. ASSUME NEW p \in polls'
        PROVE  /\ DOMAIN p.seen = p.jobs
               /\ \A j \in p.jobs : p.seen[j] = "over" => status[j] = "over"
    <3>1. CASE p = r
      BY <1>1, <3>1
    <3>2. CASE p \in Elder
      <4>1. PICK o \in others : p = [o EXCEPT !.new = FALSE]
        BY <1>0, <3>2
      <4>2. p.seen = o.seen /\ p.jobs = o.jobs
        BY <1>3, <4>1
      <4> QED
        BY <4>2, TrackersAre DEF PollInv
    <3> QED
      BY <1>4, <3>1, <3>2
  <2>2. ASSUME NEW p \in polls', p.new
        PROVE  \A o \in polls' : o.el <= p.el /\ (o.new => o = p)
    <3>1. p = r
      BY <1>7, <2>2
    <3> QED
      BY <1>1, <1>7, <1>8, <3>1
  <2> QED
    BY <1>8, <2>1, <2>2 DEF PollInv
<1>10. \A p \in others : \E q \in polls' : q.step = p.step /\ q.el = p.el /\ q.jobs = p.jobs
  BY <1>3, <1>4 DEF Elder
<1>11. \A j \in jobs : r.seen[j] = status[j]
  BY <1>1
<1> QED
  BY <1>1, <1>4, <1>5, <1>6, <1>7, <1>9, <1>10, <1>11 DEF Asked

\* What is taken away leaves the newest the newest.
LEMMA Fewer ==
  ASSUME TrackersInductive, polls' \in SUBSET polls, UNCHANGED <<visit, status>>
  PROVE  /\ polls' \subseteq Poll /\ IsFiniteSet(polls') /\ Cardinality(polls') <= MaxPolls
         /\ PollInv'
<1>1. IsFiniteSet(polls') /\ Cardinality(polls') <= Cardinality(polls)
  BY TrackersAre, FS_Subset
<1>2. Cardinality(polls) \in Nat /\ Cardinality(polls') \in Nat /\ MaxPolls \in Nat
  BY <1>1, TrackersAre, FS_CardinalityType, TrackersAssumption
<1>3. Cardinality(polls') <= MaxPolls
  BY <1>1, <1>2, TrackersAre
<1>4. PollInv'
  BY TrackersAre DEF PollInv
<1> QED
  BY <1>1, <1>3, <1>4, TrackersAre

LEMMA FollowedAre ==
  ASSUME NEW s \in Slot, ids[s] # NoJob
  PROVE  ids[s] \in Followed
  BY DEF Followed

LEMMA JobEndsKeeps ==
  ASSUME TrackersInductive, JobEnds
  PROVE  TrackersInductive'
<1>1. PICK j \in Job : status[j] = "running" /\ status' = [status EXCEPT ![j] = "over"]
  BY DEF JobEnds
<1>2. UNCHANGED <<of, here, visit, later, slot, starts, ids, poller, polls, shown, misled>>
  BY DEF JobEnds, pageVars
<1>3. status' \in [Job -> {"none", "running", "over"}]
  BY <1>1, TrackersAre
<1>4. \A k \in Job : /\ status[k] # "none" => status'[k] # "none"
                     /\ status[k] = "over" => status'[k] = "over"
  BY <1>1, TrackersAre
<1>5. TrackersTypeOK'
  BY <1>2, <1>3 DEF TrackersInductive, TrackersTypeOK
<1>6. SlotInv'
  BY <1>2, <1>4, TrackersAre DEF SlotInv, Followed
<1>7. PollInv'
  <2>1. \A p \in polls : p.jobs \subseteq Job
    BY TrackersAre DEF Poll
  <2> QED
    BY <1>2, <1>4, <2>1, TrackersAre DEF PollInv
<1>8. ShownInv'
  BY <1>2, TrackersAre DEF ShownInv, Followed
<1>9. OverInv'
  <2>1. Followed' = Followed
    BY <1>2 DEF Followed
  <2> QED
    BY <1>2, <1>4, <2>1, TrackersAre DEF OverInv
<1> QED
  BY <1>5, <1>6, <1>7, <1>8, <1>9 DEF TrackersInductive

LEMMA StartKeeps ==
  ASSUME TrackersInductive, NEW s \in Slot, Start(s), of # "database" => s = "one"
  PROVE  TrackersInductive'
<1>1. PICK j \in Job :
        /\ status[j] = "none"
        /\ status' = [status EXCEPT ![j] = "running"] /\ slot' = [slot EXCEPT ![j] = s]
        /\ starts' = starts \cup {j}
  BY DEF Start
<1>2. UNCHANGED <<of, here, visit, later, ids, poller, polls, shown, misled>>
  BY DEF Start, pageVars
<1>3. status' \in [Job -> {"none", "running", "over"}] /\ slot' \in [Job -> Slot]
  BY <1>1, TrackersAre
<1>4. /\ \A k \in Job : status[k] # "none" => status'[k] = status[k]
      /\ status'[j] = "running" /\ slot'[j] = s /\ \A k \in Job \ {j} : slot'[k] = slot[k]
  BY <1>1, TrackersAre
<1>5. TrackersTypeOK'
  <2>1. starts' \subseteq Job
    BY <1>1, TrackersAre
  <2> QED
    BY <1>2, <1>3, <2>1 DEF TrackersInductive, TrackersTypeOK
<1>6. SlotInv'
  <2>1. \A k \in starts' \cup Followed : status'[k] # "none"
    BY <1>1, <1>4, TrackersAre DEF SlotInv
  <2>2. Followed' = Followed
    BY <1>2 DEF Followed
  <2>3. of # "database" => \A k \in Job : slot'[k] = "one"
    BY <1>4, TrackersAre DEF SlotInv
  <2> QED
    BY <1>2, <2>1, <2>2, <2>3, TrackersAre DEF SlotInv
<1>7. PollInv'
  <2>1. \A p \in polls : p.jobs \subseteq Job
    BY TrackersAre DEF Poll
  <2>2. \A k \in Job : status[k] = "over" => status'[k] = "over"
    BY <1>4
  <2> QED
    BY <1>2, <2>1, <2>2, TrackersAre DEF PollInv
<1>8. ShownInv'
  BY <1>2, TrackersAre DEF ShownInv, Followed
<1>9. OverInv'
  <2>1. Followed' = Followed
    BY <1>2 DEF Followed
  <2>2. \A k \in Job : status[k] = "over" => status'[k] = "over"
    BY <1>4
  <2> QED
    BY <1>2, <2>1, <2>2, TrackersAre DEF OverInv
<1> QED
  BY <1>5, <1>6, <1>7, <1>8, <1>9 DEF TrackersInductive

\* A request about all that is followed, made by an interval, an answer or a
\* rendering that has loaded.
LEMMA AskingKeeps ==
  ASSUME TrackersInductive, NEW kind \in {"show", "show, then ask", "ask"},
         NEW others \in SUBSET polls, Asked(others, Followed, kind),
         UNCHANGED <<of, here, visit, status, slot, starts, ids, poller>>,
         later' \subseteq later,
         misled' \in BOOLEAN, misled => misled' \/ poller,
         DOMAIN shown' \subseteq Job, \A j \in DOMAIN shown' : shown'[j] \in Seen,
         ~misled' /\ here /\ visit \notin later' =>
           \A j \in Followed : j \in DOMAIN shown' \/ (kind # "ask") \/
             \E p \in others : p.step # "ask" /\ p.el = visit /\ j \in p.jobs,
         ~misled' /\ ~poller /\ here => \A j \in Followed \cap DOMAIN shown' : shown'[j] # "running"
  PROVE  TrackersInductive'
<1>2. /\ polls' \subseteq Poll /\ IsFiniteSet(polls') /\ Cardinality(polls') <= MaxPolls
      /\ PollInv'
      /\ \A p \in others : \E q \in polls' : q.step = p.step /\ q.el = p.el /\ q.jobs = p.jobs
  BY DEF Asked
<1>8. PICK r \in polls' :
        /\ r.jobs = Followed /\ r.el = visit /\ r.new /\ r.step = kind
        /\ \A j \in Followed : r.seen[j] = status[j]
        /\ \A p \in polls' : p.new => p = r
  BY DEF Asked
<1>3. Followed' = Followed
  BY DEF Followed
<1>4. TrackersTypeOK'
  BY <1>2, TrackersAre DEF TrackersTypeOK
<1>5. SlotInv'
  BY <1>3, TrackersAre DEF SlotInv
<1>6. ShownInv'
  <2>1. ASSUME NEW p \in polls', p.new, p.el < visit
        PROVE  FALSE
    <3>1. p.el = visit
      BY <1>8, <2>1
    <3>2. ~(visit < visit)
      BY TrackersAre
    <3> QED
      BY <2>1, <3>1, <3>2
  <2>2. ASSUME ~misled', here, visit \notin later', NEW j \in Followed
        PROVE  j \in DOMAIN shown' \/
                 \E p \in polls' : p.step # "ask" /\ p.el = visit /\ j \in p.jobs
    <3>1. CASE j \in DOMAIN shown'
      BY <3>1
    <3>2. CASE kind # "ask"
      <4>1. r \in polls' /\ r.step # "ask" /\ r.el = visit /\ j \in r.jobs
        BY <1>8, <2>2, <3>2
      <4> QED
        BY <4>1
    <3>3. CASE \E p \in others : p.step # "ask" /\ p.el = visit /\ j \in p.jobs
      <4>1. PICK p \in others : p.step # "ask" /\ p.el = visit /\ j \in p.jobs
        BY <3>3
      <4>2. PICK q \in polls' : q.step = p.step /\ q.el = p.el /\ q.jobs = p.jobs
        BY <1>2
      <4> QED
        BY <4>1, <4>2
    <3> QED
      BY <2>2, <3>1, <3>2, <3>3
  <2> QED
    BY <1>3, <2>1, <2>2 DEF ShownInv
<1>7. OverInv'
  <2> SUFFICES ASSUME ~misled', ~poller
      PROVE  /\ \A j \in Followed : status[j] = "over"
             /\ \A p \in polls' : p.step # "ask" /\ p.new => \A j \in p.jobs : p.seen[j] = "over"
             /\ here => \A j \in Followed \cap DOMAIN shown' : shown'[j] # "running"
    BY <1>3 DEF OverInv
  <2>1. \A j \in Followed : status[j] = "over"
    BY TrackersAre DEF OverInv
  <2>2. ASSUME NEW p \in polls', p.new
        PROVE  \A j \in p.jobs : p.seen[j] = "over"
    BY <1>8, <2>1, <2>2
  <2> QED
    BY <2>1, <2>2
<1> QED
  BY <1>2, <1>4, <1>5, <1>6, <1>7 DEF TrackersInductive

LEMMA AskedByAll ==
  ASSUME TrackersInductive, NEW others \in SUBSET polls, NEW kind \in {"show", "show, then ask", "ask"},
         Cardinality(others) < MaxPolls, polls' = Newest(others, Request(Followed, kind)),
         visit' = visit, status' = status
  PROVE  Asked(others, Followed, kind)
<1>1. Followed \in SUBSET Job /\ \A j \in Followed : status[j] # "none"
  BY TrackersAre DEF SlotInv
<1> QED
  BY <1>1, Requesting

\* What is seen by an answer: as the server had it at some time, or an error.
LEMMA AnsweredAre ==
  ASSUME TrackersInductive, NEW p \in polls, NEW q \in Answered(p)
  PROVE  /\ q.jobs = p.jobs /\ q.el = p.el /\ q.step = p.step
         /\ q.seen \in [p.jobs -> Seen] /\ p.jobs \subseteq Job
         /\ \A j \in p.jobs : q.seen[j] = "over" => status[j] = "over"
         /\ \A j \in p.jobs : p.seen[j] = "over" => q.seen[j] # "running"
         /\ p.el <= visit /\ p.el \in Nat /\ (p.el # visit => p.el < visit)
         /\ p.step \in {"show", "show, then ask", "ask"}
<1>1. p \in Poll
  BY TrackersAre
<1>2. PICK seen \in [p.jobs -> Seen] :
        /\ q = [p EXCEPT !.seen = seen]
        /\ \A j \in p.jobs : seen[j] \in {p.seen[j], status[j], "error"}
  BY DEF Answered
<1>3. /\ q.jobs = p.jobs /\ q.el = p.el /\ q.step = p.step /\ q.seen = seen /\ p.jobs \subseteq Job
      /\ p.step \in {"show", "show, then ask", "ask"}
  BY <1>1, <1>2 DEF Poll
<1>4. \A j \in p.jobs : p.seen[j] = "over" => status[j] = "over"
  BY TrackersAre DEF PollInv
<1>5. p.el <= visit /\ p.el \in Nat /\ (p.el # visit => p.el < visit)
  <2>1. p.el \in 0 .. MaxVisits /\ visit \in 0 .. MaxVisits /\ p.el <= visit
    BY <1>1, TrackersAre DEF Poll, PollInv
  <2> QED
    BY <2>1, TrackersAssumption
<1> QED
  BY <1>2, <1>3, <1>4, <1>5

\* An answer that does not mislead shows all that is followed, and nothing as
\* running when there is no interval.
LEMMA ShowIs ==
  ASSUME TrackersInductive, NEW p \in polls, NEW q \in Answered(p), q.step # "ask", Show(q),
         misled' = (misled \/ Misleads(p))
  PROVE  /\ DOMAIN shown' \subseteq Job /\ \A j \in DOMAIN shown' : shown'[j] \in Seen
         /\ ~misled' /\ here /\ visit \notin later =>
              \A j \in Followed : j \in DOMAIN shown' \/
                \E o \in polls \ {p} : o.step # "ask" /\ o.el = visit /\ j \in o.jobs
         /\ ~misled' /\ ~poller /\ here => \A j \in Followed \cap DOMAIN shown' : shown'[j] # "running"
         /\ \A o \in polls \ {p} : o.new /\ o.el < visit => shown' = Unread
<1>1. shown' = IF here /\ p.el = visit THEN q.seen ELSE shown
  BY AnsweredAre DEF Show, Visible
<1>2. CASE here /\ p.el = visit
  <2>1. shown' = q.seen /\ DOMAIN shown' = p.jobs /\ \A j \in DOMAIN shown' : shown'[j] \in Seen
    BY <1>1, <1>2, AnsweredAre
  <2>2. ~misled' => p.new /\ p.jobs = Followed
    BY <1>2 DEF Misleads, Stale, Visible
  <2>3. ASSUME ~misled', ~poller, NEW j \in Followed
        PROVE  shown'[j] # "running"
    <3>1. ~misled /\ p.step # "ask" /\ p.new /\ j \in p.jobs
      BY <2>2, <2>3, AnsweredAre
    <3>2. p.seen[j] = "over"
      BY <2>3, <3>1, TrackersAre DEF OverInv
    <3> QED
      BY <2>1, <3>1, <3>2, AnsweredAre
  <2>4. ASSUME NEW o \in polls \ {p}, o.new, o.el < visit
        PROVE  FALSE
    <3>1. p.el <= o.el /\ o \in Poll
      BY <2>4, TrackersAre DEF PollInv
    <3>2. visit \in 0 .. MaxVisits /\ o.el \in 0 .. MaxVisits
      BY <3>1, TrackersAre DEF Poll
    <3>3. visit \in Nat /\ o.el \in Nat
      BY <3>2, TrackersAssumption
    <3> QED
      BY <1>2, <2>4, <3>1, <3>3
  <2> QED
    BY <2>1, <2>2, <2>3, <2>4, AnsweredAre
<1>3. CASE ~(here /\ p.el = visit)
  <2>1. shown' = shown
    BY <1>1, <1>3
  <2>2. ASSUME ~misled', here, visit \notin later, NEW j \in Followed, j \notin DOMAIN shown
        PROVE  \E o \in polls \ {p} : o.step # "ask" /\ o.el = visit /\ j \in o.jobs
    BY <1>3, <2>2, TrackersAre DEF ShownInv
  <2>3. ~misled' /\ ~poller /\ here => \A j \in Followed \cap DOMAIN shown : shown[j] # "running"
    BY TrackersAre DEF OverInv
  <2>4. \A o \in polls \ {p} : o.new /\ o.el < visit => shown = Unread
    BY TrackersAre DEF ShownInv
  <2>5. DOMAIN shown \subseteq Job /\ \A j \in DOMAIN shown : shown[j] \in Seen
    BY DEF TrackersInductive, TrackersTypeOK
  <2> QED
    BY <2>1, <2>2, <2>3, <2>4, <2>5
<1> QED
  BY <1>2, <1>3

\* The page of the backups and that of the vacuum follow one job: the newest
\* answer about it stops the interval when it is over.
LEMMA StopKeeps ==
  ASSUME TrackersInductive, NEW p \in polls, NEW q \in Answered(p), q.step # "ask", Show(q),
         of # "database", UNCHANGED <<pageVars, later, jobVars, starts, ids>>,
         poller' = (poller /\ \A j \in p.jobs : q.seen[j] \in {"running", "error"}),
         misled' = (misled \/ Misleads(p)), polls' = polls \ {p}
  PROVE  TrackersInductive'
<1>1. UNCHANGED <<of, here, visit, later, status, slot, starts, ids>> /\ Followed' = Followed
  BY DEF pageVars, jobVars, Followed
<1>2. polls' \subseteq Poll /\ IsFiniteSet(polls') /\ Cardinality(polls') <= MaxPolls /\ PollInv'
  BY <1>1, Fewer
<1>3. poller' \in BOOLEAN /\ misled' \in BOOLEAN
  BY TrackersAre DEF Misleads, Stale, Visible
<1>4. TrackersTypeOK'
  BY <1>1, <1>2, <1>3, ShowIs, TrackersAre DEF TrackersTypeOK
<1>5. SlotInv'
  BY <1>1, TrackersAre DEF SlotInv
<1>6. ShownInv'
  <2>1. \A o \in polls' : o.new /\ o.el < visit' => shown' = Unread
    BY <1>1, ShowIs
  <2>2. ~misled' /\ here' /\ visit' \notin later' =>
          \A j \in Followed' : j \in DOMAIN shown' \/
            \E o \in polls' : o.step # "ask" /\ o.el = visit' /\ j \in o.jobs
    BY <1>1, ShowIs
  <2> QED
    BY <2>1, <2>2 DEF ShownInv
<1>7. OverInv'
  <2> SUFFICES ASSUME ~misled', ~poller'
      PROVE  /\ \A j \in Followed : status[j] = "over"
             /\ \A o \in polls' : o.step # "ask" /\ o.new => \A j \in o.jobs : o.seen[j] = "over"
             /\ here => \A j \in Followed \cap DOMAIN shown' : shown'[j] # "running"
    BY <1>1 DEF OverInv
  <2>1. ~misled
    OBVIOUS
  <2>2. CASE ~poller
    BY <2>1, <2>2, ShowIs, TrackersAre DEF OverInv
  <2>3. CASE poller
    <3>0. p.new /\ p.jobs = Followed
      BY <2>3 DEF Misleads, Stale
    <3>1. PICK j \in p.jobs : q.seen[j] \notin {"running", "error"}
      BY <2>3
    <3>2. q.seen[j] = "over" /\ status[j] = "over"
      <4>1. q.seen \in [p.jobs -> Seen]
        BY AnsweredAre
      <4>2. q.seen[j] = "over"
        BY <3>1, <4>1 DEF Seen
      <4> QED
        BY <4>2, AnsweredAre
    <3>3. \A i \in Followed : i = ids["one"]
      BY TrackersAre DEF SlotInv, Followed
    <3>4. \A i \in Followed : i = j
      BY <3>0, <3>3
    <3>5. \A o \in polls' : ~o.new
      BY <3>0, TrackersAre DEF PollInv
    <3>6. ASSUME here, NEW i \in Followed \cap DOMAIN shown'
          PROVE  shown'[i] # "running"
      <4>1. CASE p.el = visit
        BY <3>2, <3>4, <3>6, <4>1, AnsweredAre DEF Show, Visible
      <4>2. CASE p.el # visit
        <5>1. p.el < visit /\ shown' = shown
          BY <4>2, AnsweredAre DEF Show, Visible
        <5>2. shown = Unread
          BY <3>0, <5>1, TrackersAre DEF ShownInv
        <5> QED
          BY <3>6, <5>1, <5>2 DEF Unread
      <4> QED
        BY <4>1, <4>2
    <3> QED
      BY <3>2, <3>4, <3>5, <3>6
  <2> QED
    BY <2>2, <2>3, TrackersAre
<1> QED
  BY <1>4, <1>2, <1>5, <1>6, <1>7 DEF TrackersInductive

\* On the export and import page the answer asks again, for what is followed by
\* then, or there was no interval.
LEMMA AsksAgainKeeps ==
  ASSUME TrackersInductive, NEW p \in polls, NEW q \in Answered(p), q.step # "ask", Show(q),
         UNCHANGED <<pageVars, later, jobVars, starts, ids>>, DatabaseAnswered(p, q)
  PROVE  TrackersInductive'
<1>1. /\ UNCHANGED <<of, here, visit, later, status, slot, starts, ids, poller>> /\ Followed' = Followed
      /\ misled' = (misled \/ Misleads(p))
  BY DEF pageVars, jobVars, Followed, DatabaseAnswered
<1>2. misled' \in BOOLEAN /\ (misled => misled')
  BY <1>1, TrackersAre DEF Misleads, Stale, Visible
<1>3. CASE p.step = "show"
  <2>1. polls' = polls \ {p}
    BY <1>3 DEF DatabaseAnswered
  <2>2. polls' \subseteq Poll /\ IsFiniteSet(polls') /\ Cardinality(polls') <= MaxPolls /\ PollInv'
    BY <1>1, <2>1, Fewer
  <2>3. TrackersTypeOK'
    BY <1>1, <1>2, <2>2, ShowIs, TrackersAre DEF TrackersTypeOK
  <2>4. SlotInv'
    BY <1>1, TrackersAre DEF SlotInv
  <2>5. ShownInv'
    <3>1. \A o \in polls' : o.new /\ o.el < visit' => shown' = Unread
      BY <1>1, <2>1, ShowIs
    <3>2. ~misled' /\ here' /\ visit' \notin later' =>
            \A j \in Followed' : j \in DOMAIN shown' \/
              \E o \in polls' : o.step # "ask" /\ o.el = visit' /\ j \in o.jobs
      BY <1>1, <2>1, ShowIs
    <3> QED
      BY <3>1, <3>2 DEF ShownInv
  <2>6. OverInv'
    <3>1. ~misled' /\ ~poller /\ here => \A j \in Followed \cap DOMAIN shown' : shown'[j] # "running"
      BY <1>1, ShowIs
    <3> QED
      BY <1>1, <1>2, <2>1, <3>1, TrackersAre DEF OverInv
  <2> QED
    BY <2>2, <2>3, <2>4, <2>5, <2>6 DEF TrackersInductive
<1>4. CASE p.step # "show"
  <2>1. polls' = Newest(polls \ {p}, Request(Followed, "ask"))
    BY <1>4 DEF DatabaseAnswered
  <2>2. Cardinality(polls \ {p}) < MaxPolls
    BY TrackersAre, TrackersAssumption, LessOne
  <2>3. Asked(polls \ {p}, Followed, "ask")
    BY <1>1, <2>1, <2>2, AskedByAll
  <2>4. /\ DOMAIN shown' \subseteq Job /\ \A j \in DOMAIN shown' : shown'[j] \in Seen
        /\ ~misled' /\ here /\ visit \notin later' =>
             \A j \in Followed : j \in DOMAIN shown' \/
               \E o \in polls \ {p} : o.step # "ask" /\ o.el = visit /\ j \in o.jobs
        /\ ~misled' /\ ~poller /\ here => \A j \in Followed \cap DOMAIN shown' : shown'[j] # "running"
    BY <1>1, ShowIs
  <2> QED
    BY <1>1, <1>2, <2>3, <2>4, AskingKeeps
<1> QED
  BY <1>3, <1>4

\* The second answer of an interval shows nothing, and stops the interval when
\* all that is followed is over and shown so.
LEMMA StatesAnsweredKeeps ==
  ASSUME TrackersInductive, NEW p \in polls, NEW q \in Answered(p), q.step = "ask",
         UNCHANGED <<pageVars, later, jobVars, starts, ids>>, StatesAnswered(p, q)
  PROVE  TrackersInductive'
<1> DEFINE over == \A j \in p.jobs : q.seen[j] # "running"
<1>1. /\ UNCHANGED <<of, here, visit, later, status, slot, starts, ids, shown>> /\ Followed' = Followed
      /\ poller' = (poller /\ ~over) /\ polls' = polls \ {p}
      /\ over => (misled' = (misled \/
           \/ p.jobs # Followed
           \/ \E o \in polls \ {p} : o.step # "ask"
           \/ \E j \in p.jobs : q.seen[j] = "error" \/ (j \in DOMAIN shown /\ shown[j] = "running")))
      /\ misled' \in BOOLEAN /\ (misled => misled') /\ poller' \in BOOLEAN
  <2>1. /\ poller' = (poller /\ ~over) /\ polls' = polls \ {p} /\ shown' = shown
        /\ misled' = (misled \/ (over /\
             \/ p.jobs # Followed
             \/ \E o \in polls \ {p} : o.step # "ask"
             \/ \E j \in p.jobs : q.seen[j] = "error" \/ (j \in DOMAIN shown /\ shown[j] = "running")))
    BY DEF StatesAnswered
  <2>2. misled' \in BOOLEAN /\ poller' \in BOOLEAN
    BY <2>1, TrackersAre
  <2> QED
    BY <2>1, <2>2 DEF pageVars, jobVars, Followed
<1>2. polls' \subseteq Poll /\ IsFiniteSet(polls') /\ Cardinality(polls') <= MaxPolls /\ PollInv'
  BY <1>1, Fewer
<1>3. TrackersTypeOK'
  BY <1>1, <1>2 DEF TrackersInductive, TrackersTypeOK
<1>4. SlotInv'
  BY <1>1, TrackersAre DEF SlotInv
<1>5. ShownInv'
  <2>1. \A o \in polls' : o.new /\ o.el < visit => shown = Unread
    BY <1>1, TrackersAre DEF ShownInv
  <2>2. \A o \in polls : o.step # "ask" => o \in polls'
    BY <1>1, AnsweredAre
  <2>3. ~misled' /\ here /\ visit \notin later =>
          \A j \in Followed : j \in DOMAIN shown \/
            \E o \in polls' : o.step # "ask" /\ o.el = visit /\ j \in o.jobs
    BY <1>1, <2>2, TrackersAre DEF ShownInv
  <2> QED
    BY <1>1, <2>1, <2>3 DEF ShownInv
<1>6. OverInv'
  <2> SUFFICES ASSUME ~misled', ~poller'
      PROVE  /\ \A j \in Followed : status[j] = "over"
             /\ \A o \in polls' : o.step # "ask" /\ o.new => \A j \in o.jobs : o.seen[j] = "over"
             /\ here => \A j \in Followed \cap DOMAIN shown : shown[j] # "running"
    BY <1>1 DEF OverInv
  <2>1. CASE ~poller
    BY <1>1, <2>1, TrackersAre DEF OverInv
  <2>2. CASE poller
    <3>1. over
      BY <1>1, <2>2
    <3>2. /\ p.jobs = Followed /\ \A o \in polls' : o.step = "ask"
          /\ \A j \in p.jobs : q.seen[j] # "error" /\ ~(j \in DOMAIN shown /\ shown[j] = "running")
      BY <1>1, <3>1
    <3>3. ASSUME NEW j \in Followed
          PROVE  status[j] = "over"
      <4>1. q.seen \in [p.jobs -> Seen] /\ j \in p.jobs
        BY <3>2, AnsweredAre
      <4>2. q.seen[j] = "over"
        BY <3>1, <3>2, <4>1 DEF Seen
      <4> QED
        BY <4>1, <4>2, AnsweredAre
    <3> QED
      BY <3>2, <3>3
  <2> QED
    BY <2>1, <2>2, TrackersAre
<1> QED
  BY <1>2, <1>3, <1>4, <1>5, <1>6 DEF TrackersInductive

LEMMA AnswerKeeps ==
  ASSUME TrackersInductive, NEW p \in polls, Answer(p)
  PROVE  TrackersInductive'
<1>1. PICK q \in Answered(p) :
        \/ q.step = "ask" /\ StatesAnswered(p, q)
        \/ /\ q.step # "ask" /\ Show(q)
           /\ CASE of = "backups"  -> BackupAnswered(p, q)
                [] of = "vacuum"   -> VacuumAnswered(p, q)
                [] of = "database" -> DatabaseAnswered(p, q)
  BY DEF Answer
<1>2. UNCHANGED <<pageVars, later, jobVars, starts, ids>>
  BY DEF Answer
<1>3. of \in {"backups", "vacuum", "database"}
  BY TrackersAre, TrackersAssumption
<1>4. CASE q.step = "ask" /\ StatesAnswered(p, q)
  BY <1>2, <1>4, StatesAnsweredKeeps
<1>5. CASE q.step # "ask" /\ Show(q) /\ of = "backups" /\ BackupAnswered(p, q)
  BY <1>2, <1>5, StopKeeps DEF BackupAnswered
<1>6. CASE q.step # "ask" /\ Show(q) /\ of = "vacuum" /\ VacuumAnswered(p, q)
  BY <1>2, <1>6, StopKeeps DEF VacuumAnswered
<1>7. CASE q.step # "ask" /\ Show(q) /\ of = "database" /\ DatabaseAnswered(p, q)
  BY <1>2, <1>7, AsksAgainKeeps
<1> QED
  BY <1>1, <1>3, <1>4, <1>5, <1>6, <1>7

-----------------------------------------------------------------------------

LEMMA TickKeeps ==
  ASSUME TrackersInductive, Tick
  PROVE  TrackersInductive'
<1>1. /\ UNCHANGED <<of, here, visit, later, status, slot, starts, ids, poller, shown>>
      /\ poller /\ misled' = FALSE
  BY DEF Tick, renderJobStatus, pageVars, jobVars
<1>2. CASE UNCHANGED polls /\ (~here \/ Followed = {})
  <2>1. Followed' = Followed /\ TrackersTypeOK'
    BY <1>1, <1>2 DEF TrackersInductive, TrackersTypeOK, Followed
  <2>2. SlotInv' /\ PollInv'
    BY <1>1, <1>2, <2>1 DEF TrackersInductive, SlotInv, PollInv
  <2>3. ShownInv' /\ OverInv'
    BY <1>1, <1>2, <2>1 DEF TrackersInductive, ShownInv, OverInv
  <2> QED
    BY <2>1, <2>2, <2>3 DEF TrackersInductive
<1>3. ASSUME NEW kind \in {"show", "show, then ask", "ask"}, Cardinality(polls) < MaxPolls,
             polls' = Newest(polls, Request(Followed, kind)), here => kind # "ask"
      PROVE  TrackersInductive'
  <2>1. Asked(polls, Followed, kind)
    BY <1>1, <1>3, AskedByAll
  <2>2. /\ DOMAIN shown \subseteq Job /\ \A j \in DOMAIN shown : shown[j] \in Seen
    BY DEF TrackersInductive, TrackersTypeOK
  <2>3. misled' \in BOOLEAN /\ polls \in SUBSET polls
    BY <1>1
  <2> QED
    BY <1>1, <1>3, <2>1, <2>2, <2>3, AskingKeeps
<1>4. \/ UNCHANGED polls /\ (~here \/ Followed = {})
      \/ \E kind \in {"show", "show, then ask", "ask"} :
           /\ Cardinality(polls) < MaxPolls /\ polls' = Newest(polls, Request(Followed, kind))
           /\ here => kind # "ask"
  BY DEF Tick, renderJobStatus
<1> QED
  BY <1>2, <1>3, <1>4

LEMMA LoadedKeeps ==
  ASSUME TrackersInductive, Loaded
  PROVE  TrackersInductive'
<1>1. UNCHANGED <<of, here, visit, status, slot, starts, ids, poller, shown, misled>>
  BY DEF Loaded, pageVars, jobVars
<1>2. later' \subseteq later
  BY DEF Loaded
<1>3. CASE (~here \/ Followed = {}) /\ UNCHANGED polls
  <2>1. TrackersTypeOK'
    BY <1>1, <1>2, <1>3, TrackersAre DEF TrackersInductive, TrackersTypeOK
  <2> QED
    BY <1>1, <1>2, <1>3, <2>1 DEF TrackersInductive, SlotInv, PollInv, ShownInv, OverInv, Followed
<1>4. CASE Cardinality(polls) < MaxPolls /\ polls' = Newest(polls, Request(Followed, "show"))
  <2>1. Asked(polls, Followed, "show")
    BY <1>1, <1>4, AskedByAll
  <2>2. DOMAIN shown \subseteq Job /\ \A j \in DOMAIN shown : shown[j] \in Seen
    BY DEF TrackersInductive, TrackersTypeOK
  <2>3. misled \in BOOLEAN /\ polls \in SUBSET polls
    BY TrackersAre
  <2>4. ~misled /\ ~poller /\ here => \A j \in Followed \cap DOMAIN shown : shown[j] # "running"
    BY TrackersAre DEF OverInv
  <2> QED
    BY <1>1, <1>2, <2>1, <2>2, <2>3, <2>4, AskingKeeps
<1> QED
  BY <1>3, <1>4 DEF Loaded, renderJobStatus

LEMMA OpenKeeps ==
  ASSUME TrackersInductive, Open
  PROVE  TrackersInductive'
<1>1. /\ visit < MaxVisits /\ visit' = visit + 1 /\ here' = TRUE /\ later' = later \cup {visit'}
      /\ shown' = Unread
      /\ UNCHANGED <<of, status, slot, starts, ids, poller, polls, misled>> /\ Followed' = Followed
  BY DEF Open, jobVars, Followed
<1>2. visit' \in 0 .. MaxVisits /\ visit' \in 1 .. MaxVisits /\ \A n \in Nat : n <= visit => n <= visit'
  <2>1. visit \in 0 .. MaxVisits
    BY TrackersAre
  <2> QED
    BY <1>1, <2>1, TrackersAssumption
<1>3. TrackersTypeOK'
  <2>1. DOMAIN shown' = {}
    BY <1>1 DEF Unread
  <2>2. here' \in BOOLEAN /\ later' \subseteq 1 .. MaxVisits
    BY <1>1, <1>2, TrackersAre
  <2> QED
    BY <1>1, <1>2, <2>1, <2>2, TrackersAre DEF TrackersTypeOK
<1>4. SlotInv'
  BY <1>1, TrackersAre DEF SlotInv
<1>5. PollInv'
  <2>1. \A p \in polls : p.el \in Nat
    <3>1. \A p \in polls : p.el \in 0 .. MaxVisits
      BY TrackersAre DEF Poll
    <3> QED
      BY <3>1, TrackersAssumption
  <2>2. \A p \in polls : p.el <= visit'
    BY <1>2, <2>1, TrackersAre DEF PollInv
  <2> QED
    BY <1>1, <2>2, TrackersAre DEF PollInv
<1>6. ShownInv'
  <2>1. visit' \in later'
    BY <1>1
  <2> QED
    BY <1>1, <2>1 DEF ShownInv
<1>7. OverInv'
  BY <1>1, TrackersAre DEF OverInv, Unread
<1> QED
  BY <1>3, <1>4, <1>5, <1>6, <1>7 DEF TrackersInductive

LEMMA LeaveKeeps ==
  ASSUME TrackersInductive, Leave
  PROVE  TrackersInductive'
<1>1. /\ here' = FALSE
      /\ UNCHANGED <<of, visit, later, status, slot, starts, ids, poller, polls, shown, misled>>
  BY DEF Leave, jobVars
<1>2. TrackersTypeOK'
  BY <1>1, TrackersAre DEF TrackersInductive, TrackersTypeOK
<1> QED
  BY <1>1, <1>2 DEF TrackersInductive, SlotInv, PollInv, ShownInv, OverInv, Followed

\* The answer to a starting request: the job is followed from then on, asked for
\* when the page is there.
LEMMA StartedKeeps ==
  ASSUME TrackersInductive, Started
  PROVE  TrackersInductive'
<1>1. PICK j \in starts : starts' = starts \ {j} /\ (trackJob(j) \/ UNCHANGED <<ids, poller, polls, misled>>)
  BY DEF Started
<1>2. UNCHANGED <<of, here, visit, later, status, slot, shown>>
  BY DEF Started, pageVars, jobVars
<1>3. CASE UNCHANGED <<ids, poller, polls, misled>>
  <2>1. TrackersTypeOK'
    BY <1>1, <1>2, <1>3, TrackersAre DEF TrackersInductive, TrackersTypeOK
  <2> QED
    BY <1>1, <1>2, <1>3, <2>1 DEF TrackersInductive, SlotInv, PollInv, ShownInv, OverInv, Followed
<1>4. CASE trackJob(j)
  <2>1. /\ ids' = [ids EXCEPT ![slot[j]] = j] /\ poller' = TRUE /\ misled' = FALSE
        /\ renderJobStatus(Followed', "show")
    BY <1>4 DEF trackJob, Followed
  <2>2. j \in Job /\ slot[j] \in Slot /\ status[j] # "none" /\ ids' \in [Slot -> Job \cup {NoJob}]
        /\ \A s \in Slot : ids'[s] = IF s = slot[j] THEN j ELSE ids[s]
    BY <1>1, <2>1, TrackersAre DEF SlotInv
  <2>3. Followed' \subseteq Followed \cup {j} /\ Followed' \subseteq Job /\ Followed' # {}
    BY <2>2, TrackersAre DEF Followed
  <2>4. \A k \in starts' \cup Followed' : status[k] # "none"
    BY <1>1, <2>2, <2>3, TrackersAre DEF SlotInv
  <2>5. SlotInv'
    BY <1>2, <2>2, <2>4, TrackersAre DEF SlotInv
  <2>6. OverInv'
    BY <2>1 DEF OverInv
  <2>7. starts' \subseteq Job
    BY <1>1, TrackersAre
  <2>8. CASE ~here /\ UNCHANGED polls
    <3>1. TrackersTypeOK'
      BY <1>2, <2>1, <2>2, <2>7, <2>8 DEF TrackersInductive, TrackersTypeOK
    <3>2. PollInv' /\ ShownInv'
      BY <1>2, <2>8 DEF TrackersInductive, PollInv, ShownInv
    <3> QED
      BY <2>5, <2>6, <3>1, <3>2 DEF TrackersInductive
  <2>9. CASE here /\ Cardinality(polls) < MaxPolls /\ polls' = Newest(polls, Request(Followed', "show"))
    <3>1. Asked(polls, Followed', "show")
      BY <1>2, <2>3, <2>4, <2>9, Requesting
    <3>2. TrackersTypeOK'
      BY <1>2, <2>1, <2>2, <2>7, <3>1 DEF TrackersInductive, TrackersTypeOK, Asked
    <3>3. PICK r \in polls' :
            /\ r.jobs = Followed' /\ r.el = visit /\ r.new /\ r.step = "show"
            /\ \A p \in polls' : p.new => p = r
      BY <3>1 DEF Asked
    <3>4. \A p \in polls' : p.new => ~(p.el < visit)
      BY <3>3, TrackersAre
    <3>5. \A k \in Followed' : \E p \in polls' : p.step # "ask" /\ p.el = visit /\ k \in p.jobs
      BY <3>3
    <3>6. ShownInv'
      BY <1>2, <3>4, <3>5 DEF ShownInv
    <3>7. PollInv'
      BY <3>1 DEF Asked
    <3> QED
      BY <2>5, <2>6, <3>2, <3>6, <3>7 DEF TrackersInductive
  <2> QED
    BY <2>1, <2>3, <2>8, <2>9 DEF renderJobStatus
<1> QED
  BY <1>1, <1>3, <1>4

-----------------------------------------------------------------------------

LEMMA TrackersStart == TrackersInit => TrackersInductive
<1> SUFFICES ASSUME TrackersInit PROVE TrackersInductive
  OBVIOUS
<1>1. TrackersTypeOK
  <2>1. IsFiniteSet({}) /\ Cardinality({}) = 0
    BY FS_EmptySet
  <2>2. 0 \in 0 .. MaxVisits /\ 0 <= MaxPolls
    BY TrackersAssumption
  <2>3. polls \subseteq Poll /\ IsFiniteSet(polls) /\ Cardinality(polls) <= MaxPolls
    BY <2>1, <2>2 DEF TrackersInit
  <2>4. [s \in Slot |-> NoJob] \in [Slot -> Job \cup {NoJob}]
    OBVIOUS
  <2>5. DOMAIN Unread = {}
    BY DEF Unread
  <2>6. [j \in Job |-> "one"] \in [Job -> Slot]
    BY DEF Slot
  <2> QED
    BY <2>2, <2>3, <2>4, <2>5, <2>6 DEF TrackersInit, TrackersTypeOK
<1>2. Followed = {}
  BY DEF TrackersInit, Followed
<1>3. SlotInv
  BY <1>2 DEF TrackersInit, SlotInv
<1>4. PollInv /\ ShownInv /\ OverInv
  BY <1>2 DEF TrackersInit, PollInv, ShownInv, OverInv
<1> QED
  BY <1>1, <1>3, <1>4 DEF TrackersInductive

LEMMA TrackersStep == TrackersInductive /\ [TrackersNext]_trackVars => TrackersInductive'
<1> SUFFICES ASSUME TrackersInductive, [TrackersNext]_trackVars
             PROVE  TrackersInductive'
  OBVIOUS
<1>1. CASE JobEnds
  BY <1>1, JobEndsKeeps
<1>2. CASE triggerBackup
  BY <1>2, StartKeeps DEF triggerBackup, Slot
<1>3. CASE triggerVacuum
  BY <1>3, StartKeeps DEF triggerVacuum, Slot
<1>4. CASE exportDB
  BY <1>4, StartKeeps DEF exportDB, Slot
<1>5. CASE _uploadFile
  BY <1>5, StartKeeps DEF _uploadFile, Slot
<1>6. CASE Started
  BY <1>6, StartedKeeps
<1>7. CASE Tick
  BY <1>7, TickKeeps
<1>8. CASE \E p \in polls : Answer(p)
  BY <1>8, AnswerKeeps
<1>9. CASE Open
  BY <1>9, OpenKeeps
<1>10. CASE Leave
  BY <1>10, LeaveKeeps
<1>11. CASE Loaded
  BY <1>11, LoadedKeeps
<1>12. CASE UNCHANGED trackVars
  BY <1>12 DEF trackVars, pageVars, jobVars, TrackersInductive, TrackersTypeOK, SlotInv, PollInv,
               ShownInv, OverInv, Followed
<1> QED
  BY <1>1, <1>2, <1>3, <1>4, <1>5, <1>6, <1>7, <1>8, <1>9, <1>10, <1>11, <1>12 DEF TrackersNext

\* backup.js, vacuum.js and database.js: what a page follows is not shown as
\* running for ever, unless an answer was misdirected.
THEOREM TrackersTrue == TrackersSpec => [](TrackersTypeOK /\ Watched)
<1>1. TrackersInductive => TrackersTypeOK
  BY DEF TrackersInductive
<1>2. TrackersInductive => Watched
  BY DEF TrackersInductive, ShownInv, OverInv, Watched
<1> QED
  BY <1>1, <1>2, TrackersStart, TrackersStep, PTL DEF TrackersSpec

-----------------------------------------------------------------------------
(* The five together.                                                      *)

\* Whichever page a behaviour is about, the variables of all five keep their
\* types.
THEOREM WorkTyped == WorkSpec => []WorkTypeOK
<1> DEFINE Inv == TrackersInductive /\ TunerInductive /\ EditorInductive /\ PlansInductive /\ FormsInductive
<1>1. WorkInit => Inv
  BY TrackersStart, TunerStarts, EditorStarts, PlansStart, FormsStarts DEF WorkInit
<1>2. Inv /\ [WorkNext]_<<part, trackVars, tunerVars, sqlVars, plansVars, formsVars>> => Inv'
  <2> SUFFICES ASSUME Inv, [WorkNext]_<<part, trackVars, tunerVars, sqlVars, plansVars, formsVars>>
               PROVE  Inv'
    OBVIOUS
  <2>1. /\ [TrackersNext]_trackVars /\ [TunerNext]_tunerVars /\ [EditorNext]_sqlVars
        /\ [PlansNext]_plansVars /\ [FormsNext]_formsVars
    BY DEF WorkNext
  <2> QED
    BY <2>1, TrackersStep, TunerSteps, EditorSteps, PlansSteps, FormsSteps
<1>3. Inv => WorkTypeOK
  BY DEF TrackersInductive, TunerInductive, EditorInductive, PlansInductive, FormsInductive, WorkTypeOK
<1> QED
  BY <1>1, <1>2, <1>3, PTL DEF WorkSpec
==============================================================================
