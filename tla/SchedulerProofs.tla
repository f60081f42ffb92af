--------------------------- MODULE SchedulerProofs ---------------------------
(***************************************************************************)
(* The weekly run, the settings and the scheduler: the next run is right   *)
(* for every instant and configuration and for a week of any length; what  *)
(* is in memory is what a restart brings back; at most one loop is live,   *)
(* and it is on time for the settings, for any number of requests, loops   *)
(* and schedules.                                                          *)
(***************************************************************************)
EXTENDS Scheduler, TLAPS

\* Division with remainder.
LEMMA Division ==
  ASSUME NEW a \in Int, NEW n \in Nat \ {0}
  PROVE  /\ a % n \in 0 .. n - 1
         /\ a \div n \in Int
         /\ a = (n * (a \div n)) + (a % n)
  BY Z3

\* A multiple of n strictly between -n and n is 0.
LEMMA SmallMultiple ==
  ASSUME NEW n \in Nat \ {0}, NEW q \in Int, -n < n * q, n * q < n
  PROVE  q = 0
<1>1. CASE q >= 1
  BY <1>1, n * q >= n, Z3
<1>2. CASE q <= -1
  BY <1>2, n * q <= -n, Z3
<1> QED
  BY <1>1, <1>2

\* A remainder is determined by any decomposition.
LEMMA Remainder ==
  ASSUME NEW n \in Nat \ {0}, NEW a \in Int, NEW q \in Int, NEW r \in 0 .. n - 1,
         a = (n * q) + r
  PROVE  a % n = r
<1>1. PICK p \in Int : a = (n * p) + (a % n)
  BY Division
<1>2. a % n \in 0 .. n - 1
  BY Division
<1>3. n * (q - p) = (n * q) - (n * p) /\ n * p \in Int /\ n * q \in Int
  BY Z3
<1>4. n * (q - p) = (a % n) - r
  <2> DEFINE np == n * p
             nq == n * q
             m  == a % n
  <2>1. np \in Int /\ nq \in Int /\ m \in Int /\ np + m = nq + r
    BY <1>1, <1>2, <1>3
  <2> HIDE DEF np, nq, m
  <2>2. nq - np = m - r
    BY <2>1
  <2> QED
    BY <1>3, <2>2 DEF np, nq, m
<1>5. -n < n * (q - p) /\ n * (q - p) < n
  BY <1>2, <1>4
<1>6. q - p = 0
  BY <1>5, SmallMultiple
<1> QED
  BY <1>1, <1>2, <1>6

\* The days to the next given weekday, today included.
LEMMA DaysAhead ==
  ASSUME NEW day \in Nat, NEW w \in 0 .. Days - 1
  PROVE  LET days == (w - (day % Days) + Days) % Days
         IN  /\ days \in 0 .. Days - 1
             /\ (day + days) % Days = w
             /\ \A d \in day .. day + days : d % Days = w => d = day + days
<1> USE WeekAssumption
<1> DEFINE r == day % Days
           days == (w - r + Days) % Days
<1>1. r \in 0 .. Days - 1
  BY Division
<1>2. PICK q \in Int : day = (Days * q) + r
  <2>1. day \div Days \in Int /\ day = (Days * (day \div Days)) + (day % Days)
    BY Division
  <2> QED
    BY <2>1
<1>3. PICK e \in {0, 1} : days = w - r + (Days * e)
  <2>1. CASE w >= r
    <3>1. w - r + Days = (Days * 1) + (w - r) /\ w - r \in 0 .. Days - 1
      BY <1>1, <2>1
    <3>2. days = w - r
      BY <1>1, <3>1, Remainder
    <3> QED
      BY <1>1, <3>2
  <2>2. CASE w < r
    <3>1. w - r + Days = (Days * 0) + (w - r + Days)
          /\ w - r + Days \in 0 .. Days - 1
      BY <1>1, <2>2
    <3>2. days = w - r + Days
      BY <1>1, <3>1, Remainder
    <3> QED
      BY <1>1, <3>2
  <2> QED
    BY <1>1, <2>1, <2>2
<1>4. days \in 0 .. Days - 1
  BY <1>1, Division
<1>5. day + days = (Days * (q + e)) + w
  <2>1. Days * (q + e) = (Days * q) + (Days * e)
    BY Z3
  <2> QED
    BY <1>1, <1>2, <1>3, <1>4, <2>1
<1> HIDE DEF days
<1>6. (day + days) % Days = w
  <2> DEFINE a == day + days
             m == q + e
  <2>1. a \in Int /\ m \in Int /\ a = (Days * m) + w
    BY <1>4, <1>5
  <2> HIDE DEF a, m
  <2>2. a % Days = w
    BY <2>1, Remainder
  <2> QED
    BY <2>2 DEF a
<1>7. ASSUME NEW d \in day .. day + days, d % Days = w
      PROVE  d = day + days
  <2>1. PICK k \in Int : d = (Days * k) + w
    <3>1. d \in Int
      BY <1>4
    <3>2. d \div Days \in Int /\ d = (Days * (d \div Days)) + (d % Days)
      BY <3>1, Division
    <3> QED
      BY <1>7, <3>2
  <2>2. Days * (q + e - k) = (Days * (q + e)) - (Days * k)
    BY Z3
  <2>3. Days * (q + e - k) = day + days - d
    <3> DEFINE x == Days * (q + e)
               y == Days * k
    <3>1. x \in Int /\ y \in Int /\ day + days = x + w /\ d = y + w
      BY <1>5, <2>1, Z3
    <3> HIDE DEF x, y
    <3>2. x - y = day + days - d
      BY <1>4, <3>1
    <3> QED
      BY <2>2, <3>2 DEF x, y
  <2>4. q + e - k = 0
    BY <1>4, <2>3, SmallMultiple
  <2> QED
    BY <1>5, <2>1, <2>4
<1> QED
  BY <1>4, <1>6, <1>7 DEF days

\* A weekday comes again after a whole week and not before.
LEMMA NextWeek ==
  ASSUME NEW day \in Nat
  PROVE  /\ (day + Days) % Days = day % Days
         /\ \A d \in day + 1 .. day + Days :
              d % Days = day % Days => d = day + Days
<1> USE WeekAssumption
<1> DEFINE r == day % Days
<1>1. r \in 0 .. Days - 1
  BY Division
<1>2. PICK q \in Int : day = (Days * q) + r
  <2>1. day \div Days \in Int /\ day = (Days * (day \div Days)) + (day % Days)
    BY Division
  <2> QED
    BY <2>1
<1> HIDE DEF r
<1>3. day + Days = (Days * (q + 1)) + r
  <2>1. Days * (q + 1) = (Days * q) + Days
    BY Z3
  <2> QED
    BY <1>1, <1>2, <2>1
<1>4. (day + Days) % Days = r
  <2> DEFINE a == day + Days
             m == q + 1
  <2>1. a \in Int /\ m \in Int /\ a = (Days * m) + r
    BY <1>3
  <2> HIDE DEF a, m
  <2>2. a % Days = r
    BY <1>1, <2>1, Remainder
  <2> QED
    BY <2>2 DEF a
<1>5. ASSUME NEW d \in day + 1 .. day + Days, d % Days = r
      PROVE  d = day + Days
  <2>1. PICK k \in Int : d = (Days * k) + r
    <3>1. d \in Int
      OBVIOUS
    <3>2. d \div Days \in Int /\ d = (Days * (d \div Days)) + (d % Days)
      BY <3>1, Division
    <3> QED
      BY <1>5, <3>2
  <2>2. Days * (q + 1 - k) = (Days * (q + 1)) - (Days * k)
    BY Z3
  <2>3. Days * (q + 1 - k) = day + Days - d
    <3> DEFINE x == Days * (q + 1)
               y == Days * k
    <3>1. x \in Int /\ y \in Int /\ day + Days = x + r /\ d = y + r
      BY <1>3, <2>1, Z3
    <3> HIDE DEF x, y
    <3>2. x - y = day + Days - d
      BY <1>1, <3>1
    <3> QED
      BY <2>2, <3>2 DEF x, y
  <2>4. q + 1 - k = 0
    BY <2>3, SmallMultiple
  <2> QED
    BY <1>3, <2>1, <2>4
<1> QED
  BY <1>4, <1>5 DEF r

-----------------------------------------------------------------------------
\* nextWeeklyRun (scheduler.go 142-159) returns, for every instant and every
\* configured weekday and hour, valid or not, the first instant of the slot
\* that lies ahead; and that is at most a week away.
THEOREM NextWeeklyRunCorrect ==
  ASSUME NEW from \in Instant, NEW weekday \in Int, NEW hour \in Int
  PROVE  LET t == NextWeeklyRun(from, weekday, hour)
         IN  IsNextRun(t, from, weekday, hour) /\ t.day <= from.day + Days
<1> USE WeekAssumption
<1> DEFINE w    == ValidDay(weekday)
           h    == ValidHour(hour)
           days == (w - (from.day % Days) + Days) % Days
           t    == NextWeeklyRun(from, weekday, hour)
<1>1. from.day \in Nat /\ from.hour \in 0 .. Hours - 1
  BY DEF Instant
<1>2. w \in 0 .. Days - 1 /\ h \in 0 .. Hours - 1
  BY DEF ValidDay, ValidHour
<1>3. /\ days \in 0 .. Days - 1
      /\ (from.day + days) % Days = w
      /\ \A d \in from.day .. from.day + days : d % Days = w => d = from.day + days
  BY <1>1, <1>2, DaysAhead
<1>4. t = IF days > 0 \/ h > from.hour
            THEN [day |-> from.day + days, hour |-> h]
            ELSE [day |-> from.day + days + Days, hour |-> h]
  <2> DEFINE n == [day |-> from.day + days, hour |-> h]
  <2>1. t = IF After(n, from) THEN n ELSE [n EXCEPT !.day = @ + Days]
    BY DEF NextWeeklyRun, Weekday
  <2> HIDE DEF w, h, days, t
  <2>2. After(n, from) <=> days > 0 \/ h > from.hour
    BY <1>1, <1>2, <1>3 DEF After
  <2> QED
    BY <2>1, <2>2
<1> HIDE DEF w, h, days, t
<1>5. CASE days > 0 \/ h > from.hour
  <2>1. t.day = from.day + days /\ t.hour = h
    BY <1>4, <1>5
  <2>2. InSlot(t, weekday, hour) /\ After(t, from)
    BY <1>1, <1>2, <1>3, <1>5, <2>1 DEF InSlot, Weekday, After, w, h
  <2>3. ASSUME NEW d \in from.day .. t.day, NEW k \in 0 .. Hours - 1,
               InSlot([day |-> d, hour |-> k], weekday, hour)
        PROVE  ~After(t, [day |-> d, hour |-> k])
    <3>1. d % Days = w /\ k = h
      BY <2>3 DEF InSlot, Weekday, w, h
    <3>2. d = from.day + days
      BY <1>3, <2>1, <3>1
    <3> QED
      BY <1>1, <1>2, <1>3, <2>1, <3>1, <3>2 DEF After
  <2> QED
    BY <1>1, <1>3, <2>1, <2>2, <2>3 DEF IsNextRun, t
<1>6. CASE days = 0 /\ h <= from.hour
  <2>1. t.day = from.day + Days /\ t.hour = h /\ from.day % Days = w
    BY <1>1, <1>2, <1>3, <1>4, <1>6
  <2>2. t.day % Days = w
    BY <1>1, <1>2, <2>1, NextWeek
  <2>3. InSlot(t, weekday, hour) /\ After(t, from)
    BY <1>1, <2>1, <2>2 DEF InSlot, Weekday, After, w, h
  <2>4. ASSUME NEW d \in from.day .. t.day, NEW k \in 0 .. Hours - 1,
               InSlot([day |-> d, hour |-> k], weekday, hour),
               After([day |-> d, hour |-> k], from)
        PROVE  ~After(t, [day |-> d, hour |-> k])
    <3>1. d % Days = w /\ k = h
      BY <2>4 DEF InSlot, Weekday, w, h
    <3>2. d > from.day
      BY <1>1, <1>2, <1>6, <2>4, <3>1 DEF After
    <3>3. d \in from.day + 1 .. from.day + Days /\ d % Days = from.day % Days
      BY <1>1, <2>1, <3>1, <3>2
    <3>4. d = from.day + Days
      BY <1>1, <3>3, NextWeek
    <3> QED
      BY <1>1, <1>2, <2>1, <3>1, <3>4 DEF After
  <2> QED
    BY <1>1, <2>1, <2>3, <2>4 DEF IsNextRun, t
<1> QED
  BY <1>1, <1>2, <1>3, <1>5, <1>6 DEF t

-----------------------------------------------------------------------------
(* The settings *)

SettingsInv == SettingsTypeOK /\ RequestsReady /\ FileIsNormal /\ MemoryIsSaved

LEMMA DefaultType == DefaultConfig \in Config /\ DefaultConfig.profileOn
  BY SettingsAssumption DEF DefaultConfig, Config

LEMMA NormalType ==
  ASSUME NEW c \in Config
  PROVE  /\ Normal(c) \in Config /\ Normal(c).profileOn
         /\ c.profileOn => Normal(c) = c
<1>1. Normal(c) \in Config /\ Normal(c).profileOn
  BY DEF Normal, Config
<1>2. c.profileOn => Normal(c) = c
  BY DEF Normal, Config
<1> QED
  BY <1>1, <1>2

\* Every configuration is a request, and the torn file is neither.
LEMMA ConfigIsRequest == Config \subseteq Request /\ Torn \notin Config
  BY SettingsAssumption DEF Config, Request

LEMMA SettingsStart == SettingsInit => SettingsInv
  BY DefaultType, ConfigIsRequest
  DEF SettingsInit, SettingsInv, SettingsTypeOK, RequestsReady, FileIsNormal,
      MemoryIsSaved

LEMMA DecodeInv ==
  ASSUME NEW s \in Saver, SettingsInv, Decode(s)
  PROVE  SettingsInv'
<1>1. PICK c \in Form :
        /\ req' = [req EXCEPT ![s] = c]
        /\ spc' = [spc EXCEPT ![s] = IF c.token = Mask THEN "mask" ELSE "update"]
  BY DEF Decode
<1>2. c \in Request /\ (c.token # Mask => c \in Config)
  BY SettingsAssumption DEF Request, Config
<1>3. SettingsTypeOK'
  BY <1>1, <1>2 DEF SettingsInv, SettingsTypeOK, Decode
<1>4. RequestsReady'
  BY <1>1, <1>2 DEF SettingsInv, SettingsTypeOK, RequestsReady
<1>5. FileIsNormal' /\ MemoryIsSaved'
  BY DEF SettingsInv, FileIsNormal, MemoryIsSaved, Decode
<1> QED
  BY <1>3, <1>4, <1>5 DEF SettingsInv

LEMMA KeepTokenInv ==
  ASSUME NEW s \in Saver, SettingsInv, KeepToken(s)
  PROVE  SettingsInv'
<1>1. [req[s] EXCEPT !.token = memory.token] \in Config
  BY DEF SettingsInv, SettingsTypeOK, Config, Request
<1>2. SettingsTypeOK'
  BY <1>1, ConfigIsRequest DEF SettingsInv, SettingsTypeOK, KeepToken
<1>3. RequestsReady'
  BY <1>1 DEF SettingsInv, SettingsTypeOK, RequestsReady, KeepToken
<1>4. FileIsNormal' /\ MemoryIsSaved'
  BY DEF SettingsInv, FileIsNormal, MemoryIsSaved, KeepToken
<1> QED
  BY <1>2, <1>3, <1>4 DEF SettingsInv

LEMMA UpdateInv ==
  ASSUME NEW s \in Saver, SettingsInv, Update(s)
  PROVE  SettingsInv'
<1>1. req[s] \in Config /\ memory' = Normal(req[s]) /\ memory' \in Config
  BY NormalType DEF SettingsInv, SettingsTypeOK, RequestsReady, Update, Writing
<1>2. SettingsTypeOK'
  BY <1>1, DefaultType, ConfigIsRequest DEF SettingsInv, SettingsTypeOK, Update, Done
<1>3. RequestsReady'
  BY <1>1, DefaultType DEF SettingsInv, SettingsTypeOK, RequestsReady, Update, Done
<1>4. FileIsNormal' /\ MemoryIsSaved'
  BY <1>1, NormalType DEF SettingsInv, FileIsNormal, MemoryIsSaved, Update
<1> QED
  BY <1>2, <1>3, <1>4 DEF SettingsInv

LEMMA AnswerInv ==
  ASSUME NEW s \in Saver, SettingsInv, Answer(s)
  PROVE  SettingsInv'
<1>1. SettingsTypeOK'
  BY DefaultType, ConfigIsRequest DEF SettingsInv, SettingsTypeOK, Answer, Done
<1>2. RequestsReady'
  BY DefaultType DEF SettingsInv, SettingsTypeOK, RequestsReady, Answer, Done
<1>3. FileIsNormal' /\ MemoryIsSaved'
  BY DEF SettingsInv, FileIsNormal, MemoryIsSaved, Answer
<1> QED
  BY <1>1, <1>2, <1>3 DEF SettingsInv

LEMMA CrashInv ==
  ASSUME SettingsInv, Crash
  PROVE  SettingsInv'
<1>1. PICK file \in {disk, Torn} \cup {Normal(req[s]) : s \in {r \in Saver : spc[r] \in Writing}} :
        Load(file)
  BY DEF Crash
<1>2. file # Torn => file \in Config /\ file.profileOn
  BY <1>1, NormalType
  DEF SettingsInv, SettingsTypeOK, RequestsReady, FileIsNormal, Writing
<1>3. file # Torn => Normal(file) = file
  BY <1>2, NormalType
<1>4. /\ memory' \in Config
      /\ disk' \in Config \cup {Torn}
      /\ unsaved' \in BOOLEAN
      /\ FileIsNormal' /\ MemoryIsSaved'
  BY <1>1, <1>2, <1>3, DefaultType DEF Load, FileIsNormal, MemoryIsSaved
<1>5. /\ spc' \in [Saver -> {"idle", "mask", "kept", "update", "restart"}]
      /\ req' \in [Saver -> Request]
      /\ RequestsReady'
  BY DefaultType, ConfigIsRequest DEF Crash, RequestsReady
<1> QED
  BY <1>4, <1>5 DEF SettingsInv, SettingsTypeOK

LEMMA SettingsStep == SettingsInv /\ [SettingsNext]_settingsVars => SettingsInv'
<1> SUFFICES ASSUME SettingsInv, [SettingsNext]_settingsVars
             PROVE  SettingsInv'
  OBVIOUS
<1>1. ASSUME NEW s \in Saver, Save(s)
      PROVE  SettingsInv'
  BY <1>1, DecodeInv, KeepTokenInv, UpdateInv DEF Save
<1>2. ASSUME NEW s \in Saver, Answer(s)
      PROVE  SettingsInv'
  BY <1>2, AnswerInv
<1>3. CASE Crash
  BY <1>3, CrashInv
<1>4. CASE UNCHANGED settingsVars
  BY <1>4 DEF SettingsInv, SettingsTypeOK, RequestsReady, FileIsNormal,
              MemoryIsSaved, settingsVars
<1> QED
  BY <1>1, <1>2, <1>3, <1>4 DEF SettingsNext

\* The store and its handler by themselves keep memory and file in step.
LEMMA StoreSaved == SettingsSpec => []MemoryIsSaved
<1>1. SettingsSpec => []SettingsInv
  BY SettingsStart, SettingsStep, PTL DEF SettingsSpec
<1>2. SettingsInv => MemoryIsSaved
  BY DEF SettingsInv
<1> QED
  BY <1>1, <1>2, PTL

-----------------------------------------------------------------------------
\* The scheduler reads the settings and changes nothing in them: with it, they
\* still behave as module Settings says.
LEMMA StepAlone == [Next]_vars => [SettingsNext]_settingsVars
<1> SUFFICES ASSUME [Next]_vars
             PROVE  [SettingsNext]_settingsVars
  OBVIOUS
<1>1. CASE HourPasses
  BY <1>1 DEF HourPasses
<1>2. ASSUME NEW l \in Loop, LoopStep(l)
      PROVE  UNCHANGED settingsVars
  BY <1>2 DEF LoopStep, Exit, TriggerFull, NoteFull, Rearm, TriggerIncremental,
              ReadHours, NoteIncremental
<1>3. ASSUME NEW s \in Saver, Save(s) \/ Restart(s)
      PROVE  SettingsNext
  BY <1>3 DEF SettingsNext, Restart
<1>4. CASE Reboot
  BY <1>4 DEF SettingsNext, Reboot
<1>5. CASE UNCHANGED vars
  BY <1>5 DEF vars
<1> QED
  BY <1>1, <1>2, <1>3, <1>4, <1>5 DEF Next, Quietly

LEMMA SettingsAlone == Spec => SettingsSpec
<1>1. Init => SettingsInit
  BY DEF Init
<1> QED
  BY <1>1, StepAlone, PTL DEF Spec, SettingsSpec

\* What is in memory is what a restart would bring back, as long as no write
\* failed (ConfigStore.Update and load), with the scheduler beside it.
THEOREM SettingsSaved == Spec => []MemoryIsSaved
  BY StoreSaved, SettingsAlone, PTL

-----------------------------------------------------------------------------
\* Enough of a type for the loops: a record for each, with a context.
LoopsShape == /\ DOMAIN loops = Loop
              /\ \A l \in Loop : {"step", "live"} \subseteq DOMAIN loops[l]

LoopInv == LoopsShape /\ OneLiveLoop

LEMMA FreeShape == "live" \in DOMAIN Free /\ "step" \in DOMAIN Free /\ Free.live = FALSE
  BY DEF Free

LEMMA NewLoopShape ==
  ASSUME NEW sch
  PROVE  {"step", "live"} \subseteq DOMAIN NewLoop(sch)
  BY DEF NewLoop, Arm, Free

\* Start leaves at most one loop live, the one it has begun.
LEMMA StartLive ==
  ASSUME NEW found, NEW cancel, NEW sch,
         DOMAIN found = Loop,
         \A l \in Loop : {"step", "live"} \subseteq DOMAIN found[l],
         \A l \in Loop : found[l].live => l = cancel,
         StartLoop(found, cancel, sch)
  PROVE  LoopInv'
<1> DEFINE canceled == [k \in Loop |-> IF k = cancel THEN [found[k] EXCEPT !.live = FALSE]
                                       ELSE found[k]]
<1>1. \A l \in Loop : ~canceled[l].live /\ {"step", "live"} \subseteq DOMAIN canceled[l]
  OBVIOUS
<1>2. CASE loops' = canceled
  BY <1>1, <1>2 DEF LoopInv, LoopsShape, OneLiveLoop
<1>3. ASSUME NEW l \in Loop, loops' = [canceled EXCEPT ![l] = NewLoop(sch)], current' = l
      PROVE  LoopInv'
  BY <1>1, <1>3, NewLoopShape DEF LoopInv, LoopsShape, OneLiveLoop
<1> QED
  BY <1>2, <1>3 DEF StartLoop

\* A step of a loop takes its place away or leaves its context alone.
LEMMA LoopStepKeeps ==
  ASSUME NEW l \in Loop, LoopInv, LoopStep(l)
  PROVE  LoopInv'
<1>1. DOMAIN loops = Loop /\ current' = current
  BY DEF LoopInv, LoopsShape, LoopStep, Exit, TriggerFull, NoteFull, Rearm,
         TriggerIncremental, ReadHours, NoteIncremental
<1>2. /\ DOMAIN loops' = Loop
      /\ \A k \in Loop \ {l} : loops'[k] = loops[k]
      /\ {"step", "live"} \subseteq DOMAIN loops'[l]
      /\ loops'[l].live => loops[l].live
  <2>1. CASE Exit(l)
    BY <2>1, FreeShape DEF Exit, LoopInv, LoopsShape
  <2>2. CASE TriggerFull(l)
    BY <2>2 DEF TriggerFull, LoopInv, LoopsShape
  <2>3. CASE NoteFull(l)
    BY <2>3 DEF NoteFull, LoopInv, LoopsShape
  <2>4. CASE Rearm(l)
    BY <2>4 DEF Rearm, Arm, LoopInv, LoopsShape
  <2>5. CASE TriggerIncremental(l)
    BY <2>5 DEF TriggerIncremental, LoopInv, LoopsShape
  <2>6. CASE ReadHours(l)
    BY <2>6 DEF ReadHours, LoopInv, LoopsShape
  <2>7. CASE NoteIncremental(l)
    BY <2>7 DEF NoteIncremental, LoopInv, LoopsShape
  <2> QED
    BY <2>1, <2>2, <2>3, <2>4, <2>5, <2>6, <2>7 DEF LoopStep
<1> QED
  BY <1>1, <1>2 DEF LoopInv, LoopsShape, OneLiveLoop

LEMMA LoopStart == Init => LoopInv
<1> SUFFICES ASSUME Init
             PROVE  LoopInv
  OBVIOUS
<1>1. CASE Running(DefaultSchedule)
  <2>1. PICK l \in Loop :
          /\ loops = [k \in Loop |-> IF k = l THEN NewLoop(DefaultSchedule) ELSE Free]
          /\ current = l
    BY <1>1 DEF Init
  <2> QED
    BY <2>1, FreeShape, NewLoopShape DEF LoopInv, LoopsShape, OneLiveLoop
<1>2. CASE ~Running(DefaultSchedule)
  <2>1. loops = [k \in Loop |-> Free]
    BY <1>2 DEF Init
  <2> QED
    BY <2>1, FreeShape DEF LoopInv, LoopsShape, OneLiveLoop
<1> QED
  BY <1>1, <1>2

LEMMA LoopNext == LoopInv /\ [Next]_vars => LoopInv'
<1> SUFFICES ASSUME LoopInv, [Next]_vars
             PROVE  LoopInv'
  OBVIOUS
<1>1. CASE HourPasses
  <2>1. /\ loops' = [l \in Loop |-> LoopAnHourLater(loops[l])]
        /\ current' = current
    BY <1>1 DEF HourPasses
  <2>2. ASSUME NEW l \in Loop
        PROVE  /\ {"step", "live"} \subseteq DOMAIN LoopAnHourLater(loops[l])
               /\ LoopAnHourLater(loops[l]).live = loops[l].live
    BY DEF LoopAnHourLater, LoopInv, LoopsShape
  <2> QED
    BY <2>1, <2>2 DEF LoopInv, LoopsShape, OneLiveLoop
<1>2. ASSUME NEW l \in Loop, LoopStep(l)
      PROVE  LoopInv'
  BY <1>2, LoopStepKeeps
<1>3. ASSUME NEW s \in Saver, Restart(s)
      PROVE  LoopInv'
  BY <1>3, StartLive DEF Restart, LoopInv, LoopsShape, OneLiveLoop
<1>4. CASE Reboot
  <2> DEFINE found == [k \in Loop |-> Free]
  <2>1. StartLoop(found, None, memory'.schedule)
    BY <1>4 DEF Reboot
  <2>2. /\ DOMAIN found = Loop
        /\ \A l \in Loop : {"step", "live"} \subseteq DOMAIN found[l]
        /\ \A l \in Loop : found[l].live => l = None
    BY FreeShape
  <2> HIDE DEF found
  <2> QED
    BY <2>1, <2>2, StartLive
<1>5. CASE UNCHANGED schedVars
  BY <1>5 DEF schedVars, LoopInv, LoopsShape, OneLiveLoop
<1> QED
  BY <1>1, <1>2, <1>3, <1>4, <1>5 DEF Next, Quietly, vars

\* At most one loop is live, the one Scheduler.cancel cancels: the mutex of
\* Start is enough, whatever the order of saves, restarts and loops.
THEOREM OneLoop == Spec => []OneLiveLoop
<1>1. Spec => []LoopInv
  BY LoopStart, LoopNext, PTL DEF Spec
<1>2. LoopInv => OneLiveLoop
  BY DEF LoopInv
<1> QED
  BY <1>1, <1>2, PTL
-----------------------------------------------------------------------------
(* The hours to the next slot *)

HourOfWeek == [day : 0 .. Days - 1, hour : 0 .. Hours - 1]

\* The days to a weekday, and to the run on it.
Ahead(t, w) == IF w >= t.day THEN w - t.day ELSE w - t.day + Days
Lead(t, w, h) == IF Ahead(t, w) > 0 \/ h > t.hour THEN Ahead(t, w) ELSE Days

LEMMA AheadIs ==
  ASSUME NEW t \in HourOfWeek, NEW w \in 0 .. Days - 1
  PROVE  (w - Weekday(t) + Days) % Days = Ahead(t, w)
<1> USE WeekAssumption
<1>1. t.day \in 0 .. Days - 1
  BY DEF HourOfWeek
<1>2. Weekday(t) = t.day
  <2>1. t.day = (Days * 0) + t.day
    BY <1>1
  <2> QED
    BY <1>1, <2>1, Remainder DEF Weekday
<1>3. CASE w >= t.day
  <2>1. /\ w - t.day + Days = (Days * 1) + (w - t.day)
        /\ w - t.day \in 0 .. Days - 1 /\ w - t.day + Days \in Int
    BY <1>1, <1>3
  <2> QED
    BY <1>2, <1>3, <2>1, Remainder DEF Ahead
<1>4. CASE w < t.day
  <2>1. /\ w - t.day + Days = (Days * 0) + (w - t.day + Days)
        /\ w - t.day + Days \in 0 .. Days - 1 /\ w - t.day + Days \in Int
    BY <1>1, <1>4
  <2>2. (w - t.day + Days) % Days = w - t.day + Days
    BY <2>1, Remainder
  <2> QED
    BY <1>1, <1>2, <1>4, <2>2 DEF Ahead
<1> QED
  BY <1>1, <1>3, <1>4

LEMMA UntilIs ==
  ASSUME NEW t \in HourOfWeek, NEW weekday \in Int, NEW hour \in Int
  PROVE  Until(t, NextWeeklyRun(t, weekday, hour))
           = (Lead(t, ValidDay(weekday), ValidHour(hour)) * Hours)
               + ValidHour(hour) - t.hour
<1> USE WeekAssumption
<1> DEFINE w == ValidDay(weekday)
           h == ValidHour(hour)
           a == Ahead(t, w)
           next == [day |-> t.day + a, hour |-> h]
<1>1. t.day \in 0 .. Days - 1 /\ t.hour \in 0 .. Hours - 1
  BY DEF HourOfWeek
<1>2. w \in 0 .. Days - 1 /\ h \in 0 .. Hours - 1
  BY DEF ValidDay, ValidHour
<1>3. (w - Weekday(t) + Days) % Days = a
  BY <1>2, AheadIs
<1>4. a \in 0 .. Days - 1
  BY <1>1, <1>2 DEF Ahead
<1>5. NextWeeklyRun(t, weekday, hour)
        = IF After(next, t) THEN next ELSE [next EXCEPT !.day = @ + Days]
  BY <1>3 DEF NextWeeklyRun
<1> HIDE DEF w, h, a
<1>6. After(next, t) <=> a > 0 \/ h > t.hour
  BY <1>1, <1>2, <1>4 DEF After
<1>7. CASE a > 0 \/ h > t.hour
  <2>1. NextWeeklyRun(t, weekday, hour) = next
    BY <1>5, <1>6, <1>7
  <2>2. next.day = t.day + a /\ next.hour = h
    OBVIOUS
  <2>3. t.day + a - t.day = a /\ Lead(t, w, h) = a
    BY <1>1, <1>4, <1>7 DEF Lead, a
  <2> HIDE DEF next
  <2>4. next.day - t.day = Lead(t, w, h)
    BY <1>1, <1>4, <2>2, <2>3
  <2>5. Until(t, next) = (Lead(t, w, h) * Hours) + h - t.hour
    BY <2>2, <2>4 DEF Until
  <2> QED
    BY <2>1, <2>5 DEF w, h
<1>8. CASE a = 0 /\ h <= t.hour
  <2>1. NextWeeklyRun(t, weekday, hour) = [next EXCEPT !.day = @ + Days]
    BY <1>1, <1>2, <1>5, <1>6, <1>8
  <2> DEFINE last == [next EXCEPT !.day = @ + Days]
  <2>2. last.day = t.day + a + Days /\ last.hour = h
    OBVIOUS
  <2>3. t.day + a + Days - t.day = Days
    BY <1>1, <1>8
  <2>4. Lead(t, w, h) = Days
    BY <1>1, <1>2, <1>8 DEF Lead, a
  <2> HIDE DEF last
  <2>5. last.day - t.day = Lead(t, w, h)
    BY <1>1, <1>4, <2>2, <2>3, <2>4
  <2>6. Until(t, last) = (Lead(t, w, h) * Hours) + h - t.hour
    BY <2>2, <2>5 DEF Until
  <2>7. Until(t, NextWeeklyRun(t, weekday, hour)) = Until(t, last)
    BY <2>1 DEF last
  <2> QED
    BY <2>6, <2>7 DEF w, h
<1> QED
  BY <1>1, <1>2, <1>4, <1>7, <1>8

LEMMA LeadType ==
  ASSUME NEW t \in HourOfWeek, NEW w \in 0 .. Days - 1, NEW h \in 0 .. Hours - 1
  PROVE  /\ Lead(t, w, h) \in 0 .. Days
         /\ Lead(t, w, h) > 0 \/ h > t.hour
  BY WeekAssumption DEF Lead, Ahead, HourOfWeek

\* A product of numbers is one, and one factor more adds the other.
LEMMA Product ==
  ASSUME NEW m \in Nat, NEW n \in Nat
  PROVE  /\ m * n \in Nat
         /\ m > 0 => m * n = ((m - 1) * n) + n /\ (m - 1) * n \in Nat
         /\ 0 * n = 0
<1>1. m * n \in Nat
  BY Z3
<1>2. ASSUME m > 0
      PROVE  m * n = ((m - 1) * n) + n /\ (m - 1) * n \in Nat
  BY <1>2, Z3
<1> QED
  BY <1>1, <1>2

\* The next hour of a week that begins again.
HourLater(t) == IF t.hour < Hours - 1 THEN [t EXCEPT !.hour = @ + 1]
                ELSE [day |-> (t.day + 1) % Days, hour |-> 0]

LEMMA HourLaterType ==
  ASSUME NEW t \in HourOfWeek
  PROVE  /\ HourLater(t) \in HourOfWeek
         /\ t.hour = Hours - 1 =>
              /\ HourLater(t).hour = 0
              /\ HourLater(t).day = IF t.day = Days - 1 THEN 0 ELSE t.day + 1
         /\ t.hour < Hours - 1 =>
              HourLater(t).hour = t.hour + 1 /\ HourLater(t).day = t.day
<1> USE WeekAssumption
<1>1. t.day \in 0 .. Days - 1 /\ t.hour \in 0 .. Hours - 1
  BY DEF HourOfWeek
<1>2. (t.day + 1) % Days = IF t.day = Days - 1 THEN 0 ELSE t.day + 1
  <2>1. CASE t.day = Days - 1
    <3>1. t.day + 1 = (Days * 1) + 0 /\ 0 \in 0 .. Days - 1 /\ t.day + 1 \in Int
      BY <1>1, <2>1
    <3> QED
      BY <2>1, <3>1, Remainder
  <2>2. CASE t.day # Days - 1
    <3>1. /\ t.day + 1 = (Days * 0) + (t.day + 1)
          /\ t.day + 1 \in 0 .. Days - 1 /\ t.day + 1 \in Int
      BY <1>1, <2>2
    <3> QED
      BY <2>2, <3>1, Remainder
  <2> QED
    BY <2>1, <2>2
<1> QED
  BY <1>1, <1>2 DEF HourLater, HourOfWeek

\* An hour later the next slot is an hour nearer, unless it has begun.
LEMMA SlotNearer ==
  ASSUME NEW t \in HourOfWeek, NEW weekday \in Int, NEW hour \in Int
  PROVE  LET u == HourLater(t)
             hours == Until(t, NextWeeklyRun(t, weekday, hour))
         IN  /\ hours \in Nat \ {0}
             /\ hours > 1 => Until(u, NextWeeklyRun(u, weekday, hour)) = hours - 1
<1> USE WeekAssumption
<1> DEFINE w == ValidDay(weekday)
           h == ValidHour(hour)
           u == HourLater(t)
           l == Lead(t, w, h)
           k == Lead(u, w, h)
           hours == Until(t, NextWeeklyRun(t, weekday, hour))
           later == Until(u, NextWeeklyRun(u, weekday, hour))
<1>1. t.day \in 0 .. Days - 1 /\ t.hour \in 0 .. Hours - 1
  BY DEF HourOfWeek
<1>2. w \in 0 .. Days - 1 /\ h \in 0 .. Hours - 1
  BY DEF ValidDay, ValidHour
<1>3. u \in HourOfWeek
  BY HourLaterType
<1>4. u.day \in 0 .. Days - 1 /\ u.hour \in 0 .. Hours - 1
  BY <1>3 DEF HourOfWeek
<1>5. hours = (l * Hours) + h - t.hour /\ later = (k * Hours) + h - u.hour
  BY <1>3, UntilIs
<1>6. l \in 0 .. Days /\ (l > 0 \/ h > t.hour)
  BY <1>2, LeadType
<1>7. /\ t.hour = Hours - 1 =>
           u.hour = 0 /\ u.day = IF t.day = Days - 1 THEN 0 ELSE t.day + 1
      /\ t.hour < Hours - 1 => u.hour = t.hour + 1 /\ u.day = t.day
  BY HourLaterType
<1>8. /\ l * Hours \in Nat
      /\ l > 0 => l * Hours = ((l - 1) * Hours) + Hours /\ (l - 1) * Hours \in Nat
      /\ 0 * Hours = 0
  BY <1>6, Product
<1>9. hours \in Nat \ {0}
  BY <1>1, <1>2, <1>5, <1>6, <1>8
<1>10. ASSUME t.hour < Hours - 1, hours > 1
       PROVE  later = hours - 1
  <2>1. l = k
    <3>1. u.hour = t.hour + 1 /\ u.day = t.day
      BY <1>7, <1>10
    <3>2. ~(Ahead(t, w) = 0 /\ h = t.hour + 1)
      <4>1. SUFFICES ASSUME Ahead(t, w) = 0, h = t.hour + 1
                     PROVE  FALSE
        OBVIOUS
      <4>2. l = 0
        BY <1>1, <4>1 DEF Lead
      <4> QED
        BY <1>1, <1>2, <1>5, <1>8, <1>10, <4>1, <4>2
    <3>3. Ahead(u, w) = Ahead(t, w)
      BY <3>1 DEF Ahead
    <3>4. Ahead(t, w) \in 0 .. Days - 1
      BY <1>1, <1>2 DEF Ahead
    <3>5. CASE Ahead(t, w) > 0
      BY <3>3, <3>5 DEF Lead
    <3>6. CASE Ahead(t, w) = 0
      <4>1. h > u.hour <=> h > t.hour
        BY <1>1, <1>2, <3>1, <3>2, <3>6
      <4> QED
        BY <3>3, <3>6, <4>1 DEF Lead
    <3> QED
      BY <3>4, <3>5, <3>6
  <2> QED
    BY <1>1, <1>2, <1>5, <1>7, <1>8, <1>10, <2>1
<1>11. ASSUME t.hour = Hours - 1, hours > 1
       PROVE  later = hours - 1
  <2>1. l > 0 /\ (l > 1 \/ h > 0)
    BY <1>1, <1>2, <1>5, <1>6, <1>8, <1>11
  <2>2. u.hour = 0 /\ u.day = IF t.day = Days - 1 THEN 0 ELSE t.day + 1
    BY <1>7, <1>11
  <2>3. l = IF Ahead(t, w) > 0 THEN Ahead(t, w) ELSE Days
    BY <1>1, <1>2, <1>11 DEF Lead
  <2>4. Ahead(u, w) = l - 1
    BY <1>1, <1>2, <2>2, <2>3 DEF Ahead
  <2>5. k = l - 1
    BY <1>6, <2>1, <2>2, <2>4 DEF Lead
  <2> QED
    BY <1>1, <1>2, <1>5, <1>6, <1>8, <1>11, <2>1, <2>2, <2>5
<1> QED
  BY <1>1, <1>9, <1>10, <1>11
-----------------------------------------------------------------------------
(* What runs is what the settings say *)

PlaceOK(loop) == \/ loop = Free
                 \/ loop.step # "free" /\ loop.interval > 0 /\ loop.tick > 0

\* A loop that is on time for a schedule, and one that is no longer to run.
OnTime(loop, sch) ==
  /\ loop.live /\ loop.interval = IncrementalHours(sch)
  /\ loop.step \notin {"full", "rearm"} /\ ~loop.fired => loop.full = FullIn(sch)

Canceled(loop) == [loop EXCEPT !.live = FALSE]

LEMMA FullInType ==
  ASSUME now \in HourOfWeek, NEW sch \in ScheduleRecord
  PROVE  FullIn(sch) \in Nat \ {0}
<1>1. sch.weekday \in Int /\ sch.hour \in Int
  BY DEF ScheduleRecord
<1> QED
  BY <1>1, SlotNearer DEF FullIn

LEMMA FreeType == Free \in LoopRecord /\ Free.live = FALSE /\ Free.fired = FALSE /\ Free.step = "free"
  BY DEF Free, LoopRecord

LEMMA NewLoopType ==
  ASSUME now \in HourOfWeek, NEW sch \in ScheduleRecord, Running(sch)
  PROVE  /\ NewLoop(sch) \in LoopRecord /\ PlaceOK(NewLoop(sch))
         /\ NewLoop(sch).live = TRUE /\ NewLoop(sch).fired = FALSE
         /\ NewLoop(sch).interval = IncrementalHours(sch)
         /\ NewLoop(sch).full = FullIn(sch) /\ NewLoop(sch).step = "select"
<1> DEFINE hours == IncrementalHours(sch)
           full  == FullIn(sch)
           base  == [Free EXCEPT !.step = "select", !.live = TRUE,
                                 !.interval = hours, !.tick = hours]
<1>1. hours \in Nat \ {0}
  BY DEF IncrementalHours, ScheduleRecord, Running
<1>2. full \in Nat \ {0} /\ (full = 0) = FALSE
  BY FullInType
<1>3. NewLoop(sch) = [base EXCEPT !.full = full, !.fired = FALSE]
  BY <1>2 DEF NewLoop, Arm
<1> HIDE DEF hours, full
<1>4. base \in LoopRecord
  BY <1>1, FreeType DEF LoopRecord
<1>5. /\ base.step = "select" /\ base.live = TRUE
      /\ base.interval = hours /\ base.tick = hours
  BY <1>1, FreeType DEF LoopRecord
<1> HIDE DEF base
<1>6. NewLoop(sch) \in LoopRecord
  BY <1>2, <1>3, <1>4 DEF LoopRecord
<1>7. /\ NewLoop(sch).step = "select" /\ NewLoop(sch).live = TRUE
      /\ NewLoop(sch).interval = hours /\ NewLoop(sch).tick = hours
      /\ NewLoop(sch).full = full /\ NewLoop(sch).fired = FALSE
  BY <1>3, <1>4, <1>5 DEF LoopRecord
<1> QED
  BY <1>1, <1>6, <1>7 DEF PlaceOK, hours, full

LEMMA CanceledType ==
  ASSUME NEW loop \in LoopRecord, PlaceOK(loop)
  PROVE  /\ Canceled(loop) \in LoopRecord /\ PlaceOK(Canceled(loop))
         /\ Canceled(loop).live = FALSE /\ Canceled(loop).fired = loop.fired
         /\ Canceled(loop).step = loop.step
<1>1. CASE loop = Free
  BY <1>1, FreeType DEF Canceled, PlaceOK, Free
<1>2. CASE loop # Free
  BY <1>2 DEF Canceled, PlaceOK, LoopRecord
<1> QED
  BY <1>1, <1>2
\* Start leaves the loop of the settings it was given, if they enable one, and
\* the others canceled: no matter what it finds, no timer fires twice for it.
LEMMA StartFollows ==
  ASSUME NEW found \in [Loop -> LoopRecord], NEW cancel \in Loop \cup {None},
         NEW sch \in ScheduleRecord,
         now \in HourOfWeek, nextFull \in Nat, nextIncr \in Int,
         \A l \in Loop : PlaceOK(found[l]),
         \A l \in Loop : found[l].live => l = cancel,
         \A l \in Loop : found[l].fired =>
           /\ found[l].step \notin {"full", "rearm"} /\ fulls = 0
           /\ \A k \in Loop : found[k].fired => k = l,
         now' = now, fulls' = fulls,
         StartLoop(found, cancel, sch)
  PROVE  /\ loops' \in [Loop -> LoopRecord] /\ current' \in Loop \cup {None}
         /\ nextFull' \in Nat /\ nextIncr' \in Int
         /\ OneLiveLoop' /\ PlacesInv' /\ FiredInv'
         /\ Running(sch) => /\ current' # None /\ nextFull' = FullIn(sch)
                            /\ OnTime(loops'[current'], sch)
         /\ ~Running(sch) => \A l \in Loop : ~loops'[l].live
<1> DEFINE canceled == [k \in Loop |-> IF k = cancel THEN Canceled(found[k]) ELSE found[k]]
<1>1. ASSUME NEW k \in Loop
      PROVE  /\ canceled[k] \in LoopRecord /\ PlaceOK(canceled[k])
             /\ canceled[k].live = FALSE /\ canceled[k].fired = found[k].fired
             /\ canceled[k].step = found[k].step
  <2>1. Canceled(found[k]) \in LoopRecord /\ PlaceOK(Canceled(found[k]))
        /\ Canceled(found[k]).live = FALSE /\ Canceled(found[k]).fired = found[k].fired
        /\ Canceled(found[k]).step = found[k].step
    BY CanceledType
  <2>2. CASE k = cancel
    BY <2>1, <2>2
  <2>3. CASE k # cancel
    <3>1. found[k] \in LoopRecord /\ found[k].live = FALSE
      BY <2>3 DEF LoopRecord
    <3> QED
      BY <2>3, <3>1
  <2> QED
    BY <2>2, <2>3
<1>2. canceled \in [Loop -> LoopRecord]
  BY <1>1
<1>3. StartLoop(found, cancel, sch) <=>
        \/ /\ ~Running(sch) /\ loops' = canceled /\ current' = cancel
           /\ UNCHANGED <<nextFull, nextIncr>>
        \/ /\ Running(sch)
           /\ \E l \in {k \in Loop : found[k] = Free} :
                loops' = [canceled EXCEPT ![l] = NewLoop(sch)] /\ current' = l
           /\ nextFull' = FullIn(sch) /\ nextIncr' = IncrementalHours(sch)
  BY DEF StartLoop, Canceled
<1> HIDE DEF canceled
<1>4. CASE ~Running(sch)
  <2>1. loops' = canceled /\ current' = cancel /\ UNCHANGED <<nextFull, nextIncr>>
    BY <1>3, <1>4
  <2>2. OneLiveLoop' /\ \A l \in Loop : ~loops'[l].live
    BY <1>1, <2>1 DEF OneLiveLoop
  <2>3. PlacesInv' /\ FiredInv'
    BY <1>1, <2>1 DEF PlacesInv, PlaceOK, FiredInv
  <2> QED
    BY <1>2, <1>4, <2>1, <2>2, <2>3
<1>5. CASE Running(sch)
  <2>1. PICK l \in Loop : /\ found[l] = Free
                          /\ loops' = [canceled EXCEPT ![l] = NewLoop(sch)] /\ current' = l
    BY <1>3, <1>5
  <2>2. nextFull' = FullIn(sch) /\ nextIncr' = IncrementalHours(sch)
    BY <1>3, <1>5
  <2>3. IncrementalHours(sch) \in Int
    BY DEF IncrementalHours, ScheduleRecord
  <2>4. /\ NewLoop(sch) \in LoopRecord /\ PlaceOK(NewLoop(sch))
        /\ NewLoop(sch).live = TRUE /\ NewLoop(sch).fired = FALSE
        /\ NewLoop(sch).interval = IncrementalHours(sch)
        /\ NewLoop(sch).full = FullIn(sch) /\ NewLoop(sch).step = "select"
    BY <1>5, NewLoopType
  <2>5. loops'[l] = NewLoop(sch) /\ \A k \in Loop \ {l} : loops'[k] = canceled[k]
    BY <1>2, <2>1
  <2>6. OneLiveLoop'
    BY <1>1, <2>1, <2>5 DEF OneLiveLoop
  <2>7. PlacesInv'
    BY <1>1, <2>4, <2>5 DEF PlacesInv, PlaceOK
  <2>8. FiredInv'
    <3> SUFFICES ASSUME NEW k \in Loop, loops'[k].fired
                 PROVE  /\ loops'[k].step \notin {"full", "rearm"} /\ fulls' = 0
                        /\ \A m \in Loop : loops'[m].fired => m = k
      BY DEF FiredInv
    <3>1. k # l /\ found[k].fired /\ loops'[k].step = found[k].step
      BY <1>1, <2>4, <2>5
    <3>2. ASSUME NEW m \in Loop, loops'[m].fired
          PROVE  found[m].fired
      BY <1>1, <2>4, <2>5, <3>2
    <3> QED
      BY <3>1, <3>2
  <2>9. OnTime(loops'[current'], sch)
    BY <2>1, <2>4, <2>5 DEF OnTime
  <2> QED
    BY <1>2, <1>5, <2>1, <2>2, <2>3, <2>4, <2>6, <2>7, <2>8, <2>9, SchedulerAssumption,
       FullInType
<1> QED
  BY <1>4, <1>5

\* What a step of a loop does to it, and to what is announced: its timer and
\* the next run are as they were, or as the settings say.
StepEffect(l, loop, new) ==
  /\ new \in LoopRecord /\ PlaceOK(new)
  /\ nextFull' \in Nat /\ nextIncr' \in Int /\ fulls' \in 0 .. 1
  /\ new.live => loop.live
  /\ loop.live =>
       /\ new.live /\ new.interval = loop.interval
       /\ \/ nextFull' = FullIn(memory.schedule)
          \/ /\ nextFull' = nextFull
             /\ new.step # "full" /\ ~new.fired => loop.step # "full" /\ ~loop.fired
       /\ new.step \notin {"full", "rearm"} /\ ~new.fired =>
            \/ new.full = FullIn(memory.schedule)
            \/ /\ new.full = loop.full
               /\ loop.step \notin {"full", "rearm"} /\ ~loop.fired
  /\ nextFull' \in {nextFull, FullIn(memory.schedule)}
  /\ new.fired => loop.fired /\ new.step \notin {"full", "rearm"}
  /\ fulls' = fulls \/ (loop.fired /\ ~new.fired)

LEMMA StepIs ==
  ASSUME NEW l \in Loop, SettingsInv, Inductive, LoopStep(l)
  PROVE  /\ UNCHANGED <<settingsVars, now, current>>
         /\ loops' = [loops EXCEPT ![l] = loops'[l]]
         /\ StepEffect(l, loops[l], loops'[l])
<1> DEFINE loop == loops[l]
           new  == loops'[l]
<1>1. /\ loops \in [Loop -> LoopRecord] /\ loop \in LoopRecord
      /\ nextFull \in Nat /\ nextIncr \in Int /\ fulls \in 0 .. 1
      /\ now \in HourOfWeek /\ memory.schedule \in ScheduleRecord
      /\ PlaceOK(loop)
  BY SchedulerAssumption
  DEF Inductive, SchedulerTypeOK, FullOncePerSlot, HourOfWeek, SettingsTypeOK, Config,
      PlacesInv, PlaceOK
<1>2. loop.fired => loop.step \notin {"full", "rearm"} /\ fulls = 0
  BY DEF Inductive, FiredInv
<1>3. FullIn(memory.schedule) \in Nat \ {0} /\ (FullIn(memory.schedule) = 0) = FALSE
  BY <1>1, FullInType
<1>4. IncrementalHours(memory.schedule) \in Int
  BY <1>1 DEF IncrementalHours, ScheduleRecord
<1>5. UNCHANGED <<settingsVars, now, current>>
  BY DEF LoopStep, Exit, TriggerFull, NoteFull, Rearm, TriggerIncremental, ReadHours,
         NoteIncremental
<1>6. loop.step # "free" => loop.interval > 0 /\ loop.tick > 0
  BY <1>1, FreeType DEF PlaceOK
<1>7. CASE Exit(l)
  <2>1. /\ new = Free /\ loops' = [loops EXCEPT ![l] = Free] /\ ~loop.live
        /\ UNCHANGED <<nextFull, nextIncr, fulls>>
    BY <1>1, <1>7 DEF Exit
  <2> HIDE DEF loop, new
  <2>2. StepEffect(l, loop, new)
    BY <1>1, <2>1, FreeType DEF PlaceOK, StepEffect
  <2> QED
    BY <1>1, <1>5, <2>1, <2>2 DEF loop, new
<1>8. CASE TriggerFull(l)
  <2>1. /\ new = [loop EXCEPT !.step = "full", !.fired = FALSE]
        /\ loops' = [loops EXCEPT ![l] = new]
        /\ loop.fired /\ loop.step = "select" /\ fulls' = fulls + 1
        /\ UNCHANGED <<nextFull, nextIncr>>
    BY <1>1, <1>8 DEF TriggerFull
  <2> HIDE DEF loop, new
  <2>2. /\ new \in LoopRecord /\ new.step = "full" /\ new.fired = FALSE
        /\ new.live = loop.live /\ new.interval = loop.interval /\ new.tick = loop.tick
    BY <1>1, <2>1 DEF LoopRecord
  <2>3. StepEffect(l, loop, new)
    BY <1>1, <1>2, <1>6, <2>1, <2>2 DEF PlaceOK, StepEffect
  <2> QED
    BY <1>1, <1>5, <2>1, <2>3 DEF loop, new
<1>9. CASE NoteFull(l)
  <2>1. /\ new = [loop EXCEPT !.step = "rearm"]
        /\ loops' = [loops EXCEPT ![l] = new]
        /\ loop.step = "full" /\ nextFull' = FullIn(memory.schedule)
        /\ UNCHANGED <<nextIncr, fulls>>
    BY <1>1, <1>9 DEF NoteFull
  <2> HIDE DEF loop, new
  <2>2. /\ new \in LoopRecord /\ new.step = "rearm" /\ new.fired = loop.fired
        /\ new.live = loop.live /\ new.interval = loop.interval /\ new.tick = loop.tick
    BY <1>1, <2>1 DEF LoopRecord
  <2>3. StepEffect(l, loop, new)
    BY <1>1, <1>2, <1>3, <1>6, <2>1, <2>2 DEF PlaceOK, StepEffect
  <2> QED
    BY <1>1, <1>5, <2>1, <2>3 DEF loop, new
<1>10. CASE Rearm(l)
  <2>1. /\ new = [[loop EXCEPT !.step = "select"] EXCEPT !.full = FullIn(memory.schedule),
                                                       !.fired = FALSE]
        /\ loops' = [loops EXCEPT ![l] = new]
        /\ loop.step = "rearm" /\ UNCHANGED <<nextFull, nextIncr, fulls>>
    BY <1>1, <1>3, <1>10 DEF Rearm, Arm
  <2> HIDE DEF loop, new
  <2>2. /\ new \in LoopRecord /\ new.step = "select" /\ new.fired = FALSE
        /\ new.live = loop.live /\ new.interval = loop.interval /\ new.tick = loop.tick
        /\ new.full = FullIn(memory.schedule)
    BY <1>1, <1>3, <2>1 DEF LoopRecord
  <2>3. loop.fired = FALSE
    BY <1>1, <1>2, <2>1 DEF LoopRecord, loop
  <2>4. StepEffect(l, loop, new)
    BY <1>1, <1>2, <1>3, <1>6, <2>1, <2>2, <2>3 DEF PlaceOK, StepEffect
  <2> QED
    BY <1>1, <1>5, <2>1, <2>4 DEF loop, new
<1>11. CASE TriggerIncremental(l)
  <2>1. /\ new = [loop EXCEPT !.step = "incr", !.ticked = FALSE]
        /\ loops' = [loops EXCEPT ![l] = new]
        /\ loop.step = "select" /\ UNCHANGED <<nextFull, nextIncr, fulls>>
    BY <1>1, <1>11 DEF TriggerIncremental
  <2> HIDE DEF loop, new
  <2>2. /\ new \in LoopRecord /\ new.step = "incr" /\ new.fired = loop.fired
        /\ new.live = loop.live /\ new.interval = loop.interval /\ new.tick = loop.tick
        /\ new.full = loop.full
    BY <1>1, <2>1 DEF LoopRecord
  <2>3. new.fired <=> loop.fired
    BY <2>2
  <2>4. nextIncr' \in Int
    BY <1>1, <2>1 DEF LoopRecord, loop
  <2>5. StepEffect(l, loop, new)
    BY <1>1, <1>2, <1>6, <2>1, <2>2, <2>3, <2>4 DEF PlaceOK, StepEffect
  <2> QED
    BY <1>1, <1>5, <2>1, <2>5 DEF loop, new
<1>12. CASE ReadHours(l)
  <2>1. /\ new = [loop EXCEPT !.step = "note", !.hours = IncrementalHours(memory.schedule)]
        /\ loops' = [loops EXCEPT ![l] = new]
        /\ loop.step = "incr" /\ UNCHANGED <<nextFull, nextIncr, fulls>>
    BY <1>1, <1>12 DEF ReadHours
  <2> HIDE DEF loop, new
  <2>2. /\ new \in LoopRecord /\ new.step = "note" /\ new.fired = loop.fired
        /\ new.live = loop.live /\ new.interval = loop.interval /\ new.tick = loop.tick
        /\ new.full = loop.full
    BY <1>1, <1>4, <2>1 DEF LoopRecord
  <2>3. new.fired <=> loop.fired
    BY <2>2
  <2>4. nextIncr' \in Int
    BY <1>1, <2>1 DEF LoopRecord, loop
  <2>5. StepEffect(l, loop, new)
    BY <1>1, <1>2, <1>6, <2>1, <2>2, <2>3, <2>4 DEF PlaceOK, StepEffect
  <2> QED
    BY <1>1, <1>5, <2>1, <2>5 DEF loop, new
<1>13. CASE NoteIncremental(l)
  <2>1. /\ new = [loop EXCEPT !.step = "select", !.hours = 0]
        /\ loops' = [loops EXCEPT ![l] = new]
        /\ loop.step = "note" /\ nextIncr' = loop.hours /\ UNCHANGED <<nextFull, fulls>>
    BY <1>1, <1>13 DEF NoteIncremental
  <2> HIDE DEF loop, new
  <2>2. /\ new \in LoopRecord /\ new.step = "select" /\ new.fired = loop.fired
        /\ new.live = loop.live /\ new.interval = loop.interval /\ new.tick = loop.tick
        /\ new.full = loop.full
    <3>1. \E hours \in Int : hours = 0
      OBVIOUS
    <3>2. PICK hours \in Int : new = [loop EXCEPT !.step = "select", !.hours = hours]
      BY <2>1, <3>1, Zenon
    <3> QED
      BY <1>1, <3>2 DEF LoopRecord
  <2>3. new.fired <=> loop.fired
    BY <2>2
  <2>4. nextIncr' \in Int
    BY <1>1, <2>1 DEF LoopRecord, loop
  <2>5. StepEffect(l, loop, new)
    BY <1>1, <1>2, <1>6, <2>1, <2>2, <2>3, <2>4 DEF PlaceOK, StepEffect
  <2> QED
    BY <1>1, <1>5, <2>1, <2>5 DEF loop, new
<1> QED
  BY <1>7, <1>8, <1>9, <1>10, <1>11, <1>12, <1>13 DEF LoopStep
IInv == SettingsInv /\ Inductive

LEMMA StepNext ==
  ASSUME NEW l \in Loop, IInv, LoopStep(l)
  PROVE  Inductive'
<1> DEFINE loop == loops[l]
           new  == loops'[l]
<1>1. /\ UNCHANGED <<settingsVars, now, current>>
      /\ loops' = [loops EXCEPT ![l] = new]
      /\ StepEffect(l, loop, new)
  BY StepIs DEF IInv
<1>2. /\ SchedulerTypeOK /\ OneLiveLoop /\ PlacesInv /\ FiredInv /\ FullOncePerSlot
      /\ LoopFollowsSettings /\ AnnouncedInv
  BY DEF IInv, Inductive
<1>3. loops \in [Loop -> LoopRecord]
  BY <1>2 DEF SchedulerTypeOK
<1>4. /\ \A k \in Loop \ {l} : loops'[k] = loops[k]
      /\ new \in LoopRecord /\ PlaceOK(new)
      /\ new.live => loop.live
      /\ fulls' = fulls \/ (loop.fired /\ ~new.fired)
      /\ new.fired => loop.fired /\ new.step \notin {"full", "rearm"}
  BY <1>1, <1>3 DEF StepEffect
<1>5. memory' = memory /\ spc' = spc /\ unsaved' = unsaved /\ now' = now
      /\ SettingsTypeOK'
  BY <1>1, <1>2 DEF settingsVars, SchedulerTypeOK, SettingsTypeOK
<1>6. nextFull' \in Nat /\ nextIncr' \in Int /\ fulls' \in 0 .. 1
  BY <1>1 DEF StepEffect
<1> HIDE DEF loop, new
<1>7. SchedulerTypeOK'
  BY <1>1, <1>2, <1>3, <1>4, <1>5, <1>6 DEF SchedulerTypeOK
<1>8. OneLiveLoop'
  BY <1>1, <1>2, <1>3, <1>4 DEF OneLiveLoop, loop, new
<1>9. PlacesInv'
  BY <1>2, <1>4 DEF PlacesInv, PlaceOK, loop, new
<1>10. FullOncePerSlot'
  BY <1>6 DEF FullOncePerSlot
<1>11. FiredInv'
  <2> SUFFICES ASSUME NEW k \in Loop, loops'[k].fired
               PROVE  /\ loops'[k].step \notin {"full", "rearm"} /\ fulls' = 0
                      /\ \A m \in Loop : loops'[m].fired => m = k
    BY DEF FiredInv
  <2>1. loops[k].fired /\ loops'[k].step \notin {"full", "rearm"}
    BY <1>2, <1>4 DEF FiredInv, loop, new
  <2>2. fulls = 0 /\ \A m \in Loop : loops[m].fired => m = k
    BY <1>2, <2>1 DEF FiredInv
  <2>3. fulls' = fulls
    BY <1>4, <2>2 DEF loop, new
  <2>4. ASSUME NEW m \in Loop, loops'[m].fired
        PROVE  m = k
    BY <1>4, <2>2, <2>4 DEF loop, new
  <2> QED
    BY <2>1, <2>2, <2>3, <2>4
<1>12. LoopFollowsSettings'
  <2> SUFFICES ASSUME Settled'
               PROVE  LoopFollowsSettings'
    BY DEF LoopFollowsSettings
  <2>1. Settled
    BY <1>5 DEF Settled
  <2>2. CASE ~Running(memory.schedule)
    <3>1. \A k \in Loop : ~loops[k].live
      BY <1>2, <2>1, <2>2 DEF LoopFollowsSettings
    <3>2. \A k \in Loop : ~loops'[k].live
      BY <1>4, <3>1 DEF loop, new
    <3> QED
      BY <1>5, <2>2, <3>2 DEF LoopFollowsSettings
  <2>3. CASE Running(memory.schedule)
    <3>1. current # None /\ OnTime(loops[current], memory.schedule)
      BY <1>2, <2>1, <2>3 DEF LoopFollowsSettings, OnTime
    <3>2. current' = current /\ current \in Loop
      BY <1>1, <1>2, <3>1 DEF SchedulerTypeOK
    <3>3. /\ loops'[current].live
          /\ loops'[current].interval = IncrementalHours(memory.schedule)
          /\ loops'[current].step \notin {"full", "rearm"} /\ ~loops'[current].fired
               => loops'[current].full = FullIn(memory.schedule)
      <4>1. CASE current # l
        BY <1>4, <3>1, <3>2, <4>1 DEF OnTime
      <4>2. CASE current = l
        BY <1>1, <3>1, <4>2 DEF OnTime, StepEffect, loop, new
      <4> QED
        BY <4>1, <4>2
    <3> QED
      BY <1>5, <2>3, <3>1, <3>2, <3>3 DEF LoopFollowsSettings, FullIn
  <2> QED
    BY <2>2, <2>3
<1>13. AnnouncedInv'
  <2> SUFFICES ASSUME Settled', Running(memory'.schedule),
                      loops'[current'].step # "full", ~loops'[current'].fired
               PROVE  nextFull' = FullIn(memory.schedule)'
    BY DEF AnnouncedInv
  <2>1. Settled /\ Running(memory.schedule)
    BY <1>5 DEF Settled
  <2>2. current' = current /\ current \in Loop /\ loops[current].live
    BY <1>1, <1>2, <2>1 DEF SchedulerTypeOK, LoopFollowsSettings
  <2>3. nextFull' = FullIn(memory.schedule)
    <3>1. CASE current # l
      <4>1. nextFull = FullIn(memory.schedule)
        BY <1>2, <1>4, <2>1, <2>2, <3>1 DEF AnnouncedInv
      <4> QED
        BY <1>1, <4>1 DEF StepEffect
    <3>2. CASE current = l
      BY <1>1, <1>2, <2>1, <2>2, <3>2 DEF AnnouncedInv, StepEffect, loop, new
    <3> QED
      BY <3>1, <3>2
  <2> QED
    BY <1>5, <2>3 DEF FullIn
<1> QED
  BY <1>7, <1>8, <1>9, <1>10, <1>11, <1>12, <1>13 DEF Inductive
\* A loop at rest an hour later.
LEMMA RestIs ==
  ASSUME NEW loop \in LoopRecord, PlaceOK(loop),
         loop = Free \/ (loop.step = "select" /\ loop.live /\ ~loop.fired)
  PROVE  LET new == LoopAnHourLater(loop)
         IN  /\ new \in LoopRecord /\ PlaceOK(new)
             /\ new.live = loop.live /\ new.step = loop.step /\ new.interval = loop.interval
             /\ new.fired => loop.live
             /\ loop.live /\ ~new.fired /\ loop.full > 0 =>
                  loop.full > 1 /\ new.full = loop.full - 1
<1> DEFINE new == LoopAnHourLater(loop)
<1>1. CASE loop = Free
  <2>1. new = loop
    BY <1>1, FreeType DEF LoopAnHourLater
  <2> QED
    BY <1>1, <2>1, FreeType
<1>2. CASE loop # Free /\ loop.step = "select" /\ loop.live /\ ~loop.fired
  <2>1. loop.interval \in Nat \ {0} /\ loop.tick \in Nat \ {0} /\ loop.full \in Nat
    BY <1>2 DEF PlaceOK, LoopRecord
  <2>2. PICK tick \in Nat : tick = IF loop.tick = 1 THEN loop.interval ELSE loop.tick - 1
    BY <2>1
  <2>3. PICK full \in Nat : full = Sooner(loop.full)
    BY <2>1 DEF Sooner
  <2>4. PICK fired \in BOOLEAN : fired = (loop.full = 1)
    OBVIOUS
  <2>5. PICK ticked \in BOOLEAN : ticked = (loop.tick = 1)
    OBVIOUS
  <2>6. new = [loop EXCEPT !.tick = tick, !.ticked = ticked, !.full = full, !.fired = fired]
    BY <1>2, <2>2, <2>3, <2>4, <2>5 DEF LoopAnHourLater
  <2>7. new \in LoopRecord
    BY <2>6 DEF LoopRecord
  <2>8. /\ new.step = loop.step /\ new.live = loop.live /\ new.interval = loop.interval
        /\ new.tick = tick /\ new.full = full /\ new.fired = fired
    BY <2>6 DEF LoopRecord
  <2>9. tick > 0
    BY <2>1, <2>2
  <2>10. fired <=> loop.full = 1
    BY <2>4
  <2> HIDE DEF new
  <2>11. PlaceOK(new)
    BY <1>2, <2>1, <2>8, <2>9 DEF PlaceOK
  <2>12. loop.full > 0 /\ ~new.fired => loop.full > 1 /\ new.full = loop.full - 1
    BY <2>1, <2>3, <2>8, <2>10 DEF Sooner
  <2> QED
    BY <1>2, <2>7, <2>8, <2>11, <2>12 DEF new
<1> QED
  BY <1>1, <1>2

LEMMA HourNext ==
  ASSUME IInv, HourPasses
  PROVE  Inductive'
<1>1. /\ SchedulerTypeOK /\ OneLiveLoop /\ PlacesInv
      /\ LoopFollowsSettings /\ AnnouncedInv
  BY DEF IInv, Inductive
<1>2. /\ loops \in [Loop -> LoopRecord] /\ now \in HourOfWeek /\ nextFull \in Nat
      /\ nextIncr \in Int /\ memory.schedule \in ScheduleRecord
  BY <1>1, SchedulerAssumption DEF SchedulerTypeOK, HourOfWeek, SettingsTypeOK, Config
<1>3. /\ now' = HourLater(now) /\ fulls' = 0
      /\ loops' = [l \in Loop |-> LoopAnHourLater(loops[l])]
      /\ nextFull' = Sooner(nextFull) /\ nextIncr' = Sooner(nextIncr)
      /\ memory' = memory /\ spc' = spc /\ unsaved' = unsaved /\ current' = current
      /\ UNCHANGED settingsVars
  BY DEF HourPasses, HourLater, settingsVars
<1>4. ASSUME NEW l \in Loop
      PROVE  LET loop == loops[l]
                 new  == loops'[l]
             IN  /\ loop = Free \/ (loop.step = "select" /\ loop.live /\ ~loop.fired)
                 /\ new \in LoopRecord /\ PlaceOK(new)
                 /\ new.live = loop.live /\ new.step = loop.step
                 /\ new.interval = loop.interval
                 /\ new.fired => loop.live
                 /\ loop.live /\ ~new.fired /\ loop.full > 0 =>
                      loop.full > 1 /\ new.full = loop.full - 1
  <2>1. loops[l] \in LoopRecord /\ PlaceOK(loops[l])
    BY <1>1, <1>2 DEF PlacesInv, PlaceOK
  <2>2. loops[l] = Free
          \/ (loops[l].step = "select" /\ loops[l].live /\ ~loops[l].fired)
    BY <2>1 DEF HourPasses, AtRest, PlaceOK
  <2>3. loops'[l] = LoopAnHourLater(loops[l])
    BY <1>3
  <2> QED
    BY <2>1, <2>2, <2>3, RestIs
<1>5. SchedulerTypeOK'
  <2>1. loops' \in [Loop -> LoopRecord]
    BY <1>3, <1>4
  <2>2. now' \in HourOfWeek
    BY <1>2, <1>3, HourLaterType
  <2>3. nextFull' \in Nat /\ nextIncr' \in Int /\ fulls' \in Nat
    BY <1>2, <1>3 DEF Sooner
  <2>4. SettingsTypeOK' /\ current' \in Loop \cup {None}
    BY <1>1, <1>3 DEF SchedulerTypeOK, SettingsTypeOK, settingsVars
  <2> QED
    BY <2>1, <2>2, <2>3, <2>4 DEF SchedulerTypeOK, HourOfWeek
<1>6. OneLiveLoop'
  BY <1>1, <1>3, <1>4 DEF OneLiveLoop
<1>7. PlacesInv'
  BY <1>4 DEF PlacesInv, PlaceOK
<1>8. FullOncePerSlot'
  BY <1>3 DEF FullOncePerSlot
<1>9. FiredInv'
  <2> SUFFICES ASSUME NEW k \in Loop, loops'[k].fired
               PROVE  /\ loops'[k].step \notin {"full", "rearm"} /\ fulls' = 0
                      /\ \A m \in Loop : loops'[m].fired => m = k
    BY DEF FiredInv
  <2>1. loops[k].live /\ loops'[k].step = loops[k].step
    BY <1>4
  <2>2. loops[k].step = "select"
    BY <1>4, <2>1, FreeType
  <2>3. ASSUME NEW m \in Loop, loops'[m].fired
        PROVE  m = k
    BY <1>1, <1>4, <2>1, <2>3 DEF OneLiveLoop
  <2> QED
    BY <1>3, <2>1, <2>2, <2>3
<1>10. ASSUME Settled', Running(memory.schedule)
       PROVE  /\ current \in Loop /\ loops'[current].live
              /\ loops'[current].interval = IncrementalHours(memory.schedule)
              /\ ~loops'[current].fired => /\ loops'[current].full = FullIn(memory.schedule)'
                                           /\ nextFull' = FullIn(memory.schedule)'
  <2> DEFINE sch  == memory.schedule
             full == Until(now, NextWeeklyRun(now, sch.weekday, sch.hour))
             next == Until(now', NextWeeklyRun(now', sch.weekday, sch.hour))
  <2>1. Settled
    BY <1>3, <1>10 DEF Settled
  <2>2. current \in Loop /\ OnTime(loops[current], sch)
    BY <1>1, <1>10, <2>1 DEF LoopFollowsSettings, OnTime, SchedulerTypeOK
  <2>3. loops[current].live /\ loops[current].interval = IncrementalHours(sch)
    BY <2>2 DEF OnTime
  <2>4. loops[current].step = "select" /\ ~loops[current].fired
    BY <1>4, <2>2, <2>3, FreeType
  <2>5. loops[current].full = full
    BY <2>2, <2>4 DEF OnTime, FullIn
  <2>6. nextFull = full
    BY <1>1, <1>10, <2>1, <2>4 DEF AnnouncedInv, FullIn
  <2>7. full \in Nat \ {0} /\ (full > 1 => next = full - 1)
    <3>1. sch.weekday \in Int /\ sch.hour \in Int
      BY <1>2 DEF ScheduleRecord
    <3> QED
      BY <1>2, <1>3, <3>1, SlotNearer
  <2>8. next = FullIn(memory.schedule)'
    BY <1>3 DEF FullIn
  <2> HIDE DEF full, next
  <2>9. ~loops'[current].fired => full > 1 /\ loops'[current].full = full - 1
    BY <1>4, <2>2, <2>3, <2>5, <2>7
  <2>10. full > 1 => nextFull' = full - 1
    BY <1>3, <2>6, <2>7 DEF Sooner
  <2>11. loops'[current].live /\ loops'[current].interval = IncrementalHours(sch)
    BY <1>4, <2>2, <2>3
  <2> QED
    BY <2>2, <2>7, <2>8, <2>9, <2>10, <2>11
<1>11. LoopFollowsSettings'
  <2>1. CASE Settled' /\ Running(memory.schedule)
    BY <1>3, <1>10, <2>1, SchedulerAssumption DEF LoopFollowsSettings
  <2>2. CASE Settled' /\ ~Running(memory.schedule)
    <3>1. \A l \in Loop : ~loops[l].live
      BY <1>1, <1>3, <2>2 DEF LoopFollowsSettings, Settled
    <3> QED
      BY <1>3, <1>4, <2>2, <3>1 DEF LoopFollowsSettings
  <2>3. CASE ~Settled'
    BY <2>3 DEF LoopFollowsSettings
  <2> QED
    BY <2>1, <2>2, <2>3
<1>12. AnnouncedInv'
  BY <1>3, <1>10 DEF AnnouncedInv
<1> QED
  BY <1>5, <1>6, <1>7, <1>8, <1>9, <1>11, <1>12 DEF Inductive
\* After a Start on the settings in memory, whatever it found.
LEMMA StartNext ==
  ASSUME NEW found \in [Loop -> LoopRecord], NEW cancel \in Loop \cup {None},
         SettingsTypeOK', now \in HourOfWeek, nextFull \in Nat, nextIncr \in Int,
         fulls \in 0 .. 1,
         \A l \in Loop : PlaceOK(found[l]),
         \A l \in Loop : found[l].live => l = cancel,
         \A l \in Loop : found[l].fired =>
           /\ found[l].step \notin {"full", "rearm"} /\ fulls = 0
           /\ \A k \in Loop : found[k].fired => k = l,
         now' = now, fulls' = fulls,
         StartLoop(found, cancel, memory'.schedule)
  PROVE  Inductive'
<1>1. memory'.schedule \in ScheduleRecord
  BY SchedulerAssumption DEF SettingsTypeOK, Config
<1> DEFINE sch == memory'.schedule
<1>2. /\ loops' \in [Loop -> LoopRecord] /\ current' \in Loop \cup {None}
      /\ nextFull' \in Nat /\ nextIncr' \in Int
      /\ OneLiveLoop' /\ PlacesInv' /\ FiredInv'
      /\ Running(sch) => /\ current' # None /\ nextFull' = FullIn(sch)
                         /\ OnTime(loops'[current'], sch)
      /\ ~Running(sch) => \A l \in Loop : ~loops'[l].live
  <2>1. PICK s \in ScheduleRecord : s = memory'.schedule
    BY <1>1
  <2>2. StartLoop(found, cancel, s)
    BY <2>1
  <2>3. /\ loops' \in [Loop -> LoopRecord] /\ current' \in Loop \cup {None}
        /\ nextFull' \in Nat /\ nextIncr' \in Int
        /\ OneLiveLoop' /\ PlacesInv' /\ FiredInv'
        /\ Running(s) => /\ current' # None /\ nextFull' = FullIn(s)
                         /\ OnTime(loops'[current'], s)
        /\ ~Running(s) => \A l \in Loop : ~loops'[l].live
    BY <2>2, StartFollows
  <2> QED
    BY <2>1, <2>3
<1>3. SchedulerTypeOK'
  BY <1>2 DEF SchedulerTypeOK, HourOfWeek
<1>4. FullOncePerSlot'
  BY DEF FullOncePerSlot
<1>5. FullIn(sch) = FullIn(memory.schedule)'
  BY DEF FullIn
<1>6. LoopFollowsSettings'
  BY <1>2, <1>5 DEF LoopFollowsSettings, OnTime
<1>7. AnnouncedInv'
  BY <1>2, <1>5 DEF AnnouncedInv
<1> QED
  BY <1>2, <1>3, <1>4, <1>6, <1>7 DEF Inductive

LEMMA RestartNext ==
  ASSUME NEW s \in Saver, IInv, Restart(s), SettingsInv'
  PROVE  Inductive'
<1>1. /\ loops \in [Loop -> LoopRecord] /\ now \in HourOfWeek /\ nextFull \in Nat
      /\ nextIncr \in Int /\ current \in Loop \cup {None} /\ fulls \in 0 .. 1
  BY DEF IInv, Inductive, SchedulerTypeOK, HourOfWeek, FullOncePerSlot
<1>2. /\ \A l \in Loop : PlaceOK(loops[l])
      /\ \A l \in Loop : loops[l].live => l = current
      /\ \A l \in Loop : loops[l].fired =>
           /\ loops[l].step \notin {"full", "rearm"} /\ fulls = 0
           /\ \A k \in Loop : loops[k].fired => k = l
  BY DEF IInv, Inductive, PlacesInv, PlaceOK, OneLiveLoop, FiredInv
<1>3. StartLoop(loops, current, memory'.schedule) /\ now' = now /\ fulls' = fulls
  BY DEF Restart, Answer
<1> QED
  BY <1>1, <1>2, <1>3, StartNext DEF SettingsInv

LEMMA RebootNext ==
  ASSUME IInv, Reboot, SettingsInv'
  PROVE  Inductive'
<1> DEFINE found == [k \in Loop |-> Free]
<1>1. /\ now \in HourOfWeek /\ nextFull \in Nat /\ nextIncr \in Int /\ fulls \in 0 .. 1
  BY DEF IInv, Inductive, SchedulerTypeOK, HourOfWeek, FullOncePerSlot
<1>2. /\ found \in [Loop -> LoopRecord]
      /\ \A l \in Loop : found[l] = Free
  BY FreeType
<1>3. StartLoop(found, None, memory'.schedule) /\ now' = now /\ fulls' = fulls
  BY DEF Reboot
<1> HIDE DEF found
<1>4. /\ \A l \in Loop : PlaceOK(found[l])
      /\ \A l \in Loop : ~found[l].live /\ ~found[l].fired
  BY <1>2, FreeType DEF PlaceOK
<1> QED
  BY <1>1, <1>2, <1>3, <1>4, StartNext DEF SettingsInv

LEMMA SaveNext ==
  ASSUME NEW s \in Saver, IInv, Save(s), UNCHANGED schedVars, SettingsInv'
  PROVE  Inductive'
<1>1. /\ now' = now /\ loops' = loops /\ current' = current /\ nextFull' = nextFull
      /\ nextIncr' = nextIncr /\ fulls' = fulls
  BY DEF schedVars
<1>2. SettingsTypeOK /\ SettingsTypeOK'
  BY DEF IInv, SettingsInv
<1>3. Settled' => Settled /\ memory' = memory
  <2>1. ASSUME NEW c, spc' = [spc EXCEPT ![s] = c], c # "restart", spc[s] # "restart",
               unsaved' = unsaved, Settled'
        PROVE  Settled
    BY <1>2, <2>1 DEF Settled, SettingsTypeOK
  <2>2. CASE Decode(s)
    BY <1>2, <2>2 DEF Decode, Settled, SettingsTypeOK
  <2>3. CASE KeepToken(s)
    BY <2>1, <2>3 DEF KeepToken
  <2>4. CASE Update(s)
    BY <1>2, <2>4 DEF Update, Settled, SettingsTypeOK
  <2> QED
    BY <2>2, <2>3, <2>4 DEF Save
<1>4. SchedulerTypeOK'
  BY <1>1, <1>2 DEF IInv, Inductive, SchedulerTypeOK
<1>5. OneLiveLoop' /\ PlacesInv' /\ FiredInv' /\ FullOncePerSlot'
  BY <1>1 DEF IInv, Inductive, OneLiveLoop, PlacesInv, FiredInv, FullOncePerSlot
<1>6. LoopFollowsSettings' /\ AnnouncedInv'
  BY <1>1, <1>3 DEF IInv, Inductive, LoopFollowsSettings, AnnouncedInv, FullIn
<1> QED
  BY <1>4, <1>5, <1>6 DEF Inductive

LEMMA InductiveNext == IInv /\ [Next]_vars => IInv'
<1> SUFFICES ASSUME IInv, [Next]_vars
             PROVE  IInv'
  OBVIOUS
<1>1. SettingsInv'
  <2>1. [SettingsNext]_settingsVars
    BY StepAlone
  <2> QED
    BY <2>1, SettingsStep DEF IInv
<1>2. CASE HourPasses
  BY <1>1, <1>2, HourNext DEF IInv
<1>3. ASSUME NEW l \in Loop, LoopStep(l)
      PROVE  IInv'
  BY <1>1, <1>3, StepNext DEF IInv
<1>4. ASSUME NEW s \in Saver, Save(s), UNCHANGED schedVars
      PROVE  IInv'
  BY <1>1, <1>4, SaveNext DEF IInv
<1>5. ASSUME NEW s \in Saver, Restart(s)
      PROVE  IInv'
  BY <1>1, <1>5, RestartNext DEF IInv
<1>6. CASE Reboot
  BY <1>1, <1>6, RebootNext DEF IInv
<1>7. CASE UNCHANGED vars
  BY <1>1, <1>7
  DEF IInv, Inductive, vars, schedVars, settingsVars, SchedulerTypeOK, SettingsTypeOK,
      OneLiveLoop, PlacesInv, FiredInv, FullOncePerSlot, LoopFollowsSettings,
      AnnouncedInv, Settled, FullIn
<1> QED
  BY <1>2, <1>3, <1>4, <1>5, <1>6, <1>7 DEF Next, Quietly

LEMMA InductiveInit == Init => IInv
<1> SUFFICES ASSUME Init
             PROVE  IInv
  OBVIOUS
<1> DEFINE sch == DefaultSchedule
<1>1. SettingsInv /\ memory.schedule = sch /\ sch \in ScheduleRecord
  BY SettingsStart, SettingsAssumption, SchedulerAssumption
  DEF Init, SettingsInit, DefaultConfig
<1>2. now \in HourOfWeek /\ fulls = 0
  BY WeekAssumption DEF Init, HourOfWeek
<1>3. CASE Running(sch)
  <2>1. PICK l \in Loop :
          /\ loops = [k \in Loop |-> IF k = l THEN NewLoop(sch) ELSE Free]
          /\ current = l /\ nextFull = FullIn(sch) /\ nextIncr = IncrementalHours(sch)
    BY <1>3 DEF Init
  <2>2. /\ NewLoop(sch) \in LoopRecord /\ PlaceOK(NewLoop(sch))
        /\ NewLoop(sch).live = TRUE /\ NewLoop(sch).fired = FALSE
        /\ NewLoop(sch).interval = IncrementalHours(sch)
        /\ NewLoop(sch).full = FullIn(sch) /\ NewLoop(sch).step = "select"
    BY <1>1, <1>2, <1>3, NewLoopType
  <2>3. loops[l] = NewLoop(sch) /\ \A k \in Loop \ {l} : loops[k] = Free
    BY <2>1
  <2>4. IncrementalHours(sch) \in Int /\ FullIn(sch) \in Nat
    BY <1>1, <1>2, FullInType DEF IncrementalHours, ScheduleRecord
  <2>5. SchedulerTypeOK
    BY <1>1, <1>2, <2>1, <2>2, <2>4, FreeType
    DEF SchedulerTypeOK, SettingsInv, HourOfWeek
  <2>6. OneLiveLoop /\ PlacesInv /\ FiredInv /\ FullOncePerSlot
    BY <1>2, <2>1, <2>2, <2>3, FreeType
    DEF OneLiveLoop, PlacesInv, PlaceOK, FiredInv, FullOncePerSlot
  <2>7. LoopFollowsSettings /\ AnnouncedInv
    BY <1>1, <1>3, <2>1, <2>2, <2>3, SchedulerAssumption
    DEF LoopFollowsSettings, AnnouncedInv
  <2> QED
    BY <1>1, <2>5, <2>6, <2>7 DEF IInv, Inductive
<1>4. CASE ~Running(sch)
  <2>1. /\ loops = [k \in Loop |-> Free] /\ current = None
        /\ nextFull = 0 /\ nextIncr = 0
    BY <1>4 DEF Init
  <2>2. SchedulerTypeOK
    BY <1>1, <1>2, <2>1, FreeType DEF SchedulerTypeOK, SettingsInv, HourOfWeek
  <2>3. OneLiveLoop /\ PlacesInv /\ FiredInv /\ FullOncePerSlot
    BY <1>2, <2>1, FreeType DEF OneLiveLoop, PlacesInv, FiredInv, FullOncePerSlot
  <2>4. LoopFollowsSettings /\ AnnouncedInv
    BY <1>1, <1>4, <2>1, FreeType DEF LoopFollowsSettings, AnnouncedInv
  <2> QED
    BY <1>1, <2>2, <2>3, <2>4 DEF IInv, Inductive
<1> QED
  BY <1>3, <1>4

\* The loop that runs is one for the settings in effect, on time for their
\* next slot, what Status announces is that slot, and no slot has two full
\* backups (scheduler.go, Start, run and runFullBackup): through any order of
\* saves, restarts, failed writes and deaths of the process, for any week,
\* any number of requests and loops, and any schedules.
THEOREM LoopTrue == Spec => []LoopExplained
<1>1. Spec => []IInv
  BY InductiveInit, InductiveNext, PTL DEF Spec
<1>2. ASSUME IInv
      PROVE  LoopExplained
  <2>1. /\ LoopFollowsSettings /\ AnnouncedInv /\ FullOncePerSlot /\ SchedulerTypeOK
    BY <1>2 DEF IInv, Inductive
  <2>2. FullAnnounced
    BY <2>1 DEF LoopFollowsSettings, AnnouncedInv, FullAnnounced
  <2> QED
    BY <2>1, <2>2 DEF LoopExplained
<1> QED
  BY <1>1, <1>2, PTL

\* The types of the settings, of the loops and of what they announce: no timer
\* is set to an hour that is past (nextWeeklyRun), and the mask of the token is
\* never stored (settings.go 43).
THEOREM LoopTyped == Spec => []SchedulerTypeOK
<1>1. Spec => []IInv
  BY InductiveInit, InductiveNext, PTL DEF Spec
<1>2. IInv => SchedulerTypeOK
  BY DEF IInv, Inductive
<1> QED
  BY <1>1, <1>2, PTL

\* A restart brings back the settings in effect, unless a write had failed or
\* was under way (NewConfigStore, load), with the scheduler beside the store.
THEOREM RestartsKeep == Spec => RestartKeepsSettings
<1>1. ASSUME SettingsInv, Crash, ~unsaved, \A s \in Saver : spc[s] \notin Writing
      PROVE  memory' = memory
  <2>1. PICK file \in {disk} : Load(file)
    BY <1>1 DEF Crash
  <2>2. disk = memory /\ disk \in Config /\ disk # Torn
    BY <1>1, ConfigIsRequest DEF SettingsInv, MemoryIsSaved, SettingsTypeOK
  <2>3. Normal(disk) = disk
    BY <1>1, <2>2, NormalType DEF SettingsInv, FileIsNormal
  <2> QED
    BY <2>1, <2>2, <2>3 DEF Load
<1>2. SettingsSpec => []SettingsInv
  BY SettingsStart, SettingsStep, PTL DEF SettingsSpec
<1>3. SettingsInv /\ [SettingsNext]_settingsVars =>
        [Crash /\ ~unsaved /\ (\A s \in Saver : spc[s] \notin Writing)
           => memory' = memory]_settingsVars
  BY <1>1
<1>4. SettingsSpec => RestartKeepsSettings
  BY <1>2, <1>3, PTL DEF SettingsSpec, RestartKeepsSettings
<1> QED
  BY <1>4, SettingsAlone, PTL
=============================================================================
