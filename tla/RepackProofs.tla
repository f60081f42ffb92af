---------------------------- MODULE RepackProofs ----------------------------
(***************************************************************************)
(* Theorems about pg_repack, for every set of runs and cancel requests and *)
(* every maxJobs: two cancel requests may race each other, any number of   *)
(* runs may be started at once, and jobs may be evicted as they run.       *)
(***************************************************************************)
EXTENDS Repack, JobStoreProofs

LEMMA InductiveInit == ASSUME Init PROVE Inductive
<1>1. StoreTypeOK
  BY DEF Init, StoreInit, StoreTypeOK
<1>2. TypeOK
  BY <1>1 DEF Init, TypeOK
<1> QED
  BY <1>2 DEF Init, StoreInit, Inductive, RepackExplained, PointerLive,
              JobSettled, StatusTruth, SettleInv
-----------------------------------------------------------------------------
(* Type correctness *)

LEMMA TypeNext == ASSUME TypeOK, [Next]_vars PROVE TypeOK'
<1> USE RepackAssumption DEF Goto, Active, storeVars
<1>0. StoreTypeOK
  BY DEF TypeOK
<1>1. ASSUME NEW r \in Run, Check(r) \/ Refuse(r) \/ SetRunning(r) \/ Exec(r)
                            \/ ProcessExits(r) \/ Waited(r) \/ ClearRunning(r)
      PROVE  TypeOK'
  <2>1. StoreTypeOK'
    BY <1>0, <1>1
    DEF Check, Refuse, SetRunning, Exec, ProcessExits, Waited, ClearRunning,
        StoreTypeOK
  <2> QED
    BY <1>1, <2>1
    DEF Check, Refuse, SetRunning, Exec, ProcessExits, Waited, ClearRunning,
        TypeOK
<1>2. ASSUME NEW r \in Run, StartJob(r) PROVE TypeOK'
  <2>1. StoreTypeOK'
    BY <1>0, <1>2, StartType DEF StartJob
  <2> QED
    BY <1>2, <2>1 DEF StartJob, TypeOK
<1>3. ASSUME NEW r \in Run, MarkRunning(r) PROVE TypeOK'
  <2>1. StoreTypeOK'
    BY <1>0, <1>3, UpdateType DEF MarkRunning, StoreTypeOK
  <2> QED
    BY <1>3, <2>1 DEF MarkRunning, TypeOK
<1>4. ASSUME NEW r \in Run, Judge(r) \/ FailJob(r) PROVE TypeOK'
  <2>1. StoreTypeOK'
    BY <1>0, <1>4, FinishType DEF Judge, FailJob, StoreTypeOK, Terminal
  <2> QED
    BY <1>4, <2>1 DEF Judge, FailJob, TypeOK
<1>5. ASSUME NEW c \in Canceler, ReadRunning(c) \/ ClearCanceled(c)
      PROVE  TypeOK'
  BY <1>0, <1>5 DEF ReadRunning, ClearCanceled, TypeOK, StoreTypeOK
<1>6. ASSUME NEW c \in Canceler, Kill(c) PROVE TypeOK'
  <2>1. StoreTypeOK' /\ UNCHANGED <<running, pc, target>>
    BY <1>0, <1>6 DEF Kill, StoreTypeOK
  <2>2. proc' \in [Run -> {"none", "alive", "killed", "ok", "err", "okWaited",
                           "errWaited"}]
    BY <1>6 DEF Kill, TypeOK
  <2>3. cpc' \in [Canceler -> {"idle", "kill", "cancel", "clear", "done", "error"}]
    BY <1>6 DEF Kill, TypeOK
  <2> QED
    BY <2>1, <2>2, <2>3 DEF TypeOK
<1>7. ASSUME NEW c \in Canceler, CancelJob(c) PROVE TypeOK'
  <2>1. StoreTypeOK'
    BY <1>0, <1>7, FinishType DEF CancelJob, StoreTypeOK, Terminal
  <2> QED
    BY <1>7, <2>1 DEF CancelJob, TypeOK
<1>8. CASE UNCHANGED vars
  BY <1>0, <1>8 DEF vars, TypeOK, StoreTypeOK
<1> QED
  BY <1>1, <1>2, <1>3, <1>4, <1>5, <1>6, <1>7, <1>8
  DEF Next, Handler, Goroutine, Cancel, Quiescent
-----------------------------------------------------------------------------
(* The pointer *)

LEMMA PointerNext == ASSUME TypeOK, PointerLive, [Next]_vars PROVE PointerLive'
<1> USE RepackAssumption DEF Goto, Active, PointerLive, TypeOK
<1>1. ASSUME NEW r \in Run, Check(r) \/ Handler(r) PROVE PointerLive'
  BY <1>1 DEF Check, Handler, Refuse, StartJob, SetRunning
<1>2. ASSUME NEW r \in Run, Goroutine(r) PROVE PointerLive'
  <2>1. CASE ClearRunning(r)
    BY <2>1 DEF ClearRunning
  <2>2. CASE Judge(r)
    <3>1. PICK s \in {"clear", "fail"} : pc' = [pc EXCEPT ![r] = s]
      BY <2>2 DEF Judge
    <3>2. pc'[r] \in {"clear", "fail"} /\ UNCHANGED running
      BY <2>2, <3>1 DEF Judge
    <3>3. \A q \in Run \ {r} : pc'[q] = pc[q]
      BY <3>1
    <3> QED
      BY <3>2, <3>3
  <2>3. CASE MarkRunning(r) \/ Exec(r) \/ Waited(r) \/ FailJob(r)
    <3>1. UNCHANGED running /\ \E s \in {"exec", "wait", "judge", "clear"} :
            pc' = [pc EXCEPT ![r] = s]
      BY <2>3 DEF MarkRunning, Exec, Waited, FailJob
    <3> QED
      BY <3>1
  <2> QED
    BY <1>2, <2>1, <2>2, <2>3 DEF Goroutine
<1>3. ASSUME NEW r \in Run, ProcessExits(r) PROVE PointerLive'
  BY <1>3 DEF ProcessExits
<1>4. ASSUME NEW c \in Canceler, ReadRunning(c) \/ Cancel(c) PROVE PointerLive'
  BY <1>4 DEF ReadRunning, Cancel, Kill, CancelJob, ClearCanceled
<1>5. CASE UNCHANGED vars
  BY <1>5 DEF vars
<1> QED
  BY <1>1, <1>2, <1>3, <1>4, <1>5 DEF Next, Quiescent
-----------------------------------------------------------------------------
(* The job and the process *)

\* What the invariant says of one run.
RunInv(r) ==
  /\ pc[r] = "fail" => proc[r] # "okWaited"
  /\ r \in DOMAIN jobs =>
       /\ pc[r] \in {"clear", "done"} => jobs[r].status \in Terminal
       /\ jobs[r].status \in {"succeeded", "failed"} => pc[r] \in {"clear", "done"}
       /\ jobs[r].status = "succeeded" => proc[r] = "okWaited"
       /\ jobs[r].status = "failed" => proc[r] # "okWaited"

LEMMA RunInvIs ==
  ASSUME TypeOK
  PROVE  (\A r \in Run : RunInv(r)) <=> JobSettled /\ StatusTruth /\ SettleInv
<1>1. DOMAIN jobs \subseteq Run
  BY RepackAssumption DEF TypeOK, StoreTypeOK
<1> QED
  BY <1>1 DEF RunInv, JobSettled, StatusTruth, SettleInv

\* A step of run r that evicts nothing leaves the other runs alone.
LEMMA RunAlone ==
  ASSUME TypeOK, \A q \in Run : RunInv(q), NEW r \in Run,
         \A q \in Run \ {r} :
           /\ pc'[q] = pc[q] /\ proc'[q] = proc[q]
           /\ q \in DOMAIN jobs' =>
                q \in DOMAIN jobs /\ jobs'[q].status = jobs[q].status,
         RunInv(r)'
  PROVE  \A q \in Run : RunInv(q)'
<1> SUFFICES ASSUME NEW q \in Run, q # r PROVE RunInv(q)'
  OBVIOUS
<1>1. RunInv(q)
  OBVIOUS
<1> QED
  BY <1>1 DEF RunInv

LEMMA RunNext ==
  ASSUME TypeOK, TypeOK', \A q \in Run : RunInv(q), [Next]_vars
  PROVE  \A q \in Run : RunInv(q)'
<1> USE DEF Goto, storeVars
<1>0. StoreTypeOK /\ DOMAIN jobs \subseteq Run /\ DOMAIN jobs' \subseteq Run
  BY RepackAssumption DEF TypeOK, StoreTypeOK
<1>1. ASSUME NEW r \in Run, Check(r) \/ Refuse(r) \/ SetRunning(r) \/ Exec(r)
                            \/ ProcessExits(r) \/ Waited(r) \/ ClearRunning(r)
      PROVE  \A q \in Run : RunInv(q)'
  <2>1. RunInv(r)'
    BY <1>1
    DEF Check, Refuse, SetRunning, Exec, ProcessExits, Waited, ClearRunning,
        RunInv, TypeOK
  <2>2. \A q \in Run \ {r} : pc'[q] = pc[q] /\ proc'[q] = proc[q]
    BY <1>1
    DEF Check, Refuse, SetRunning, Exec, ProcessExits, Waited, ClearRunning,
        TypeOK
  <2>3. UNCHANGED jobs
    BY <1>1
    DEF Check, Refuse, SetRunning, Exec, ProcessExits, Waited, ClearRunning
  <2> QED
    BY <2>1, <2>2, <2>3, RunAlone
<1>2. ASSUME NEW r \in Run, StartJob(r) PROVE \A q \in Run : RunInv(q)'
  <2>1. Start(r) /\ UNCHANGED proc /\ pc'[r] = "started"
    BY <1>2 DEF StartJob, TypeOK
  <2>2. \A q \in Run \ {r} : pc'[q] = pc[q]
    BY <1>2 DEF StartJob, TypeOK
  <2>3. r \in DOMAIN jobs' => jobs'[r].status = "running"
    BY <2>1, StartRecords DEF NewJob
  <2>4. \A q \in DOMAIN jobs' \ {r} : q \in DOMAIN jobs /\ jobs'[q] = jobs[q]
    BY <2>1, StartRecords
  <2>5. RunInv(r)'
    BY <2>1, <2>3 DEF RunInv
  <2> QED
    BY <2>1, <2>2, <2>4, <2>5, RunAlone
<1>3. ASSUME NEW r \in Run, MarkRunning(r) PROVE \A q \in Run : RunInv(q)'
  <2>1. Update(r) /\ UNCHANGED proc /\ pc[r] = "spawned" /\ pc'[r] = "exec"
    BY <1>3 DEF MarkRunning, TypeOK
  <2>2. \A q \in DOMAIN jobs' : q \in DOMAIN jobs /\ jobs'[q].status = jobs[q].status
    BY <1>0, <2>1, RecordMoves
  <2>3. RunInv(r)'
    BY <2>1, <2>2 DEF RunInv
  <2>4. \A q \in Run \ {r} : pc'[q] = pc[q]
    BY <1>3 DEF MarkRunning, TypeOK
  <2> QED
    BY <2>1, <2>2, <2>3, <2>4, RunAlone
<1>4. ASSUME NEW r \in Run, NEW s \in Terminal, Finish(r, s, FALSE),
             Goto(r, "clear"), UNCHANGED proc,
             s = "succeeded" => proc[r] = "okWaited",
             s = "failed" => proc[r] # "okWaited"
      PROVE  \A q \in Run : RunInv(q)'
  <2>1. \A q \in DOMAIN jobs' :
          /\ q \in DOMAIN jobs
          /\ q = r => jobs'[q].status = s
          /\ q # r => jobs'[q].status = jobs[q].status
    BY <1>4 DEF Finish
  <2>2. pc'[r] = "clear" /\ \A q \in Run \ {r} : pc'[q] = pc[q]
    BY <1>4 DEF TypeOK
  <2>3. RunInv(r)'
    BY <1>4, <2>1, <2>2 DEF RunInv
  <2> QED
    BY <1>4, <2>1, <2>2, <2>3, RunAlone
<1>5. ASSUME NEW r \in Run, Judge(r) PROVE \A q \in Run : RunInv(q)'
  <2>1. CASE proc[r] = "okWaited"
    BY <1>4, <1>5, <2>1 DEF Judge, Terminal
  <2>2. CASE proc[r] # "okWaited"
    <3>1. UNCHANGED <<jobs, proc>> /\ pc[r] = "judge"
      BY <1>5, <2>2 DEF Judge
    <3>2. pc'[r] = IF StatusOf(r) = "canceled" THEN "clear" ELSE "fail"
      BY <1>5, <2>2 DEF Judge, TypeOK
    <3>3. \A q \in Run \ {r} : pc'[q] = pc[q]
      BY <1>5, <2>2 DEF Judge, TypeOK
    <3>4. RunInv(r)'
      BY <2>2, <3>1, <3>2 DEF RunInv, StatusOf, Terminal
    <3> QED
      BY <3>1, <3>3, <3>4, RunAlone
  <2> QED
    BY <2>1, <2>2
<1>6. ASSUME NEW r \in Run, FailJob(r) PROVE \A q \in Run : RunInv(q)'
  BY <1>4, <1>6 DEF FailJob, RunInv, Terminal
<1>7. ASSUME NEW c \in Canceler, Kill(c) PROVE \A q \in Run : RunInv(q)'
  <2>1. \A q \in Run : proc'[q] = "okWaited" <=> proc[q] = "okWaited"
    BY <1>7 DEF Kill, TypeOK
  <2> QED
    BY <1>7, <2>1 DEF Kill, RunInv
<1>8. ASSUME NEW c \in Canceler, CancelJob(c) PROVE \A q \in Run : RunInv(q)'
  <2>1. Finish(target[c], "canceled", FALSE) /\ UNCHANGED <<pc, proc>>
    BY <1>8 DEF CancelJob
  <2>2. \A q \in DOMAIN jobs' :
          q \in DOMAIN jobs /\ jobs'[q].status \in {jobs[q].status, "canceled"}
    BY <2>1, RecordMoves DEF Terminal
  <2> QED
    BY <2>1, <2>2 DEF RunInv, Terminal
<1>9. ASSUME UNCHANGED <<jobs, pc, proc>> PROVE \A q \in Run : RunInv(q)'
  BY <1>9 DEF RunInv
<1>10. ASSUME NEW c \in Canceler, ReadRunning(c) \/ ClearCanceled(c)
       PROVE  \A q \in Run : RunInv(q)'
  BY <1>9, <1>10 DEF ReadRunning, ClearCanceled
<1>11. CASE UNCHANGED vars
  BY <1>9, <1>11 DEF vars
<1> QED
  BY <1>1, <1>2, <1>3, <1>5, <1>6, <1>7, <1>8, <1>10, <1>11
  DEF Next, Handler, Goroutine, Cancel, Quiescent
-----------------------------------------------------------------------------
\* repack.go 114-260: although every goroutine and every cancel request clears
\* the pointer of whoever holds it, it never names a run that is over; a run
\* that is over has settled its job; and no overwriting of one outcome by
\* another calls a pg_repack that failed succeeded, or the other way round.
THEOREM RepackTrue == Spec => []RepackExplained
<1>1. ASSUME Inductive, [Next]_vars PROVE Inductive'
  <2>1. TypeOK' /\ PointerLive'
    BY <1>1, TypeNext, PointerNext DEF Inductive, RepackExplained
  <2>2. \A r \in Run : RunInv(r)
    BY <1>1, RunInvIs DEF Inductive, RepackExplained
  <2>3. \A r \in Run : RunInv(r)'
    BY <1>1, <2>1, <2>2, RunNext DEF Inductive, RepackExplained
  <2>4. (JobSettled /\ StatusTruth /\ SettleInv)'
    <3>1. DOMAIN jobs' \subseteq Run
      BY <2>1, RepackAssumption DEF TypeOK, StoreTypeOK
    <3> QED
      BY <2>3, <3>1 DEF RunInv, JobSettled, StatusTruth, SettleInv
  <2> QED
    BY <2>1, <2>4 DEF Inductive, RepackExplained
<1>2. Inductive => RepackExplained
  BY DEF Inductive
<1> QED
  BY <1>1, <1>2, InductiveInit, PTL DEF Spec
=============================================================================
