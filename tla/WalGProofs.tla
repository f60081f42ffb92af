----------------------------- MODULE WalGProofs -----------------------------
(***************************************************************************)
(* Theorems about backup, restore and verification, for every set of       *)
(* requests, every maxJobs, every retention setting and every choice of    *)
(* commands that may fail.                                                 *)
(***************************************************************************)
EXTENDS WalG, JobStoreProofs

\* What setting one request's entries leaves well-typed: Goto, the outcome,
\* Update, Finish with and without an artifact, and Return.
LEMMA OpTypes ==
  ASSUME NEW op \in Op, TypeOK
  PROVE  /\ \A s \in Step : Goto(op, s) => pc' \in [Op -> Step]
         /\ \A s \in Terminal :
              outcome' = [outcome EXCEPT ![op] = s]
                => outcome' \in [Op -> {"none"} \cup Terminal]
         /\ \A n \in Nat : arg' = [arg EXCEPT ![op] = n] => arg' \in [Op -> Nat]
         /\ Start(op) => StoreTypeOK'
         /\ Update(op) /\ UNCHANGED files => StoreTypeOK'
         /\ \A s \in Terminal, a \in BOOLEAN :
              Finish(op, s, a) /\ files' \subseteq JobId => StoreTypeOK'
         /\ \A s \in Terminal : Return(op, s) =>
              /\ StoreTypeOK'
              /\ pc' \in [Op -> Step]
              /\ outcome' \in [Op -> {"none"} \cup Terminal]
<1>1. op \in JobId /\ StoreTypeOK
  BY WalGAssumption DEF TypeOK
<1>2. \A s \in Step : Goto(op, s) => pc' \in [Op -> Step]
  BY DEF Goto, TypeOK
<1>3. \A s \in Terminal :
        outcome' = [outcome EXCEPT ![op] = s]
          => outcome' \in [Op -> {"none"} \cup Terminal]
  BY DEF TypeOK
<1>4. \A n \in Nat : arg' = [arg EXCEPT ![op] = n] => arg' \in [Op -> Nat]
  BY DEF TypeOK
<1>5. Start(op) => StoreTypeOK'
  BY <1>1, StartType
<1>6. Update(op) /\ UNCHANGED files => StoreTypeOK'
  BY <1>1, UpdateType DEF StoreTypeOK
<1>7. \A s \in Terminal, a \in BOOLEAN :
        Finish(op, s, a) /\ files' \subseteq JobId => StoreTypeOK'
  BY <1>1, FinishType DEF StoreTypeOK
<1>8. \A s \in Terminal : Return(op, s) =>
        /\ StoreTypeOK'
        /\ pc' \in [Op -> Step]
        /\ outcome' \in [Op -> {"none"} \cup Terminal]
  BY <1>1, <1>2, <1>3, <1>7 DEF Return, StoreTypeOK, Step, Critical
<1> QED
  BY <1>2, <1>3, <1>4, <1>5, <1>6, <1>7, <1>8
-----------------------------------------------------------------------------
(* Type correctness *)

LEMMA TypeInit == ASSUME Init PROVE TypeOK
<1>1. StoreTypeOK
  BY DEF Init, StoreInit, StoreTypeOK
<1> QED
  BY <1>1, WalGAssumption DEF Init, TypeOK, Step, DirStates, Backup

LEMMA TypeNext == ASSUME TypeOK, [Next]_vars PROVE TypeOK'
<1> USE DEF storeVars, clusterVars
<1>1. ASSUME NEW op \in Op, Request(op) PROVE TypeOK'
  <2>1. StoreTypeOK'
    BY <1>1, OpTypes DEF Request, RequestBackup, RequestRestore, RequestVerify
  <2>2. pc' \in [Op -> Step]
    BY <1>1, OpTypes
    DEF Request, RequestBackup, RequestRestore, RequestVerify, Step, VerifySteps
  <2>3. arg' \in [Op -> Nat]
    BY <1>1, OpTypes
    DEF Request, RequestBackup, RequestRestore, RequestVerify, Latest, Names,
        TypeOK, Backup
  <2> QED
    BY <1>1, <2>1, <2>2, <2>3
    DEF Request, RequestBackup, RequestRestore, RequestVerify, TypeOK
<1>2. ASSUME NEW op \in Op, Lock(op) PROVE TypeOK'
  <2>1. pc' \in [Op -> Step]
    BY <1>2, OpTypes DEF Lock, Step, Critical, BackupSteps, RestoreSteps
  <2> QED
    BY <1>2, <2>1 DEF Lock, TypeOK, StoreTypeOK
<1>3. ASSUME NEW op \in Op, Unlock(op) PROVE TypeOK'
  <2>1. pc' \in [Op -> Step]
    BY <1>3, OpTypes DEF Unlock, Step
  <2> QED
    BY <1>3, <2>1 DEF Unlock, TypeOK, StoreTypeOK
<1>4. ASSUME NEW op \in Op, ListBase(op) PROVE TypeOK'
  <2>1. arg' \in [Op -> Nat]
    BY <1>4, OpTypes DEF ListBase, Latest, Names, TypeOK, Backup
  <2>2. StoreTypeOK' /\ pc' \in [Op -> Step]
        /\ outcome' \in [Op -> {"none"} \cup Terminal]
    BY <1>4, OpTypes
    DEF ListBase, TypeOK, StoreTypeOK, Terminal, Step, Critical, BackupSteps
  <2> QED
    BY <1>4, <2>1, <2>2 DEF ListBase, TypeOK
<1>5. ASSUME NEW op \in Op, PushBegin(op) PROVE TypeOK'
  <2>1. StoreTypeOK' /\ pc' \in [Op -> Step]
        /\ outcome' \in [Op -> {"none"} \cup Terminal]
    BY <1>5, OpTypes
    DEF PushBegin, TypeOK, StoreTypeOK, Terminal, Step, Critical, BackupSteps
  <2> QED
    BY <1>5, <2>1 DEF PushBegin, TypeOK
<1>6. ASSUME NEW op \in Op, PushEnd(op) PROVE TypeOK'
  <2>1. StoreTypeOK' /\ pc' \in [Op -> Step]
        /\ outcome' \in [Op -> {"none"} \cup Terminal]
    BY <1>6, OpTypes
    DEF PushEnd, TypeOK, StoreTypeOK, Terminal, Step, Critical, BackupSteps
  <2>2. storage' \subseteq Backup /\ next' \in Nat \ {0}
    <3>1. (dir = "cluster") \in BOOLEAN
      BY Zenon
    <3>2. [name |-> next, base |-> arg[op], sound |-> dir = "cluster"] \in Backup
      BY <3>1 DEF TypeOK, Backup
    <3> QED
      BY <1>6, <3>2 DEF PushEnd, TypeOK
  <2> QED
    BY <1>6, <2>1, <2>2 DEF PushEnd, TypeOK
<1>7. ASSUME NEW op \in Op, Retain(op) PROVE TypeOK'
  <2>1. StoreTypeOK' /\ pc' \in [Op -> Step]
        /\ outcome' \in [Op -> {"none"} \cup Terminal]
    BY <1>7, OpTypes DEF Retain, Terminal
  <2>2. storage' \subseteq Backup
    BY <1>7 DEF Retain, Kept, TypeOK
  <2> QED
    BY <1>7, <2>1, <2>2 DEF Retain, TypeOK
<1>8. ASSUME NEW op \in Op, StopServer(op) PROVE TypeOK'
  <2>1. StoreTypeOK' /\ pc' \in [Op -> Step]
        /\ outcome' \in [Op -> {"none"} \cup Terminal]
    BY <1>8, OpTypes
    DEF StopServer, TypeOK, Terminal, Step, Critical, RestoreSteps
  <2> QED
    BY <1>8, <2>1 DEF StopServer, TypeOK
<1>9. ASSUME NEW op \in Op, CleanDir(op) \/ Fetch(op) \/ WriteRecovery(op)
      PROVE  TypeOK'
  <2>1. StoreTypeOK' /\ pc' \in [Op -> Step]
        /\ outcome' \in [Op -> {"none"} \cup Terminal]
    BY <1>9, OpTypes
    DEF CleanDir, Fetch, WriteRecovery, TypeOK, StoreTypeOK, Terminal, Step,
        Critical, RestoreSteps
  <2>2. dir' \in DirStates
    BY <1>9 DEF CleanDir, Fetch, WriteRecovery, TypeOK, DirStates
  <2> QED
    BY <1>9, <2>1, <2>2 DEF CleanDir, Fetch, WriteRecovery, TypeOK
<1>10. ASSUME NEW op \in Op, StartServer(op) PROVE TypeOK'
  <2>1. StoreTypeOK' /\ pc' \in [Op -> Step]
        /\ outcome' \in [Op -> {"none"} \cup Terminal]
    BY <1>10, OpTypes DEF StartServer, Terminal
  <2> QED
    BY <1>10, <2>1 DEF StartServer, TypeOK, DirStates
<1>11. ASSUME NEW op \in Op,
              MakeScratch(op) \/ VFetch(op) \/ VReport(op) \/ VAttach(op)
       PROVE  TypeOK'
  <2>1. files' \subseteq JobId /\ scratch' \subseteq Op
    BY <1>11, WalGAssumption
    DEF MakeScratch, VFetch, VReport, VAttach, TypeOK, StoreTypeOK
  <2>2. StoreTypeOK'
    BY <1>11, <2>1, OpTypes
    DEF MakeScratch, VFetch, VReport, VAttach, VReturn, TypeOK, StoreTypeOK,
        Terminal
  <2>3. pc' \in [Op -> Step] /\ outcome' \in [Op -> {"none"} \cup Terminal]
    BY <1>11, OpTypes
    DEF MakeScratch, VFetch, VReport, VAttach, VReturn, TypeOK, Terminal,
        Step, VerifySteps
  <2> QED
    BY <1>11, <2>1, <2>2, <2>3
    DEF MakeScratch, VFetch, VReport, VAttach, TypeOK
<1>12. ASSUME NEW op \in Op, RemoveScratch(op) PROVE TypeOK'
  <2>1. pc' \in [Op -> Step]
    BY <1>12, OpTypes DEF RemoveScratch, Step
  <2> QED
    BY <1>12, <2>1 DEF RemoveScratch, TypeOK, StoreTypeOK
<1>13. ASSUME NEW r \in Restarter, RestartStop(r) \/ RestartStart(r)
       PROVE  TypeOK'
  BY <1>13 DEF RestartStop, RestartStart, TypeOK, StoreTypeOK, DirStates
<1>14. ASSUME PostmasterExits \/ UNCHANGED vars PROVE TypeOK'
  BY <1>14 DEF PostmasterExits, vars, TypeOK, StoreTypeOK
<1> QED
  BY <1>1, <1>2, <1>3, <1>4, <1>5, <1>6, <1>7, <1>8, <1>9, <1>10, <1>11,
     <1>12, <1>13, <1>14
  DEF Next, Work, Quiescent

\* Every variable keeps to the values its comment in WalG names: the state of
\* every goroutine, the server, the directory and the object store.
THEOREM TypeCorrect == Spec => []TypeOK
<1> QED
  BY TypeInit, TypeNext, PTL DEF Spec
-----------------------------------------------------------------------------
(* Control: who holds opMu, and where a goroutine can be *)

LEMMA ControlInit == ASSUME Init PROVE Control
<1> USE DEF Critical, BackupSteps, RestoreSteps, VerifySteps
<1>1. LockInv
  BY WalGAssumption DEF Init, LockInv
<1>2. KindInv
  BY DEF Init, KindInv
<1>3. OutcomeInv
  BY DEF Init, OutcomeInv
<1> QED
  BY <1>1, <1>2, <1>3 DEF Control

\* The two moves of a goroutine that holds opMu: a step of its kind, and a
\* return, keep the control invariants.
LEMMA HeldMoves ==
  ASSUME TypeOK, Control, NEW op \in Op, UNCHANGED opMu
  PROVE  /\ \A steps \in {BackupSteps, RestoreSteps} : \A s \in steps :
              pc[op] \in steps /\ Goto(op, s) /\ UNCHANGED outcome => Control'
         /\ \A status \in Terminal :
              pc[op] \in BackupSteps \cup RestoreSteps /\ Return(op, status)
                => Control'
<1> USE DEF Goto, Critical, BackupSteps, RestoreSteps, VerifySteps,
            LockInv, KindInv, OutcomeInv, TypeOK
<1>1. ASSUME NEW s \in BackupSteps, pc[op] \in BackupSteps, Goto(op, s),
             UNCHANGED outcome
      PROVE  Control'
  BY <1>1 DEF Control
<1>2. ASSUME NEW s \in RestoreSteps, pc[op] \in RestoreSteps, Goto(op, s),
             UNCHANGED outcome
      PROVE  Control'
  BY <1>2 DEF Control
<1>3. ASSUME NEW status \in Terminal, pc[op] \in BackupSteps \cup RestoreSteps,
             pc' = [pc EXCEPT ![op] = "unlock"],
             outcome' = [outcome EXCEPT ![op] = status]
      PROVE  Control'
  BY <1>3 DEF Control, Terminal
<1> QED
  BY <1>1, <1>2, <1>3 DEF Return

LEMMA ControlNext == ASSUME TypeOK, Control, [Next]_vars PROVE Control'
<1> USE DEF Critical, BackupSteps, RestoreSteps, VerifySteps
<1> DEFINE Verifying(op) == MakeScratch(op) \/ VFetch(op) \/ VReport(op)
                            \/ VAttach(op) \/ RemoveScratch(op)
<1>1. ASSUME NEW op \in Op, Request(op) PROVE Control'
  BY <1>1 DEF Request, RequestBackup, RequestRestore, RequestVerify, Goto,
              Control, LockInv, KindInv, OutcomeInv, TypeOK
<1>2. ASSUME NEW op \in Op, Lock(op) PROVE Control'
  <2> USE DEF Goto, Control, LockInv, KindInv, OutcomeInv, TypeOK
  <2>1. KindOf[op] \in {"full", "incremental", "restore"}
    BY <1>2, WalGAssumption DEF Lock, Kind
  <2>2. CASE KindOf[op] \in {"full", "incremental"}
    <3>1. PICK s \in {"push", "list"} : pc' = [pc EXCEPT ![op] = s]
      BY <1>2, <2>2 DEF Lock
    <3> QED
      BY <1>2, <2>2, <3>1, WalGAssumption DEF Lock
  <2>3. CASE KindOf[op] = "restore"
    <3>1. pc' = [pc EXCEPT ![op] = "stop"]
      BY <1>2, <2>3 DEF Lock
    <3> QED
      BY <1>2, <2>3, <3>1, WalGAssumption DEF Lock
  <2> QED
    BY <2>1, <2>2, <2>3
<1>3. ASSUME NEW op \in Op, Unlock(op) PROVE Control'
  BY <1>3, WalGAssumption
  DEF Unlock, Goto, Control, LockInv, KindInv, OutcomeInv, TypeOK
<1>4. ASSUME NEW op \in Op,
             ListBase(op) \/ PushBegin(op) \/ PushEnd(op) \/ Retain(op)
      PROVE  Control'
  BY <1>4, HeldMoves DEF ListBase, PushBegin, PushEnd, Retain, Terminal
<1>5. ASSUME NEW op \in Op,
             \/ StopServer(op) \/ CleanDir(op) \/ Fetch(op)
             \/ WriteRecovery(op) \/ StartServer(op)
      PROVE  Control'
  BY <1>5, HeldMoves
  DEF StopServer, CleanDir, Fetch, WriteRecovery, StartServer, Terminal
<1>6. ASSUME NEW op \in Op, Verifying(op) PROVE Control'
  BY <1>6 DEF MakeScratch, VFetch, VReport, VAttach, RemoveScratch, VReturn,
              Goto, Control, LockInv, KindInv, OutcomeInv, TypeOK, Terminal
<1>7. ASSUME NEW r \in Restarter, RestartStop(r) \/ RestartStart(r)
      PROVE  Control'
  BY <1>7 DEF RestartStop, RestartStart, Control, LockInv, KindInv, OutcomeInv
<1>8. ASSUME PostmasterExits \/ UNCHANGED vars PROVE Control'
  BY <1>8 DEF PostmasterExits, vars, Control, LockInv, KindInv, OutcomeInv
<1> QED
  BY <1>1, <1>2, <1>3, <1>4, <1>5, <1>6, <1>7, <1>8 DEF Next, Work, Quiescent
\* walg.go 26-27: opMu keeps backups and restores apart.  A goroutine is
\* between its Lock and its Unlock exactly when it is the holder, and there is
\* one holder.
THEOREM Exclusion == Spec => []MutualExclusion
<1>1. TypeOK /\ Control => MutualExclusion
  BY DEF Control, LockInv, MutualExclusion
<1> QED
  BY <1>1, TypeInit, TypeNext, ControlInit, ControlNext, PTL DEF Spec

-----------------------------------------------------------------------------
(* The job store and what it says of the goroutines *)

\* What one step does to the store: a request inserts its job, a goroutine
\* writes a message, or it ends its job with the outcome it returns.
StoreMove ==
  \/ UNCHANGED <<jobs, order, outcome>>
  \/ \E op \in Op :
       \/ Request(op) /\ UNCHANGED outcome
       \/ Update(op) /\ UNCHANGED outcome
       \/ \E s \in Terminal, a \in BOOLEAN :
            /\ Finish(op, s, a)
            /\ outcome[op] = "none"
            /\ outcome' = [outcome EXCEPT ![op] = s]

LEMMA StoreMoves == ASSUME TypeOK, Control, [Next]_vars PROVE StoreMove
<1> DEFINE Ends(op, s) == /\ \E a \in BOOLEAN : Finish(op, s, a)
                          /\ outcome' = [outcome EXCEPT ![op] = s]
<1>1. ASSUME NEW op \in Op, NEW s \in Terminal, Ends(op, s),
             pc[op] \notin {"unlock", "rmtmp", "done"}
      PROVE  StoreMove
  <2>1. outcome[op] = "none"
    BY <1>1 DEF Control, OutcomeInv, TypeOK
  <2> QED
    BY <1>1, <2>1 DEF StoreMove
<1>2. ASSUME NEW op \in Op, NEW s \in Terminal, Return(op, s),
             pc[op] \notin {"unlock", "rmtmp", "done"}
      PROVE  StoreMove
  BY <1>1, <1>2 DEF Return
<1>3. ASSUME NEW op \in Op, Request(op) PROVE StoreMove
  BY <1>3 DEF Request, RequestBackup, RequestRestore, RequestVerify, StoreMove
<1>4. ASSUME NEW op \in Op, Lock(op) \/ Unlock(op) \/ RemoveScratch(op)
      PROVE  StoreMove
  BY <1>4 DEF Lock, Unlock, RemoveScratch, StoreMove, storeVars
<1>5. ASSUME NEW op \in Op,
             ListBase(op) \/ PushBegin(op) \/ PushEnd(op) \/ Retain(op)
      PROVE  StoreMove
  BY <1>2, <1>5
  DEF ListBase, PushBegin, PushEnd, Retain, StoreMove, storeVars, Terminal
<1>6. ASSUME NEW op \in Op,
             \/ StopServer(op) \/ CleanDir(op) \/ Fetch(op)
             \/ WriteRecovery(op) \/ StartServer(op)
      PROVE  StoreMove
  BY <1>2, <1>6
  DEF StopServer, CleanDir, Fetch, WriteRecovery, StartServer, StoreMove,
      storeVars, Terminal
<1>7. ASSUME NEW op \in Op,
             MakeScratch(op) \/ VFetch(op) \/ VReport(op) \/ VAttach(op)
      PROVE  StoreMove
  <2>1. \A s \in {"succeeded", "failed"}, step \in {"rmtmp", "done"} :
          VReturn(op, s, step) => Ends(op, s)
    BY DEF VReturn
  <2> QED
    BY <1>1, <1>7, <2>1
    DEF MakeScratch, VFetch, VReport, VAttach, StoreMove, Terminal
<1>8. ASSUME NEW r \in Restarter, RestartStop(r) \/ RestartStart(r)
      PROVE  StoreMove
  BY <1>8 DEF RestartStop, RestartStart, StoreMove, storeVars
<1>9. ASSUME PostmasterExits \/ UNCHANGED vars PROVE StoreMove
  BY <1>9 DEF PostmasterExits, vars, StoreMove, storeVars
<1> QED
  BY <1>3, <1>4, <1>5, <1>6, <1>7, <1>8, <1>9 DEF Next, Work, Quiescent
\* Only requests that were not made are idle, and none becomes idle again.
LEMMA IdleBefore ==
  ASSUME TypeOK, [Next]_vars
  PROVE  /\ \A q \in Op : pc'[q] = "idle" => pc[q] = "idle"
         /\ \A op \in Op : Request(op) => pc[op] = "idle" /\ pc'[op] # "idle"
<1>1. ASSUME NEW op \in Op,
             \/ Request(op) \/ Unlock(op) \/ ListBase(op) \/ PushBegin(op)
             \/ PushEnd(op) \/ Retain(op) \/ StopServer(op) \/ CleanDir(op)
             \/ Fetch(op) \/ WriteRecovery(op) \/ StartServer(op)
             \/ MakeScratch(op) \/ VFetch(op) \/ VReport(op) \/ VAttach(op)
             \/ RemoveScratch(op)
      PROVE  \E s \in Step \ {"idle"} : Goto(op, s)
  BY <1>1
  DEF Request, RequestBackup, RequestRestore, RequestVerify, Unlock, ListBase,
      PushBegin, PushEnd, Retain, StopServer, CleanDir, Fetch, WriteRecovery,
      StartServer, MakeScratch, VFetch, VReport, VAttach, RemoveScratch,
      Return, VReturn, Step, Critical, BackupSteps, RestoreSteps, VerifySteps
<1>2. ASSUME NEW op \in Op, Lock(op)
      PROVE  \E s \in Step \ {"idle"} : Goto(op, s)
  <2>1. CASE KindOf[op] = "full"
    BY <1>2, <2>1 DEF Lock, Step, Critical, BackupSteps
  <2>2. CASE KindOf[op] = "incremental"
    BY <1>2, <2>2 DEF Lock, Step, Critical, BackupSteps
  <2>3. CASE KindOf[op] \notin {"full", "incremental"}
    BY <1>2, <2>3 DEF Lock, Step, Critical, RestoreSteps
  <2> QED
    BY <2>1, <2>2, <2>3
<1>3. ASSUME NEW op \in Op, NEW s \in Step \ {"idle"}, Goto(op, s)
      PROVE  \A q \in Op : pc'[q] = "idle" => pc[q] = "idle"
  BY <1>3 DEF Goto, TypeOK
<1>4. ASSUME NEW r \in Restarter,
             RestartStop(r) \/ RestartStart(r) \/ PostmasterExits
             \/ UNCHANGED vars
      PROVE  UNCHANGED pc
  BY <1>4 DEF RestartStop, RestartStart, PostmasterExits, vars
<1>5. ASSUME PostmasterExits \/ UNCHANGED vars PROVE UNCHANGED pc
  BY <1>5 DEF PostmasterExits, vars
<1>6. \A q \in Op : pc'[q] = "idle" => pc[q] = "idle"
  BY <1>1, <1>2, <1>3, <1>4, <1>5 DEF Next, Work, Quiescent
<1>7. ASSUME NEW op \in Op, Request(op)
      PROVE  pc[op] = "idle" /\ pc'[op] # "idle"
  BY <1>7
  DEF Request, RequestBackup, RequestRestore, RequestVerify, Goto, TypeOK
<1> QED
  BY <1>6, <1>7

LEMMA IndexNext ==
  ASSUME TypeOK, Control, FreshInv, IndexInv, [Next]_vars
  PROVE  FreshInv' /\ IndexInv'
<1>1. CASE UNCHANGED <<jobs, order>>
  BY <1>1, IdleBefore DEF FreshInv, IndexInv, Range
<1>2. ASSUME NEW op \in Op, Request(op)
      PROVE  FreshInv' /\ IndexInv'
  <2>1. op \in JobId /\ StoreTypeOK
    BY WalGAssumption DEF TypeOK
  <2>2. Start(op)
    BY <1>2 DEF Request, RequestBackup, RequestRestore, RequestVerify
  <2>3. op \notin DOMAIN jobs
    BY <1>2, IdleBefore DEF FreshInv
  <2>4. IndexInv' /\ DOMAIN jobs' \subseteq DOMAIN jobs \cup {op}
    BY <2>1, <2>2, <2>3, StartIndex
  <2>5. FreshInv'
    BY <1>2, <2>4, IdleBefore DEF FreshInv
  <2> QED
    BY <2>4, <2>5
<1>3. CASE DOMAIN jobs' = DOMAIN jobs /\ order' = order
  BY <1>3, IdleBefore DEF FreshInv, IndexInv, Range
<1> QED
  BY <1>1, <1>2, <1>3, StoreMoves, RecordMoves DEF StoreMove

\* However jobs are started and evicted, the list the API pages through and
\* the map it looks ids up in hold the same jobs, at most maxJobs of them.
THEOREM StoreIndexed == Spec => []IndexOK
<1>1. Init => FreshInv /\ IndexInv
  BY StoreAssumption DEF Init, StoreInit, FreshInv, IndexInv, Range
<1>2. TypeOK /\ IndexInv => IndexOK
  BY IndexInvImplies DEF TypeOK
<1> QED
  BY <1>1, <1>2, TypeInit, TypeNext, ControlInit, ControlNext, IndexNext, PTL
  DEF Spec

LEMMA TruthNext ==
  ASSUME TypeOK, Control, FreshInv, RecordIsTruth, [Next]_vars
  PROVE  RecordIsTruth'
<1> DEFINE True(j) == /\ jobs[j].status =
                            IF outcome[j] = "none" THEN "running" ELSE outcome[j]
                      /\ jobs[j].error <=> outcome[j] = "failed"
<1>1. TypeOK' /\ Control'
  BY TypeNext, ControlNext
<1>2. DOMAIN jobs \subseteq Op /\ DOMAIN jobs' \subseteq Op
  BY <1>1, WalGAssumption DEF TypeOK, StoreTypeOK
<1>3. SUFFICES ASSUME NEW j \in DOMAIN jobs' PROVE True(j)'
  BY <1>1, <1>2, <1>3 DEF RecordIsTruth, Control, OutcomeInv, TypeOK, Terminal
<1>4. j \in DOMAIN jobs => True(j)
  BY DEF RecordIsTruth
<1>5. CASE UNCHANGED <<jobs, order, outcome>>
  BY <1>4, <1>5
<1>6. ASSUME NEW op \in Op, Request(op), UNCHANGED outcome PROVE True(j)'
  <2>1. Start(op)
    BY <1>6 DEF Request, RequestBackup, RequestRestore, RequestVerify
  <2>2. outcome[op] = "none"
    BY <1>6, IdleBefore DEF Control, OutcomeInv
  <2> QED
    BY <1>4, <1>6, <2>1, <2>2, StartRecords DEF NewJob
<1>7. ASSUME NEW op \in Op, Update(op), UNCHANGED outcome PROVE True(j)'
  BY <1>4, <1>7, RecordMoves DEF TypeOK
<1>8. ASSUME NEW op \in Op, NEW s \in Terminal, NEW a \in BOOLEAN,
             Finish(op, s, a), outcome[op] = "none",
             outcome' = [outcome EXCEPT ![op] = s]
      PROVE  True(j)'
  <2>1. /\ j \in DOMAIN jobs
        /\ j = op => /\ jobs'[j].status = s
                     /\ jobs'[j].error = (jobs[j].error \/ s = "failed")
        /\ j # op => jobs'[j] = jobs[j]
    BY <1>8 DEF Finish
  <2>2. CASE j = op
    <3>1. outcome'[j] = s /\ s # "none"
      BY <1>8, <2>2 DEF TypeOK, Terminal
    <3>2. jobs'[j].error <=> s = "failed"
      BY <1>4, <1>8, <2>1, <2>2
    <3> QED
      BY <2>1, <2>2, <3>1, <3>2
  <2>3. CASE j # op
    <3>1. outcome'[j] = outcome[j]
      BY <1>2, <1>8, <2>3 DEF TypeOK
    <3> QED
      BY <1>4, <2>1, <2>3, <3>1
  <2> QED
    BY <2>2, <2>3
<1> QED
  BY <1>5, <1>6, <1>7, <1>8, StoreMoves DEF StoreMove

\* What the API says of a job is what became of its goroutine: every early
\* return of walg.go reports itself, once, and nothing overwrites the report.
THEOREM RecordsTrue == Spec => []RecordIsTruth
<1>1. Init => FreshInv /\ IndexInv /\ RecordIsTruth
  BY StoreAssumption
  DEF Init, StoreInit, FreshInv, IndexInv, RecordIsTruth, Range
<1> QED
  BY <1>1, TypeInit, TypeNext, ControlInit, ControlNext, IndexNext, TruthNext,
     PTL
  DEF Spec
\* Together: the store of jobs.go finds every job it lists, and what it says of
\* the goroutines of walg.go is true.
THEOREM StoreTrue == Spec => []StoreIsTrue
  BY StoreIndexed, RecordsTrue, PTL DEF StoreIsTrue
-----------------------------------------------------------------------------
(* The data directory *)

\* A restore that gave up has given up for good.
LEMMA GaveUpStays ==
  ASSUME TypeOK, Control, [Next]_vars PROVE GaveUp \subseteq GaveUp'
<1> SUFFICES ASSUME NEW q \in Op, outcome[q] = "failed"
             PROVE  outcome'[q] = "failed"
  BY DEF GaveUp
<1> QED
  BY StoreMoves DEF StoreMove, TypeOK

LEMMA DirNext ==
  ASSUME TypeOK, Control, DirExplained, [Next]_vars
  PROVE  DirExplained'
<1> DEFINE DirKept == dir' \in {dir, "cluster"}
<1>1. ASSUME DirKept, Restoring \subseteq Restoring' PROVE DirExplained'
  BY <1>1, GaveUpStays DEF DirExplained
<1>2. ASSUME NEW op \in Op, op \in Restoring' \cup GaveUp' PROVE DirExplained'
  BY <1>2 DEF DirExplained
<1>3. ASSUME NEW op \in Op, pc[op] \notin RestoreSteps \ {"stop"},
             NEW s, Goto(op, s), UNCHANGED dir
      PROVE  DirExplained'
  <2>1. Restoring \subseteq Restoring'
    BY <1>3 DEF Restoring, Goto, TypeOK
  <2> QED
    BY <1>1, <1>3, <2>1
<1>4. ASSUME NEW op \in Op, pc[op] \in RestoreSteps,
             Goto(op, "clean") \/ Goto(op, "fetch") \/ Goto(op, "signal")
             \/ Goto(op, "start")
      PROVE  op \in Restoring'
  BY <1>4 DEF Goto, Restoring, RestoreSteps, TypeOK
<1>5. ASSUME NEW op \in Op, pc[op] \in RestoreSteps, Return(op, "failed")
      PROVE  op \in GaveUp'
  BY <1>5 DEF Return, GaveUp, Control, KindInv, TypeOK
<1>6. ASSUME NEW op \in Op, Request(op) \/ Unlock(op) \/ RemoveScratch(op)
      PROVE  DirExplained'
  BY <1>3, <1>6
  DEF Request, RequestBackup, RequestRestore, RequestVerify, Unlock,
      RemoveScratch, RestoreSteps, clusterVars
<1>7. ASSUME NEW op \in Op, Lock(op) PROVE DirExplained'
  <2>1. pc[op] = "queued" /\ UNCHANGED dir /\ \E s : Goto(op, s)
    BY <1>7 DEF Lock, clusterVars
  <2> QED
    BY <1>3, <2>1 DEF RestoreSteps
<1>8. ASSUME NEW op \in Op,
             ListBase(op) \/ PushBegin(op) \/ PushEnd(op) \/ Retain(op)
      PROVE  DirExplained'
  BY <1>3, <1>8
  DEF ListBase, PushBegin, PushEnd, Retain, Return, RestoreSteps, clusterVars
<1>9. ASSUME NEW op \in Op,
             MakeScratch(op) \/ VFetch(op) \/ VReport(op) \/ VAttach(op)
      PROVE  DirExplained'
  BY <1>3, <1>9
  DEF MakeScratch, VFetch, VReport, VAttach, VReturn, RestoreSteps, clusterVars
<1>10. ASSUME NEW op \in Op, StopServer(op) \/ CleanDir(op) \/ Fetch(op)
                             \/ WriteRecovery(op)
       PROVE  DirExplained'
  BY <1>2, <1>4, <1>5, <1>10
  DEF StopServer, CleanDir, Fetch, WriteRecovery, RestoreSteps
<1>11. ASSUME NEW op \in Op, StartServer(op) PROVE DirExplained'
  <2>1. CASE dir' = "cluster"
    BY <2>1 DEF DirExplained
  <2>2. CASE Return(op, "failed")
    BY <1>2, <1>5, <1>11, <2>2 DEF StartServer, RestoreSteps
  <2> QED
    BY <1>11, <2>1, <2>2 DEF StartServer
<1>12. ASSUME NEW r \in Restarter, RestartStop(r) \/ RestartStart(r)
       PROVE  DirExplained'
  <2>1. DirKept /\ UNCHANGED pc
    BY <1>12 DEF RestartStop, RestartStart, clusterVars
  <2> QED
    BY <1>1, <2>1 DEF Restoring
<1>13. ASSUME PostmasterExits \/ UNCHANGED vars PROVE DirExplained'
  <2>1. DirKept /\ UNCHANGED pc
    BY <1>13 DEF PostmasterExits, vars, clusterVars
  <2> QED
    BY <1>1, <2>1 DEF Restoring
<1> QED
  BY <1>6, <1>7, <1>8, <1>9, <1>10, <1>11, <1>12, <1>13
  DEF Next, Work, Quiescent

\* The data directory is whole unless a restore has it in hand or has given
\* up: no backup, verification or restart takes it apart, whatever fails.
THEOREM DirectorySafe == Spec => []DirExplained
<1>1. Init => DirExplained
  BY DEF Init, DirExplained
<1> QED
  BY <1>1, TypeInit, TypeNext, ControlInit, ControlNext, DirNext, PTL DEF Spec
-----------------------------------------------------------------------------
(* The object store: chains and retention *)

\* The name latestByTime answers is the newest one that was ever given.
LEMMA LatestIsNewest ==
  ASSUME TypeOK, NamesInv, NewestSurvives
  PROVE  /\ next - 1 \in Names /\ next - 1 \in Nat \ {0}
         /\ \A n \in Latest : n = next - 1
<1>1. next \in Nat \ {0} /\ \A n \in Names : n \in Nat \ {0} /\ n < next
  BY DEF TypeOK, Names, Backup, NamesInv
<1>2. next - 1 \in Names
  BY DEF NewestSurvives
<1>3. ASSUME NEW n \in Latest PROVE n = next - 1
  <2>1. n \in Names /\ next - 1 <= n
    BY <1>2 DEF Latest
  <2> QED
    BY <1>1, <2>1
<1> QED
  BY <1>1, <1>2, <1>3

\* applyRetention: with the n-th newest full backup go the ones before it, so
\* a delta that stays has its base beside it, and the newest backup stays.
LEMMA RetentionKeeps ==
  ASSUME TypeOK, ChainInv, NEW n \in Nat \ {0},
         storage' = Kept(n), UNCHANGED next
  PROVE  BackupsStand'
<1> DEFINE Newer(m) == {f \in FullNames : f > m}
<1>1. /\ storage \subseteq Backup
      /\ NamesInv /\ BetweenInv /\ ChainIntact /\ NewestSurvives
  BY DEF TypeOK, ChainInv, BackupsStand
<1>2. \A b \in storage : b \in storage' <=> Cardinality(Newer(b.name)) < n
  BY DEF Kept
<1>3. storage' \subseteq storage
  BY DEF Kept
<1>4. ASSUME NEW b \in storage', b.base # 0 PROVE b.base \in Names'
  <2>1. b \in storage /\ Cardinality(Newer(b.name)) < n
    BY <1>2, <1>3
  <2>2. PICK c \in storage : c.name = b.base
    BY <1>1, <1>4, <2>1 DEF ChainIntact, Names
  <2>3. /\ b.name \in Nat /\ b.base \in Nat
        /\ \A f \in FullNames : f \in Nat
    BY <1>1, <2>1 DEF Backup, FullNames
  <2>4. \A f \in FullNames : f > c.name <=> f > b.name
    <3> SUFFICES ASSUME NEW d \in storage, d.base = 0
                 PROVE  d.name > c.name <=> d.name > b.name
      BY DEF FullNames
    <3>1. d.name # b.name
      BY <1>1, <1>4, <2>1 DEF NamesInv
    <3>2. ~(b.base < d.name /\ d.name < b.name)
      BY <1>1, <1>4, <2>1 DEF BetweenInv
    <3>3. b.base < b.name /\ d.name \in Nat
      BY <1>1, <2>1 DEF NamesInv, Backup
    <3> QED
      BY <2>2, <2>3, <3>1, <3>2, <3>3
  <2>5. Newer(c.name) = Newer(b.name)
    BY <2>4
  <2>6. c \in storage'
    BY <1>2, <2>1, <2>5
  <2> QED
    BY <2>2, <2>6 DEF Names
<1>5. next - 1 \in Names'
  <2>1. PICK b \in storage : b.name = next - 1
    BY <1>1 DEF NewestSurvives, Names
  <2>2. Newer(b.name) = {}
    <3>1. ASSUME NEW d \in storage PROVE ~(d.name > b.name)
      <4>1. d.name < next /\ d.name \in Nat /\ next \in Nat
        BY <1>1 DEF NamesInv, Backup, TypeOK
      <4> QED
        BY <2>1, <4>1
    <3> QED
      BY <3>1 DEF FullNames
  <2>3. Cardinality(Newer(b.name)) = 0
    BY <2>2, FS_EmptySet
  <2>4. b \in storage'
    BY <1>2, <2>3
  <2> QED
    BY <2>1, <2>4 DEF Names
<1> QED
  BY <1>4, <1>5 DEF BackupsStand, ChainIntact, NewestSurvives

\* backup-push: the new backup is the newest, its base is there, and no full
\* backup came after its base.
LEMMA PushKeeps ==
  ASSUME TypeOK, ChainInv, NEW op \in Op,
         KindOf[op] \in {"full", "incremental"}, pc[op] = "upload",
         storage' = storage \cup
           {[name |-> next, base |-> arg[op], sound |-> dir = "cluster"]},
         next' = next + 1
  PROVE  BackupsStand' /\ NamesInv' /\ BetweenInv'
<1> DEFINE new == [name |-> next, base |-> arg[op], sound |-> dir = "cluster"]
<1>1. /\ storage \subseteq Backup /\ next \in Nat \ {0}
      /\ NamesInv /\ BetweenInv /\ ChainIntact /\ NewestSurvives
  BY DEF TypeOK, ChainInv, BackupsStand
<1>2. /\ arg[op] = 0 \/ arg[op] = next - 1
      /\ next - 1 \in Names
  BY <1>1, LatestIsNewest DEF ChainInv, PushInv
<1>3. new.name = next /\ new.base = arg[op] /\ new \in storage'
  OBVIOUS
<1>4. \A b \in storage : b.name \in Nat /\ b.base \in Nat /\ b.name < next
                         /\ b.base < b.name
  BY <1>1 DEF NamesInv, Backup
<1> HIDE DEF new
<1>5. storage' = storage \cup {new}
  BY DEF new
<1>6. Names \subseteq Names'
  BY <1>5 DEF Names
<1>7. ChainIntact'
  BY <1>1, <1>2, <1>3, <1>5, <1>6 DEF ChainIntact
<1>8. next' - 1 = next /\ next \in Names'
  BY <1>1, <1>3 DEF Names
<1>9. \A b, c \in storage' : b.name = c.name => b = c
  <2> SUFFICES ASSUME NEW b \in storage', NEW c \in storage', b.name = c.name
               PROVE  b = c
    OBVIOUS
  <2>1. CASE b \in storage /\ c \in storage
    BY <1>1, <2>1 DEF NamesInv
  <2>2. CASE b \notin storage \/ c \notin storage
    BY <1>1, <1>3, <1>4, <1>5, <2>2
  <2> QED
    BY <2>1, <2>2
<1>10. \A b \in storage' : b.base < b.name /\ b.name < next'
  BY <1>1, <1>2, <1>3, <1>4, <1>5
<1>11. BetweenInv'
  <2> SUFFICES ASSUME NEW b \in storage', NEW c \in storage',
                      b.base # 0, c.base = 0
               PROVE  ~(b.base < c.name /\ c.name < b.name)
    BY DEF BetweenInv
  <2>1. CASE b \in storage /\ c \in storage
    BY <1>1, <2>1 DEF BetweenInv
  <2>2. CASE b = new
    BY <1>1, <1>2, <1>3, <1>4, <1>5, <2>2
  <2>3. CASE b \in storage /\ c = new
    BY <1>1, <1>3, <1>4, <2>3
  <2> QED
    BY <1>5, <2>1, <2>2, <2>3
<1> QED
  BY <1>7, <1>8, <1>9, <1>10, <1>11
  DEF BackupsStand, NewestSurvives, NamesInv

\* A step that leaves the object store and the bases in hand alone, and sends
\* nobody to look for a base or to push.
LEMMA ChainRests ==
  ASSUME TypeOK, ChainInv, NEW op \in Op, NEW s, Goto(op, s),
         UNCHANGED <<storage, next>>,
         \/ s \notin {"list", "push", "upload"}
         \/ KindOf[op] # "incremental" /\ s # "list"
         \/ s = "list" /\ KindOf[op] = "incremental"
         \/ s \in {"push", "upload"} /\ arg'[op] = next - 1,
         \/ UNCHANGED arg
         \/ KindOf[op] # "full" /\ \E n : arg' = [arg EXCEPT ![op] = n]
  PROVE  ChainInv'
<1>1. BackupsStand' /\ NamesInv' /\ BetweenInv'
  BY DEF ChainInv, BackupsStand, ChainIntact, NewestSurvives, Names, NamesInv,
         BetweenInv
<1>2. ASSUME NEW q \in Op, q # op
      PROVE  pc'[q] = pc[q] /\ arg'[q] = arg[q]
  BY <1>2 DEF Goto, TypeOK
<1>3. pc'[op] = s /\ (KindOf[op] = "full" => arg'[op] = arg[op])
  BY DEF Goto, TypeOK
<1>4. PushInv'
  BY <1>2, <1>3 DEF ChainInv, PushInv
<1> QED
  BY <1>1, <1>4 DEF ChainInv

LEMMA ChainNext ==
  ASSUME TypeOK, Control, ChainInv, [Next]_vars
  PROVE  ChainInv'
<1>1. ASSUME NEW op \in Op, Request(op) PROVE ChainInv'
  <2>1. \/ UNCHANGED arg
        \/ KindOf[op] # "full" /\ \E n : arg' = [arg EXCEPT ![op] = n]
    BY <1>1 DEF Request, RequestBackup, RequestRestore, RequestVerify
  <2> QED
    BY <1>1, <2>1, ChainRests
    DEF Request, RequestBackup, RequestRestore, RequestVerify
<1>2. ASSUME NEW op \in Op, Lock(op) PROVE ChainInv'
  <2>1. UNCHANGED <<storage, next, arg>>
    BY <1>2 DEF Lock
  <2>2. CASE KindOf[op] = "full"
    BY <1>2, <2>1, <2>2, ChainRests DEF Lock
  <2>3. CASE KindOf[op] = "incremental"
    BY <1>2, <2>1, <2>3, ChainRests DEF Lock
  <2>4. CASE KindOf[op] \notin {"full", "incremental"}
    BY <1>2, <2>1, <2>4, ChainRests DEF Lock
  <2> QED
    BY <2>2, <2>3, <2>4
<1>3. ASSUME NEW op \in Op, ListBase(op) PROVE ChainInv'
  <2>1. KindOf[op] = "incremental"
    BY <1>3 DEF ListBase, ChainInv, PushInv
  <2>2. ASSUME NEW n \in Latest, arg' = [arg EXCEPT ![op] = n], Goto(op, "push")
        PROVE  ChainInv'
    <3>1. n = next - 1
      BY LatestIsNewest DEF ChainInv, BackupsStand
    <3>2. arg'[op] = next - 1
      BY <2>2, <3>1 DEF TypeOK
    <3> QED
      BY <1>3, <2>1, <2>2, <3>2, ChainRests DEF ListBase
  <2> QED
    BY <1>3, <2>2, ChainRests DEF ListBase, Return
<1>4. ASSUME NEW op \in Op, PushBegin(op) PROVE ChainInv'
  <2>1. KindOf[op] \in {"full", "incremental"} /\ pc[op] = "push"
    BY <1>4 DEF PushBegin, Control, KindInv, BackupSteps
  <2>2. KindOf[op] = "incremental" => arg[op] = next - 1
    BY <2>1 DEF ChainInv, PushInv
  <2> QED
    BY <1>4, <2>1, <2>2, ChainRests DEF PushBegin, Return
<1>5. ASSUME NEW op \in Op, PushEnd(op) PROVE ChainInv'
  <2>1. KindOf[op] \in {"full", "incremental"} /\ pc[op] = "upload"
    BY <1>5 DEF PushEnd, Control, KindInv, BackupSteps
  <2>2. CASE Return(op, "failed") /\ UNCHANGED <<storage, next>>
    BY <1>5, <2>2, ChainRests DEF PushEnd, Return
  <2>3. CASE /\ storage' = storage \cup
                  {[name |-> next, base |-> arg[op], sound |-> dir = "cluster"]}
             /\ next' = next + 1
             /\ Goto(op, "retain")
    <3>1. BackupsStand' /\ NamesInv' /\ BetweenInv'
      BY <2>1, <2>3, PushKeeps
    <3>2. UNCHANGED arg
      BY <1>5 DEF PushEnd
    <3>3. ASSUME NEW q \in Op PROVE pc'[q] \notin {"push", "upload"}
      <4>1. q # op => pc[q] \notin Critical
        BY <2>1 DEF Control, LockInv, Critical, BackupSteps
      <4> QED
        BY <2>3, <4>1 DEF Goto, TypeOK, Critical, BackupSteps
    <3>4. PushInv'
      BY <2>3, <3>2, <3>3 DEF ChainInv, PushInv, Goto, TypeOK
    <3> QED
      BY <3>1, <3>4 DEF ChainInv
  <2> QED
    BY <1>5, <2>2, <2>3 DEF PushEnd
<1>6. ASSUME NEW op \in Op, Retain(op) PROVE ChainInv'
  <2>1. Goto(op, "unlock") /\ UNCHANGED <<next, arg>>
    BY <1>6 DEF Retain, Return
  <2>2. CASE UNCHANGED storage
    BY <2>1, <2>2, ChainRests
  <2>3. ASSUME NEW n \in Nat \ {0}, storage' = Kept(n) PROVE ChainInv'
    <3>1. BackupsStand'
      BY <2>1, <2>3, RetentionKeeps
    <3>2. storage' \subseteq storage
      BY <2>3 DEF Kept
    <3>3. NamesInv' /\ BetweenInv'
      BY <2>1, <3>2 DEF ChainInv, NamesInv, BetweenInv
    <3>4. PushInv'
      BY <2>1 DEF ChainInv, PushInv, Goto, TypeOK
    <3> QED
      BY <3>1, <3>3, <3>4 DEF ChainInv
  <2>4. RetainCounts \subseteq Nat
    BY WalGAssumption
  <2> QED
    BY <1>6, <2>2, <2>3, <2>4 DEF Retain
<1>7. ASSUME NEW op \in Op,
             \/ StopServer(op) \/ CleanDir(op) \/ Fetch(op) \/ WriteRecovery(op)
             \/ StartServer(op) \/ MakeScratch(op) \/ VFetch(op) \/ VReport(op)
             \/ VAttach(op) \/ RemoveScratch(op) \/ Unlock(op)
      PROVE  ChainInv'
  <2>1. UNCHANGED <<storage, next, arg>>
    BY <1>7
    DEF StopServer, CleanDir, Fetch, WriteRecovery, StartServer, MakeScratch,
        VFetch, VReport, VAttach, RemoveScratch, Unlock
  <2>2. \E s \in Step \ {"list", "push", "upload"} : Goto(op, s)
    BY <1>7
    DEF StopServer, CleanDir, Fetch, WriteRecovery, StartServer, MakeScratch,
        VFetch, VReport, VAttach, RemoveScratch, Unlock, Return, VReturn,
        Step, Critical, RestoreSteps, VerifySteps
  <2> QED
    BY <2>1, <2>2, ChainRests
<1>8. ASSUME UNCHANGED <<pc, arg, storage, next>> PROVE ChainInv'
  BY <1>8 DEF ChainInv, BackupsStand, ChainIntact, NewestSurvives, Names,
              NamesInv, BetweenInv, PushInv
<1>9. ASSUME NEW r \in Restarter, RestartStop(r) \/ RestartStart(r)
      PROVE  ChainInv'
  BY <1>8, <1>9 DEF RestartStop, RestartStart
<1>10. ASSUME PostmasterExits \/ UNCHANGED vars PROVE ChainInv'
  BY <1>8, <1>10 DEF PostmasterExits, vars
<1> QED
  BY <1>1, <1>2, <1>3, <1>4, <1>5, <1>6, <1>7, <1>9, <1>10
  DEF Next, Work, Quiescent

LEMMA ChainInit == ASSUME Init PROVE ChainInv
<1>1. Names = {1} /\ next - 1 = 1
  BY DEF Init, Names
<1>2. BackupsStand
  BY <1>1 DEF Init, BackupsStand, ChainIntact, NewestSurvives
<1>3. NamesInv /\ BetweenInv /\ PushInv
  BY DEF Init, NamesInv, BetweenInv, PushInv
<1> QED
  BY <1>2, <1>3 DEF ChainInv

\* Whatever RetainCount is and however requests interleave, retention
\* (applyRetention) leaves every delta its base and never takes the newest
\* backup: the base is looked up and the prune is run under the same lock.
THEOREM BackupsSafe == Spec => []BackupsStand
<1>1. ChainInv => BackupsStand
  BY DEF ChainInv
<1> QED
  BY <1>1, TypeInit, TypeNext, ControlInit, ControlNext, ChainInit, ChainNext,
     PTL
  DEF Spec
-----------------------------------------------------------------------------
(* What takes no lock: restarts, and the traces of a verification *)

LEMMA ServerNext ==
  ASSUME TypeOK, Control, ServerInv, [Next]_vars
  PROVE  ServerInv'
<1> DEFINE Untouched == \A r \in Restarter : rpc[r] = "idle"
           Down  == Restoring # {} \/ dir # "cluster" => pg = "down"
           Sound == \A b \in storage : b.sound
<1> SUFFICES ASSUME Untouched' PROVE Down' /\ Sound'
  BY DEF ServerInv
<1>0. TypeOK' /\ Control'
  BY TypeNext, ControlNext
<1>1. ASSUME NEW r \in Restarter PROVE ~RestartStop(r) /\ ~RestartStart(r)
  BY DEF RestartStop, RestartStart, TypeOK
<1>2. ASSUME NEW r \in Restarter PROVE rpc[r] = rpc'[r]
  BY <1>1
  DEF Next, Request, RequestBackup, RequestRestore, RequestVerify, Lock, Work,
      ListBase, PushBegin, PushEnd, Retain, StopServer, CleanDir, Fetch,
      WriteRecovery, StartServer, MakeScratch, VFetch, VReport, VAttach,
      RemoveScratch, Unlock, PostmasterExits, Quiescent, vars
<1>3. Down /\ Sound
  BY <1>2 DEF ServerInv
<1>4. ASSUME UNCHANGED clusterVars, storage' \subseteq storage,
             Restoring' \subseteq Restoring
      PROVE  Down' /\ Sound'
  BY <1>3, <1>4 DEF clusterVars
<1>5. ASSUME NEW op \in Op, NEW s \in Step \ (RestoreSteps \ {"stop"}),
             Goto(op, s)
      PROVE  Restoring' \subseteq Restoring
  BY <1>5 DEF Goto, Restoring, TypeOK
<1>6. ASSUME NEW op \in Op,
             \/ Request(op) \/ ListBase(op) \/ PushBegin(op) \/ Retain(op)
             \/ MakeScratch(op) \/ VFetch(op) \/ VReport(op) \/ VAttach(op)
             \/ RemoveScratch(op) \/ Unlock(op)
      PROVE  Down' /\ Sound'
  <2>1. UNCHANGED clusterVars /\ storage' \subseteq storage
    BY <1>6
    DEF Request, RequestBackup, RequestRestore, RequestVerify, ListBase,
        PushBegin, Retain, Kept, MakeScratch, VFetch, VReport, VAttach,
        RemoveScratch, Unlock
  <2>2. \E s \in Step \ (RestoreSteps \ {"stop"}) : Goto(op, s)
    BY <1>6
    DEF Request, RequestBackup, RequestRestore, RequestVerify, ListBase,
        PushBegin, Retain, MakeScratch, VFetch, VReport, VAttach,
        RemoveScratch, Unlock, Return, VReturn, Step, Critical, BackupSteps,
        RestoreSteps, VerifySteps
  <2> QED
    BY <1>4, <1>5, <2>1, <2>2
<1>7. ASSUME NEW op \in Op, Lock(op) PROVE Down' /\ Sound'
  <2>1. \E s \in {"push", "list", "stop"} : Goto(op, s)
    <3>1. CASE KindOf[op] = "full"
      BY <1>7, <3>1 DEF Lock
    <3>2. CASE KindOf[op] = "incremental"
      BY <1>7, <3>2 DEF Lock
    <3>3. CASE KindOf[op] \notin {"full", "incremental"}
      BY <1>7, <3>3 DEF Lock
    <3> QED
      BY <3>1, <3>2, <3>3
  <2> QED
    BY <1>4, <1>5, <1>7, <2>1
    DEF Lock, Step, Critical, BackupSteps, RestoreSteps
<1>8. ASSUME NEW op \in Op, PushEnd(op) PROVE Down' /\ Sound'
  <2>1. Restoring' \subseteq Restoring
    BY <1>5, <1>8
    DEF PushEnd, Return, Step, Critical, BackupSteps, RestoreSteps
  <2>2. UNCHANGED clusterVars
    BY <1>8 DEF PushEnd
  <2>3. Sound'
    <3>1. CASE UNCHANGED storage
      BY <1>3, <3>1
    <3>2. ASSUME pg = "up",
                 storage' = storage \cup
                   {[name |-> next, base |-> arg[op], sound |-> dir = "cluster"]}
          PROVE  Sound'
      <4>1. dir = "cluster"
        BY <1>3, <3>2
      <4>2. [name |-> next, base |-> arg[op], sound |-> dir = "cluster"].sound
        BY <4>1
      <4> QED
        BY <1>3, <3>2, <4>2, Zenon
    <3> QED
      BY <1>8, <3>1, <3>2 DEF PushEnd
  <2> QED
    BY <1>3, <2>1, <2>2, <2>3 DEF clusterVars
<1>9. ASSUME NEW op \in Op, StopServer(op) PROVE Down' /\ Sound'
  <2>1. CASE pg' = "down"
    BY <1>3, <1>9, <2>1 DEF StopServer
  <2>2. CASE Return(op, "failed") /\ UNCHANGED pg
    <3>1. Restoring' \subseteq Restoring
      BY <1>5, <2>2 DEF Return, Step, Critical, RestoreSteps
    <3> QED
      BY <1>4, <1>9, <2>2, <3>1 DEF StopServer, clusterVars
  <2> QED
    BY <1>9, <2>1, <2>2 DEF StopServer
<1>10. ASSUME NEW op \in Op, CleanDir(op) \/ Fetch(op) \/ WriteRecovery(op)
       PROVE  Down' /\ Sound'
  <2>1. op \in Restoring
    BY <1>10 DEF CleanDir, Fetch, WriteRecovery, Restoring, RestoreSteps
  <2>2. pg' = "down" /\ UNCHANGED storage
    BY <1>3, <1>10, <2>1 DEF CleanDir, Fetch, WriteRecovery
  <2> QED
    BY <1>3, <2>2
<1>11. ASSUME NEW op \in Op, StartServer(op) PROVE Down' /\ Sound'
  <2>1. pg = "down" /\ UNCHANGED storage
    BY <1>3, <1>11 DEF StartServer, Restoring, RestoreSteps
  <2>2. CASE dir' = "cluster" /\ Return(op, "succeeded")
    <3>1. pc'[op] \in Critical
      BY <2>2 DEF Return, Goto, TypeOK, Critical
    <3>2. Restoring' = {}
      BY <1>0, <2>2, <3>1
      DEF Restoring, Control, LockInv, Critical, RestoreSteps, Return, Goto,
          TypeOK
    <3> QED
      BY <1>3, <2>1, <2>2, <3>2
  <2>3. CASE UNCHANGED clusterVars
    BY <1>3, <2>1, <2>3 DEF clusterVars
  <2> QED
    BY <1>11, <2>2, <2>3 DEF StartServer
<1>12. ASSUME PostmasterExits PROVE Down' /\ Sound'
  BY <1>3, <1>12 DEF PostmasterExits
<1>13. ASSUME UNCHANGED vars PROVE Down' /\ Sound'
  BY <1>4, <1>13 DEF vars, clusterVars, Restoring
<1> QED
  BY <1>1, <1>6, <1>7, <1>8, <1>9, <1>10, <1>11, <1>12, <1>13
  DEF Next, Work, Quiescent

\* A step of one goroutine leaves the reports of the others as they are; what
\* it does to its own is what remains to be shown.
LEMMA ReportAlone ==
  ASSUME TypeOK, ReportInv, NEW op \in Op, NEW s, Goto(op, s),
         \A q \in Op \ {op} :
           /\ outcome'[q] = outcome[q]
           /\ q \in scratch' <=> q \in scratch
           /\ q \in files' <=> q \in files
           /\ q \in DOMAIN jobs' =>
                q \in DOMAIN jobs /\ (jobs'[q].artifact <=> jobs[q].artifact),
         ReportOf(op)'
  PROVE  ReportInv'
<1> SUFFICES ASSUME NEW q \in Op, q # op PROVE ReportOf(q)'
  BY DEF ReportInv
<1>1. pc'[q] = pc[q] /\ ReportOf(q)
  BY DEF Goto, TypeOK, ReportInv
<1> QED
  BY <1>1 DEF ReportOf

\* The moves of a goroutine that has no report and is not to have one: it goes
\* on, or it ends its job without an artifact.
LEMMA ReportRests ==
  ASSUME TypeOK, ReportInv, NEW op \in Op, NEW s, Goto(op, s),
         op \notin files, s # "attach",
         UNCHANGED files,
         op \in scratch' => s \in {"vfetch", "report", "rmtmp"},
         \A q \in Op \ {op} : q \in scratch' <=> q \in scratch,
         \/ UNCHANGED <<jobs, order, outcome>>
         \/ Update(op) /\ UNCHANGED outcome
         \/ \E t \in Terminal : /\ Finish(op, t, FALSE)
                                /\ outcome' = [outcome EXCEPT ![op] = t]
  PROVE  ReportInv'
<1>1. op \notin files' /\ pc'[op] = s /\ StoreTypeOK
  BY DEF Goto, TypeOK
<1>2. \A q \in DOMAIN jobs' :
        q \in DOMAIN jobs /\ (jobs'[q].artifact <=> jobs[q].artifact)
  BY <1>1, ArtifactMoves, RecordMoves
<1>3. op \in DOMAIN jobs => ~jobs[op].artifact
  BY DEF ReportInv, ReportOf
<1>4. ReportOf(op)'
  BY <1>1, <1>2, <1>3 DEF ReportOf
<1>5. \A q \in Op \ {op} : outcome'[q] = outcome[q]
  BY DEF TypeOK
<1> QED
  BY <1>2, <1>4, <1>5, ReportAlone

LEMMA ReportNext ==
  ASSUME TypeOK, Control, FreshInv, RecordIsTruth, ReportInv, [Next]_vars
  PROVE  ReportInv'
<1> USE DEF VerifySteps, BackupSteps, RestoreSteps
<1>1. ASSUME NEW op \in Op, Request(op) PROVE ReportInv'
  <2>1. PICK s \in {"queued", "mkdir"} : Goto(op, s)
    BY <1>1 DEF Request, RequestBackup, RequestRestore, RequestVerify
  <2>2. Start(op) /\ pc[op] = "idle" /\ UNCHANGED <<outcome, scratch>>
    BY <1>1 DEF Request, RequestBackup, RequestRestore, RequestVerify
  <2>3. op \notin files /\ op \notin scratch
    BY <2>2 DEF ReportInv, ReportOf
  <2>4. files' \subseteq files
    BY <2>2, StartFiles
  <2>5. op \in DOMAIN jobs' => ~jobs'[op].artifact
    BY <2>2, StartRecords DEF NewJob
  <2>6. ReportOf(op)'
    BY <2>1, <2>2, <2>3, <2>4, <2>5 DEF ReportOf, Goto, TypeOK
  <2>7. ASSUME NEW q \in Op, q # op PROVE ReportOf(q)'
    <3>1. pc'[q] = pc[q] /\ ReportOf(q)
      BY <2>1, <2>7 DEF Goto, TypeOK, ReportInv
    <3>2. q \in DOMAIN jobs' => q \in DOMAIN jobs /\ jobs'[q] = jobs[q]
      BY <2>2, <2>7, StartRecords
    <3>3. q \in files \ files' =>
            q \notin DOMAIN jobs' /\ outcome[q] = "succeeded"
      BY <2>2, <3>1, StartFiles DEF ReportOf
    <3>4. pc[q] = "attach" => outcome[q] = "none"
      BY DEF Control, OutcomeInv
    <3> QED
      BY <2>2, <2>4, <3>1, <3>2, <3>3, <3>4 DEF ReportOf
  <2> QED
    BY <2>6, <2>7 DEF ReportInv
<1>2. ASSUME NEW op \in Op, Lock(op) PROVE ReportInv'
  <2>1. \E s \in {"push", "list", "stop"} : Goto(op, s)
    <3>1. CASE KindOf[op] = "full"
      BY <1>2, <3>1 DEF Lock
    <3>2. CASE KindOf[op] = "incremental"
      BY <1>2, <3>2 DEF Lock
    <3>3. CASE KindOf[op] \notin {"full", "incremental"}
      BY <1>2, <3>3 DEF Lock
    <3> QED
      BY <3>1, <3>2, <3>3
  <2>2. op \notin files /\ op \notin scratch
    BY <1>2 DEF Lock, ReportInv, ReportOf
  <2> QED
    BY <1>2, <2>1, <2>2, ReportRests DEF Lock, storeVars
<1>3. ASSUME NEW op \in Op, pc[op] \in BackupSteps \cup RestoreSteps,
             UNCHANGED <<files, scratch>>, NEW s \in BackupSteps \cup RestoreSteps,
             Goto(op, s),
             \/ UNCHANGED <<jobs, order, outcome>>
             \/ Update(op) /\ UNCHANGED outcome
      PROVE  ReportInv'
  <2>1. op \notin files /\ op \notin scratch
    BY <1>3 DEF ReportInv, ReportOf
  <2> QED
    BY <1>3, <2>1, ReportRests
<1>4. ASSUME NEW op \in Op, pc[op] \in BackupSteps \cup RestoreSteps,
             UNCHANGED <<files, scratch>>, NEW t \in Terminal, Return(op, t)
      PROVE  ReportInv'
  <2>1. op \notin files /\ op \notin scratch
    BY <1>4 DEF ReportInv, ReportOf
  <2> QED
    BY <1>4, <2>1, ReportRests DEF Return
<1>5. ASSUME NEW op \in Op,
             ListBase(op) \/ PushBegin(op) \/ PushEnd(op) \/ Retain(op)
      PROVE  ReportInv'
  BY <1>3, <1>4, <1>5
  DEF ListBase, PushBegin, PushEnd, Retain, Return, storeVars, Terminal
<1>6. ASSUME NEW op \in Op,
             \/ StopServer(op) \/ CleanDir(op) \/ Fetch(op)
             \/ WriteRecovery(op) \/ StartServer(op)
      PROVE  ReportInv'
  BY <1>3, <1>4, <1>6
  DEF StopServer, CleanDir, Fetch, WriteRecovery, StartServer, Return,
      storeVars, Terminal
<1>7. ASSUME NEW op \in Op, MakeScratch(op) PROVE ReportInv'
  <2>1. op \notin files /\ op \notin scratch
    BY <1>7 DEF MakeScratch, ReportInv, ReportOf
  <2> QED
    BY <1>7, <2>1, ReportRests DEF MakeScratch, VReturn, Terminal, TypeOK
<1>8. ASSUME NEW op \in Op, VFetch(op) PROVE ReportInv'
  <2>1. op \notin files
    BY <1>8 DEF VFetch, ReportInv, ReportOf
  <2>2. UNCHANGED <<files, scratch>>
    BY <1>8 DEF VFetch
  <2>3. CASE VReturn(op, "failed", "rmtmp")
    BY <2>1, <2>2, <2>3, ReportRests DEF VReturn, Terminal
  <2>4. CASE Goto(op, "report") /\ UNCHANGED <<jobs, order, outcome>>
    BY <2>1, <2>2, <2>4, ReportRests
  <2> QED
    BY <1>8, <2>3, <2>4 DEF VFetch
<1>9. ASSUME NEW op \in Op, VReport(op) PROVE ReportInv'
  <2>1. op \notin files
    BY <1>9 DEF VReport, ReportInv, ReportOf
  <2>2. CASE VReturn(op, "failed", "rmtmp") /\ UNCHANGED files
    BY <1>9, <2>1, <2>2, ReportRests DEF VReport, VReturn, Terminal
  <2>3. CASE /\ files' = files \cup {op}
             /\ Goto(op, "attach")
             /\ UNCHANGED <<jobs, order, outcome>>
    <3>1. op \in DOMAIN jobs => ~jobs[op].artifact
      BY <2>1 DEF ReportInv, ReportOf
    <3>2. pc'[op] = "attach" /\ UNCHANGED scratch
      BY <1>9, <2>3 DEF VReport, Goto, TypeOK
    <3>3. ReportOf(op)'
      BY <2>3, <3>1, <3>2 DEF ReportOf
    <3> QED
      BY <2>3, <3>2, <3>3, ReportAlone
  <2> QED
    BY <1>9, <2>2, <2>3 DEF VReport
<1>10. ASSUME NEW op \in Op, VAttach(op) PROVE ReportInv'
  <2>1. op \in files /\ UNCHANGED <<files, scratch>>
    BY <1>10 DEF VAttach, ReportInv, ReportOf
  <2>2. op \in DOMAIN jobs => ~jobs[op].artifact
    BY <1>10 DEF VAttach, Control, OutcomeInv, ReportInv, ReportOf
  <2>3. PICK t \in {"succeeded", "failed"} : VReturn(op, t, "rmtmp")
    BY <1>10 DEF VAttach
  <2>4. (t = "succeeded") \in BOOLEAN /\ t \in Terminal /\ StoreTypeOK
    BY DEF Terminal, TypeOK
  <2>5. \A j \in DOMAIN jobs' : j \in DOMAIN jobs /\
          (jobs'[j].artifact <=> jobs[j].artifact \/ (j = op /\ t = "succeeded"))
    BY <2>3, <2>4, ArtifactMoves, RecordMoves DEF VReturn
  <2>6. pc'[op] = "rmtmp" /\ outcome' = [outcome EXCEPT ![op] = t]
    BY <2>3 DEF VReturn, Goto, TypeOK
  <2>7. outcome'[op] = t /\ \A q \in Op \ {op} : outcome'[q] = outcome[q]
    BY <2>6 DEF TypeOK
  <2>8. ReportOf(op)'
    BY <2>1, <2>2, <2>5, <2>6, <2>7 DEF ReportOf
  <2>9. \E s : Goto(op, s)
    BY <2>3 DEF VReturn
  <2> QED
    BY <2>1, <2>5, <2>7, <2>8, <2>9, ReportAlone
<1>11. ASSUME NEW op \in Op, RemoveScratch(op) \/ Unlock(op) PROVE ReportInv'
  <2>1. Goto(op, "done") /\ UNCHANGED <<storeVars, outcome>>
        /\ pc[op] \in {"rmtmp", "unlock"}
    BY <1>11 DEF RemoveScratch, Unlock
  <2>2. op \notin scratch' /\ \A q \in Op \ {op} : q \in scratch' <=> q \in scratch
    BY <1>11 DEF RemoveScratch, Unlock, ReportInv, ReportOf
  <2>3. ReportOf(op)'
    BY <2>1, <2>2 DEF ReportInv, ReportOf, Goto, TypeOK, storeVars
  <2> QED
    BY <2>1, <2>2, <2>3, ReportAlone DEF storeVars
<1>12. ASSUME UNCHANGED <<storeVars, pc, outcome, scratch>> PROVE ReportInv'
  BY <1>12 DEF ReportInv, ReportOf, storeVars
<1>13. ASSUME NEW r \in Restarter, RestartStop(r) \/ RestartStart(r)
       PROVE  ReportInv'
  BY <1>12, <1>13 DEF RestartStop, RestartStart
<1>14. ASSUME PostmasterExits \/ UNCHANGED vars PROVE ReportInv'
  BY <1>12, <1>14 DEF PostmasterExits, vars
<1> QED
  BY <1>1, <1>2, <1>5, <1>6, <1>7, <1>8, <1>9, <1>10, <1>11, <1>13, <1>14
  DEF Next, Work, Quiescent

LEMMA InductiveInit == ASSUME Init PROVE Inductive
<1>1. ServerInv
  <2>1. [name |-> 1, base |-> 0, sound |-> TRUE].sound
    OBVIOUS
  <2>2. \A b \in storage : b.sound
    BY <2>1, Zenon DEF Init
  <2> QED
    BY <2>2 DEF Init, ServerInv, Restoring, RestoreSteps
<1>2. ReportInv
  BY DEF Init, StoreInit, ReportInv, ReportOf
<1>3. FreshInv /\ IndexInv /\ RecordIsTruth
  BY StoreAssumption
  DEF Init, StoreInit, FreshInv, IndexInv, RecordIsTruth, Range
<1>4. DirExplained
  BY DEF Init, DirExplained
<1> QED
  BY <1>1, <1>2, <1>3, <1>4, TypeInit, ControlInit, ChainInit DEF Inductive

\* The inductive invariant: what the goroutines, the lock, the job store, the
\* directory, the server and the object store know of each other.
THEOREM InductiveHolds == Spec => []Inductive
<1>1. Inductive /\ [Next]_vars => Inductive'
  BY TypeNext, ControlNext, IndexNext, TruthNext, DirNext, ChainNext,
     ServerNext, ReportNext
  DEF Inductive
<1> QED
  BY <1>1, InductiveInit, PTL DEF Spec

\* A restart beside a restore can leave a server on a directory in pieces and
\* a backup that was read from one, and nothing else can; a job that offers a
\* report has it on disk, and a verification that is over leaves no other file
\* and no scratch directory (walg.go; config.go 93-105; trimLocked).
THEOREM BesideSafe == Spec => []BesideExplained
<1>1. ASSUME TypeOK, ServerInv, ReportInv PROVE BesideExplained
  <2>1. ServerExplained /\ BackupsSound
    BY <1>1 DEF TypeOK, ServerInv, ServerExplained, BackupsSound
  <2>2. DOMAIN jobs \subseteq Op
    BY <1>1, WalGAssumption DEF TypeOK, StoreTypeOK
  <2>3. ArtifactBacked
    BY <1>1, <2>2 DEF ReportInv, ReportOf, ArtifactBacked
  <2>4. NothingLeftBehind
    BY <1>1 DEF ReportInv, ReportOf, NothingLeftBehind
  <2> QED
    BY <2>1, <2>3, <2>4 DEF BesideExplained
<1>2. Inductive => BesideExplained
  BY <1>1 DEF Inductive
<1> QED
  BY <1>2, InductiveHolds, PTL
-----------------------------------------------------------------------------
(* What is never taken back *)

LEMMA OutcomeNext ==
  ASSUME TypeOK, Control, FreshInv, RecordIsTruth, [Next]_vars,
         NEW j \in DOMAIN jobs, jobs[j].status \in Terminal,
         j \in DOMAIN jobs'
  PROVE  jobs'[j].status = jobs[j].status
<1>1. DOMAIN jobs \subseteq Op /\ StoreTypeOK
  BY WalGAssumption DEF TypeOK, StoreTypeOK
<1>2. outcome[j] # "none"
  BY DEF RecordIsTruth, Terminal
<1>3. CASE UNCHANGED <<jobs, order, outcome>>
  BY <1>3
<1>4. ASSUME NEW op \in Op, Request(op) PROVE jobs'[j].status = jobs[j].status
  <2>1. Start(op)
    BY <1>4 DEF Request, RequestBackup, RequestRestore, RequestVerify
  <2>2. j # op
    BY <1>4, IdleBefore DEF FreshInv
  <2> QED
    BY <2>1, <2>2, StartRecords
<1>5. ASSUME NEW op \in Op, Update(op) PROVE jobs'[j].status = jobs[j].status
  BY <1>1, <1>5, RecordMoves
<1>6. ASSUME NEW op \in Op, NEW s \in Terminal, NEW a \in BOOLEAN,
             Finish(op, s, a), outcome[op] = "none"
      PROVE  jobs'[j].status = jobs[j].status
  BY <1>2, <1>6, RecordMoves
<1> QED
  BY <1>3, <1>4, <1>5, <1>6, StoreMoves DEF StoreMove

LEMMA WreckNext ==
  ASSUME TypeOK, Control, Wrecked, [Next]_vars
  PROVE  Wrecked'
<1> USE DEF Wrecked
<1>1. ASSUME UNCHANGED clusterVars, Restoring' \subseteq Restoring
      PROVE  Wrecked'
  BY <1>1 DEF clusterVars
<1>2. ASSUME NEW op \in Op, NEW s \in Step \ (RestoreSteps \ {"stop"}),
             Goto(op, s)
      PROVE  Restoring' \subseteq Restoring
  BY <1>2 DEF Goto, Restoring, TypeOK
<1>3. ASSUME NEW op \in Op,
             \/ Request(op) \/ ListBase(op) \/ PushBegin(op) \/ PushEnd(op)
             \/ Retain(op) \/ StopServer(op)
             \/ MakeScratch(op) \/ VFetch(op) \/ VReport(op) \/ VAttach(op)
             \/ RemoveScratch(op) \/ Unlock(op)
      PROVE  Wrecked'
  <2>1. UNCHANGED clusterVars
    BY <1>3
    DEF Request, RequestBackup, RequestRestore, RequestVerify, ListBase,
        PushBegin, PushEnd, Retain, StopServer, MayReach, MakeScratch, VFetch,
        VReport, VAttach, RemoveScratch, Unlock, clusterVars
  <2>2. \E s \in Step \ (RestoreSteps \ {"stop"}) : Goto(op, s)
    BY <1>3
    DEF Request, RequestBackup, RequestRestore, RequestVerify, ListBase,
        PushBegin, PushEnd, Retain, StopServer, MayReach, MakeScratch, VFetch,
        VReport, VAttach, RemoveScratch, Unlock, Return, VReturn, Step,
        Critical, BackupSteps, RestoreSteps, VerifySteps
  <2> QED
    BY <1>1, <1>2, <2>1, <2>2
<1>4. ASSUME NEW op \in Op, Lock(op) PROVE Wrecked'
  <2>1. \E s \in {"push", "list", "stop"} : Goto(op, s)
    <3>1. CASE KindOf[op] = "full"
      BY <1>4, <3>1 DEF Lock
    <3>2. CASE KindOf[op] = "incremental"
      BY <1>4, <3>2 DEF Lock
    <3>3. CASE KindOf[op] \notin {"full", "incremental"}
      BY <1>4, <3>3 DEF Lock
    <3> QED
      BY <3>1, <3>2, <3>3
  <2> QED
    BY <1>1, <1>2, <1>4, <2>1
    DEF Lock, Step, Critical, BackupSteps, RestoreSteps
<1>5. ASSUME NEW op \in Op
      PROVE  ~(CleanDir(op) \/ Fetch(op) \/ WriteRecovery(op) \/ StartServer(op))
  BY DEF CleanDir, Fetch, WriteRecovery, StartServer, Restoring, RestoreSteps
<1>6. ASSUME NEW r \in Restarter, RestartStop(r) \/ RestartStart(r)
      PROVE  Wrecked'
  <2>1. UNCHANGED clusterVars /\ UNCHANGED pc
    BY <1>6 DEF RestartStop, RestartStart, MayReach, Startable, clusterVars
  <2> QED
    BY <1>1, <2>1 DEF Restoring
<1>7. ASSUME UNCHANGED vars PROVE Wrecked'
  BY <1>1, <1>7 DEF vars, clusterVars, Restoring
<1>8. ~PostmasterExits
  BY DEF PostmasterExits
<1> QED
  BY <1>3, <1>4, <1>5, <1>6, <1>7, <1>8 DEF Next, Work, Quiescent

\* The outcome of a job (jobs.go, finish) is never overwritten, and a cluster
\* that a failed restore lost (walg.go 455-512) never comes back, whatever
\* requests, restarts and faults follow.
THEOREM NothingReturns == Spec => NothingTakenBack
<1>1. Inductive /\ [Next]_vars
        => [\A op \in DOMAIN jobs :
              jobs[op].status \in Terminal /\ op \in DOMAIN jobs'
                => jobs'[op].status = jobs[op].status]_vars
  BY OutcomeNext DEF Inductive
<1>2. Inductive /\ [Next]_vars => [Wrecked => Wrecked']_vars
  BY WreckNext DEF Inductive
<1> QED
  BY <1>1, <1>2, InductiveHolds, PTL
  DEF Spec, NothingTakenBack, OutcomeIsFinal, WreckIsFinal
-----------------------------------------------------------------------------
(* The phases the job API shows are those of ExclusiveJobs *)

Phase == [op \in Op |-> PhaseOf(op)]

\* A step that moves one goroutine moves one phase.
LEMMA OnePhase ==
  ASSUME TypeOK, NEW op \in Op, NEW s, Goto(op, s),
         \/ UNCHANGED outcome
         \/ \E t \in Terminal : outcome' = [outcome EXCEPT ![op] = t]
  PROVE  Phase' = [Phase EXCEPT ![op] = PhaseOf(op)']
<1>1. ASSUME NEW q \in Op, q # op
      PROVE  pc'[q] = pc[q] /\ outcome'[q] = outcome[q]
  BY <1>1 DEF Goto, TypeOK
<1>2. ASSUME NEW q \in Op, q # op PROVE PhaseOf(q)' = PhaseOf(q)
  BY <1>1, <1>2 DEF PhaseOf
<1> QED
  BY <1>2 DEF Phase

\* The phase of a goroutine, place by place.
LEMMA Phases ==
  ASSUME TypeOK, Control, NEW op \in Op
  PROVE  /\ pc[op] = "idle" => PhaseOf(op) = "none"
         /\ pc[op] = "queued" => PhaseOf(op) = "waiting"
         /\ pc[op] \in BackupSteps \cup RestoreSteps \cup (VerifySteps \ {"rmtmp"})
              => PhaseOf(op) = "active"
         /\ pc[op] \in {"unlock", "rmtmp", "done"} => PhaseOf(op) = outcome[op]
<1>1. outcome[op] # "none" <=> pc[op] \in {"unlock", "rmtmp", "done"}
  BY DEF Control, OutcomeInv
<1>2. CASE pc[op] = "idle"
  BY <1>1, <1>2 DEF PhaseOf, BackupSteps, RestoreSteps, VerifySteps
<1>3. CASE pc[op] = "queued"
  BY <1>1, <1>3 DEF PhaseOf, BackupSteps, RestoreSteps, VerifySteps
<1>4. CASE pc[op] \in {"unlock", "rmtmp", "done"}
  BY <1>1, <1>4 DEF PhaseOf, BackupSteps, RestoreSteps, VerifySteps
<1>5. CASE pc[op] \notin {"idle", "queued", "unlock", "rmtmp", "done"}
  BY <1>1, <1>5 DEF PhaseOf
<1> QED
  BY <1>2, <1>3, <1>4, <1>5

\* The moves of a goroutine that is at work: it goes on, or it ends once.
LEMMA WorkMoves ==
  ASSUME TypeOK, Control, Control', TypeOK', NEW op \in Op,
         PhaseOf(op) = "active"
  PROVE  /\ \A s \in BackupSteps \cup RestoreSteps \cup (VerifySteps \ {"rmtmp"}) :
              Goto(op, s) /\ UNCHANGED outcome => UNCHANGED Phase
         /\ \A s \in {"unlock", "rmtmp", "done"}, t \in Terminal :
              Goto(op, s) /\ outcome' = [outcome EXCEPT ![op] = t]
                => Abstract!End(op)
<1>1. ASSUME NEW s \in BackupSteps \cup RestoreSteps \cup (VerifySteps \ {"rmtmp"}),
             Goto(op, s), UNCHANGED outcome
      PROVE  UNCHANGED Phase
  <2>1. pc'[op] = s
    BY <1>1 DEF Goto, TypeOK
  <2>2. PhaseOf(op)' = "active"
    BY <1>1, <2>1, Phases DEF PhaseOf, Control, OutcomeInv, BackupSteps,
       RestoreSteps, VerifySteps
  <2>3. Phase' = [Phase EXCEPT ![op] = "active"]
    BY <1>1, <2>2, OnePhase
  <2> QED
    BY <2>3 DEF Phase
<1>2. ASSUME NEW s \in {"unlock", "rmtmp", "done"}, NEW t \in Terminal,
             Goto(op, s), outcome' = [outcome EXCEPT ![op] = t]
      PROVE  Abstract!End(op)
  <2>1. PhaseOf(op)' = t
    BY <1>2 DEF PhaseOf, TypeOK, Terminal
  <2>2. Phase' = [Phase EXCEPT ![op] = t]
    BY <1>2, <2>1, OnePhase
  <2>3. Phase[op] = "active"
    BY DEF Phase
  <2> QED
    BY <1>2, <2>2, <2>3 DEF Abstract!End, Abstract!Outcome, Phase, Terminal
<1> QED
  BY <1>1, <1>2

LEMMA Simulation ==
  ASSUME TypeOK, Control, [Next]_vars
  PROVE  Abstract!Next \/ UNCHANGED Phase
<1> USE DEF Goto
<1>0. TypeOK' /\ Control'
  BY TypeNext, ControlNext
<1>1. ASSUME NEW op \in Op, Request(op) PROVE Abstract!Submit(op)
  <2>1. PICK s \in {"queued", "mkdir"} :
          /\ Goto(op, s)
          /\ s = "queued" <=> KindOf[op] # "verify"
    BY <1>1 DEF Request, RequestBackup, RequestRestore, RequestVerify
  <2>2. PhaseOf(op) = "none" /\ UNCHANGED outcome /\ outcome[op] = "none"
    BY <1>1, Phases
    DEF Request, RequestBackup, RequestRestore, RequestVerify, Control,
        OutcomeInv
  <2>3. pc'[op] = s /\ outcome'[op] = "none"
    BY <2>1, <2>2 DEF TypeOK
  <2>4. PhaseOf(op)' = IF KindOf[op] # "verify" THEN "waiting" ELSE "active"
    BY <2>1, <2>3 DEF PhaseOf
  <2>5. Phase' = [Phase EXCEPT ![op] = PhaseOf(op)']
    BY <2>1, <2>2, OnePhase
  <2> QED
    BY <2>2, <2>4, <2>5 DEF Abstract!Submit, Phase
<1>2. ASSUME NEW op \in Op, Lock(op) PROVE Abstract!Begin(op)
  <2>1. pc[op] = "queued" /\ opMu = NoOp /\ UNCHANGED outcome
    BY <1>2 DEF Lock
  <2>2. PICK s \in {"push", "list", "stop"} : Goto(op, s)
    <3>1. CASE KindOf[op] = "full"
      BY <1>2, <3>1 DEF Lock
    <3>2. CASE KindOf[op] = "incremental"
      BY <1>2, <3>2 DEF Lock
    <3>3. CASE KindOf[op] \notin {"full", "incremental"}
      BY <1>2, <3>3 DEF Lock
    <3> QED
      BY <3>1, <3>2, <3>3
  <2>3. PhaseOf(op) = "waiting" /\ outcome[op] = "none"
    BY <2>1, Phases DEF Control, OutcomeInv
  <2>4. PhaseOf(op)' = "active"
    BY <2>1, <2>2, <2>3 DEF PhaseOf, TypeOK
  <2>5. Phase' = [Phase EXCEPT ![op] = "active"]
    BY <2>1, <2>2, <2>4, OnePhase
  <2>6. ASSUME NEW k \in Op, KindOf[k] # "verify" PROVE PhaseOf(k) # "active"
    <3>1. pc[k] \notin Critical
      BY <2>1, WalGAssumption DEF Control, LockInv
    <3>2. pc[k] \in {"idle", "queued", "done"}
      BY <2>6, <3>1 DEF Control, KindInv, TypeOK, Step
    <3>3. outcome[k] # "active"
      BY DEF TypeOK, Terminal
    <3> QED
      BY <3>2, <3>3, Phases
  <2> QED
    BY <2>3, <2>5, <2>6 DEF Abstract!Begin, Phase
<1>3. ASSUME NEW op \in Op, Unlock(op) \/ RemoveScratch(op)
      PROVE  UNCHANGED Phase
  <2>1. Goto(op, "done") /\ UNCHANGED outcome /\ outcome[op] # "none"
    BY <1>3 DEF Unlock, RemoveScratch, Control, OutcomeInv
  <2>2. PhaseOf(op)' = PhaseOf(op)
    BY <2>1 DEF PhaseOf
  <2>3. Phase' = [Phase EXCEPT ![op] = PhaseOf(op)]
    BY <2>1, <2>2, OnePhase
  <2> QED
    BY <2>3 DEF Phase
<1>4. ASSUME NEW op \in Op,
             ListBase(op) \/ PushBegin(op) \/ PushEnd(op) \/ Retain(op)
      PROVE  Abstract!End(op) \/ UNCHANGED Phase
  <2>1. PhaseOf(op) = "active"
    BY <1>4, Phases DEF ListBase, PushBegin, PushEnd, Retain, BackupSteps
  <2> QED
    BY <1>0, <1>4, <2>1, WorkMoves
    DEF ListBase, PushBegin, PushEnd, Retain, Return, BackupSteps, Terminal
<1>5. ASSUME NEW op \in Op,
             \/ StopServer(op) \/ CleanDir(op) \/ Fetch(op)
             \/ WriteRecovery(op) \/ StartServer(op)
      PROVE  Abstract!End(op) \/ UNCHANGED Phase
  <2>1. PhaseOf(op) = "active"
    BY <1>5, Phases
    DEF StopServer, CleanDir, Fetch, WriteRecovery, StartServer, RestoreSteps
  <2> QED
    BY <1>0, <1>5, <2>1, WorkMoves
    DEF StopServer, CleanDir, Fetch, WriteRecovery, StartServer, Return,
        RestoreSteps, Terminal
<1>6. ASSUME NEW op \in Op,
             MakeScratch(op) \/ VFetch(op) \/ VReport(op) \/ VAttach(op)
      PROVE  Abstract!End(op) \/ UNCHANGED Phase
  <2>1. PhaseOf(op) = "active"
    BY <1>6, Phases DEF MakeScratch, VFetch, VReport, VAttach, VerifySteps
  <2> QED
    BY <1>0, <1>6, <2>1, WorkMoves
    DEF MakeScratch, VFetch, VReport, VAttach, VReturn, VerifySteps, Terminal
<1>7. ASSUME NEW r \in Restarter, RestartStop(r) \/ RestartStart(r)
      PROVE  UNCHANGED Phase
  BY <1>7 DEF RestartStop, RestartStart, Phase, PhaseOf
<1>8. ASSUME PostmasterExits \/ UNCHANGED vars PROVE UNCHANGED Phase
  BY <1>8 DEF PostmasterExits, vars, Phase, PhaseOf
<1> QED
  BY <1>1, <1>2, <1>3, <1>4, <1>5, <1>6, <1>7, <1>8
  DEF Next, Work, Quiescent, Abstract!Next

\* Backups, restores and verifications, with their lock, their commands and
\* all their ways to fail, are the jobs ExclusiveJobs describes: an exclusive
\* job waits for the one before it, and each ends once, for good.
THEOREM Refinement == Spec => AbstractSpec
<1>1. Init => Abstract!Init
  BY DEF Init, Abstract!Init, PhaseOf
<1>2. Abstract!Next \/ UNCHANGED Phase => [Abstract!Next]_Phase
  OBVIOUS
<1>3. TypeOK /\ Control /\ [Next]_vars => [Abstract!Next]_Phase
  BY <1>2, Simulation
<1> QED
  BY <1>1, <1>3, TypeInit, TypeNext, ControlInit, ControlNext, PTL
  DEF Spec, AbstractSpec, Abstract!Spec, Phase
=============================================================================
