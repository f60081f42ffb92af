------------------------------- MODULE Repack -------------------------------
(***************************************************************************)
(* Online pg_repack (backend/handler/repack.go): at most one run is meant  *)
(* to be active, tracked by the pointer RepackHandler.running, and it can  *)
(* be cancelled.  The mutex guards single reads and writes of the pointer, *)
(* so an action here is one such critical section, one job-store call or   *)
(* one event of the pg_repack process.                                     *)
(*                                                                         *)
(* External: the process (ProcessExits and what Process.Kill answers).     *)
(* Whether Kill sees cmd.Process is a data race between CancelRepack and   *)
(* CombinedOutput; both outcomes are possible until the process is waited  *)
(* for.                                                                    *)
(***************************************************************************)
EXTENDS JobStore

CONSTANTS
  Run,         \* requests to run pg_repack; each names the job it starts
  Canceler,    \* requests to cancel
  None         \* running is nil

ASSUME RepackAssumption == Run = JobId /\ None \notin Run

VARIABLES
  running,     \* RepackHandler.running: the run whose record it points to
  pc,          \* where each run is: its handler, then its goroutine
  proc,        \* its process: none, alive, killed (and still alive),
               \* ok or err (exited), okWaited or errWaited (Wait returned)
  cpc,         \* where each cancel request is
  target       \* the pointer a cancel request read

vars == <<storeVars, running, pc, proc, cpc, target>>

\* After the handler has set the pointer and before the goroutine clears it.
Active == {"spawned", "exec", "wait", "judge", "fail", "clear"}

TypeOK ==
  /\ StoreTypeOK
  /\ running \in Run \cup {None}
  /\ pc \in [Run -> {"idle", "busy", "checked", "started", "refused",
                     "panicked", "done"} \cup Active]
  /\ proc \in [Run -> {"none", "alive", "killed", "ok", "err",
                       "okWaited", "errWaited"}]
  /\ cpc \in [Canceler -> {"idle", "kill", "cancel", "clear", "done", "error"}]
  /\ target \in [Canceler -> Run \cup {None}]

Init ==
  /\ StoreInit
  /\ running = None
  /\ pc = [r \in Run |-> "idle"]
  /\ proc = [r \in Run |-> "none"]
  /\ cpc = [c \in Canceler |-> "idle"]
  /\ target = [c \in Canceler |-> None]

Goto(r, step) == pc' = [pc EXCEPT ![r] = step]

-----------------------------------------------------------------------------
(* Run: the handler *)

\* The check and the unlock; the pointer is set only after jobs.Start.
Check(r) ==
  /\ pc[r] = "idle"
  /\ Goto(r, IF running = None THEN "checked" ELSE "busy")
  /\ UNCHANGED <<storeVars, running, proc, cpc, target>>

\* The conflict answer reads h.running again, now without the lock.
Refuse(r) ==
  /\ pc[r] = "busy"
  /\ Goto(r, IF running = None THEN "panicked" ELSE "refused")
  /\ UNCHANGED <<storeVars, running, proc, cpc, target>>

StartJob(r) ==
  /\ pc[r] = "checked"
  /\ Start(r)
  /\ Goto(r, "started")
  /\ UNCHANGED <<running, proc, cpc, target>>

SetRunning(r) ==
  /\ pc[r] = "started"
  /\ running' = r
  /\ Goto(r, "spawned")
  /\ UNCHANGED <<storeVars, proc, cpc, target>>

-----------------------------------------------------------------------------
(* Run: the goroutine *)

MarkRunning(r) ==
  /\ pc[r] = "spawned"
  /\ Update(r) /\ UNCHANGED files
  /\ Goto(r, "exec")
  /\ UNCHANGED <<running, proc, cpc, target>>

\* CombinedOutput starts the process, or fails to.
Exec(r) ==
  /\ pc[r] = "exec"
  /\ \/ proc' = [proc EXCEPT ![r] = "alive"] /\ Goto(r, "wait")
     \/ UNCHANGED proc /\ Goto(r, "judge")
  /\ UNCHANGED <<storeVars, running, cpc, target>>

\* A killed process may still have finished its work first.
ProcessExits(r) ==
  /\ proc[r] \in {"alive", "killed"}
  /\ \E exit \in {"ok", "err"} : proc' = [proc EXCEPT ![r] = exit]
  /\ UNCHANGED <<storeVars, running, pc, cpc, target>>

\* CombinedOutput returns; success goes straight to Complete.
Waited(r) ==
  /\ pc[r] = "wait" /\ proc[r] \in {"ok", "err"}
  /\ proc' = [proc EXCEPT ![r] = IF @ = "ok" THEN "okWaited" ELSE "errWaited"]
  /\ Goto(r, "judge")
  /\ UNCHANGED <<storeVars, running, cpc, target>>

\* Variant for checking the properties: the exit status is not looked at.
JudgeBlind(r) ==
  /\ pc[r] = "judge"
  /\ Finish(r, "succeeded", FALSE)
  /\ Goto(r, "clear")
  /\ UNCHANGED <<files, running, proc, cpc, target>>

\* Complete whatever the status is; or look whether the job was canceled.
Judge(r) ==
  /\ pc[r] = "judge"
  /\ \/ /\ proc[r] = "okWaited"
        /\ Finish(r, "succeeded", FALSE)
        /\ Goto(r, "clear")
     \/ /\ proc[r] # "okWaited"
        /\ Goto(r, IF StatusOf(r) = "canceled" THEN "clear" ELSE "fail")
        /\ UNCHANGED <<jobs, order>>
  /\ UNCHANGED <<files, running, proc, cpc, target>>

\* The status Judge read may be stale by now.
FailJob(r) ==
  /\ pc[r] = "fail"
  /\ Finish(r, "failed", FALSE)
  /\ Goto(r, "clear")
  /\ UNCHANGED <<files, running, proc, cpc, target>>

\* Variant for checking the properties: the goroutine leaves the pointer set.
ClearRunningNever(r) ==
  /\ pc[r] = "clear"
  /\ Goto(r, "done")
  /\ UNCHANGED <<storeVars, running, proc, cpc, target>>

\* Clears the pointer, whoever's it is.
ClearRunning(r) ==
  /\ pc[r] = "clear"
  /\ running' = None
  /\ Goto(r, "done")
  /\ UNCHANGED <<storeVars, proc, cpc, target>>

-----------------------------------------------------------------------------
(* CancelRepack *)

ReadRunning(c) ==
  /\ cpc[c] = "idle"
  /\ target' = [target EXCEPT ![c] = running]
  /\ cpc' = [cpc EXCEPT ![c] = IF running = None THEN "done" ELSE "kill"]
  /\ UNCHANGED <<storeVars, running, pc, proc>>

\* No process yet: nothing to kill.  An exited process that has not been
\* waited for takes the signal; one that has been answers with an error.
Kill(c) ==
  LET r == target[c] IN
  /\ cpc[c] = "kill"
  /\ \/ proc' = [proc EXCEPT ![r] = IF @ = "alive" THEN "killed" ELSE @]
     \/ proc[r] = "alive" /\ UNCHANGED proc   \* cmd.Process read as nil
  /\ cpc' = [cpc EXCEPT ![c] =
               IF proc[r] \in {"okWaited", "errWaited"} THEN "error" ELSE "cancel"]
  /\ UNCHANGED <<storeVars, running, pc, target>>

CancelJob(c) ==
  /\ cpc[c] = "cancel"
  /\ Finish(target[c], "canceled", FALSE)
  /\ cpc' = [cpc EXCEPT ![c] = "clear"]
  /\ UNCHANGED <<files, running, pc, proc, target>>

ClearCanceled(c) ==
  /\ cpc[c] = "clear"
  /\ running' = None
  /\ cpc' = [cpc EXCEPT ![c] = "done"]
  /\ UNCHANGED <<storeVars, pc, proc, target>>

-----------------------------------------------------------------------------
Handler(r)   == Refuse(r) \/ StartJob(r) \/ SetRunning(r)
Goroutine(r) == MarkRunning(r) \/ Exec(r) \/ Waited(r) \/ Judge(r)
                \/ FailJob(r) \/ ClearRunning(r)
Cancel(c)    == Kill(c) \/ CancelJob(c) \/ ClearCanceled(c)

Quiescent ==
  /\ \A r \in Run : pc[r] \in {"refused", "panicked", "done"}
  /\ \A c \in Canceler : cpc[c] \in {"done", "error"}
  /\ UNCHANGED vars

Next ==
  \/ \E r \in Run : Check(r) \/ Handler(r) \/ Goroutine(r) \/ ProcessExits(r)
  \/ \E c \in Canceler : ReadRunning(c) \/ Cancel(c)
  \/ Quiescent

Spec == Init /\ [][Next]_vars

\* Handlers and goroutines run on; pg_repack ends, killed or not.
FairSpec ==
  /\ Spec
  /\ \A r \in Run : WF_vars(Handler(r)) /\ WF_vars(Goroutine(r))
                    /\ WF_vars(ProcessExits(r))
  /\ \A c \in Canceler : WF_vars(Cancel(c))

-----------------------------------------------------------------------------
\* The pointer never names a run that is over: GetStatus and the conflict
\* answer do not report a finished repack, and a new one is not refused on
\* account of one, although any goroutine may clear any other's pointer.
PointerLive == running # None => pc[running] \in Active

\* A run that is over has a job that is over: no interleaving of the
\* goroutine's Get, Fail and Complete with a Cancel leaves it running.
JobSettled ==
  \A r \in DOMAIN jobs : pc[r] = "done" => jobs[r].status \in Terminal

\* However Cancel and the goroutine overwrite each other, the store never
\* calls a pg_repack that failed succeeded, nor one that succeeded failed.
StatusTruth ==
  \A r \in DOMAIN jobs :
    /\ jobs[r].status = "succeeded" => proc[r] = "okWaited"
    /\ jobs[r].status = "failed"    => proc[r] # "okWaited"

\* However the handler, the goroutine and the cancel requests overlap
\* (repack.go 114-260), the pointer, the job and the process agree in the end.
RepackExplained == TypeOK /\ PointerLive /\ JobSettled /\ StatusTruth

\* What RepackExplained rests on: the goroutine settles its job on the way to
\* clearing the pointer and says how the process ended only then, and what
\* makes it fail the job is not taken back.
SettleInv ==
  /\ \A r \in DOMAIN jobs :
       /\ pc[r] = "clear" => jobs[r].status \in Terminal
       /\ jobs[r].status \in {"succeeded", "failed"} => pc[r] \in {"clear", "done"}
  /\ \A r \in Run : pc[r] = "fail" => proc[r] # "okWaited"

Inductive == RepackExplained /\ SettleInv

\* The pointer is given up some time: new requests are not refused for ever.
PointerClears == running # None ~> running = None

\* The conflict answer, "repack already running on ..." (repack.go 123):
\* there is never more than one pg_repack process.
OneRepackAtATime ==
  \A r1, r2 \in Run :
    proc[r1] \in {"alive", "killed"} /\ proc[r2] \in {"alive", "killed"} => r1 = r2
=============================================================================
