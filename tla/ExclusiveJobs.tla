---------------------------- MODULE ExclusiveJobs ----------------------------
(***************************************************************************)
(* What the job API promises of backups, restores and verifications,       *)
(* without locks, commands or a store: a request becomes a job, an         *)
(* exclusive job waits until no other exclusive job is active, and a job   *)
(* that is active ends once, with an outcome that never changes.           *)
(***************************************************************************)
CONSTANTS
  Job,        \* the requests
  Exclusive   \* those of them that must run alone (backups and restores)

VARIABLE phase

Outcome == {"succeeded", "failed", "canceled"}

Init == phase = [j \in Job |-> "none"]

Submit(j) ==
  /\ phase[j] = "none"
  /\ phase' = [phase EXCEPT ![j] = IF j \in Exclusive THEN "waiting" ELSE "active"]

Begin(j) ==
  /\ phase[j] = "waiting"
  /\ \A k \in Exclusive : phase[k] # "active"
  /\ phase' = [phase EXCEPT ![j] = "active"]

End(j) ==
  /\ phase[j] = "active"
  /\ \E s \in Outcome : phase' = [phase EXCEPT ![j] = s]

Next == \E j \in Job : Submit(j) \/ Begin(j) \/ End(j)

Spec == Init /\ [][Next]_phase

FairSpec == Spec /\ \A j \in Job : WF_phase(End(j)) /\ SF_phase(Begin(j))
==============================================================================
