-------------------------------- MODULE WalG --------------------------------
(***************************************************************************)
(* Backup, restore and verification of the cluster                         *)
(* (backend/service/walg.go), with the PostgreSQL restart button           *)
(* (backend/handler/config.go) that runs beside them.                      *)
(*                                                                         *)
(* Each request starts a job and a goroutine.  Backups and restores take   *)
(* opMu for their whole run; verifications and restarts take nothing.  One *)
(* action is one command of a goroutine (a WAL-G or pg_ctl process, or a   *)
(* group of file-system calls) together with the job-store calls the       *)
(* goroutine makes before it can be observed again.                        *)
(*                                                                         *)
(* External: what the commands do to the server, the data directory and    *)
(* the object store (PushBegin, Kept, Startable and PostmasterExits).      *)
(***************************************************************************)
EXTENDS JobStore

CONSTANTS
  Op,            \* the requests; the id of a request's job is the request
  NoOp,          \* opMu is free
  KindOf,        \* [Op -> Kind]
  Restarter,     \* the requests for a PostgreSQL restart
  RetainCounts,  \* the values BackupConfig.RetainCount may have
  Faults         \* the commands that may fail without a reason in the model

Kind == {"full", "incremental", "restore", "verify"}

ASSUME WalGAssumption ==
  /\ Op = JobId
  /\ NoOp \notin Op
  /\ KindOf \in [Op -> Kind]
  /\ RetainCounts \subseteq Nat

VARIABLES
  pc,        \* where the goroutine of each request is
  opMu,      \* the holder of WalG.opMu, or NoOp
  arg,       \* the backup a request works from or on; 0: none yet
  outcome,   \* how the goroutine ended: what it told the job store
  pg,        \* the PostgreSQL server
  dir,       \* the data directory
  storage,   \* the backups in the object store
  next,      \* the name of the next backup: names are in order of time
  scratch,   \* the verifications that have a scratch directory
  rpc        \* where each restart request is

clusterVars == <<pg, dir>>
vars == <<storeVars, pc, opMu, arg, outcome, pg, dir, storage, next,
          scratch, rpc>>

BackupSteps  == {"list", "push", "upload", "retain"}
RestoreSteps == {"stop", "clean", "fetch", "signal", "start"}
VerifySteps  == {"mkdir", "vfetch", "report", "attach", "rmtmp"}

\* The steps a goroutine takes with opMu held.
Critical == BackupSteps \cup RestoreSteps \cup {"unlock"}

Step == {"idle", "queued", "done"} \cup Critical \cup VerifySteps

\* A data directory: a whole cluster, nothing, a part of one, a fetched
\* backup, a fetched backup that is configured for recovery.
DirStates == {"cluster", "empty", "partial", "fetched", "ready"}

Backup == [name : Nat \ {0}, base : Nat, sound : BOOLEAN]

TypeOK ==
  /\ StoreTypeOK
  /\ pc \in [Op -> Step]
  /\ opMu \in Op \cup {NoOp}
  /\ arg \in [Op -> Nat]
  /\ outcome \in [Op -> {"none"} \cup Terminal]
  /\ pg \in {"up", "down"}
  /\ dir \in DirStates
  /\ storage \subseteq Backup
  /\ next \in Nat \ {0}
  /\ scratch \subseteq Op
  /\ rpc \in [Restarter -> {"idle", "start", "done"}]

\* A running server on a whole cluster, one full backup already stored.
Init ==
  /\ StoreInit
  /\ pc = [op \in Op |-> "idle"]
  /\ opMu = NoOp
  /\ arg = [op \in Op |-> 0]
  /\ outcome = [op \in Op |-> "none"]
  /\ pg = "up"
  /\ dir = "cluster"
  /\ storage = {[name |-> 1, base |-> 0, sound |-> TRUE]}
  /\ next = 2
  /\ scratch = {}
  /\ rpc = [r \in Restarter |-> "idle"]

-----------------------------------------------------------------------------
MayFail(command) == command \in Faults

Names == {b.name : b \in storage}

\* latestByTime: names are in order of time, so the greatest is the latest;
\* the set of it, which is empty when nothing is stored.
Latest == {n \in Names : \A m \in Names : m <= n}

Goto(op, step) == pc' = [pc EXCEPT ![op] = step]

\* A return with opMu held: the job is finished, the deferred Unlock is next.
Return(op, status) ==
  /\ Finish(op, status, FALSE)
  /\ outcome' = [outcome EXCEPT ![op] = status]
  /\ Goto(op, "unlock")
  /\ UNCHANGED files

-----------------------------------------------------------------------------
(* Requests: the part of a handler that runs before it answers.            *)

RequestBackup(op) ==
  /\ pc[op] = "idle" /\ KindOf[op] \in {"full", "incremental"}
  /\ Start(op)
  /\ Goto(op, "queued")
  /\ UNCHANGED <<opMu, arg, outcome, clusterVars, storage, next, scratch, rpc>>

\* Any name that was ever listed: nothing checks that it still exists.
RequestRestore(op) ==
  /\ pc[op] = "idle" /\ KindOf[op] = "restore"
  /\ Start(op)
  /\ \E n \in 1 .. next - 1 : arg' = [arg EXCEPT ![op] = n]
  /\ Goto(op, "queued")
  /\ UNCHANGED <<opMu, outcome, clusterVars, storage, next, scratch, rpc>>

\* An explicit name, or LATEST, resolved here and not when the job runs.
RequestVerify(op) ==
  /\ pc[op] = "idle" /\ KindOf[op] = "verify"
  /\ Start(op)
  /\ \/ \E n \in 1 .. next - 1 : arg' = [arg EXCEPT ![op] = n]
     \/ \E n \in Latest : arg' = [arg EXCEPT ![op] = n]
  /\ Goto(op, "mkdir")
  /\ UNCHANGED <<opMu, outcome, clusterVars, storage, next, scratch, rpc>>

-----------------------------------------------------------------------------
(* opMu *)

\* Variant for checking the properties: a lock that does not exclude.
LockShared(op) ==
  /\ pc[op] = "queued"
  /\ opMu' = op
  /\ Goto(op, CASE KindOf[op] = "full"        -> "push"
                [] KindOf[op] = "incremental" -> "list"
                [] OTHER                      -> "stop")
  /\ UNCHANGED <<storeVars, arg, outcome, clusterVars, storage, next,
                 scratch, rpc>>

Lock(op) ==
  /\ pc[op] = "queued"
  /\ opMu = NoOp
  /\ opMu' = op
  /\ Goto(op, CASE KindOf[op] = "full"        -> "push"
                [] KindOf[op] = "incremental" -> "list"
                [] OTHER                      -> "stop")
  /\ UNCHANGED <<storeVars, arg, outcome, clusterVars, storage, next,
                 scratch, rpc>>

Unlock(op) ==
  /\ pc[op] = "unlock"
  /\ opMu' = NoOp
  /\ Goto(op, "done")
  /\ UNCHANGED <<storeVars, arg, outcome, clusterVars, storage, next,
                 scratch, rpc>>

-----------------------------------------------------------------------------
(* triggerBackup's goroutine *)

\* Variant for checking the properties: an error path that returns without Fail.
ListBaseSilent(op) ==
  /\ pc[op] = "list"
  /\ \/ MayFail("backup-list") /\ Goto(op, "unlock") /\ UNCHANGED <<storeVars, outcome, arg>>
     \/ /\ \E n \in Latest : arg' = [arg EXCEPT ![op] = n]
        /\ Goto(op, "push")
        /\ UNCHANGED <<storeVars, outcome>>
  /\ UNCHANGED <<opMu, clusterVars, storage, next, scratch, rpc>>

\* An incremental backup looks for its base with the lock held.
ListBase(op) ==
  /\ pc[op] = "list"
  /\ \/ MayFail("backup-list") /\ Return(op, "failed") /\ UNCHANGED arg
     \/ storage = {} /\ Return(op, "canceled") /\ UNCHANGED arg
     \/ /\ \E n \in Latest : arg' = [arg EXCEPT ![op] = n]
        /\ Goto(op, "push")
        /\ UNCHANGED <<storeVars, outcome>>
  /\ UNCHANGED <<opMu, clusterVars, storage, next, scratch, rpc>>

\* backup-push connects to the server and, for a delta, reads its base.
PushBegin(op) ==
  /\ pc[op] = "push"
  /\ \/ /\ pg = "up"
        /\ KindOf[op] = "full" \/ arg[op] \in Names
        /\ Update(op) /\ UNCHANGED <<files, outcome>>
        /\ Goto(op, "upload")
     \/ /\ MayFail("backup-push") \/ pg = "down"
           \/ (KindOf[op] = "incremental" /\ arg[op] \notin Names)
        /\ Return(op, "failed")
  /\ UNCHANGED <<opMu, arg, clusterVars, storage, next, scratch, rpc>>

\* The upload ends; it is sound when the directory it read was a cluster.
PushEnd(op) ==
  /\ pc[op] = "upload"
  /\ \/ /\ pg = "up"
        /\ storage' = storage \cup
             {[name |-> next, base |-> arg[op], sound |-> dir = "cluster"]}
        /\ next' = next + 1
        /\ Goto(op, "retain")
        /\ UNCHANGED <<storeVars, outcome>>
     \/ /\ MayFail("backup-push") \/ pg = "down" \/ dir # "cluster"
        /\ Return(op, "failed")
        /\ UNCHANGED <<storage, next>>
  /\ UNCHANGED <<opMu, arg, clusterVars, scratch, rpc>>

\* `wal-g delete retain FULL n`: everything from the n-th newest full backup
\* on; all of it when there are fewer than n.
FullNames == {b.name : b \in {c \in storage : c.base = 0}}

\* Variant for checking the properties: the n newest backups, full or not.
KeptAnyKind(n) ==
  {b \in storage : Cardinality({c \in storage : c.name > b.name}) < n}

Kept(n) ==
  {b \in storage :
     Cardinality({f \in FullNames : f > b.name}) < n}

\* applyRetention, whose failure does not fail the job, and Complete.
Retain(op) ==
  /\ pc[op] = "retain"
  /\ \E n \in RetainCounts :
       \/ n = 0 /\ UNCHANGED storage
       \/ n > 0 /\ MayFail("delete") /\ UNCHANGED storage
       \/ n > 0 /\ storage' = Kept(n)
  /\ Return(op, "succeeded")
  /\ UNCHANGED <<opMu, arg, clusterVars, next, scratch, rpc>>

-----------------------------------------------------------------------------
(* RestoreBackup's goroutine: every failure returns and leaves the server  *)
(* and the directory as they then are.                                     *)

\* pg_ctl knows a server by the postmaster.pid in its data directory.
MayReach    == pg = "up" /\ dir \in {"cluster", "partial"}
SurelyReach == pg = "up" /\ dir = "cluster"

\* pg_ctl stop: fails on a server that is not running or not to be found.
StopServer(op) ==
  /\ pc[op] = "stop"
  /\ \/ /\ MayReach
        /\ pg' = "down"
        /\ Update(op) /\ UNCHANGED <<files, outcome>>
        /\ Goto(op, "clean")
     \/ /\ MayFail("stop") \/ ~SurelyReach
        /\ Return(op, "failed")
        /\ UNCHANGED pg
  /\ UNCHANGED <<opMu, arg, dir, storage, next, scratch, rpc>>

\* cleanDir stops at the first entry it cannot read or remove.
CleanDir(op) ==
  /\ pc[op] = "clean"
  /\ \/ /\ dir' = "empty"
        /\ Goto(op, "fetch")
        /\ UNCHANGED <<storeVars, outcome>>
     \/ /\ MayFail("clean")
        /\ dir' \in {dir, "partial"}
        /\ Return(op, "failed")
  /\ UNCHANGED <<opMu, arg, pg, storage, next, scratch, rpc>>

\* backup-fetch: the first command that looks at the requested name.
Fetch(op) ==
  /\ pc[op] = "fetch"
  /\ \/ /\ arg[op] \in Names
        /\ dir' = "fetched"
        /\ Goto(op, "signal")
        /\ UNCHANGED <<storeVars, outcome>>
     \/ /\ arg[op] \notin Names
        /\ Return(op, "failed") /\ UNCHANGED dir
     \/ /\ MayFail("fetch")
        /\ dir' = "partial"
        /\ Return(op, "failed")
  /\ UNCHANGED <<opMu, arg, pg, storage, next, scratch, rpc>>

\* recovery.signal and the lines appended to postgresql.auto.conf.
WriteRecovery(op) ==
  /\ pc[op] = "signal"
  /\ \/ /\ dir' = "ready"
        /\ Goto(op, "start")
        /\ UNCHANGED <<storeVars, outcome>>
     \/ MayFail("signal") /\ Return(op, "failed") /\ UNCHANGED dir
  /\ UNCHANGED <<opMu, arg, pg, storage, next, scratch, rpc>>

\* A server starts on a whole cluster or on a backup configured for recovery.
Startable == dir \in {"cluster", "ready"}

\* Variant for checking the properties: an error of pg_ctl start is only logged.
StartServerLoose(op) ==
  /\ pc[op] = "start"
  /\ \/ pg = "down" /\ Startable /\ pg' = "up" /\ dir' = "cluster"
     \/ (MayFail("start") \/ pg = "up" \/ ~Startable) /\ UNCHANGED clusterVars
  /\ Return(op, "succeeded")
  /\ UNCHANGED <<opMu, arg, storage, next, scratch, rpc>>

\* Variant for checking the properties: an error path that keeps opMu.
StartServerKeepsLock(op) ==
  /\ pc[op] = "start"
  /\ \/ /\ pg = "down" /\ Startable
        /\ pg' = "up" /\ dir' = "cluster"
        /\ Return(op, "succeeded")
     \/ /\ MayFail("start") \/ pg = "up" \/ ~Startable
        /\ Finish(op, "failed", FALSE) /\ Goto(op, "done")
        /\ outcome' = [outcome EXCEPT ![op] = "failed"]
        /\ UNCHANGED <<files, clusterVars>>
  /\ UNCHANGED <<opMu, arg, storage, next, scratch, rpc>>

\* pg_ctl start: fails when a server is already running.
StartServer(op) ==
  /\ pc[op] = "start"
  /\ \/ /\ pg = "down" /\ Startable
        /\ pg' = "up" /\ dir' = "cluster"
        /\ Return(op, "succeeded")
     \/ /\ MayFail("start") \/ pg = "up" \/ ~Startable
        /\ Return(op, "failed")
        /\ UNCHANGED clusterVars
  /\ UNCHANGED <<opMu, arg, storage, next, scratch, rpc>>

-----------------------------------------------------------------------------
(* VerifyBackup's goroutine: no lock, a scratch directory that a deferred  *)
(* RemoveAll takes away, and a report that becomes the job's artifact.     *)

\* A return before the scratch directory exists, or with it to be removed.
VReturn(op, status, step) ==
  /\ Finish(op, status, status = "succeeded")
  /\ outcome' = [outcome EXCEPT ![op] = status]
  /\ Goto(op, step)

MakeScratch(op) ==
  /\ pc[op] = "mkdir"
  /\ \/ /\ MayFail("mkdir")
        /\ VReturn(op, "failed", "done") /\ UNCHANGED scratch
     \/ /\ scratch' = scratch \cup {op}
        /\ \/ Update(op) /\ Goto(op, "vfetch") /\ UNCHANGED outcome
           \/ MayFail("mkdir") /\ VReturn(op, "failed", "rmtmp")
  /\ UNCHANGED <<files, opMu, arg, clusterVars, storage, next, rpc>>

\* Variant for checking the properties: a return before the removal is deferred.
VFetchNoDefer(op) ==
  /\ pc[op] = "vfetch"
  /\ \/ /\ arg[op] \in Names
        /\ Goto(op, "report")
        /\ UNCHANGED <<jobs, order, outcome>>
     \/ /\ MayFail("fetch") \/ arg[op] \notin Names
        /\ VReturn(op, "failed", "done")
  /\ UNCHANGED <<files, opMu, arg, clusterVars, storage, next, scratch, rpc>>

\* backup-fetch into the scratch directory and the three files looked for in
\* it; a backup that is not sound may lack one of them.
VFetch(op) ==
  /\ pc[op] = "vfetch"
  /\ \/ /\ arg[op] \in Names
        /\ Goto(op, "report")
        /\ UNCHANGED <<jobs, order, outcome>>
     \/ /\ MayFail("fetch") \/ arg[op] \notin Names
           \/ \E b \in storage : b.name = arg[op] /\ ~b.sound
        /\ VReturn(op, "failed", "rmtmp")
  /\ UNCHANGED <<files, opMu, arg, clusterVars, storage, next, scratch, rpc>>

\* CreateTemp of the report file.
VReport(op) ==
  /\ pc[op] = "report"
  /\ \/ /\ files' = files \cup {op}
        /\ Goto(op, "attach")
        /\ UNCHANGED <<jobs, order, outcome>>
     \/ /\ MayFail("report")
        /\ VReturn(op, "failed", "rmtmp") /\ UNCHANGED files
  /\ UNCHANGED <<opMu, arg, clusterVars, storage, next, scratch, rpc>>

\* Write, close and stat of the report; a failure leaves the file behind.
VAttach(op) ==
  /\ pc[op] = "attach"
  /\ \/ VReturn(op, "succeeded", "rmtmp")
     \/ MayFail("report") /\ VReturn(op, "failed", "rmtmp")
  /\ UNCHANGED <<files, opMu, arg, clusterVars, storage, next, scratch, rpc>>

\* The deferred RemoveAll.
RemoveScratch(op) ==
  /\ pc[op] = "rmtmp"
  /\ scratch' = scratch \ {op}
  /\ Goto(op, "done")
  /\ UNCHANGED <<storeVars, opMu, arg, outcome, clusterVars, storage, next,
                 rpc>>

-----------------------------------------------------------------------------
(* RestartPostgreSQL's goroutine: `pg_ctl restart` stops the server, if    *)
(* there is one, and starts one on whatever the directory then holds.      *)

RestartStop(r) ==
  /\ rpc[r] = "idle"
  /\ \/ MayReach /\ pg' = "down" /\ rpc' = [rpc EXCEPT ![r] = "start"]
     \/ /\ ~SurelyReach /\ UNCHANGED pg
        /\ rpc' = [rpc EXCEPT ![r] = "start"]
     \/ MayFail("stop") /\ rpc' = [rpc EXCEPT ![r] = "done"] /\ UNCHANGED pg
  /\ UNCHANGED <<storeVars, pc, opMu, arg, outcome, dir, storage, next,
                 scratch>>

\* Variant for checking the properties: a start that initialises an empty directory.
RestartStartInit(r) ==
  /\ rpc[r] = "start"
  /\ \/ pg = "down" /\ (Startable \/ dir = "empty") /\ pg' = "up" /\ dir' = "cluster"
     \/ /\ MayFail("start") \/ pg = "up" \/ ~Startable
        /\ UNCHANGED clusterVars
  /\ rpc' = [rpc EXCEPT ![r] = "done"]
  /\ UNCHANGED <<storeVars, pc, opMu, arg, outcome, storage, next, scratch>>

RestartStart(r) ==
  /\ rpc[r] = "start"
  /\ \/ pg = "down" /\ Startable /\ pg' = "up" /\ dir' = "cluster"
     \/ /\ MayFail("start") \/ pg = "up" \/ ~Startable
        /\ UNCHANGED clusterVars
  /\ rpc' = [rpc EXCEPT ![r] = "done"]
  /\ UNCHANGED <<storeVars, pc, opMu, arg, outcome, storage, next, scratch>>

\* A postmaster whose lock file is gone shuts itself down.
PostmasterExits ==
  /\ pg = "up" /\ dir # "cluster"
  /\ pg' = "down"
  /\ UNCHANGED <<storeVars, pc, opMu, arg, outcome, dir, storage, next,
                 scratch, rpc>>

-----------------------------------------------------------------------------
Request(op) == RequestBackup(op) \/ RequestRestore(op) \/ RequestVerify(op)

\* The steps a goroutine takes on its own, without waiting for the lock.
Work(op) ==
  \/ ListBase(op) \/ PushBegin(op) \/ PushEnd(op) \/ Retain(op)
  \/ StopServer(op) \/ CleanDir(op) \/ Fetch(op) \/ WriteRecovery(op)
  \/ StartServer(op)
  \/ MakeScratch(op) \/ VFetch(op) \/ VReport(op) \/ VAttach(op)
  \/ RemoveScratch(op)
  \/ Unlock(op)

\* Every request has ended: the program waits for the next one.
Quiescent ==
  /\ \A op \in Op : pc[op] = "done"
  /\ \A r \in Restarter : rpc[r] = "done"
  /\ UNCHANGED vars

Next ==
  \/ \E op \in Op : Request(op) \/ Lock(op) \/ Work(op)
  \/ \E r \in Restarter : RestartStop(r) \/ RestartStart(r)
  \/ PostmasterExits
  \/ Quiescent

Spec == Init /\ [][Next]_vars

\* A goroutine that can run runs, its commands end, and sync.Mutex hands
\* itself to a waiter that has waited long enough; nobody has to send a
\* request, and a postmaster may be slow to notice.
Fairness ==
  /\ \A op \in Op : WF_vars(Work(op)) /\ SF_vars(Lock(op))
  /\ \A r \in Restarter : WF_vars(RestartStart(r))

FairSpec == Spec /\ Fairness
-----------------------------------------------------------------------------
(* Safety *)

\* walg.go 26-27: two restores, or a restore and a backup, never run at once.
MutualExclusion ==
  \A o1, o2 \in Op : pc[o1] \in Critical /\ pc[o2] \in Critical => o1 = o2

\* Every delta in the object store has its base there: the base is looked up
\* under the lock retention runs under, so no prune comes in between.
ChainIntact == \A b \in storage : b.base # 0 => b.base \in Names

\* Retention never deletes the newest backup, whatever RetainCount is.
NewestSurvives == next - 1 \in Names

\* Retention (applyRetention) never breaks a chain and always leaves a backup.
BackupsStand == ChainIntact /\ NewestSurvives

\* What the store says of a job is what became of its goroutine: running as
\* long as it has not returned, then what it returned, with Error set for a
\* failure and only then.  Every early return has its Fail or Cancel.
RecordIsTruth ==
  \A op \in DOMAIN jobs :
    /\ jobs[op].status = IF outcome[op] = "none" THEN "running" ELSE outcome[op]
    /\ jobs[op].error <=> outcome[op] = "failed"
    /\ pc[op] \in {"unlock", "done", "rmtmp"} => jobs[op].status # "running"

\* The store (jobs.go) finds every job it lists, and what it says is true.
StoreIsTrue == IndexOK /\ RecordIsTruth

\* The restores that have the directory in hand, and those that gave up.
Restoring == {op \in Op : pc[op] \in RestoreSteps \ {"stop"}}
GaveUp    == {op \in Op : KindOf[op] = "restore" /\ outcome[op] = "failed"}

\* The directory is in pieces only while a restore works on it, or after one
\* failed; never through a backup, a verification or a restart.
DirExplained == dir # "cluster" => Restoring \cup GaveUp # {}

\* A server runs on a directory that is in pieces only if somebody used the
\* restart button, which takes no lock (config.go 93-105).
ServerExplained ==
  pg = "up" /\ dir # "cluster" => \E r \in Restarter : rpc[r] # "idle"

\* Every stored backup was read from a whole cluster, or somebody used the
\* restart button during a restore.
BackupsSound ==
  (\E b \in storage : ~b.sound) => \E r \in Restarter : rpc[r] # "idle"

\* What the invariants above rest on: the holder of opMu is the one goroutine
\* between its Lock and its Unlock, a goroutine takes only the steps of its
\* kind of request, it has an outcome exactly when it is returning or gone,
\* and the id of a request that was not made yet is fresh.
LockInv == \A op \in Op : pc[op] \in Critical <=> opMu = op

KindInv ==
  \A op \in Op :
    /\ pc[op] \in BackupSteps  => KindOf[op] \in {"full", "incremental"}
    /\ pc[op] \in RestoreSteps => KindOf[op] = "restore"
    /\ pc[op] \in VerifySteps  => KindOf[op] = "verify"
    /\ pc[op] \in {"queued", "unlock"} => KindOf[op] # "verify"

OutcomeInv ==
  \A op \in Op : outcome[op] # "none" <=> pc[op] \in {"unlock", "rmtmp", "done"}

FreshInv == \A op \in Op : pc[op] = "idle" => op \notin DOMAIN jobs

Control == LockInv /\ KindInv /\ OutcomeInv


\* What a verification leaves on disk when it is over: no scratch directory,
\* and no report, unless its job offers it, failed to write it or was evicted.
NothingLeftBehind ==
  \A op \in Op : pc[op] = "done" =>
    /\ op \notin scratch
    /\ op \in files /\ op \in DOMAIN jobs =>
         jobs[op].artifact \/ outcome[op] = "failed"

\* What takes no lock: a restart beside a restore (config.go 93-105) breaks this
\* much and no more, and a verification leaves the report its job offers and
\* nothing else (walg.go, the deferred removal; job_store.go, trimLocked).
BesideExplained ==
  ServerExplained /\ BackupsSound /\ ArtifactBacked /\ NothingLeftBehind

\* What BackupsStand rests on: a name is used once; a delta was pushed on what
\* was then the newest backup, so no full backup lies between it and its base
\* and retention counts the same full backups for both; and the holder of opMu
\* that is pushing a delta still has the newest backup in hand.
NamesInv ==
  /\ \A b, c \in storage : b.name = c.name => b = c
  /\ \A b \in storage : b.base < b.name /\ b.name < next

BetweenInv ==
  \A b, c \in storage :
    b.base # 0 /\ c.base = 0 => ~(b.base < c.name /\ c.name < b.name)

PushInv ==
  \A op \in Op :
    /\ pc[op] = "list" => KindOf[op] = "incremental"
    /\ KindOf[op] = "full" => arg[op] = 0
    /\ KindOf[op] = "incremental" /\ pc[op] \in {"push", "upload"} =>
         arg[op] = next - 1

ChainInv == BackupsStand /\ NamesInv /\ BetweenInv /\ PushInv

\* What ServerExplained and BackupsSound rest on: with no restart request, the
\* server is down as long as a restore has the directory in hand.
ServerInv ==
  (\A r \in Restarter : rpc[r] = "idle") =>
    /\ Restoring # {} \/ dir # "cluster" => pg = "down"
    /\ \A b \in storage : b.sound

\* What the report and the scratch directory of a verification rest on: who
\* can have one, and that only a verification that succeeded offers a report.
ReportOf(op) ==
  /\ op \in scratch => pc[op] \in {"vfetch", "report", "attach", "rmtmp"}
  /\ op \in files => pc[op] \in {"attach", "rmtmp", "done"}
  /\ pc[op] = "attach" => op \in files
  /\ op \in DOMAIN jobs =>
       /\ jobs[op].artifact => op \in files /\ outcome[op] = "succeeded"
       /\ op \in files /\ pc[op] \in {"rmtmp", "done"} =>
            jobs[op].artifact \/ outcome[op] = "failed"

ReportInv == \A op \in Op : ReportOf(op)

\* The inductive invariant of the module.
Inductive == /\ TypeOK /\ Control /\ FreshInv /\ IndexInv
             /\ RecordIsTruth /\ DirExplained
             /\ ChainInv /\ ServerInv /\ ReportInv

\* A finished job never changes its status again.
OutcomeIsFinal ==
  [][\A op \in DOMAIN jobs : jobs[op].status \in Terminal /\ op \in DOMAIN jobs'
       => jobs'[op].status = jobs[op].status]_vars

\* A restore that fails between cleaning the directory and configuring
\* recovery loses the cluster for good: pg_ctl stop fails on a stopped server,
\* so no later restore gets past its first command, and nothing starts on
\* what is left.
Wrecked == pg = "down" /\ dir \notin {"cluster", "ready"} /\ Restoring = {}
WreckIsFinal == [][Wrecked => Wrecked']_vars

\* Neither a job's outcome (jobs.go, finish) nor a lost cluster (walg.go
\* 455-512) is ever taken back, whatever comes later.
NothingTakenBack == OutcomeIsFinal /\ WreckIsFinal

-----------------------------------------------------------------------------
(* Refinement and liveness *)

\* The phase of a request as the job API shows it.
PhaseOf(op) ==
  IF outcome[op] # "none" THEN outcome[op]
  ELSE CASE pc[op] = "idle"   -> "none"
         [] pc[op] = "queued" -> "waiting"
         [] OTHER             -> "active"

Abstract ==
  INSTANCE ExclusiveJobs WITH
    Job       <- Op,
    Exclusive <- {op \in Op : KindOf[op] # "verify"},
    phase     <- [op \in Op |-> PhaseOf(op)]

AbstractSpec     == Abstract!Spec
AbstractFairSpec == Abstract!FairSpec

\* What the answer to a restore request says (walg.go 528 and 530): the
\* server that a restore stopped runs again some time.
ServerReturns == \A op \in Op : pc[op] = "clean" ~> pg = "up"
=============================================================================
