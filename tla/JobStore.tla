------------------------------ MODULE JobStore ------------------------------
(***************************************************************************)
(* The in-memory job store of backend/service/job_store.go: the records    *)
(* the HTTP API shows of every background job, newest first, at most       *)
(* MaxJobs of them, and the temporary files that finished jobs own.        *)
(*                                                                         *)
(* The module has no behaviour of its own: Start, Update and Finish are    *)
(* the store's critical sections (each holds JobStore.mu from beginning to *)
(* end), and the modules of the job's workers extend this one and call     *)
(* them.  A field that is set when the job is created and never changed    *)
(* (type, target, metadata, creation time) is a property of the job's id   *)
(* and not part of the record.  The wording of a message is abstracted to  *)
(* which kind of call wrote it last.                                       *)
(***************************************************************************)
EXTENDS Naturals, Sequences, FiniteSets, Functions

CONSTANTS
  JobId,    \* the ids NewJobStore's counter hands out; each is used once
  MaxJobs   \* JobStore.maxJobs (200 in the program)

ASSUME StoreAssumption == MaxJobs \in Nat \ {0}

VARIABLES
  jobs,     \* the map from id to record
  order,    \* the ids, newest insertion first
  files     \* the artifact files on disk, each named by the job that made it

storeVars == <<jobs, order, files>>

Terminal == {"succeeded", "failed", "canceled"}

JobRecord == [status   : {"running"} \cup Terminal,
              message  : {"queued", "running", "final"},
              error    : BOOLEAN,     \* Job.Error is set
              artifact : BOOLEAN]     \* Job.Artifact names the job's file

StoreTypeOK ==
  /\ DOMAIN jobs \subseteq JobId
  /\ jobs \in [DOMAIN jobs -> JobRecord]
  /\ order \in Seq(JobId)
  /\ files \subseteq JobId

StoreInit ==
  /\ jobs = <<>>
  /\ order = <<>>
  /\ files = {}

-----------------------------------------------------------------------------
\* Variant for checking the properties: a status the API does not know.
NewJobQueued == [status |-> "queued", message |-> "queued",
                 error |-> FALSE, artifact |-> FALSE]

NewJob == [status |-> "running", message |-> "queued",
           error |-> FALSE, artifact |-> FALSE]

\* What trimLocked leaves of the list of ids: the MaxJobs newest.
Trim(ids) == SubSeq(ids, 1, IF Len(ids) > MaxJobs THEN MaxJobs ELSE Len(ids))

\* Variant for checking the properties: an evicted job's file is left behind.
StartKeepsFiles(id) ==
  LET ids     == <<id>> \o order
      evicted == Range(ids) \ Range(Trim(ids))
      all     == [j \in DOMAIN jobs \cup {id} |->
                    IF j = id THEN NewJob ELSE jobs[j]]
  IN  /\ order' = Trim(ids)
      /\ jobs'  = Restrict(all, DOMAIN all \ evicted)
      /\ UNCHANGED files

\* Start's critical section: insert the record, put the id in front, evict
\* what no longer fits (whatever its status) and remove its artifact file.
Start(id) ==
  LET ids     == <<id>> \o order
      evicted == Range(ids) \ Range(Trim(ids))
      all     == [j \in DOMAIN jobs \cup {id} |->
                    IF j = id THEN NewJob ELSE jobs[j]]
  IN  /\ order' = Trim(ids)
      /\ jobs'  = Restrict(all, DOMAIN all \ evicted)
      /\ files' = files \ {j \in evicted : j \in DOMAIN all /\ all[j].artifact}

\* Update writes the message whatever the status; an unknown id is ignored.
Update(id) ==
  /\ jobs' = [j \in DOMAIN jobs |->
                IF j = id THEN [jobs[j] EXCEPT !.message = "running"]
                          ELSE jobs[j]]
  /\ UNCHANGED order

\* finish: overwrites the status whatever it was, sets Error for a failure
\* and never clears it, keeps an artifact it is not given a new one for, and
\* silently ignores an id that was evicted.
Finish(id, status, withArtifact) ==
  /\ jobs' = [j \in DOMAIN jobs |->
                IF j = id
                  THEN [status   |-> status,
                        message  |-> "final",
                        error    |-> jobs[j].error \/ status = "failed",
                        artifact |-> jobs[j].artifact \/ withArtifact]
                  ELSE jobs[j]]
  /\ UNCHANGED order

\* Get as its callers use it: the status they see, "none" for an unknown id.
StatusOf(id) == IF id \in DOMAIN jobs THEN jobs[id].status ELSE "none"

-----------------------------------------------------------------------------
\* The list and the map hold the same ids, each once, and never more than
\* MaxJobs: the job of order[i] is always found, and nothing outlives its
\* place in the list (Start, trimLocked, finish).
IndexOK ==
  /\ Range(order) = DOMAIN jobs
  /\ Cardinality(DOMAIN jobs) = Len(order)
  /\ Len(order) <= MaxJobs

\* The inductive form of IndexOK: the list names the records of the map, each
\* once.
IndexInv ==
  /\ Range(order) = DOMAIN jobs
  /\ \A i, k \in DOMAIN order : order[i] = order[k] => i = k
  /\ Len(order) <= MaxJobs

\* A record that offers a download has its file on disk: trimLocked removes a
\* file only together with the record that names it.
ArtifactBacked == \A j \in DOMAIN jobs : jobs[j].artifact => j \in files
=============================================================================
