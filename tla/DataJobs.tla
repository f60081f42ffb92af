------------------------------ MODULE DataJobs ------------------------------
(***************************************************************************)
(* Exports, imports and vacuums (backend/handler/database.go, vacuum.go)   *)
(* with the job endpoints that show them (backend/handler/jobs.go): the    *)
(* workers that leave files behind, and the readers of the job store.      *)
(*                                                                         *)
(* JobStore.Start reads the clock before it takes the lock, so it is two   *)
(* actions here: two jobs may be stamped in one order and inserted in the  *)
(* other.                                                                  *)
(*                                                                         *)
(* External: pg_dump, pg_restore, psql and VACUUM (what Load does to the   *)
(* data), and the file system.                                             *)
(***************************************************************************)
EXTENDS JobStore

CONSTANTS
  Op,            \* the requests; the id of a request's job is the request
  KindOf,        \* [Op -> Kind]
  Download,      \* the requests for a job's artifact
  None,          \* a download that has no job yet
  DefaultLimit   \* List's limit when it is given none it accepts (50)

Kind == {"export", "import", "vacuum"}

ASSUME DataAssumption ==
  /\ Op = JobId /\ None \notin Op
  /\ KindOf \in [Op -> Kind]
  /\ DefaultLimit \in Nat \ {0}

\* What the import form asks for, as far as it decides what is run.
Options == [custom : BOOLEAN, clean : BOOLEAN, singleTx : BOOLEAN]

VARIABLES
  pc,        \* where the handler, then the goroutine, of each request is
  clock,     \* the wall clock
  stamp,     \* Job.CreatedAt
  earlier,   \* history: the jobs that were in the store before the stamp
  cut,       \* history: the jobs evicted while their goroutine was at work
  option,    \* the options of each import
  uploads,   \* the uploaded files on disk
  data,      \* what each import has done to its database so far
  dpc,       \* where each download is
  djob       \* the job a download has looked up

vars == <<storeVars, pc, clock, stamp, earlier, cut, option, uploads, data, dpc, djob>>

TypeOK ==
  /\ StoreTypeOK
  /\ pc \in [Op -> {"idle", "accepted", "stamped", "queued", "dump", "publish",
                    "truncate", "load", "rmupload", "vacuum", "rejected", "done"}]
  /\ clock \in Nat
  /\ stamp \in [Op -> Nat]
  /\ earlier \in [Op -> SUBSET Op]
  /\ cut \subseteq Op
  /\ option \in [Op -> Options]
  /\ uploads \subseteq Op
  /\ data \in [Op -> {"untouched", "emptied", "partial", "loaded"}]
  /\ dpc \in [Download -> {"idle", "serve", "sent", "missing"}]
  /\ djob \in [Download -> Op \cup {None}]

NoOptions == [custom |-> FALSE, clean |-> FALSE, singleTx |-> FALSE]

Init ==
  /\ StoreInit
  /\ pc = [op \in Op |-> "idle"]
  /\ clock = 0
  /\ stamp = [op \in Op |-> 0]
  /\ earlier = [op \in Op |-> {}]
  /\ cut = {}
  /\ option = [op \in Op |-> NoOptions]
  /\ uploads = {}
  /\ data = [op \in Op |-> "untouched"]
  /\ dpc = [d \in Download |-> "idle"]
  /\ djob = [d \in Download |-> None]

Goto(op, step) == pc' = [pc EXCEPT ![op] = step]

timeVars    == <<clock, stamp, earlier>>
historyVars == <<timeVars, cut>>
readerVars  == <<dpc, djob>>

-----------------------------------------------------------------------------
(* The handlers up to their answer *)

\* An import saves its upload first; a vacuum gets its pool first.
Accept(op) ==
  /\ pc[op] = "idle"
  /\ \/ /\ KindOf[op] # "import" /\ Goto(op, "accepted")
        /\ UNCHANGED <<option, uploads>>
     \/ /\ KindOf[op] = "import" /\ Goto(op, "accepted")
        /\ uploads' = uploads \cup {op}
        /\ \E o \in Options : option' = [option EXCEPT ![op] = o]
     \/ KindOf[op] # "export" /\ Goto(op, "rejected") /\ UNCHANGED <<option, uploads>>
  /\ UNCHANGED <<storeVars, historyVars, data, readerVars>>

\* Start reads the clock ...
Stamp(op) ==
  /\ pc[op] = "accepted"
  /\ clock' \in {clock, clock + 1}
  /\ stamp' = [stamp EXCEPT ![op] = clock']
  /\ earlier' = [earlier EXCEPT ![op] = DOMAIN jobs]
  /\ Goto(op, "stamped")
  /\ UNCHANGED <<storeVars, cut, option, uploads, data, readerVars>>

\* ... and only then takes the lock.
Insert(op) ==
  /\ pc[op] = "stamped"
  /\ Start(op)
  /\ cut' = cut \cup {j \in DOMAIN jobs \ DOMAIN jobs' : pc[j] # "done"}
  /\ Goto(op, "queued")
  /\ UNCHANGED <<timeVars, option, uploads, data, readerVars>>

-----------------------------------------------------------------------------
(* ExportDatabase's goroutine *)

CreateExport(op) ==
  /\ pc[op] = "queued" /\ KindOf[op] = "export"
  /\ \/ /\ files' = files \cup {op}
        /\ Update(op)
        /\ Goto(op, "dump")
     \/ Finish(op, "failed", FALSE) /\ Goto(op, "done") /\ UNCHANGED files
  /\ UNCHANGED <<historyVars, option, uploads, data, readerVars>>

\* A failed dump takes its file away before it is reported.
Dump(op) ==
  /\ pc[op] = "dump"
  /\ \/ Goto(op, "publish") /\ UNCHANGED storeVars
     \/ files' = files \ {op} /\ Finish(op, "failed", FALSE) /\ Goto(op, "done")
  /\ UNCHANGED <<historyVars, option, uploads, data, readerVars>>

\* The file becomes the job's artifact, or its size cannot be had.
Publish(op) ==
  /\ pc[op] = "publish"
  /\ \/ Finish(op, "succeeded", TRUE) /\ UNCHANGED files
     \/ files' = files \ {op} /\ Finish(op, "failed", FALSE)
  /\ Goto(op, "done")
  /\ UNCHANGED <<historyVars, option, uploads, data, readerVars>>

-----------------------------------------------------------------------------
(* ImportDatabase's goroutine *)

\* Only a plain SQL import is preceded by a truncation of its own.
Truncates(op) == option[op].clean /\ ~option[op].custom

BeginImport(op) ==
  /\ pc[op] = "queued" /\ KindOf[op] = "import"
  /\ Update(op)
  /\ Goto(op, IF Truncates(op) THEN "truncate" ELSE "load")
  /\ UNCHANGED <<files, historyVars, option, uploads, data, readerVars>>

\* One DO block: every table is truncated, or none.
Truncate(op) ==
  /\ pc[op] = "truncate"
  /\ \/ data' = [data EXCEPT ![op] = "emptied"] /\ Goto(op, "load")
        /\ UNCHANGED <<jobs, order>>
     \/ Finish(op, "failed", FALSE) /\ Goto(op, "rmupload") /\ UNCHANGED data
  /\ UNCHANGED <<files, historyVars, option, uploads, readerVars>>

\* pg_restore exits with an error when any statement failed.  psql, run on a
\* file without ON_ERROR_STOP, does not: it fails only when it cannot connect
\* or loses the connection.  In a single transaction an error undoes all.
Load(op) ==
  LET o       == option[op]
      applied == [data EXCEPT ![op] = "loaded"]
      undone  == IF o.singleTx THEN {data}
                 ELSE {data, [data EXCEPT ![op] = "partial"]}
  IN  /\ pc[op] = "load"
      /\ \/ data' = applied /\ Finish(op, "succeeded", FALSE)
         \/ data' \in undone /\ Finish(op, "failed", FALSE)
         \/ ~o.custom /\ data' \in undone /\ Finish(op, "succeeded", FALSE)
      /\ Goto(op, "rmupload")
      /\ UNCHANGED <<files, historyVars, option, uploads, readerVars>>

\* Variant for checking the properties: the upload is kept.
RemoveUploadNever(op) ==
  /\ pc[op] = "rmupload"
  /\ Goto(op, "done")
  /\ UNCHANGED <<storeVars, historyVars, option, uploads, data, readerVars>>

\* The deferred Remove.
RemoveUpload(op) ==
  /\ pc[op] = "rmupload"
  /\ uploads' = uploads \ {op}
  /\ Goto(op, "done")
  /\ UNCHANGED <<storeVars, historyVars, option, data, readerVars>>

-----------------------------------------------------------------------------
(* TriggerVacuum's goroutine *)

BeginVacuum(op) ==
  /\ pc[op] = "queued" /\ KindOf[op] = "vacuum"
  /\ Update(op)
  /\ Goto(op, "vacuum")
  /\ UNCHANGED <<files, historyVars, option, uploads, data, readerVars>>

EndVacuum(op) ==
  /\ pc[op] = "vacuum"
  /\ \E status \in {"succeeded", "failed"} : Finish(op, status, FALSE)
  /\ Goto(op, "done")
  /\ UNCHANGED <<files, historyVars, option, uploads, data, readerVars>>

-----------------------------------------------------------------------------
(* The job endpoints *)

\* DownloadArtifact: Get under the lock, ServeFile without it.
GetArtifact(d) ==
  /\ dpc[d] = "idle"
  /\ \E j \in DOMAIN jobs :
       /\ jobs[j].artifact
       /\ djob' = [djob EXCEPT ![d] = j]
  /\ dpc' = [dpc EXCEPT ![d] = "serve"]
  /\ UNCHANGED <<storeVars, pc, historyVars, option, uploads, data>>

ServeFile(d) ==
  /\ dpc[d] = "serve"
  /\ dpc' = [dpc EXCEPT ![d] = IF djob[d] \in files THEN "sent" ELSE "missing"]
  /\ UNCHANGED <<storeVars, pc, historyVars, option, uploads, data, djob>>

\* List(jobType, limit): the newest in the store's order are taken first,
\* what was taken is then sorted by creation time, newest first, stably.
Limit(limit) == IF limit <= 0 \/ limit > MaxJobs THEN DefaultLimit ELSE limit

Place(j) == CHOOSE i \in DOMAIN order : order[i] = j

Listed(kinds, limit) ==
  {j \in Range(order) :
     /\ KindOf[j] \in kinds
     /\ Cardinality({k \in Range(order) : KindOf[k] \in kinds /\ Place(k) < Place(j)})
          < Limit(limit)}

\* Variant for checking the properties: the sort is turned round.
ListedBeforeOldest(j, k) ==
  stamp[j] < stamp[k] \/ (stamp[j] = stamp[k] /\ Place(j) < Place(k))

ListedBefore(j, k) ==
  stamp[j] > stamp[k] \/ (stamp[j] = stamp[k] /\ Place(j) < Place(k))

-----------------------------------------------------------------------------
Work(op) ==
  \/ Stamp(op) \/ Insert(op)
  \/ CreateExport(op) \/ Dump(op) \/ Publish(op)
  \/ BeginImport(op) \/ Truncate(op) \/ Load(op) \/ RemoveUpload(op)
  \/ BeginVacuum(op) \/ EndVacuum(op)

\* Nothing is under way; the program waits for the next request.
Quiescent ==
  /\ \A op \in Op : pc[op] \in {"idle", "rejected", "done"}
  /\ \A d \in Download : dpc[d] # "serve"
  /\ UNCHANGED vars

\* What follows the requests, and the readers.
GoOn ==
  \/ \E op \in Op : Work(op)
  \/ \E d \in Download : GetArtifact(d) \/ ServeFile(d)
  \/ Quiescent

Next == GoOn \/ \E op \in Op : Accept(op)

Spec == Init /\ [][Next]_vars

\* Handlers and goroutines run on and their commands end.
Fairness == \A op \in Op : WF_vars(Work(op))

FairSpec == Spec /\ Fairness

-----------------------------------------------------------------------------
\* The list the API shows respects real time: if one job was in the store
\* before another was even stamped and the older one is listed, so is the
\* newer, in front of it.  Only overlapping Starts can be listed otherwise.
ListFollowsTime ==
  \A k \in DOMAIN jobs : \A j \in earlier[k] :
    \A kinds \in {Kind, {KindOf[k]}}, limit \in 0 .. MaxJobs + 1 :
      j \in Listed(kinds, limit) =>
        k \in Listed(kinds, limit) /\ ListedBefore(k, j)

\* A download that was promised a file and finds none lost it to the
\* eviction of its job between Get and ServeFile, never otherwise.
MissingExplained ==
  \A d \in Download : dpc[d] = "missing" => djob[d] \notin DOMAIN jobs

\* A file on disk belongs to an export at work or to a job that offers it; only
\* the file of a job that was evicted while its goroutine was at work is
\* nobody's.  A job that was over takes its file with it when it is evicted.
FilesAccounted ==
  \A op \in files :
    \/ pc[op] \in {"dump", "publish"}
    \/ op \in DOMAIN jobs /\ jobs[op].artifact
    \/ op \in cut

\* A failed import in a single transaction has changed nothing, unless it
\* was asked to truncate first: that happens in a transaction of its own.
FailedImportUndone ==
  \A op \in DOMAIN jobs :
    KindOf[op] = "import" /\ jobs[op].status = "failed"
    /\ option[op].singleTx /\ ~Truncates(op) => data[op] = "untouched"

\* What exports, imports and downloads leave (database.go, jobs.go): files
\* and rows alike are those the jobs speak of.
WhatIsLeft ==
  /\ TypeOK /\ ArtifactBacked
  /\ MissingExplained /\ FilesAccounted /\ FailedImportUndone

\* What WhatIsLeft rests on: who can have a file and who must, what an import
\* that was not asked to truncate has done so far, and that a download's job
\* was over, and had its file, when it was looked up.
NotInserted == {"idle", "accepted", "stamped"}

FileInv(op) ==
  /\ op \in files => pc[op] \in {"dump", "publish", "done"}
  /\ pc[op] \in {"dump", "publish"} => op \in files
  /\ pc[op] \in {"queued", "dump", "publish"} => op \in DOMAIN jobs \cup cut
  /\ op \in files => pc[op] # "done" \/ op \in DOMAIN jobs \cup cut
  /\ op \in DOMAIN jobs =>
       /\ pc[op] \notin NotInserted
       /\ jobs[op].artifact => op \in files /\ pc[op] = "done"
       /\ op \in files /\ pc[op] = "done" => jobs[op].artifact

ImportInv(op) ==
  /\ pc[op] = "truncate" => Truncates(op)
  /\ data[op] # "untouched" => pc[op] \in {"load", "rmupload", "done"}
  /\ data[op] # "untouched" /\ pc[op] = "load" => Truncates(op)
  /\ op \in DOMAIN jobs /\ jobs[op].status = "failed"
     /\ option[op].singleTx /\ ~Truncates(op) => data[op] = "untouched"

DownloadInv(d) ==
  /\ dpc[d] # "idle" => djob[d] \in Op /\ pc[djob[d]] = "done"
  /\ dpc[d] = "serve" /\ djob[d] \in DOMAIN jobs => jobs[djob[d]].artifact
  /\ dpc[d] = "missing" => djob[d] \notin DOMAIN jobs

\* What ListFollowsTime rests on: a job was stamped no earlier than what was in
\* the store then, and stands in front of it in the list.
TimeInv ==
  /\ \A op \in Op : stamp[op] <= clock
  /\ \A k \in Op : \A j \in earlier[k] :
       stamp[j] <= stamp[k] /\ pc[j] \notin NotInserted
  /\ \A m, n \in DOMAIN order : order[m] \in earlier[order[n]] => n < m

Inductive ==
  /\ TypeOK /\ IndexInv /\ TimeInv
  /\ \A op \in Op : FileInv(op) /\ ImportInv(op)
  /\ \A d \in Download : DownloadInv(d)

\* Every accepted request ends, and an upload does not outlive its import.
JobsEnd ==
  \A op \in Op : pc[op] = "accepted" ~> pc[op] = "done" /\ op \notin uploads
=============================================================================
