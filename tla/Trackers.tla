------------------------------ MODULE Trackers ------------------------------
(***************************************************************************)
(* How the web front end follows a job it has started: the backups page    *)
(* (backend/web/static/js/backup.js), the vacuum page (vacuum.js) and the  *)
(* export and import page (database.js).                                   *)
(*                                                                         *)
(* Starting a job remembers its id, asks for its status at once and then   *)
(* every three seconds until an answer says that it is over.  Whichever    *)
(* answer says so stops the one interval there is, whatever is followed by *)
(* then.  The interval goes on when the page is left; without the page's   *)
(* element it asks for nothing, except on the export and import page,      *)
(* which asks twice: for what it shows, and whether to go on.              *)
(*                                                                         *)
(* The server is the job list of JobStore: a job runs and is over.  How it *)
(* ended makes no difference here; asking for one that is evicted from the *)
(* list is an error, like a connection that is lost, and every request may *)
(* end in one.  A behaviour is about one of the pages.                     *)
(***************************************************************************)
EXTENDS Naturals, FiniteSets

CONSTANTS
  Job,        \* the jobs that are ever started
  NoJob,      \* null
  Of,         \* the pages a behaviour may be about
  MaxVisits,  \* how often the page is opened
  MaxPolls    \* the status requests under way at once

ASSUME TrackersAssumption ==
  /\ NoJob \notin Job /\ Of \subseteq {"backups", "vacuum", "database"}
  /\ MaxVisits \in Nat \ {0} /\ MaxPolls \in Nat \ {0}

VARIABLES
  of,        \* the page
  here,      \* whether it is on the screen
  visit,     \* which rendering of it
  later,     \* render still waits for what it loads first
  status,    \* the server: the status of each job
  slot,      \* what each job is remembered under
  starts,    \* the answers to starting requests under way
  ids,       \* _jobId, or _exportJobId and _importJobId
  poller,    \* _poller, _jobPoller
  polls,     \* the status requests under way
  shown,     \* the status that is shown of each job
  misled     \* history: since the interval last asked or was set an answer stopped
             \* it, or was shown, that was not about the jobs followed or not to the
             \* newest question; or it was stopped by an error or what is not shown

jobVars   == <<status, slot>>
pageVars  == <<of, here, visit>>
trackVars == <<pageVars, later, jobVars, starts, ids, poller, polls, shown, misled>>

\* What each job is remembered under.
Slot == {"one", "export", "import"}
Followed == {ids[s] : s \in Slot} \ {NoJob}

\* A request keeps what the server would have answered when it was made.
Unread == [j \in {} |-> "unread"]
Seen   == {"running", "over", "error"}
Poll   == [jobs : SUBSET Job, el : 0 .. MaxVisits, step : {"show", "show, then ask", "ask"},
           seen : UNION {[js -> {"running", "over"}] : js \in SUBSET Job}, new : BOOLEAN]

TrackersTypeOK ==
  /\ of \in Of /\ here \in BOOLEAN /\ visit \in 0 .. MaxVisits /\ later \subseteq 1 .. MaxVisits
  /\ status \in [Job -> {"none", "running", "over"}]
  /\ slot \in [Job -> Slot]
  /\ starts \subseteq Job /\ ids \in [Slot -> Job \cup {NoJob}] /\ poller \in BOOLEAN
  /\ polls \subseteq Poll /\ IsFiniteSet(polls) /\ Cardinality(polls) <= MaxPolls
  /\ DOMAIN shown \subseteq Job /\ \A j \in DOMAIN shown : shown[j] \in Seen
  /\ misled \in BOOLEAN

TrackersInit ==
  /\ of \in Of /\ here = FALSE /\ visit = 0 /\ later = {}
  /\ status = [j \in Job |-> "none"] /\ slot = [j \in Job |-> "one"]
  /\ starts = {} /\ ids = [s \in Slot |-> NoJob] /\ poller = FALSE /\ polls = {}
  /\ shown = Unread
  /\ misled = FALSE

-----------------------------------------------------------------------------
(* The server *)

JobEnds ==
  /\ \E j \in Job : status[j] = "running" /\ status' = [status EXCEPT ![j] = "over"]
  /\ UNCHANGED <<pageVars, later, slot, starts, ids, poller, polls, shown, misled>>

-----------------------------------------------------------------------------
(* Asking for the status *)

ReadAll(jobs) == [j \in jobs |-> status[j]]

Request(jobs, step) ==
  [jobs |-> jobs, el |-> visit, step |-> step, seen |-> ReadAll(jobs), new |-> TRUE]

Newest(others, p) == {[o EXCEPT !.new = FALSE] : o \in others} \cup {p}

\* renderJobStatus: gives up without its element, and clears it without a job.
renderJobStatus(jobs, step) ==
  IF ~here \/ jobs = {} THEN UNCHANGED polls
  ELSE /\ Cardinality(polls) < MaxPolls
       /\ polls' = Newest(polls, Request(jobs, step))

\* trackJob and trackJobs
trackJob(j) ==
  /\ ids' = [ids EXCEPT ![slot[j]] = j]
  /\ renderJobStatus({ids'[s] : s \in Slot} \ {NoJob}, "show")
  /\ poller' = TRUE /\ misled' = FALSE

\* setInterval.  The export and import page goes on to ask whether it is over,
\* at once when it has no element.
Tick ==
  /\ poller
  /\ IF of # "database" THEN renderJobStatus(Followed, "show")
     ELSE IF here THEN renderJobStatus(Followed, "show, then ask")
     ELSE /\ Cardinality(polls) < MaxPolls
          /\ polls' = Newest(polls, Request(Followed, "ask"))
  /\ misled' = FALSE
  /\ UNCHANGED <<pageVars, later, jobVars, starts, ids, poller, shown>>

-----------------------------------------------------------------------------
(* Answers *)

Visible(p) == here /\ p.el = visit

\* The answer is not to the last question or not about what is followed now.
Stale(p) == ~p.new \/ p.jobs # Followed

\* Such an answer is shown or stops the interval.
Misleads(p) == Stale(p) /\ (Visible(p) \/ poller' # poller)

\* Variant for checking the properties: any answer stops the interval.
BackupAnsweredOnce(p, q) ==
  /\ poller' = FALSE
  /\ misled' = (misled \/ Misleads(p))
  /\ polls' = polls \ {p}

\* backup.js: a job that is over stops the interval that runs now, an error
\* does not.
BackupAnswered(p, q) ==
  /\ poller' = (poller /\ \A j \in p.jobs : q.seen[j] \in {"running", "error"})
  /\ misled' = (misled \/ Misleads(p))
  /\ polls' = polls \ {p}

\* vacuum.js: the same.
VacuumAnswered(p, q) ==
  /\ poller' = (poller /\ \A j \in p.jobs : q.seen[j] \in {"running", "error"})
  /\ misled' = (misled \/ Misleads(p))
  /\ polls' = polls \ {p}

\* database.js: an interval asks again, for what is followed by now.
DatabaseAnswered(p, q) ==
  /\ polls' = IF p.step = "show" THEN polls \ {p}
              ELSE Newest(polls \ {p}, Request(Followed, "ask"))
  /\ UNCHANGED poller
  /\ misled' = (misled \/ Misleads(p))

\* The second answer stops the interval when nothing runs or can be asked for.
StatesAnswered(p, q) ==
  LET over == \A j \in p.jobs : q.seen[j] # "running"
  IN  /\ poller' = (poller /\ ~over)
      /\ misled' = (misled \/ (over /\
           \/ p.jobs # Followed
           \/ \E o \in polls \ {p} : o.step # "ask"
           \/ \E j \in p.jobs : q.seen[j] = "error" \/ (j \in DOMAIN shown /\ shown[j] = "running")))
      /\ polls' = polls \ {p}
      /\ UNCHANGED shown

Show(p) == shown' = IF Visible(p) THEN p.seen ELSE shown

\* JobUI.get: the server reads each job of a request at its start or at its
\* end, or the request ends in an error.
Answered(p) ==
  {[p EXCEPT !.seen = seen] : seen \in
     {s \in [p.jobs -> Seen] : \A j \in p.jobs : s[j] \in {p.seen[j], status[j], "error"}}}

Answer(p) ==
  /\ \E q \in Answered(p) :
       \/ q.step = "ask" /\ StatesAnswered(p, q)
       \/ /\ q.step # "ask" /\ Show(q)
          /\ CASE of = "backups"  -> BackupAnswered(p, q)
               [] of = "vacuum"   -> VacuumAnswered(p, q)
               [] of = "database" -> DatabaseAnswered(p, q)
  /\ UNCHANGED <<pageVars, later, jobVars, starts, ids>>

-----------------------------------------------------------------------------
(* Starting a job *)

\* The server takes the job and the answer is under way; a job that it refuses
\* leaves no trace.
Start(s) ==
  /\ here
  /\ \E j \in Job :
       /\ status[j] = "none"
       /\ status' = [status EXCEPT ![j] = "running"] /\ slot' = [slot EXCEPT ![j] = s]
       /\ starts' = starts \cup {j}
  /\ UNCHANGED <<pageVars, later, ids, poller, polls, shown, misled>>

\* triggerBackup, verifyBackup, restore and _executePITR
triggerBackup == of = "backups" /\ Start("one")
triggerVacuum == of = "vacuum" /\ Start("one")
exportDB      == of = "database" /\ Start("export")
_uploadFile   == of = "database" /\ Start("import")

\* The answer is lost, and the job runs without being followed; or trackJob.
Started ==
  /\ \E j \in starts :
       /\ starts' = starts \ {j}
       /\ trackJob(j) \/ UNCHANGED <<ids, poller, polls, misled>>
  /\ UNCHANGED <<pageVars, later, jobVars, shown>>

-----------------------------------------------------------------------------
(* Moving about *)

\* render: loads first, then renderJobStatus.
Open ==
  /\ visit < MaxVisits
  /\ visit' = visit + 1 /\ here' = TRUE
  /\ later' = later \cup {visit'}
  /\ shown' = Unread
  /\ UNCHANGED <<of, jobVars, starts, ids, poller, polls, misled>>

Leave ==
  /\ here /\ here' = FALSE
  /\ UNCHANGED <<of, visit, later, jobVars, starts, ids, poller, polls, shown, misled>>

\* What render waited for is there, or an error.
Loaded ==
  /\ \E v \in later : later' = later \ {v}
  /\ renderJobStatus(Followed, "show")
  /\ UNCHANGED <<pageVars, jobVars, starts, ids, poller, shown, misled>>

-----------------------------------------------------------------------------
TrackersNext ==
  \/ JobEnds
  \/ triggerBackup \/ triggerVacuum \/ exportDB \/ _uploadFile
  \/ Started \/ Tick \/ (\E p \in polls : Answer(p))
  \/ Open \/ Leave \/ Loaded

TrackersSpec == TrackersInit /\ [][TrackersNext]_trackVars

-----------------------------------------------------------------------------
\* What is followed is not shown as running for ever: a job is shown as over or
\* with an error, or there is an interval or a request that will tell.  A late
\* or misdirected answer breaks this when it stops the interval, or is shown after
\* the newest has stopped it; on the export and import page an error does, and a
\* job that ends between the two questions.  Starting another job, which sets the
\* interval, repairs it.
Watched ==
  here /\ later = {} /\ starts = {} /\ polls = {} /\ ~poller /\ ~misled =>
    \A j \in Followed : j \in DOMAIN shown /\ shown[j] # "running"

-----------------------------------------------------------------------------
(* Why that holds: an invariant that every step keeps.                     *)

\* What is followed has been started, and the pages with one job remember one.
SlotInv ==
  /\ \A j \in starts \cup Followed : status[j] # "none"
  /\ of # "database" => /\ \A s \in Slot \ {"one"} : ids[s] = NoJob
                        /\ \A j \in Job : slot[j] = "one"

\* One request is the newest, and no later rendering has asked before it.
PollInv ==
  \A p \in polls :
    /\ DOMAIN p.seen = p.jobs /\ p.el <= visit
    /\ \A j \in p.jobs : p.seen[j] = "over" => status[j] = "over"
    /\ p.new => \A o \in polls : o.el <= p.el /\ (o.new => o = p)

\* While the newest request is from an earlier rendering nothing is shown; once
\* the page has loaded, what is followed is shown or about to be.
ShownInv ==
  /\ \A p \in polls : p.new /\ p.el < visit => shown = Unread
  /\ ~misled /\ here /\ visit \notin later =>
       \A j \in Followed : j \in DOMAIN shown \/
         \E p \in polls : p.step # "ask" /\ p.el = visit /\ j \in p.jobs

\* Without an interval all that is followed is over, and the newest request
\* will say so.
OverInv ==
  ~misled /\ ~poller =>
    /\ \A j \in Followed : status[j] = "over"
    /\ \A p \in polls : p.step # "ask" /\ p.new => \A j \in p.jobs : p.seen[j] = "over"
    /\ here => \A j \in Followed \cap DOMAIN shown : shown[j] # "running"

TrackersInductive == TrackersTypeOK /\ SlotInv /\ PollInv /\ ShownInv /\ OverInv
=============================================================================
