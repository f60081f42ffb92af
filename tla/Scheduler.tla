------------------------------ MODULE Scheduler ------------------------------
(***************************************************************************)
(* The backup scheduler (backend/service/scheduler.go) together with the   *)
(* settings it reads and the handler that restarts it after a save.        *)
(*                                                                         *)
(* Start cancels the context of the running loop and begins another; a     *)
(* cancelled loop ends when its select sees the context, but a timer that  *)
(* is ready too may be chosen instead.  Time is cyclic and passes by the   *)
(* hour; timers and announced times are hours from now.                    *)
(*                                                                         *)
(* Assumed: a loop that can run does so within the hour (its steps only    *)
(* start a goroutine each).  Bounds: at most |Loop| loops exist at once.   *)
(***************************************************************************)
EXTENDS Settings, WeeklyRun

CONSTANTS
  Loop,   \* places for the loops that exist at the same time
  None    \* the scheduler has no cancel function yet

\* BackupConfig, as far as the scheduler reads it.
ScheduleRecord == [enabled : BOOLEAN, hours : Int, interval : Int,
                   weekday : Int, hour : Int]

ASSUME SchedulerAssumption ==
  /\ Schedule \subseteq ScheduleRecord
  /\ None \notin Loop

VARIABLES
  now,        \* the hour of the week
  loops,      \* the loops: step, context, ticker and timer
  current,    \* the loop that Scheduler.cancel cancels
  nextFull,   \* nextFullRun, in hours from now
  nextIncr,   \* nextIncrementalRun, in hours from now
  fulls       \* history: the full backups started in this hour

schedVars == <<now, loops, current, nextFull, nextIncr, fulls>>
vars == <<settingsVars, schedVars>>

LoopRecord ==
  [step     : {"free", "select", "full", "rearm", "incr", "note"},
   live     : BOOLEAN,   \* its context is not cancelled
   interval : Nat,       \* of incrementalTicker
   tick     : Nat,       \* until it ticks
   ticked   : BOOLEAN,   \* incrementalTicker.C holds a tick
   full     : Nat,       \* until fullTimer fires
   fired    : BOOLEAN,   \* fullTimer.C holds its firing
   hours    : Int]       \* the interval runIncrementalBackup has read

Free == [step |-> "free", live |-> FALSE, interval |-> 0, tick |-> 0,
         ticked |-> FALSE, full |-> 0, fired |-> FALSE, hours |-> 0]

SchedulerTypeOK ==
  /\ SettingsTypeOK
  /\ now \in [day : 0 .. Days - 1, hour : 0 .. Hours - 1]
  /\ loops \in [Loop -> LoopRecord]
  /\ current \in Loop \cup {None}
  /\ nextFull \in Nat /\ nextIncr \in Int
  /\ fulls \in Nat

\* The interval; a file of an older version has only the deprecated one.
IncrementalHours(sch) == IF sch.hours > 0 THEN sch.hours ELSE sch.interval

Running(sch) == sch.enabled /\ IncrementalHours(sch) > 0

FullIn(sch) == Until(now, NextWeeklyRun(now, sch.weekday, sch.hour))

\* A timer that is set to now fires at once.
Arm(loop, hours) == [loop EXCEPT !.full = hours, !.fired = (hours = 0)]

NewLoop(sch) ==
  Arm([Free EXCEPT !.step = "select", !.live = TRUE,
                   !.interval = IncrementalHours(sch),
                   !.tick = IncrementalHours(sch)], FullIn(sch))

\* The first start, on the default settings.
Init ==
  /\ SettingsInit
  /\ now = [day |-> 0, hour |-> 0]
  /\ LET sch == DefaultSchedule IN
       IF Running(sch)
         THEN \E l \in Loop :
                /\ loops = [k \in Loop |-> IF k = l THEN NewLoop(sch) ELSE Free]
                /\ current = l
                /\ nextFull = FullIn(sch) /\ nextIncr = IncrementalHours(sch)
         ELSE /\ loops = [k \in Loop |-> Free]
              /\ current = None
              /\ nextFull = 0 /\ nextIncr = 0
  /\ fulls = 0

-----------------------------------------------------------------------------
\* The loops and the cancel function that a Start finds, and its settings.

\* Variant for checking the properties: a disabled schedule returns before the cancel.
StartDisabledFirst(found, cancel, sch) ==
  \/ /\ ~Running(sch)
     /\ loops' = found /\ current' = cancel
     /\ UNCHANGED <<nextFull, nextIncr>>
  \/ /\ Running(sch)
     /\ \E l \in {k \in Loop : found[k] = Free} :
          /\ loops' = [k \in Loop |->
                         IF k = l THEN NewLoop(sch)
                         ELSE IF k = cancel THEN [found[k] EXCEPT !.live = FALSE]
                         ELSE found[k]]
          /\ current' = l
     /\ nextFull' = FullIn(sch)
     /\ nextIncr' = IncrementalHours(sch)

\* Variant for checking the properties: the loop that runs is not cancelled.
StartOverlapping(found, cancel, sch) ==
  \/ /\ ~Running(sch)
     /\ loops' = found /\ current' = cancel
     /\ UNCHANGED <<nextFull, nextIncr>>
  \/ /\ Running(sch)
     /\ \E l \in {k \in Loop : found[k] = Free} :
          /\ loops' = [found EXCEPT ![l] = NewLoop(sch)]
          /\ current' = l
     /\ nextFull' = FullIn(sch)
     /\ nextIncr' = IncrementalHours(sch)

\* Start: cancel what runs; begin a loop unless the schedule is disabled.
StartLoop(found, cancel, sch) ==
  LET canceled == [k \in Loop |-> IF k = cancel THEN [found[k] EXCEPT !.live = FALSE]
                                  ELSE found[k]]
  IN  \/ /\ ~Running(sch)
         /\ loops' = canceled /\ current' = cancel
         /\ UNCHANGED <<nextFull, nextIncr>>
      \/ /\ Running(sch)
         /\ \E l \in {k \in Loop : found[k] = Free} :
              /\ loops' = [canceled EXCEPT ![l] = NewLoop(sch)]
              /\ current' = l
         /\ nextFull' = FullIn(sch)
         /\ nextIncr' = IncrementalHours(sch)

\* UpdateSettings after a save that succeeded.
Restart(s) ==
  /\ Answer(s)
  /\ StartLoop(loops, current, memory.schedule)
  /\ UNCHANGED <<now, fulls>>

\* The process dies and NewScheduler starts on the settings that load.
Reboot ==
  /\ Crash
  /\ StartLoop([k \in Loop |-> Free], None, memory'.schedule)
  /\ UNCHANGED <<now, fulls>>

-----------------------------------------------------------------------------
(* run *)

\* The select, when the context is cancelled.
Exit(l) ==
  /\ loops[l].step = "select" /\ ~loops[l].live
  /\ loops' = [loops EXCEPT ![l] = Free]
  /\ UNCHANGED <<settingsVars, now, current, nextFull, nextIncr, fulls>>

\* The select, when the timer is ready: TriggerFullBackup.
TriggerFull(l) ==
  /\ loops[l].step = "select" /\ loops[l].fired
  /\ loops' = [loops EXCEPT ![l].step = "full", ![l].fired = FALSE]
  /\ fulls' = fulls + 1
  /\ UNCHANGED <<settingsVars, now, current, nextFull, nextIncr>>

\* runFullBackup announces the next run, under the scheduler's lock ...
NoteFull(l) ==
  /\ loops[l].step = "full"
  /\ nextFull' = FullIn(memory.schedule)
  /\ loops' = [loops EXCEPT ![l].step = "rearm"]
  /\ UNCHANGED <<settingsVars, now, current, nextIncr, fulls>>

\* Variant for checking the properties: the timer is not reset.
RearmNever(l) ==
  /\ loops[l].step = "rearm"
  /\ loops' = [loops EXCEPT ![l].step = "select"]
  /\ UNCHANGED <<settingsVars, now, current, nextFull, nextIncr, fulls>>

\* ... and run sets the timer from the settings as they then are.
Rearm(l) ==
  /\ loops[l].step = "rearm"
  /\ loops' = [loops EXCEPT ![l] =
                 Arm([@ EXCEPT !.step = "select"], FullIn(memory.schedule))]
  /\ UNCHANGED <<settingsVars, now, current, nextFull, nextIncr, fulls>>

\* The select, when the ticker is ready: TriggerIncrementalBackup.
TriggerIncremental(l) ==
  /\ loops[l].step = "select" /\ loops[l].ticked
  /\ loops' = [loops EXCEPT ![l].step = "incr", ![l].ticked = FALSE]
  /\ UNCHANGED <<settingsVars, now, current, nextFull, nextIncr, fulls>>

\* runIncrementalBackup reads the settings before it takes the lock ...
ReadHours(l) ==
  /\ loops[l].step = "incr"
  /\ loops' = [loops EXCEPT ![l].step = "note",
                            ![l].hours = IncrementalHours(memory.schedule)]
  /\ UNCHANGED <<settingsVars, now, current, nextFull, nextIncr, fulls>>

\* ... and announces what it read, although a Start may have come between.
NoteIncremental(l) ==
  /\ loops[l].step = "note"
  /\ nextIncr' = loops[l].hours
  /\ loops' = [loops EXCEPT ![l].step = "select", ![l].hours = 0]
  /\ UNCHANGED <<settingsVars, now, current, nextFull, fulls>>

LoopStep(l) ==
  \/ Exit(l)
  \/ TriggerFull(l) \/ NoteFull(l) \/ Rearm(l)
  \/ TriggerIncremental(l) \/ ReadHours(l) \/ NoteIncremental(l)

-----------------------------------------------------------------------------
\* Nothing a loop could do within this hour is left.
AtRest(l) ==
  \/ loops[l].step = "free"
  \/ loops[l].step = "select" /\ loops[l].live /\ ~loops[l].ticked /\ ~loops[l].fired

Sooner(hours) == IF hours > 0 THEN hours - 1 ELSE hours

LoopAnHourLater(loop) ==
  IF loop.step = "free" THEN loop
  ELSE [loop EXCEPT !.tick   = IF @ = 1 THEN loop.interval ELSE @ - 1,
                    !.ticked = (loop.tick = 1),
                    !.full   = Sooner(@),
                    !.fired  = (loop.full = 1)]

HourPasses ==
  /\ \A l \in Loop : AtRest(l)
  /\ now' = IF now.hour < Hours - 1 THEN [now EXCEPT !.hour = @ + 1]
            ELSE [day |-> (now.day + 1) % Days, hour |-> 0]
  /\ loops' = [l \in Loop |-> LoopAnHourLater(loops[l])]
  /\ nextFull' = Sooner(nextFull)
  /\ nextIncr' = Sooner(nextIncr)
  /\ fulls' = 0
  /\ UNCHANGED <<settingsVars, current>>

-----------------------------------------------------------------------------
Quietly == HourPasses \/ \E l \in Loop : LoopStep(l)

Next ==
  \/ Quietly
  \/ \E s \in Saver : Save(s) /\ UNCHANGED schedVars
  \/ \E s \in Saver : Restart(s)
  \/ Reboot

Spec == Init /\ [][Next]_vars

\* Time passes, loops run, and a request that was taken up is answered;
\* nobody has to send one, and the process need not die.
FairSpec ==
  /\ Spec
  /\ WF_vars(HourPasses)
  /\ \A l \in Loop : WF_vars(LoopStep(l))
  /\ \A s \in Saver : WF_vars(Restart(s))

-----------------------------------------------------------------------------
\* There is never more than one loop that will run on: whoever restarts the
\* scheduler, and in whatever order, every other loop is cancelled.
OneLiveLoop == \A l \in Loop : loops[l].live => l = current

\* No save is between the settings and the scheduler, none failed half way.
Settled == ~unsaved /\ \A s \in Saver : spc[s] # "restart"

\* When nobody is saving, the loop that runs is one for the settings in
\* effect: their interval, and a timer that fires in their next slot, however
\* long ago it was set; and none runs when they disable it.
LoopFollowsSettings ==
  Settled =>
    LET sch == memory.schedule IN
    IF Running(sch)
      THEN /\ current # None
           /\ LET loop == loops[current] IN
                /\ loop.live /\ loop.interval = IncrementalHours(sch)
                /\ loop.step \notin {"full", "rearm"} /\ ~loop.fired
                     => loop.full = FullIn(sch)
      ELSE \A l \in Loop : ~loops[l].live

\* The next full run that Status announces is the one the timer is set for.
FullAnnounced ==
  Settled /\ Running(memory.schedule) =>
    LET loop == loops[current] IN
    loop.step \notin {"full", "rearm"} /\ ~loop.fired => nextFull = loop.full

\* A slot has at most one full backup: a restart within the hour of the slot,
\* with a cancelled loop that still runs its timer, does not add a second.
FullOncePerSlot == fulls <= 1

\* What runs and what is announced is what the settings say (Start, run and
\* runFullBackup of scheduler.go), through every save, restart and failure.
LoopExplained == LoopFollowsSettings /\ FullAnnounced /\ FullOncePerSlot

\* What these rest on.  A place is free or its loop has an interval to count;
\* of the loops of an hour one may have a timer that fired, and none has one
\* when the full backup of the hour was started, or before its loop has set it
\* again; and the announced run is the next slot from the moment the loop has
\* announced it, before it sets its timer.
PlacesInv ==
  \A l \in Loop : \/ loops[l] = Free
                  \/ loops[l].step # "free" /\ loops[l].interval > 0 /\ loops[l].tick > 0

FiredInv ==
  \A l \in Loop : loops[l].fired => /\ loops[l].step \notin {"full", "rearm"} /\ fulls = 0
                                    /\ \A k \in Loop : loops[k].fired => k = l

AnnouncedInv ==
  Settled /\ Running(memory.schedule) =>
    LET loop == loops[current] IN
    loop.step # "full" /\ ~loop.fired => nextFull = FullIn(memory.schedule)

Inductive ==
  /\ SchedulerTypeOK /\ OneLiveLoop
  /\ PlacesInv /\ FiredInv /\ FullOncePerSlot
  /\ LoopFollowsSettings /\ AnnouncedInv

\* A loop that was cancelled ends, whichever way its selects go.
CanceledLoopsEnd ==
  \A l \in Loop :
    loops[l].step # "free" /\ ~loops[l].live ~>
      loops[l].step = "free" \/ loops[l].live   \* live: it is another loop's place

\* When the settings are left alone and enable it, both backups go on for ever.
BackupsGoOn ==
  <>[][Quietly]_vars /\ <>[](Settled /\ Running(memory.schedule)) =>
    /\ []<>(\E l \in Loop : loops[l].step = "full")
    /\ []<>(\E l \in Loop : loops[l].step = "incr")

\* No loop lingers (run's select) and none that is needed stops.
SchedulerLives == CanceledLoopsEnd /\ BackupsGoOn
=============================================================================
