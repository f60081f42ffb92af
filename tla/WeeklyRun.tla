------------------------------ MODULE WeeklyRun ------------------------------
(***************************************************************************)
(* When the weekly full backup is due: nextWeeklyRun of                    *)
(* backend/service/scheduler.go as a function of the time and the          *)
(* configured weekday and hour.                                            *)
(*                                                                         *)
(* An instant is a day, counted from a Sunday, and an hour of that day, in *)
(* the fixed zone GMT+7, where every day has the same length.  The minutes *)
(* are left out: nextWeeklyRun gives the same answer for every instant of  *)
(* an hour, because a run is due on the hour and must come strictly later. *)
(***************************************************************************)
EXTENDS Integers

CONSTANTS
  Days,         \* in a week (7)
  Hours,        \* in a day (24)
  DefaultHour   \* for an hour that is none (4)

ASSUME WeekAssumption ==
  /\ Days \in Nat \ {0}
  /\ Hours \in Nat \ {0}
  /\ DefaultHour \in 0 .. Hours - 1

Instant == [day : Nat, hour : 0 .. Hours - 1]

After(s, t) == s.day > t.day \/ (s.day = t.day /\ s.hour > t.hour)

Weekday(t) == t.day % Days

ValidDay(weekday) == IF weekday \in 0 .. Days - 1 THEN weekday ELSE 0

ValidHour(hour) == IF hour \in 0 .. Hours - 1 THEN hour ELSE DefaultHour

NextWeeklyRun(now, weekday, hour) ==
  LET days == (ValidDay(weekday) - Weekday(now) + Days) % Days
      next == [day |-> now.day + days, hour |-> ValidHour(hour)]
  IN  IF After(next, now) THEN next ELSE [next EXCEPT !.day = @ + Days]

\* The hours from one instant to a later one.
Until(now, t) == (t.day - now.day) * Hours + t.hour - now.hour

-----------------------------------------------------------------------------
InSlot(t, weekday, hour) ==
  Weekday(t) = ValidDay(weekday) /\ t.hour = ValidHour(hour)

\* nextWeeklyRun is the first instant after now on the configured weekday and
\* hour: it skips no week, and a run that has just started is not due again.
IsNextRun(t, now, weekday, hour) ==
  /\ InSlot(t, weekday, hour)
  /\ After(t, now)
  /\ \A d \in now.day .. t.day, h \in 0 .. Hours - 1 :
       LET s == [day |-> d, hour |-> h]
       IN  InSlot(s, weekday, hour) /\ After(s, now) => ~After(t, s)
=============================================================================
