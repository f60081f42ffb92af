----------------------------- MODULE MCScheduler -----------------------------
(* Instances of Scheduler for TLC: a week of two days of two hours. *)
EXTENDS Scheduler, TLC

CONSTANTS u1, u2, l1, l2

\* Hourly with a full backup on the second day; every second hour, from the
\* deprecated field, in a slot that is none; disabled.
Hourly  == [enabled |-> TRUE,  hours |-> 1, interval |-> 0, weekday |-> 1, hour |-> 1]
Legacy  == [enabled |-> TRUE,  hours |-> 0, interval |-> 2, weekday |-> -1, hour |-> 9]
Stopped == [enabled |-> FALSE, hours |-> 1, interval |-> 1, weekday |-> 1, hour |-> 1]

Schedules == {Hourly, Legacy, Stopped}

FormOf(schedules) ==
  {[schedule |-> sch, token |-> NoToken, profileOn |-> TRUE] : sch \in schedules}

\* A save of what GetSettings shows when a token is set, with a profile switched off.
Masked == [schedule |-> Legacy, token |-> Mask, profileOn |-> FALSE]

AllForms == FormOf({Hourly, Stopped}) \cup {Masked}
TwoForms == FormOf({Hourly, Legacy})

Symmetry == Permutations({u1, u2}) \cup Permutations({l1, l2})
=============================================================================
