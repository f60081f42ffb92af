------------------------------- MODULE Alerter -------------------------------
(***************************************************************************)
(* The alerts (backend/service/alerter.go).                                *)
(*                                                                         *)
(* Every minute one goroutine compares the state of the server with the    *)
(* thresholds.  What exceeds one is fired, each alert in a critical        *)
(* section of its own, and then every open alert that was not seen is      *)
(* resolved.  An alert that was announced less than the cooldown ago is    *)
(* not announced again, and its record is kept for that when it is         *)
(* resolved.  The page of the alerts and GetStatus read in between.        *)
(*                                                                         *)
(* The thresholds are abstracted to which of them are exceeded, and at     *)
(* what level: that of the age of the backups depends on why.  Times are   *)
(* counted in minutes and only from the last announcement.  Telegram,      *)
(* which gets what is announced, is external.                              *)
(***************************************************************************)
EXTENDS Naturals, Sequences, FiniteSets

CONSTANTS
  Alert,        \* the keys: disk_usage, connections, replication_lag:..., backup_age
  Cooldowns,    \* the settings of cooldownMinutes
  MaxAge,       \* the bound of the minutes that are counted
  MaxHistory    \* the events that are kept

ASSUME AlerterAssumption ==
  /\ Cooldowns \subseteq Nat /\ MaxAge \in Nat /\ MaxHistory \in Nat \ {0}
  /\ \A c \in Cooldowns : c <= MaxAge

VARIABLES
  active,    \* a.active: the alerts there have been
  history,   \* a.history
  due,       \* what the check under way has still to fire
  seen,      \* what it has found
  cooldown,  \* the cooldown it read
  checking,  \* it is under way
  quiet      \* history: alerts that came back or changed their level without an event

alertVars == <<active, history, due, seen, cooldown, checking, quiet>>

Levels == {"warning", "critical"}
Event  == [key : Alert, level : Levels \cup {"resolved"}]
State  == [status : {"open", "resolved"}, level : Levels, lastFired : 0 .. MaxAge, resolvedAt : BOOLEAN]

AlerterTypeOK ==
  /\ DOMAIN active \subseteq Alert /\ IsFiniteSet(DOMAIN active)
  /\ \A k \in DOMAIN active : active[k] \in State
  /\ history \in Seq(Event) /\ Len(history) <= MaxHistory
  /\ DOMAIN due \subseteq seen /\ seen \subseteq Alert
  /\ \A k \in DOMAIN due : due[k] \in Levels
  /\ cooldown \in Cooldowns \cup {0} /\ checking \in BOOLEAN /\ quiet \subseteq Alert

AlerterInit ==
  /\ active = << >> /\ history = << >> /\ due = << >> /\ seen = {}
  /\ cooldown = 0 /\ checking = FALSE /\ quiet = {}

-----------------------------------------------------------------------------
\* Keep the last MaxHistory events.
Trimmed(h) == IF Len(h) > MaxHistory THEN SubSeq(h, Len(h) - MaxHistory + 1, Len(h)) ELSE h

\* A minute later.
Aged == [k \in DOMAIN active |->
           IF active[k].lastFired < MaxAge THEN [active[k] EXCEPT !.lastFired = @ + 1] ELSE active[k]]

\* The ticker; with the alerts disabled or no answer from the server nothing
\* is compared, and nothing resolved.
Tick ==
  /\ ~checking /\ active' = Aged
  /\ \/ checking' = FALSE /\ UNCHANGED <<due, seen, cooldown>>
     \/ /\ checking' = TRUE
        /\ cooldown' \in Cooldowns
        /\ \E ks \in SUBSET Alert : seen' = ks /\ due' \in [ks -> Levels]
  /\ UNCHANGED <<history, quiet>>

\* LastFiredAt.IsZero() or the cooldown is over.
Announces(k) == cooldown = 0 \/ k \notin DOMAIN active \/ active[k].lastFired >= cooldown

With(k, s) == [l \in DOMAIN active \cup {k} |-> IF l = k THEN s ELSE active[l]]

\* Variant for checking the properties: the cooldown is looked at first.
fireCooldownFirst(k) ==
  /\ k \in DOMAIN due /\ due' = [l \in DOMAIN due \ {k} |-> due[l]]
  /\ IF Announces(k)
     THEN /\ active' = With(k, [status |-> "open", level |-> due[k], lastFired |-> 0, resolvedAt |-> FALSE])
          /\ history' = Trimmed(Append(history, [key |-> k, level |-> due[k]]))
          /\ quiet' = quiet \ {k}
     ELSE UNCHANGED <<active, history, quiet>>
  /\ UNCHANGED <<seen, cooldown, checking>>

fire(k) ==
  /\ k \in DOMAIN due /\ due' = [l \in DOMAIN due \ {k} |-> due[l]]
  /\ IF Announces(k)
     THEN /\ active' = With(k, [status |-> "open", level |-> due[k], lastFired |-> 0, resolvedAt |-> FALSE])
          /\ history' = Trimmed(Append(history, [key |-> k, level |-> due[k]]))
          /\ quiet' = quiet \ {k}
     ELSE /\ active' = With(k, [active[k] EXCEPT !.status = "open", !.level = due[k]])
          /\ history' = history
          /\ quiet' = IF active[k].status = "open" /\ active[k].level = due[k] THEN quiet ELSE quiet \cup {k}
  /\ UNCHANGED <<seen, cooldown, checking>>

Missing == {k \in DOMAIN active \ seen : active[k].status = "open"}

\* One critical section; the map is gone through in any order.
resolveMissing ==
  /\ checking /\ due = << >> /\ checking' = FALSE
  /\ active' = [k \in DOMAIN active |->
                  IF k \in Missing THEN [active[k] EXCEPT !.status = "resolved", !.resolvedAt = TRUE]
                                   ELSE active[k]]
  /\ \E order \in [1 .. Cardinality(Missing) -> Missing] :
       /\ {order[i] : i \in DOMAIN order} = Missing
       /\ history' = Trimmed(history \o [i \in DOMAIN order |-> [key |-> order[i], level |-> "resolved"]])
  /\ UNCHANGED <<due, seen, cooldown, quiet>>

AlerterNext == Tick \/ resolveMissing \/ \E k \in Alert : fire(k)
AlerterSpec == AlerterInit /\ [][AlerterNext]_alertVars

-----------------------------------------------------------------------------
\* The last event of an alert is the i-th one of a history.
LastIn(h, k, i) ==
  i \in DOMAIN h /\ h[i].key = k /\ \A j \in DOMAIN h : j > i => h[j].key # k

\* The history tells what the alerts are at, as far back as it goes: the last
\* event of an alert is that it was resolved when it is, and its level when it
\* is open, unless it came back or changed its level within the cooldown.
HistoryIsState ==
  \A k \in DOMAIN active, i \in DOMAIN history :
    LastIn(history, k, i) =>
      IF active[k].status = "resolved" THEN history[i].level = "resolved"
      ELSE k \in quiet \/ history[i].level = active[k].level

\* An open alert with the time of its end is one that came back in silence.
EndIsOver ==
  \A k \in DOMAIN active :
    IF active[k].status = "resolved" THEN active[k].resolvedAt
                                     ELSE active[k].resolvedAt => k \in quiet

\* What a check has found is open when it ends, and was announced within the
\* cooldown, however often it was resolved in between.
SeenAreOpen ==
  checking /\ due = << >> =>
    \A k \in seen : /\ k \in DOMAIN active /\ active[k].status = "open"
                    /\ active[k].lastFired = 0 \/ active[k].lastFired < cooldown

AlertsExplained == HistoryIsState /\ EndIsOver /\ SeenAreOpen

\* While the check goes on, that holds of what it has fired so far.
FiredSoFar ==
  checking =>
    \A k \in seen \ DOMAIN due :
      /\ k \in DOMAIN active /\ active[k].status = "open"
      /\ active[k].lastFired = 0 \/ active[k].lastFired < cooldown

AlerterInductive == AlerterTypeOK /\ HistoryIsState /\ EndIsOver /\ FiredSoFar
==============================================================================
