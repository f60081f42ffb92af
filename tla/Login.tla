------------------------------- MODULE Login -------------------------------
(***************************************************************************)
(* Calls of the web front end to the API and the login they ask for        *)
(* (backend/web/static/js/app.js, api to IdleTracker) together with the    *)
(* sessions of the server (backend/service/auth.go, handler/auth.go).      *)
(*                                                                         *)
(* The browser keeps one session id.  Every call sends the id it finds; a  *)
(* call that finds none, or is answered 401, opens the login dialog with   *)
(* itself as what to do afterwards.  There is one dialog: opening it takes *)
(* away the one that was there, whoever was waiting in it.                 *)
(*                                                                         *)
(* Time is counted in ticks of the session's life time.  The wording of    *)
(* the errors and what a call is about are left out.                       *)
(***************************************************************************)
EXTENDS Integers, FiniteSets

CONSTANTS
  Call,      \* the calls that are ever made, each one once
  Start,     \* what opens the page after the first login
  Nobody,    \* no dialog on the screen
  Sid,       \* the session ids the server may create
  NoSid,     \* no session id
  Submit,    \* the login requests that may be under way at once
  TTL        \* sessionTTL, and the idle time of the browser, in ticks

ASSUME LoginAssumption ==
  /\ Start \notin Call /\ Nobody \notin Call \cup {Start}
  /\ NoSid \notin Sid
  /\ TTL \in Nat \ {0}

VARIABLES
  stored,    \* sessionStorage: pgaio_session
  idle,      \* IdleTracker: ticks until it expires, 0 when it has
  promise,   \* what each call's promise is
  fetches,   \* the requests of calls that are under way
  dialog,    \* whose login dialog is on the screen
  submits,   \* the login requests under way
  sessions,  \* the server: the ticks each session has left, below 0 expired
  issued,    \* the ids the server has given out
  served,    \* history: how often each call was let through by the server
  replaced,  \* history: the calls whose dialog was taken away by another's
  again,     \* history: the calls whose dialog was submitted twice at once
  late,      \* history: the calls canceled with a login under way
  unused     \* history: the ticks since each session was created or used

browserVars == <<stored, idle, promise, fetches, dialog, submits>>
serverVars  == <<sessions, issued>>
historyVars == <<served, replaced, again, late, unused>>
loginVars   == <<browserVars, serverVars, historyVars>>

Waiter == Call \cup {Start}
NoLogin == [for |-> Nobody, stage |-> "free", sid |-> NoSid, mine |-> FALSE]
Fetch == [call : Call, sid : Sid, stage : {"sent", "ok", "error", "denied"}]

LoginTypeOK ==
  /\ stored \in Sid \cup {NoSid}
  /\ idle \in 0 .. TTL
  /\ promise \in [Call -> {"idle", "pending", "resolved", "rejected"}]
  /\ fetches \subseteq Fetch
  /\ dialog \in Waiter \cup {Nobody}
  /\ submits \in [Submit -> [for : Waiter \cup {Nobody}, mine : BOOLEAN, sid : Sid \cup {NoSid},
                             stage : {"free", "asked", "granted", "refused"}]]
  /\ issued \subseteq Sid /\ DOMAIN sessions \subseteq issued
  /\ \A s \in DOMAIN sessions : sessions[s] \in -1 .. TTL
  /\ served \in [Call -> Nat] /\ unused \in [Sid -> 0 .. TTL + 1]
  /\ replaced \cup again \cup late \subseteq Call

\* DOMContentLoaded: no session, and a login dialog before the first page.
LoginInit ==
  /\ stored = NoSid /\ idle = TTL
  /\ promise = [c \in Call |-> "idle"] /\ fetches = {}
  /\ dialog = Start /\ submits = [s \in Submit |-> NoLogin]
  /\ sessions = [s \in {} |-> 0] /\ issued = {}
  /\ served = [c \in Call |-> 0] /\ replaced = {} /\ again = {} /\ late = {}
  /\ unused = [s \in Sid |-> 0]

-----------------------------------------------------------------------------
(* api, apiProtected *)

\* The dialogs of the login requests under way are off the screen now.
Detached == [s \in Submit |-> [submits[s] EXCEPT !.mine = FALSE]]

\* Any dialog on the screen is removed; its onCancel is not called.
showLoginModal(waiter, submits0) ==
  /\ dialog' = waiter
  /\ submits' = [s \in Submit |-> [submits0[s] EXCEPT !.mine = FALSE]]
  /\ replaced' = replaced \cup ({dialog} \cap (Call \ {waiter}))

Settle(c, outcome) ==
  promise' = [promise EXCEPT ![c] = IF @ = "pending" THEN outcome ELSE @]

apiProtected(c) ==
  /\ promise[c] = "idle"
  /\ promise' = [promise EXCEPT ![c] = "pending"]
  /\ IF stored # NoSid
     THEN /\ fetches' = fetches \cup {[call |-> c, sid |-> stored, stage |-> "sent"]}
          /\ UNCHANGED <<dialog, submits, replaced>>
     ELSE showLoginModal(c, submits) /\ UNCHANGED fetches
  /\ UNCHANGED <<stored, idle, serverVars, served, again, late, unused>>

\* A 401 forgets the stored session, whichever it is by now, and asks for a
\* login; other answers settle the promise if it is not settled yet.
Receive(f) ==
  /\ f.stage # "sent"
  /\ fetches' = fetches \ {f}
  /\ IF f.stage = "denied"
     THEN stored' = NoSid /\ showLoginModal(f.call, submits) /\ UNCHANGED promise
     ELSE /\ Settle(f.call, IF f.stage = "ok" THEN "resolved" ELSE "rejected")
          /\ UNCHANGED <<stored, dialog, submits, replaced>>
  /\ UNCHANGED <<idle, serverVars, served, again, late, unused>>

\* The connection fails, before or after the server has done its part.
Fail(f) ==
  /\ fetches' = fetches \ {f}
  /\ Settle(f.call, "rejected")
  /\ UNCHANGED <<stored, idle, dialog, submits, serverVars, historyVars>>

-----------------------------------------------------------------------------
(* The login dialog *)

\* Nothing keeps the button from being pressed again.  Of the names of requests
\* a free one is taken; which does not matter.
submit(s) ==
  /\ dialog # Nobody /\ submits[s] = NoLogin
  /\ s = CHOOSE t \in Submit : submits[t] = NoLogin
  /\ submits' = [submits EXCEPT ![s] =
                   [for |-> dialog, stage |-> "asked", sid |-> NoSid, mine |-> TRUE]]
  /\ again' = again \cup {c \in Call : \E t \in Submit : c = dialog /\ submits[t].for = c}
  /\ UNCHANGED <<stored, idle, promise, fetches, dialog, serverVars, served, replaced, late, unused>>

\* A login that went through stores its session, closes its own dialog and
\* repeats the call, whatever has become of the call meanwhile.
loginAnswered(s) ==
  LET login == submits[s]
  IN  /\ login.stage = "granted"
      /\ stored' = login.sid /\ idle' = TTL
      /\ dialog' = IF login.mine THEN Nobody ELSE dialog
      /\ submits' = [t \in Submit |->
                       IF t = s THEN NoLogin
                       ELSE [submits[t] EXCEPT !.mine = @ /\ ~login.mine]]
      /\ fetches' = fetches \cup {[call |-> c, sid |-> login.sid, stage |-> "sent"] :
                                    c \in {login.for} \cap Call}
      /\ UNCHANGED <<promise, serverVars, historyVars>>

\* A wrong password or a lost connection leaves the dialog as it is.
loginFailed(s) ==
  /\ submits[s].stage # "free"
  /\ submits' = [submits EXCEPT ![s] = NoLogin]
  /\ UNCHANGED <<stored, idle, promise, fetches, dialog, serverVars, historyVars>>

\* Variant for checking the properties: the caller is not told.
cancelSilently ==
  /\ dialog # Nobody
  /\ dialog' = Nobody /\ submits' = Detached
  /\ UNCHANGED <<stored, idle, promise, fetches, serverVars, historyVars>>

cancel ==
  /\ dialog # Nobody
  /\ dialog' = Nobody /\ submits' = Detached
  /\ IF dialog = Start THEN UNCHANGED <<promise, late>>
     ELSE /\ Settle(dialog, "rejected")
          /\ late' = late \cup {c \in {dialog} :
                \/ \E s \in Submit : submits[s].for = c
                \/ \E f \in fetches : f.call = c}
  /\ UNCHANGED <<stored, idle, fetches, serverVars, served, replaced, again, unused>>

-----------------------------------------------------------------------------
(* Time *)

reset ==
  /\ idle # TTL
  /\ idle' = TTL
  /\ UNCHANGED <<stored, promise, fetches, dialog, submits, serverVars, historyVars>>

\* A tick passes.  IdleTracker.expire forgets the session in the browser; the
\* server only lets its own copy grow old.
Tick ==
  /\ idle > 0 \/ \E s \in DOMAIN sessions : sessions[s] >= 0
  /\ idle' = IF idle = 0 THEN 0 ELSE idle - 1
  /\ stored' = IF idle = 1 THEN NoSid ELSE stored
  /\ sessions' = [s \in DOMAIN sessions |-> IF sessions[s] < 0 THEN -1 ELSE sessions[s] - 1]
  /\ unused' = [s \in Sid |-> IF s \notin issued \/ unused[s] > TTL THEN unused[s] ELSE unused[s] + 1]
  /\ UNCHANGED <<promise, fetches, dialog, submits, issued, served, replaced, again, late>>

-----------------------------------------------------------------------------
(* The server *)

Without(s) == [t \in DOMAIN sessions \ {s} |-> sessions[t]]

\* Variant for checking the properties: a session does not slide.
ValidateSessionFixed(sid) ==
  IF sid \in DOMAIN sessions /\ sessions[sid] >= 0
  THEN [valid |-> TRUE, sessions |-> sessions]
  ELSE [valid |-> FALSE, sessions |-> Without(sid)]

\* A valid session starts its life again; an expired one is removed.
ValidateSession(sid) ==
  IF sid \in DOMAIN sessions /\ sessions[sid] >= 0
  THEN [valid |-> TRUE, sessions |-> [sessions EXCEPT ![sid] = TTL]]
  ELSE [valid |-> FALSE, sessions |-> Without(sid)]

\* Behind it the handler succeeds or reports an error.
SessionMiddleware(f) ==
  LET check == ValidateSession(f.sid)
  IN  /\ f.stage = "sent"
      /\ sessions' = check.sessions
      /\ \E stage \in IF check.valid THEN {"ok", "error"} ELSE {"denied"} :
           fetches' = (fetches \ {f}) \cup {[f EXCEPT !.stage = stage]}
      /\ served' = [served EXCEPT ![f.call] = IF check.valid THEN @ + 1 ELSE @]
      /\ unused' = [unused EXCEPT ![f.sid] = IF check.valid THEN 0 ELSE @]
      /\ UNCHANGED <<stored, idle, promise, dialog, submits, issued, replaced, again, late>>

\* The right password creates a session, under any new id, and sweeps the
\* expired ones away.
GrantLogin(s) ==
  /\ submits[s].stage = "asked"
  /\ Sid # issued
  /\ LET sid == CHOOSE t \in Sid \ issued : TRUE IN
       /\ issued' = issued \cup {sid}
       /\ sessions' = [t \in {sid} \cup {u \in DOMAIN sessions : sessions[u] >= 0} |->
                         IF t = sid THEN TTL ELSE sessions[t]]
       /\ submits' = [submits EXCEPT ![s].stage = "granted", ![s].sid = sid]
  /\ UNCHANGED <<stored, idle, promise, fetches, dialog, historyVars>>

-----------------------------------------------------------------------------
Network == \E f \in fetches : Receive(f) \/ Fail(f) \/ SessionMiddleware(f)
Logins  == \E s \in Submit : GrantLogin(s) \/ loginAnswered(s) \/ loginFailed(s)

LoginNext ==
  \/ \E c \in Call : apiProtected(c)
  \/ \E s \in Submit : submit(s)
  \/ cancel \/ reset \/ Tick \/ Network \/ Logins

LoginSpec == LoginInit /\ [][LoginNext]_loginVars

-----------------------------------------------------------------------------
\* A call that is neither settled nor at work lost its dialog to another call:
\* it will never settle.
PendingExplained ==
  \A c \in Call : promise[c] = "pending" =>
    \/ dialog = c
    \/ \E f \in fetches : f.call = c
    \/ \E s \in Submit : submits[s].for = c
    \/ c \in replaced

\* The server carries out a call once.  A second time takes two login requests
\* from one dialog.
RunsOnce == \A c \in Call : served[c] > 1 => c \in again

\* A call that was turned down by its user is not carried out, unless a login
\* or a request of it was under way when it was.
CanceledNotRun ==
  [][\A c \in Call : served'[c] > served[c] /\ promise[c] # "pending"
       => c \in late \cup again]_loginVars

\* "Sessions ... expire after 15 minutes of inactivity": a session is refused
\* only if nothing used it for that long, however much time has passed.
RefusedUnused ==
  [][\A f \in fetches : f.stage = "sent"
       /\ [f EXCEPT !.stage = "denied"] \in fetches' \ fetches
       => unused[f.sid] > TTL]_loginVars

\* ... and let through only if something did, whoever else comes and goes.
AcceptedUsed ==
  [][\A f \in fetches, stage \in {"ok", "error"} : f.stage = "sent"
       /\ [f EXCEPT !.stage = stage] \in fetches' \ fetches
       => unused[f.sid] <= TTL]_loginVars

\* Whatever becomes of its dialog (app.js, showLoginModal), a call settles and
\* is carried out once, but for the two cases named above.
CallsExplained == PendingExplained /\ RunsOnce

\* What these rest on.  A login request belongs to the dialog on the screen or
\* to none, and a call whose dialog nobody took away is where it can be seen.
Fetching(c) == {f \in fetches : f.call = c}
LoggingIn(c) == {s \in Submit : submits[s].for = c}

RequestInv(s) ==
  /\ submits[s].for = Nobody <=> submits[s].stage = "free"
  /\ submits[s].mine => submits[s].for = dialog /\ dialog # Nobody

PendingInv(c) ==
  promise[c] = "pending" => dialog = c \/ Fetching(c) # {} \/ c \in replaced

\* On its way to the server no more.
NotOnItsWay(c) ==
  dialog # c /\ LoggingIn(c) = {} /\ \A f \in Fetching(c) : f.stage \in {"ok", "error"}

\* Unless its button was pressed twice, a call is in one place at a time: in
\* its dialog, with the request that was made from it, or in a request of its
\* own; and nowhere once it was served, but for the answer.
OnePlace(c) ==
  /\ \A f, g \in Fetching(c) : f = g
  /\ \A s, t \in LoggingIn(c) : s = t
  /\ Fetching(c) # {} => dialog # c /\ LoggingIn(c) = {}
  /\ dialog = c => \A s \in LoggingIn(c) : submits[s].mine
  /\ served[c] # 0 => served[c] = 1 /\ NotOnItsWay(c)

PlaceInv(c) ==
  /\ promise[c] = "idle" => dialog # c /\ LoggingIn(c) = {} /\ Fetching(c) = {} /\ served[c] = 0
  /\ c \notin again => OnePlace(c)
  /\ promise[c] # "pending" => c \in late \cup again \/ NotOnItsWay(c)

\* A session's age is what it has left, and the browser knows only ids that
\* the server gave out.
AgesInv ==
  /\ \A s \in DOMAIN sessions : sessions[s] = TTL - unused[s]
  /\ \A s \in issued \ DOMAIN sessions : unused[s] > TTL
  /\ \A s \in Sid \ issued : unused[s] = 0
  /\ stored \in issued \cup {NoSid} /\ \A f \in fetches : f.sid \in issued
  /\ \A s \in Submit : submits[s].stage = "granted" => submits[s].sid \in issued

LoginInductive ==
  /\ LoginTypeOK /\ AgesInv /\ \A s \in Submit : RequestInv(s)
  /\ \A c \in Call : PendingInv(c) /\ PlaceInv(c)

\* What the server does for a call (auth.go, SessionMiddleware), step by step.
LoginSteps == CanceledNotRun /\ RefusedUnused /\ AcceptedUsed
=============================================================================
