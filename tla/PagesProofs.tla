----------------------------- MODULE PagesProofs -----------------------------
(***************************************************************************)
(* The calls of the pages and the login they ask for, the lists of the     *)
(* pages with the dialogs over them, and the rates of the dashboard: for   *)
(* any number of calls, login requests, sessions, dialogs, requests and    *)
(* samples under way, and of databases.                                    *)
(***************************************************************************)
EXTENDS MCWebPages, FiniteSetTheorems, TLAPS

-----------------------------------------------------------------------------
(* Requests and sessions *)

LoginRequest == [for : Waiter \cup {Nobody}, mine : BOOLEAN, sid : Sid \cup {NoSid},
                 stage : {"free", "asked", "granted", "refused"}]

LEMMA LoginIs ==
  ASSUME LoginInductive
  PROVE  /\ LoginTypeOK /\ AgesInv /\ submits \in [Submit -> LoginRequest] /\ NoLogin \in LoginRequest
         /\ \A s \in Submit : RequestInv(s)
         /\ \A c \in Call : PendingInv(c) /\ PlaceInv(c)
         /\ \A f \in fetches : f.call \in Call /\ f.sid \in Sid
         /\ Nobody \notin Call /\ Nobody # Start /\ Start \notin Call /\ NoSid \notin Sid /\ TTL \in Nat
  BY LoginAssumption DEF LoginInductive, LoginTypeOK, LoginRequest, Waiter, NoLogin, Fetch

LEMMA LoginStart == LoginInit => LoginInductive
<1> SUFFICES ASSUME LoginInit
             PROVE  LoginInductive
  OBVIOUS
<1>1. \A s \in Submit : submits[s] = NoLogin
  BY DEF LoginInit
<1>2. /\ NoLogin.for = Nobody /\ NoLogin.stage = "free" /\ NoLogin.mine = FALSE
      /\ NoLogin \in [for : Waiter \cup {Nobody}, mine : BOOLEAN, sid : Sid \cup {NoSid},
                      stage : {"free", "asked", "granted", "refused"}]
  BY DEF NoLogin
<1>3. LoginTypeOK
  <2>1. submits \in [Submit -> [for : Waiter \cup {Nobody}, mine : BOOLEAN, sid : Sid \cup {NoSid},
                                stage : {"free", "asked", "granted", "refused"}]]
    BY <1>2 DEF LoginInit
  <2> QED
    BY <2>1, LoginAssumption DEF LoginInit, LoginTypeOK, Waiter
<1>4. AgesInv
  BY <1>1, <1>2, LoginAssumption DEF LoginInit, AgesInv
<1>5. \A s \in Submit : RequestInv(s)
  BY <1>1, <1>2 DEF RequestInv
<1>6. ASSUME NEW c \in Call
      PROVE  PendingInv(c) /\ PlaceInv(c)
  <2>1. promise[c] = "idle" /\ dialog # c /\ served[c] = 0
    BY LoginAssumption DEF LoginInit
  <2>2. LoggingIn(c) = {} /\ Fetching(c) = {}
    BY <1>1, <1>2, LoginAssumption DEF LoginInit, LoggingIn, Fetching
  <2> QED
    BY <2>1, <2>2 DEF PendingInv, PlaceInv, OnePlace, NotOnItsWay
<1> QED
  BY <1>3, <1>4, <1>5, <1>6 DEF LoginInductive

\* A dialog that leaves the screen takes its requests' hold on it along.
LEMMA DetachIs ==
  ASSUME NEW r \in LoginRequest, NEW b \in BOOLEAN
  PROVE  LET d == [r EXCEPT !.mine = b]
         IN  /\ d \in LoginRequest /\ d.mine = b
             /\ d.for = r.for /\ d.stage = r.stage /\ d.sid = r.sid
  BY DEF LoginRequest

\* Of a call that a step has nothing to do with.
LEMMA CallKept ==
  ASSUME NEW c \in Call, PendingInv(c), PlaceInv(c),
         promise'[c] = promise[c], served'[c] = served[c],
         late \subseteq late', again \subseteq again', replaced \subseteq replaced',
         dialog' = c => dialog = c /\ \A s \in LoggingIn(c) : submits'[s].mine = submits[s].mine,
         dialog = c => dialog' = c \/ c \in replaced' \/ promise[c] # "pending",
         \A f : f.call = c => (f \in fetches' <=> f \in fetches),
         \A s \in Submit : submits'[s].for = c <=> submits[s].for = c
  PROVE  PendingInv(c)' /\ PlaceInv(c)'
<1>1. Fetching(c)' = Fetching(c) /\ LoggingIn(c)' = LoggingIn(c)
  BY DEF Fetching, LoggingIn
<1>2. PendingInv(c)'
  BY <1>1 DEF PendingInv
<1>3. NotOnItsWay(c) => NotOnItsWay(c)'
  BY <1>1 DEF NotOnItsWay
<1>4. OnePlace(c) => OnePlace(c)'
  BY <1>1, <1>3 DEF OnePlace
<1>5. promise[c] = "idle" => dialog' # c /\ LoggingIn(c)' = {} /\ Fetching(c)' = {} /\ served'[c] = 0
  BY <1>1 DEF PlaceInv
<1>6. PlaceInv(c)'
  BY <1>3, <1>4, <1>5 DEF PlaceInv
<1> QED
  BY <1>2, <1>6

\* Of the sessions, a step of the browser alone.
LEMMA AgesKept ==
  ASSUME LoginInductive, UNCHANGED <<sessions, issued, unused>>,
         stored' \in issued \cup {NoSid},
         \A f \in fetches' : f.sid \in issued,
         \A s \in Submit : submits'[s].stage = "granted" => submits'[s].sid \in issued
  PROVE  AgesInv'
<1>1. AgesInv
  BY LoginIs
<1> QED
  BY <1>1 DEF AgesInv

\* The dialog is shown for another caller.
LEMMA ShownIs ==
  ASSUME LoginInductive, NEW w \in Waiter, showLoginModal(w, submits)
  PROVE  /\ submits' \in [Submit -> LoginRequest] /\ dialog' \in Waiter /\ dialog' = w
         /\ replaced' \subseteq Call
         /\ replaced \subseteq replaced'
         /\ \A c \in Call : dialog = c /\ c # w => c \in replaced'
         /\ \A s \in Submit : /\ submits'[s].for = submits[s].for /\ submits'[s].mine = FALSE
                              /\ submits'[s].stage = submits[s].stage /\ submits'[s].sid = submits[s].sid
         /\ \A s \in Submit : RequestInv(s)'
<1>1. submits \in [Submit -> LoginRequest] /\ \A s \in Submit : RequestInv(s)
  BY LoginIs
<1>2. submits' = [s \in Submit |-> [submits[s] EXCEPT !.mine = FALSE]] /\ dialog' = w
      /\ replaced' = replaced \cup ({dialog} \cap (Call \ {w}))
  BY DEF showLoginModal
<1>3. ASSUME NEW s \in Submit
      PROVE  /\ submits'[s] \in LoginRequest
             /\ submits'[s].for = submits[s].for /\ submits'[s].mine = FALSE
             /\ submits'[s].stage = submits[s].stage /\ submits'[s].sid = submits[s].sid
  BY <1>1, <1>2, DetachIs
<1>4. submits' \in [Submit -> LoginRequest]
  BY <1>2, <1>3
<1>5. \A s \in Submit : RequestInv(s)'
  BY <1>1, <1>3 DEF RequestInv
<1>6. replaced' \subseteq Call
  BY <1>2, LoginIs DEF LoginTypeOK
<1> QED
  BY <1>2, <1>3, <1>4, <1>5, <1>6

\* api: a call is made.
LEMMA MadeKeeps ==
  ASSUME LoginInductive, NEW c \in Call, apiProtected(c)
  PROVE  LoginInductive'
<1>1. /\ promise[c] = "idle" /\ promise' = [promise EXCEPT ![c] = "pending"]
      /\ UNCHANGED <<stored, idle, sessions, issued, served, again, late, unused>>
  BY DEF apiProtected, serverVars
<1>2. /\ LoginTypeOK /\ AgesInv /\ \A s \in Submit : RequestInv(s)
      /\ \A d \in Call : PendingInv(d) /\ PlaceInv(d)
  BY LoginIs
<1>3. promise' \in [Call -> {"idle", "pending", "resolved", "rejected"}] /\ promise'[c] = "pending"
      /\ \A d \in Call : d # c => promise'[d] = promise[d]
  BY <1>1, <1>2 DEF LoginTypeOK
<1>4. dialog # c /\ LoggingIn(c) = {} /\ Fetching(c) = {} /\ served[c] = 0
  BY <1>1, <1>2 DEF PlaceInv
<1>5. CASE stored # NoSid
  <2> DEFINE f == [call |-> c, sid |-> stored, stage |-> "sent"]
  <2>1. fetches' = fetches \cup {f} /\ UNCHANGED <<dialog, submits, replaced>>
    BY <1>5 DEF apiProtected
  <2>2. f \in Fetch /\ f.call = c /\ f.sid = stored /\ stored \in issued
    BY <1>2, <1>5 DEF LoginTypeOK, Fetch, AgesInv
  <2> HIDE DEF f
  <2>3. LoginTypeOK'
    BY <1>1, <1>2, <1>3, <2>1, <2>2 DEF LoginTypeOK
  <2>4. AgesInv'
    BY <1>1, <1>2, <2>1, <2>2 DEF AgesInv
  <2>5. \A s \in Submit : RequestInv(s)'
    BY <1>2, <2>1 DEF RequestInv
  <2>6. ASSUME NEW d \in Call, d # c
        PROVE  PendingInv(d)' /\ PlaceInv(d)'
    <3>1. \A g : g.call = d => (g \in fetches' <=> g \in fetches)
      BY <2>1, <2>2, <2>6
    <3> QED
      BY <1>1, <1>2, <1>3, <2>1, <2>6, <3>1, CallKept
  <2>7. Fetching(c)' = {f} /\ LoggingIn(c)' = {}
    BY <1>4, <2>1, <2>2 DEF Fetching, LoggingIn
  <2>8. PendingInv(c)' /\ PlaceInv(c)'
    BY <1>1, <1>3, <1>4, <2>1, <2>7 DEF PendingInv, PlaceInv, OnePlace
  <2> QED
    BY <2>3, <2>4, <2>5, <2>6, <2>8 DEF LoginInductive
<1>6. CASE stored = NoSid
  <2>1. showLoginModal(c, submits) /\ fetches' = fetches /\ c \in Waiter
    BY <1>6 DEF apiProtected, Waiter
  <2>2. /\ submits' \in [Submit -> LoginRequest] /\ dialog' \in Waiter /\ dialog' = c
        /\ replaced' \subseteq Call
        /\ replaced \subseteq replaced'
        /\ \A d \in Call : dialog = d /\ d # c => d \in replaced'
        /\ \A s \in Submit : /\ submits'[s].for = submits[s].for /\ submits'[s].mine = FALSE
                             /\ submits'[s].stage = submits[s].stage /\ submits'[s].sid = submits[s].sid
        /\ \A s \in Submit : RequestInv(s)'
    BY <2>1, ShownIs
  <2>3. LoginTypeOK'
    BY <1>1, <1>2, <1>3, <2>1, <2>2 DEF LoginTypeOK, LoginRequest
  <2>4. AgesInv'
    BY <1>1, <1>2, <2>1, <2>2 DEF AgesInv
  <2>6. ASSUME NEW d \in Call, d # c
        PROVE  PendingInv(d)' /\ PlaceInv(d)'
    BY <1>1, <1>2, <1>3, <2>1, <2>2, <2>6, CallKept
  <2>7. Fetching(c)' = {} /\ LoggingIn(c)' = {}
    BY <1>4, <2>1, <2>2 DEF Fetching, LoggingIn
  <2>8. PendingInv(c)' /\ PlaceInv(c)'
    BY <1>1, <1>3, <1>4, <2>2, <2>7 DEF PendingInv, PlaceInv, OnePlace
  <2> QED
    BY <2>2, <2>3, <2>4, <2>6, <2>8 DEF LoginInductive
<1> QED
  BY <1>5, <1>6

\* A request of a call ends with an answer to the caller or with none at all.
LEMMA EndedKeeps ==
  ASSUME LoginInductive, NEW f \in fetches, NEW o \in {"resolved", "rejected"},
         fetches' = fetches \ {f}, Settle(f.call, o), f.stage # "denied" \/ o = "rejected",
         UNCHANGED <<stored, idle, dialog, submits, serverVars, historyVars>>
  PROVE  LoginInductive'
<1> DEFINE c == f.call
<1>1. /\ promise' = [promise EXCEPT ![c] = IF @ = "pending" THEN o ELSE @]
      /\ UNCHANGED <<sessions, issued, served, replaced, again, late, unused>>
  BY DEF Settle, serverVars, historyVars
<1>2. /\ LoginTypeOK /\ AgesInv /\ \A s \in Submit : RequestInv(s)
      /\ \A d \in Call : PendingInv(d) /\ PlaceInv(d)
      /\ c \in Call
  BY LoginIs
<1>3. f \in Fetching(c)
  BY DEF Fetching
<1> HIDE DEF c
<1>4. /\ promise' \in [Call -> {"idle", "pending", "resolved", "rejected"}]
      /\ promise'[c] # "pending" /\ (promise[c] # "pending" => promise'[c] = promise[c])
      /\ promise[c] # "idle" /\ promise'[c] # "idle"
      /\ \A d \in Call : d # c => promise'[d] = promise[d]
  BY <1>1, <1>2, <1>3 DEF LoginTypeOK, PlaceInv
<1>5. LoginTypeOK'
  BY <1>1, <1>2, <1>4 DEF LoginTypeOK
<1>6. AgesInv'
  BY <1>1, <1>2 DEF AgesInv
<1>7. \A s \in Submit : RequestInv(s)'
  BY <1>2 DEF RequestInv
<1>8. ASSUME NEW d \in Call, d # c
      PROVE  PendingInv(d)' /\ PlaceInv(d)'
  <2>1. \A g : g.call = d => (g \in fetches' <=> g \in fetches)
    BY <1>8 DEF c
  <2> QED
    BY <1>1, <1>2, <1>4, <1>8, <2>1, CallKept
<1>9. Fetching(c)' = Fetching(c) \ {f} /\ LoggingIn(c)' = LoggingIn(c)
  BY DEF Fetching, LoggingIn
<1>10. NotOnItsWay(c) => NotOnItsWay(c)'
  BY <1>9 DEF NotOnItsWay
<1>11. OnePlace(c) => OnePlace(c)' /\ NotOnItsWay(c)'
  BY <1>1, <1>3, <1>9, <1>10 DEF OnePlace, NotOnItsWay
<1>12. PendingInv(c)' /\ PlaceInv(c)'
  BY <1>1, <1>2, <1>4, <1>10, <1>11 DEF PendingInv, PlaceInv
<1> QED
  BY <1>5, <1>6, <1>7, <1>8, <1>12 DEF LoginInductive

\* api: a 401 asks for a login.
LEMMA DeniedKeeps ==
  ASSUME LoginInductive, NEW f \in fetches, f.stage = "denied", Receive(f)
  PROVE  LoginInductive'
<1> DEFINE c == f.call
<1>1. /\ fetches' = fetches \ {f} /\ stored' = NoSid /\ showLoginModal(c, submits)
      /\ UNCHANGED <<promise, idle, sessions, issued, served, again, late, unused>>
  BY DEF Receive, serverVars
<1>2. /\ LoginTypeOK /\ AgesInv /\ \A s \in Submit : RequestInv(s)
      /\ \A d \in Call : PendingInv(d) /\ PlaceInv(d)
      /\ c \in Call /\ c \in Waiter
  BY LoginIs DEF Waiter
<1>3. f \in Fetching(c)
  BY DEF Fetching
<1>4. /\ submits' \in [Submit -> LoginRequest] /\ dialog' \in Waiter /\ dialog' = c
      /\ replaced' \subseteq Call
      /\ replaced \subseteq replaced'
      /\ \A d \in Call : dialog = d /\ d # c => d \in replaced'
      /\ \A s \in Submit : /\ submits'[s].for = submits[s].for /\ submits'[s].mine = FALSE
                           /\ submits'[s].stage = submits[s].stage /\ submits'[s].sid = submits[s].sid
      /\ \A s \in Submit : RequestInv(s)'
  BY <1>1, <1>2, ShownIs
<1>5. LoginTypeOK'
  BY <1>1, <1>2, <1>4 DEF LoginTypeOK, LoginRequest
<1>6. AgesInv'
  BY <1>1, <1>2, <1>4 DEF AgesInv
<1>7. ASSUME NEW d \in Call, d # c
      PROVE  PendingInv(d)' /\ PlaceInv(d)'
  <2>1. \A g : g.call = d => (g \in fetches' <=> g \in fetches)
    BY <1>1, <1>7
  <2> HIDE DEF c
  <2> QED
    BY <1>1, <1>2, <1>4, <1>7, <2>1, CallKept
<1> HIDE DEF c
<1>8. Fetching(c)' = Fetching(c) \ {f} /\ LoggingIn(c)' = LoggingIn(c)
  BY <1>1, <1>4 DEF Fetching, LoggingIn
<1>9. promise[c] # "idle" /\ ~ NotOnItsWay(c)
  BY <1>2, <1>3 DEF PlaceInv, NotOnItsWay
<1>10. OnePlace(c) => OnePlace(c)'
  <2> SUFFICES ASSUME OnePlace(c)
               PROVE  OnePlace(c)'
    OBVIOUS
  <2>1. Fetching(c)' = {} /\ LoggingIn(c)' = {}
    BY <1>3, <1>8 DEF OnePlace
  <2>2. served'[c] = 0
    BY <1>1, <1>9 DEF OnePlace
  <2> QED
    BY <2>1, <2>2 DEF OnePlace
<1>11. PendingInv(c)' /\ PlaceInv(c)'
  BY <1>1, <1>2, <1>4, <1>9, <1>10 DEF PendingInv, PlaceInv
<1> QED
  BY <1>4, <1>5, <1>6, <1>7, <1>11 DEF LoginInductive

\* The button of the dialog is pressed.
LEMMA SubmitKeeps ==
  ASSUME LoginInductive, NEW s \in Submit, submit(s)
  PROVE  LoginInductive'
<1> DEFINE r == [for |-> dialog, stage |-> "asked", sid |-> NoSid, mine |-> TRUE]
<1>1. /\ dialog # Nobody /\ submits[s] = NoLogin
      /\ submits' = [submits EXCEPT ![s] = r]
      /\ again' = again \cup {c \in Call : \E t \in Submit : c = dialog /\ submits[t].for = c}
      /\ UNCHANGED <<stored, idle, promise, fetches, dialog, sessions, issued, served, replaced, late, unused>>
  BY DEF submit, serverVars
<1>2. /\ LoginTypeOK /\ AgesInv /\ \A t \in Submit : RequestInv(t)
      /\ \A d \in Call : PendingInv(d) /\ PlaceInv(d)
      /\ submits \in [Submit -> LoginRequest] /\ Nobody \notin Call
  BY LoginIs
<1>3. /\ r \in LoginRequest /\ r.for = dialog /\ r.stage = "asked" /\ r.sid = NoSid /\ r.mine = TRUE
      /\ submits[s].for = Nobody
  BY <1>1, <1>2 DEF LoginRequest, LoginTypeOK, NoLogin
<1> HIDE DEF r
<1>4. /\ submits' \in [Submit -> LoginRequest] /\ submits'[s] = r
      /\ \A t \in Submit : t # s => submits'[t] = submits[t]
  BY <1>1, <1>2, <1>3
<1>5. LoginTypeOK'
  BY <1>1, <1>2, <1>4 DEF LoginTypeOK, LoginRequest
<1>6. AgesInv'
  BY <1>1, <1>2, <1>3, <1>4 DEF AgesInv
<1>7. \A t \in Submit : RequestInv(t)'
  BY <1>1, <1>2, <1>3, <1>4 DEF RequestInv
<1>8. ASSUME NEW d \in Call, d # dialog
      PROVE  PendingInv(d)' /\ PlaceInv(d)'
  <2>1. \A t \in Submit : submits'[t].for = d <=> submits[t].for = d
    BY <1>2, <1>3, <1>4, <1>8
  <2> QED
    BY <1>1, <1>2, <1>8, <2>1, CallKept
<1>9. ASSUME NEW c \in Call, c = dialog
      PROVE  PendingInv(c)' /\ PlaceInv(c)'
  <2>1. Fetching(c)' = Fetching(c) /\ LoggingIn(c)' = LoggingIn(c) \cup {s}
    BY <1>1, <1>3, <1>4, <1>9 DEF Fetching, LoggingIn
  <2>2. promise[c] # "idle" /\ ~ NotOnItsWay(c)
    BY <1>2, <1>9 DEF PlaceInv, NotOnItsWay
  <2>3. ASSUME c \notin again'
        PROVE  OnePlace(c)'
    <3>1. LoggingIn(c) = {} /\ OnePlace(c)
      BY <1>1, <1>2, <1>9, <2>3 DEF LoggingIn, PlaceInv
    <3>2. LoggingIn(c)' = {s} /\ submits'[s].mine
      BY <1>3, <1>4, <2>1, <3>1
    <3>3. Fetching(c) = {} /\ served[c] = 0
      BY <1>9, <2>2, <3>1 DEF OnePlace
    <3> QED
      BY <1>1, <2>1, <3>2, <3>3 DEF OnePlace
  <2> QED
    BY <1>1, <1>2, <2>1, <2>2, <2>3 DEF PendingInv, PlaceInv
<1> QED
  BY <1>5, <1>6, <1>7, <1>8, <1>9 DEF LoginInductive

\* A login that failed leaves the dialog and the call where they are.
LEMMA LoginFailedKeeps ==
  ASSUME LoginInductive, NEW s \in Submit, loginFailed(s)
  PROVE  LoginInductive'
<1>1. /\ submits' = [submits EXCEPT ![s] = NoLogin]
      /\ UNCHANGED <<stored, idle, promise, fetches, dialog, sessions, issued, served, replaced, again, late, unused>>
  BY DEF loginFailed, serverVars, historyVars
<1>2. /\ LoginTypeOK /\ AgesInv /\ \A t \in Submit : RequestInv(t)
      /\ \A d \in Call : PendingInv(d) /\ PlaceInv(d)
      /\ submits \in [Submit -> LoginRequest] /\ Nobody \notin Call /\ NoLogin \in LoginRequest
  BY LoginIs
<1>3. NoLogin.for = Nobody /\ NoLogin.stage = "free" /\ NoLogin.mine = FALSE
  BY DEF NoLogin
<1>4. /\ submits' \in [Submit -> LoginRequest] /\ submits'[s] = NoLogin
      /\ \A t \in Submit : t # s => submits'[t] = submits[t]
  BY <1>1, <1>2
<1>5. LoginTypeOK'
  BY <1>1, <1>2, <1>4 DEF LoginTypeOK, LoginRequest
<1>6. AgesInv'
  BY <1>1, <1>2, <1>3, <1>4 DEF AgesInv
<1>7. \A t \in Submit : RequestInv(t)'
  BY <1>1, <1>2, <1>3, <1>4 DEF RequestInv
<1>8. ASSUME NEW c \in Call
      PROVE  PendingInv(c)' /\ PlaceInv(c)'
  <2>1. Fetching(c)' = Fetching(c) /\ LoggingIn(c)' = LoggingIn(c) \ {s}
    BY <1>1, <1>2, <1>3, <1>4 DEF Fetching, LoggingIn
  <2>2. NotOnItsWay(c) => NotOnItsWay(c)'
    BY <1>1, <2>1 DEF NotOnItsWay
  <2>3. \A t \in LoggingIn(c)' : submits'[t] = submits[t]
    BY <1>4, <2>1 DEF LoggingIn
  <2>4. OnePlace(c) => OnePlace(c)'
    BY <1>1, <2>1, <2>2, <2>3 DEF OnePlace
  <2>5. PendingInv(c) /\ PlaceInv(c)
    BY <1>2
  <2> QED
    BY <1>1, <2>1, <2>2, <2>4, <2>5 DEF PendingInv, PlaceInv
<1> QED
  BY <1>5, <1>6, <1>7, <1>8 DEF LoginInductive

\* The dialog is closed by its user.
LEMMA CancelKeeps ==
  ASSUME LoginInductive, cancel
  PROVE  LoginInductive'
<1>1. /\ dialog # Nobody /\ dialog' = Nobody /\ submits' = Detached
      /\ UNCHANGED <<stored, idle, fetches, sessions, issued, served, replaced, again, unused>>
  BY DEF cancel, serverVars
<1>2. /\ LoginTypeOK /\ AgesInv /\ \A t \in Submit : RequestInv(t)
      /\ \A d \in Call : PendingInv(d) /\ PlaceInv(d)
      /\ submits \in [Submit -> LoginRequest] /\ Nobody \notin Call /\ Nobody # Start /\ Start \notin Call
  BY LoginIs
<1>3. ASSUME NEW s \in Submit
      PROVE  /\ submits'[s] \in LoginRequest
             /\ submits'[s].for = submits[s].for /\ submits'[s].mine = FALSE
             /\ submits'[s].stage = submits[s].stage /\ submits'[s].sid = submits[s].sid
  BY <1>1, <1>2, DetachIs DEF Detached
<1>4. submits' \in [Submit -> LoginRequest]
  BY <1>1, <1>3 DEF Detached
<1>5. \A s \in Submit : RequestInv(s)'
  BY <1>2, <1>3 DEF RequestInv
<1>6. AgesInv'
  BY <1>1, <1>2, <1>3 DEF AgesInv
<1>7. CASE dialog = Start
  <2>1. UNCHANGED <<promise, late>>
    BY <1>7 DEF cancel
  <2>2. LoginTypeOK'
    BY <1>1, <1>2, <1>4, <2>1 DEF LoginTypeOK, LoginRequest
  <2>3. \A d \in Call : PendingInv(d)' /\ PlaceInv(d)'
    BY <1>1, <1>2, <1>3, <1>7, <2>1, CallKept
  <2> QED
    BY <1>5, <1>6, <2>2, <2>3 DEF LoginInductive
<1>8. CASE dialog # Start
  <2>1. PICK c \in Call : c = dialog
    BY <1>1, <1>2, <1>8 DEF LoginTypeOK, Waiter
  <2>2. /\ promise' = [promise EXCEPT ![c] = IF @ = "pending" THEN "rejected" ELSE @]
        /\ late' = late \cup {d \in {c} :
                \/ \E s \in Submit : submits[s].for = d
                \/ \E f \in fetches : f.call = d}
    BY <1>8, <2>1 DEF cancel, Settle
  <2>3. promise[c] # "idle"
    BY <1>2, <2>1 DEF PlaceInv
  <2>4. /\ promise' \in [Call -> {"idle", "pending", "resolved", "rejected"}]
        /\ promise'[c] # "pending" /\ promise'[c] # "idle"
        /\ \A d \in Call : d # c => promise'[d] = promise[d]
    BY <1>2, <2>2, <2>3 DEF LoginTypeOK
  <2>5. late' \subseteq Call /\ late \subseteq late'
    BY <1>2, <2>2 DEF LoginTypeOK
  <2>6. LoginTypeOK'
    BY <1>1, <1>2, <1>4, <2>4, <2>5 DEF LoginTypeOK, LoginRequest
  <2>7. ASSUME NEW d \in Call, d # c
        PROVE  PendingInv(d)' /\ PlaceInv(d)'
    BY <1>1, <1>2, <1>3, <2>1, <2>4, <2>5, <2>7, CallKept
  <2>8. Fetching(c)' = Fetching(c) /\ LoggingIn(c)' = LoggingIn(c)
    BY <1>1, <1>3 DEF Fetching, LoggingIn
  <2>9. c \in late' \/ NotOnItsWay(c)'
    BY <1>1, <1>2, <2>1, <2>2, <2>8 DEF Fetching, LoggingIn, NotOnItsWay
  <2>10. OnePlace(c) => OnePlace(c)'
    BY <1>1, <1>2, <2>1, <2>8 DEF OnePlace, NotOnItsWay
  <2>11. PendingInv(c)' /\ PlaceInv(c)'
    BY <1>1, <1>2, <2>4, <2>9, <2>10 DEF PendingInv, PlaceInv
  <2> QED
    BY <1>5, <1>6, <2>6, <2>7, <2>11 DEF LoginInductive
<1> QED
  BY <1>7, <1>8

\* A login went through: its call is repeated.
LEMMA LoginAnsweredKeeps ==
  ASSUME LoginInductive, NEW s \in Submit, loginAnswered(s)
  PROVE  LoginInductive'
<1> DEFINE r == submits[s]
           new == {[call |-> c, sid |-> r.sid, stage |-> "sent"] : c \in {r.for} \cap Call}
<1>1. /\ r.stage = "granted" /\ stored' = r.sid /\ idle' = TTL
      /\ dialog' = IF r.mine THEN Nobody ELSE dialog
      /\ submits' = [t \in Submit |-> IF t = s THEN NoLogin
                                      ELSE [submits[t] EXCEPT !.mine = @ /\ ~r.mine]]
      /\ fetches' = fetches \cup new
      /\ UNCHANGED <<promise, sessions, issued, served, replaced, again, late, unused>>
  BY DEF loginAnswered, serverVars, historyVars
<1>2. /\ LoginTypeOK /\ AgesInv /\ \A t \in Submit : RequestInv(t)
      /\ \A d \in Call : PendingInv(d) /\ PlaceInv(d)
      /\ submits \in [Submit -> LoginRequest] /\ Nobody \notin Call /\ NoLogin \in LoginRequest
      /\ TTL \in Nat /\ Nobody # Start
  BY LoginIs
<1>3. /\ r \in LoginRequest /\ r.mine \in BOOLEAN /\ r.sid \in issued /\ r.sid \in Sid /\ r.for # Nobody
      /\ r.mine => r.for = dialog
  BY <1>1, <1>2 DEF LoginRequest, AgesInv, LoginTypeOK, RequestInv
<1>4. NoLogin.for = Nobody /\ NoLogin.stage = "free" /\ NoLogin.mine = FALSE
  BY DEF NoLogin
<1>5. \A f \in new : f \in Fetch /\ f.call = r.for /\ f.sid = r.sid /\ f.stage = "sent"
  BY <1>3 DEF Fetch
<1>6. \A f, g \in new : f = g
  OBVIOUS
<1>7. r.for \in Call => new # {}
  OBVIOUS
<1>8. ASSUME NEW t \in Submit, t # s
      PROVE  /\ submits'[t] \in LoginRequest
             /\ submits'[t].for = submits[t].for
             /\ submits'[t].stage = submits[t].stage /\ submits'[t].sid = submits[t].sid
             /\ r.mine = FALSE => submits'[t].mine = submits[t].mine
             /\ submits'[t].mine => submits[t].mine /\ r.mine = FALSE
  <2> DEFINE b == submits[t].mine /\ ~r.mine
  <2>1. submits[t] \in LoginRequest /\ submits[t].mine \in BOOLEAN
    BY <1>2 DEF LoginRequest
  <2>2. b \in BOOLEAN
    BY Zenon
  <2>3. submits'[t] = [submits[t] EXCEPT !.mine = b]
    BY <1>1, <1>8, Zenon
  <2>4. /\ r.mine = FALSE => b = submits[t].mine
        /\ b => submits[t].mine /\ r.mine = FALSE
    BY <1>3, <2>1, Zenon
  <2> HIDE DEF b
  <2> QED
    BY <2>1, <2>2, <2>3, <2>4, DetachIs
<1>9. submits'[s] = NoLogin
  BY <1>1
<1> HIDE DEF new, r
<1>10. submits' \in [Submit -> LoginRequest]
  <2>1. \A t \in Submit : submits'[t] \in LoginRequest
    BY <1>2, <1>8, <1>9
  <2> QED
    BY <1>1, <2>1
<1>11. LoginTypeOK'
  BY <1>1, <1>2, <1>3, <1>5, <1>10 DEF LoginTypeOK, LoginRequest
<1>12. AgesInv'
  BY <1>1, <1>2, <1>3, <1>4, <1>5, <1>8, <1>9 DEF AgesInv
<1>13. ASSUME NEW t \in Submit
       PROVE  RequestInv(t)'
  <2>1. CASE t = s
    BY <1>4, <1>9, <2>1 DEF RequestInv
  <2>2. CASE t # s
    <3>1. submits[t].for = Nobody <=> submits[t].stage = "free"
      BY <1>2 DEF RequestInv
    <3>2. submits[t].mine => submits[t].for = dialog /\ dialog # Nobody
      BY <1>2 DEF RequestInv
    <3>3. r.mine = FALSE => dialog' = dialog
      BY <1>1
    <3>4. /\ submits'[t].for = submits[t].for /\ submits'[t].stage = submits[t].stage
          /\ submits'[t].mine => submits[t].mine /\ r.mine = FALSE
      BY <1>8, <2>2
    <3> QED
      BY <3>1, <3>2, <3>3, <3>4 DEF RequestInv
  <2> QED
    BY <2>1, <2>2
<1>14. ASSUME NEW d \in Call, d # r.for
       PROVE  PendingInv(d)' /\ PlaceInv(d)'
  <2>1. \A f : f.call = d => (f \in fetches' <=> f \in fetches)
    BY <1>1, <1>5, <1>14
  <2>2. \A t \in Submit : submits'[t].for = d <=> submits[t].for = d
    BY <1>2, <1>4, <1>8, <1>9, <1>14 DEF r
  <2>3. dialog = d => dialog' = d
    BY <1>1, <1>3, <1>14
  <2>4. dialog' = d => dialog = d /\ r.mine = FALSE
    BY <1>1, <1>2, <1>3
  <2>5. dialog' = d => dialog = d /\ \A t \in LoggingIn(d) : submits'[t].mine = submits[t].mine
    BY <1>8, <1>14, <2>4 DEF LoggingIn, r
  <2> QED
    BY <1>1, <1>2, <2>1, <2>2, <2>3, <2>5, CallKept
<1>15. ASSUME NEW c \in Call, c = r.for
       PROVE  PendingInv(c)' /\ PlaceInv(c)'
  <2>1. /\ Fetching(c)' = Fetching(c) \cup new /\ new # {}
        /\ LoggingIn(c)' = LoggingIn(c) \ {s} /\ s \in LoggingIn(c)
    <3>1. Fetching(c)' = Fetching(c) \cup new
      BY <1>1, <1>5, <1>15 DEF Fetching
    <3>2. LoggingIn(c)' = LoggingIn(c) \ {s}
      BY <1>2, <1>4, <1>8, <1>9 DEF LoggingIn
    <3>3. s \in LoggingIn(c)
      BY <1>15 DEF LoggingIn, r
    <3> QED
      BY <1>7, <1>15, <3>1, <3>2, <3>3
  <2>2. promise[c] # "idle" /\ ~ NotOnItsWay(c)
    BY <1>2, <2>1 DEF PlaceInv, NotOnItsWay
  <2>3. OnePlace(c) => OnePlace(c)'
    <3> SUFFICES ASSUME OnePlace(c)
                 PROVE  OnePlace(c)'
      OBVIOUS
    <3>1. LoggingIn(c)' = {} /\ Fetching(c)' = new
      BY <2>1 DEF OnePlace
    <3>2. served'[c] = 0
      BY <1>1, <2>2 DEF OnePlace
    <3>3. dialog = c => r.mine
      BY <2>1 DEF OnePlace, r
    <3>4. dialog' # c
      BY <1>1, <1>2, <3>3
    <3> QED
      BY <1>6, <3>1, <3>2, <3>4 DEF OnePlace
  <2> QED
    BY <1>1, <1>2, <2>1, <2>2, <2>3 DEF PendingInv, PlaceInv
<1> QED
  BY <1>11, <1>12, <1>13, <1>14, <1>15 DEF LoginInductive

\* Time passes.
LEMMA TickKeeps ==
  ASSUME LoginInductive, Tick
  PROVE  LoginInductive'
<1>1. /\ idle' = IF idle = 0 THEN 0 ELSE idle - 1
      /\ stored' = IF idle = 1 THEN NoSid ELSE stored
      /\ sessions' = [s \in DOMAIN sessions |-> IF sessions[s] < 0 THEN -1 ELSE sessions[s] - 1]
      /\ unused' = [s \in Sid |-> IF s \notin issued \/ unused[s] > TTL THEN unused[s] ELSE unused[s] + 1]
      /\ UNCHANGED <<promise, fetches, dialog, submits, issued, served, replaced, again, late>>
  BY DEF Tick
<1>2. /\ LoginTypeOK /\ AgesInv /\ \A t \in Submit : RequestInv(t)
      /\ \A d \in Call : PendingInv(d) /\ PlaceInv(d)
      /\ TTL \in Nat
  BY LoginIs
<1>3. /\ unused \in [Sid -> 0 .. TTL + 1] /\ idle \in 0 .. TTL
      /\ DOMAIN sessions \subseteq issued /\ issued \subseteq Sid
      /\ \A s \in DOMAIN sessions : sessions[s] \in -1 .. TTL /\ sessions[s] = TTL - unused[s]
  BY <1>2 DEF LoginTypeOK, AgesInv
<1>4. idle' \in 0 .. TTL /\ unused' \in [Sid -> 0 .. TTL + 1] /\ DOMAIN sessions' = DOMAIN sessions
  BY <1>1, <1>2, <1>3
<1>5. ASSUME NEW s \in DOMAIN sessions
      PROVE  sessions'[s] \in -1 .. TTL /\ sessions'[s] = TTL - unused'[s]
  BY <1>1, <1>2, <1>3
<1>6. LoginTypeOK'
  <2>1. stored' \in Sid \cup {NoSid}
    BY <1>1, <1>2 DEF LoginTypeOK
  <2> QED
    BY <1>1, <1>2, <1>3, <1>4, <1>5, <2>1 DEF LoginTypeOK
<1>7. AgesInv'
  <2>1. \A s \in issued \ DOMAIN sessions : unused'[s] > TTL
    BY <1>1, <1>2, <1>3 DEF AgesInv
  <2>2. \A s \in Sid \ issued : unused'[s] = 0
    BY <1>1, <1>2 DEF AgesInv
  <2>3. stored' \in issued \cup {NoSid}
    BY <1>1, <1>2 DEF AgesInv
  <2> QED
    BY <1>1, <1>2, <1>4, <1>5, <2>1, <2>2, <2>3 DEF AgesInv
<1>8. \A s \in Submit : RequestInv(s)'
  BY <1>1, <1>2 DEF RequestInv
<1>9. \A c \in Call : PendingInv(c)' /\ PlaceInv(c)'
  BY <1>1, <1>2, CallKept
<1> QED
  BY <1>6, <1>7, <1>8, <1>9 DEF LoginInductive

\* The right password.
LEMMA GrantKeeps ==
  ASSUME LoginInductive, NEW s \in Submit, GrantLogin(s)
  PROVE  LoginInductive'
<1> DEFINE sid == CHOOSE t \in Sid \ issued : TRUE
<1>1. /\ submits[s].stage = "asked" /\ Sid # issued
      /\ issued' = issued \cup {sid}
      /\ sessions' = [t \in {sid} \cup {u \in DOMAIN sessions : sessions[u] >= 0} |->
                        IF t = sid THEN TTL ELSE sessions[t]]
      /\ submits' = [submits EXCEPT ![s].stage = "granted", ![s].sid = sid]
      /\ UNCHANGED <<stored, idle, promise, fetches, dialog, served, replaced, again, late, unused>>
  BY DEF GrantLogin, historyVars
<1>2. /\ LoginTypeOK /\ AgesInv /\ \A t \in Submit : RequestInv(t)
      /\ \A d \in Call : PendingInv(d) /\ PlaceInv(d)
      /\ submits \in [Submit -> LoginRequest] /\ TTL \in Nat
  BY LoginIs
<1>3. sid \in Sid \ issued
  BY <1>1, <1>2 DEF LoginTypeOK
<1> HIDE DEF sid
<1>4. /\ submits' \in [Submit -> LoginRequest]
      /\ submits'[s].for = submits[s].for /\ submits'[s].mine = submits[s].mine
      /\ submits'[s].stage = "granted" /\ submits'[s].sid = sid
      /\ \A t \in Submit : t # s => submits'[t] = submits[t]
  BY <1>1, <1>2, <1>3 DEF LoginRequest
<1>5. /\ unused \in [Sid -> 0 .. TTL + 1]
      /\ DOMAIN sessions \subseteq issued /\ issued \subseteq Sid
      /\ \A t \in DOMAIN sessions : sessions[t] \in -1 .. TTL /\ sessions[t] = TTL - unused[t]
      /\ unused[sid] = 0
  BY <1>2, <1>3 DEF LoginTypeOK, AgesInv
<1>6. /\ issued' \subseteq Sid /\ DOMAIN sessions' \subseteq issued'
      /\ \A t \in DOMAIN sessions' : sessions'[t] \in -1 .. TTL /\ sessions'[t] = TTL - unused[t]
  BY <1>1, <1>2, <1>3, <1>5
<1>7. LoginTypeOK'
  BY <1>1, <1>2, <1>4, <1>6 DEF LoginTypeOK, LoginRequest
<1>8. ASSUME NEW t \in issued' \ DOMAIN sessions'
      PROVE  unused[t] > TTL
  <2>1. t \in issued /\ (t \in DOMAIN sessions => sessions[t] = -1)
    BY <1>1, <1>5
  <2> QED
    BY <1>2, <1>5, <2>1 DEF AgesInv
<1>9. AgesInv'
  BY <1>1, <1>2, <1>4, <1>6, <1>8 DEF AgesInv
<1>10. \A t \in Submit : RequestInv(t)'
  BY <1>1, <1>2, <1>4 DEF RequestInv
<1>11. \A t \in Submit : submits'[t].for = submits[t].for /\ submits'[t].mine = submits[t].mine
  BY <1>4
<1>12. \A c \in Call : PendingInv(c)' /\ PlaceInv(c)'
  BY <1>1, <1>2, <1>11, CallKept DEF LoggingIn
<1> QED
  BY <1>7, <1>9, <1>10, <1>12 DEF LoginInductive

\* What the check of a session finds, and leaves of the sessions.
LEMMA CheckIs ==
  ASSUME LoginInductive, NEW sid \in issued
  PROVE  LET check == ValidateSession(sid)
             valid == sid \in DOMAIN sessions /\ sessions[sid] >= 0
         IN  /\ valid => /\ check.valid = TRUE /\ check.sessions = [sessions EXCEPT ![sid] = TTL]
                          /\ unused[sid] <= TTL
             /\ ~valid => check.valid = FALSE /\ check.sessions = Without(sid) /\ unused[sid] > TTL
<1>1. /\ LoginTypeOK /\ AgesInv /\ TTL \in Nat
  BY LoginIs
<1> DEFINE valid == sid \in DOMAIN sessions /\ sessions[sid] >= 0
<1>2. ValidateSession(sid) = IF valid THEN [valid |-> TRUE, sessions |-> [sessions EXCEPT ![sid] = TTL]]
                             ELSE [valid |-> FALSE, sessions |-> Without(sid)]
  BY DEF ValidateSession
<1>3. ASSUME ~valid
      PROVE  unused[sid] > TTL
  <2>1. CASE sid \notin DOMAIN sessions
    BY <1>1, <2>1 DEF AgesInv
  <2>2. CASE sid \in DOMAIN sessions
    <3>1. sessions[sid] \in -1 .. TTL /\ sessions[sid] = TTL - unused[sid] /\ unused[sid] \in 0 .. TTL + 1
      BY <1>1, <2>2 DEF AgesInv, LoginTypeOK
    <3> QED
      BY <1>1, <1>3, <2>2, <3>1
  <2> QED
    BY <2>1, <2>2
<1>4. ASSUME valid
      PROVE  unused[sid] <= TTL
  <2>1. sessions[sid] \in -1 .. TTL /\ sessions[sid] = TTL - unused[sid] /\ unused[sid] \in 0 .. TTL + 1
    BY <1>1, <1>4 DEF AgesInv, LoginTypeOK
  <2> QED
    BY <1>1, <1>4, <2>1
<1> QED
  BY <1>2, <1>3, <1>4

\* A request is let through or turned away.
LEMMA CheckedKeeps ==
  ASSUME LoginInductive, NEW f \in fetches, SessionMiddleware(f)
  PROVE  LoginInductive'
<1> DEFINE c == f.call
           valid == f.sid \in DOMAIN sessions /\ sessions[f.sid] >= 0
<1>1. /\ LoginTypeOK /\ AgesInv /\ \A s \in Submit : RequestInv(s)
      /\ \A d \in Call : PendingInv(d) /\ PlaceInv(d)
      /\ c \in Call /\ f.sid \in Sid /\ f.sid \in issued /\ TTL \in Nat
  BY LoginIs DEF AgesInv
<1>2. /\ valid => ValidateSession(f.sid).valid = TRUE
                  /\ ValidateSession(f.sid).sessions = [sessions EXCEPT ![f.sid] = TTL]
      /\ ~valid => ValidateSession(f.sid).valid = FALSE
                  /\ ValidateSession(f.sid).sessions = Without(f.sid) /\ unused[f.sid] > TTL
  BY <1>1, CheckIs
<1>3. /\ f.stage = "sent" /\ sessions' = ValidateSession(f.sid).sessions
      /\ served' = [served EXCEPT ![c] = IF valid THEN @ + 1 ELSE @]
      /\ unused' = [unused EXCEPT ![f.sid] = IF valid THEN 0 ELSE @]
      /\ UNCHANGED <<stored, idle, promise, dialog, submits, issued, replaced, again, late>>
  BY <1>2 DEF SessionMiddleware
<1>4. PICK stage \in IF valid THEN {"ok", "error"} ELSE {"denied"} :
           fetches' = (fetches \ {f}) \cup {[f EXCEPT !.stage = stage]}
  BY <1>2 DEF SessionMiddleware
<1> DEFINE g == [f EXCEPT !.stage = stage]
<1>5. /\ g \in Fetch /\ g.call = c /\ g.sid = f.sid /\ g.stage = stage
      /\ fetches' = (fetches \ {f}) \cup {g}
  BY <1>1, <1>4 DEF LoginTypeOK, Fetch
<1>6. f \in Fetching(c)
  BY DEF Fetching
<1>7. /\ unused \in [Sid -> 0 .. TTL + 1] /\ served \in [Call -> Nat]
      /\ DOMAIN sessions \subseteq issued /\ issued \subseteq Sid
      /\ \A t \in DOMAIN sessions : sessions[t] \in -1 .. TTL /\ sessions[t] = TTL - unused[t]
  BY <1>1 DEF LoginTypeOK, AgesInv
<1> HIDE DEF g, c
<1>8. LoginTypeOK' /\ AgesInv'
  <2>1. CASE valid
    <3>1. /\ sessions' = [sessions EXCEPT ![f.sid] = TTL] /\ unused' = [unused EXCEPT ![f.sid] = 0]
          /\ served' = [served EXCEPT ![c] = served[c] + 1]
      BY <1>2, <1>3, <2>1
    <3>2. DOMAIN sessions' = DOMAIN sessions /\ unused' \in [Sid -> 0 .. TTL + 1] /\ served' \in [Call -> Nat]
          /\ \A t \in DOMAIN sessions : sessions'[t] \in -1 .. TTL /\ sessions'[t] = TTL - unused'[t]
      BY <1>1, <1>7, <3>1
    <3>3. LoginTypeOK'
      BY <1>1, <1>3, <1>5, <3>2 DEF LoginTypeOK
    <3>4. \A t \in Sid : t # f.sid => unused'[t] = unused[t]
      BY <1>7, <3>1
    <3>5. \A t \in issued \ DOMAIN sessions : unused'[t] > TTL
      BY <1>1, <1>7, <2>1, <3>4 DEF AgesInv
    <3>6. \A t \in Sid \ issued : unused'[t] = 0
      BY <1>1, <3>4 DEF AgesInv
    <3>7. AgesInv'
      BY <1>1, <1>3, <1>5, <3>2, <3>5, <3>6 DEF AgesInv
    <3> QED
      BY <3>3, <3>7
  <2>2. CASE ~valid
    <3>1. sessions' = Without(f.sid) /\ unused' = unused /\ served' = served /\ unused[f.sid] > TTL
      BY <1>2, <1>3, <1>7, <2>2
    <3>2. /\ DOMAIN sessions' = DOMAIN sessions \ {f.sid}
          /\ \A t \in DOMAIN sessions' : sessions'[t] = sessions[t]
      BY <3>1 DEF Without
    <3>3. LoginTypeOK'
      BY <1>1, <1>3, <1>5, <1>7, <3>1, <3>2 DEF LoginTypeOK
    <3>4. AgesInv'
      BY <1>1, <1>3, <1>5, <3>1, <3>2 DEF AgesInv
    <3> QED
      BY <3>3, <3>4
  <2> QED
    BY <2>1, <2>2
<1>9. \A s \in Submit : RequestInv(s)'
  BY <1>1, <1>3 DEF RequestInv
<1>10. ASSUME NEW d \in Call, d # c
       PROVE  PendingInv(d)' /\ PlaceInv(d)'
  <2>1. \A h : h.call = d => (h \in fetches' <=> h \in fetches)
    BY <1>5, <1>10 DEF c
  <2>2. served'[d] = served[d]
    BY <1>3, <1>7, <1>10
  <2> QED
    BY <1>1, <1>3, <2>1, <2>2, CallKept
<1>11. Fetching(c)' = (Fetching(c) \ {f}) \cup {g} /\ LoggingIn(c)' = LoggingIn(c)
  BY <1>3, <1>5 DEF Fetching, LoggingIn
<1>12. promise[c] # "idle" /\ ~ NotOnItsWay(c)
  BY <1>1, <1>3, <1>6 DEF PlaceInv, NotOnItsWay
<1>13. OnePlace(c) => OnePlace(c)'
  <2> SUFFICES ASSUME OnePlace(c)
               PROVE  OnePlace(c)'
    OBVIOUS
  <2>1. /\ Fetching(c)' = {g} /\ LoggingIn(c)' = {} /\ dialog' # c
    BY <1>3, <1>6, <1>11 DEF OnePlace
  <2>2. served[c] = 0
    BY <1>12 DEF OnePlace
  <2>3. served'[c] # 0 => served'[c] = 1 /\ stage \in {"ok", "error"}
    BY <1>1, <1>3, <1>7, <2>2
  <2>4. served'[c] # 0 => NotOnItsWay(c)'
    BY <1>5, <2>1, <2>3 DEF NotOnItsWay
  <2> QED
    BY <2>1, <2>3, <2>4 DEF OnePlace
<1>14. PendingInv(c)' /\ PlaceInv(c)'
  BY <1>1, <1>3, <1>11, <1>12, <1>13 DEF PendingInv, PlaceInv
<1> QED
  BY <1>8, <1>9, <1>10, <1>14 DEF LoginInductive

\* A call is in one place at a time, and a session is as old as it is unused.
LEMMA LoginStep == LoginInductive /\ [LoginNext]_loginVars => LoginInductive'
<1> SUFFICES ASSUME LoginInductive, [LoginNext]_loginVars
             PROVE  LoginInductive'
  OBVIOUS
<1>1. ASSUME NEW c \in Call, apiProtected(c)
      PROVE  LoginInductive'
  BY <1>1, MadeKeeps
<1>2. ASSUME NEW s \in Submit, submit(s)
      PROVE  LoginInductive'
  BY <1>2, SubmitKeeps
<1>3. CASE cancel
  BY <1>3, CancelKeeps
<1>4. CASE UNCHANGED <<stored, promise, fetches, dialog, submits, serverVars, historyVars>> /\ idle' \in 0 .. TTL
  <2>1. /\ LoginTypeOK /\ AgesInv /\ \A s \in Submit : RequestInv(s)
        /\ \A c \in Call : PendingInv(c) /\ PlaceInv(c)
    BY LoginIs
  <2>2. LoginTypeOK' /\ AgesInv'
    BY <1>4, <2>1 DEF LoginTypeOK, AgesInv, serverVars, historyVars
  <2>3. \A s \in Submit : RequestInv(s)'
    BY <1>4, <2>1 DEF RequestInv
  <2>4. \A c \in Call : PendingInv(c)' /\ PlaceInv(c)'
    BY <1>4, <2>1, CallKept DEF historyVars
  <2> QED
    BY <2>2, <2>3, <2>4 DEF LoginInductive
<1>5. CASE reset
  BY <1>4, <1>5, LoginIs DEF reset
<1>6. CASE UNCHANGED loginVars
  <2>1. idle \in 0 .. TTL
    BY LoginIs DEF LoginTypeOK
  <2> QED
    BY <1>4, <1>6, <2>1 DEF loginVars, browserVars
<1>7. CASE Tick
  BY <1>7, TickKeeps
<1>8. ASSUME NEW f \in fetches, Receive(f)
      PROVE  LoginInductive'
  <2>1. CASE f.stage = "denied"
    BY <1>8, <2>1, DeniedKeeps
  <2>2. CASE f.stage # "denied"
    <3> DEFINE o == IF f.stage = "ok" THEN "resolved" ELSE "rejected"
    <3>1. /\ fetches' = fetches \ {f} /\ Settle(f.call, o) /\ o \in {"resolved", "rejected"}
          /\ UNCHANGED <<stored, idle, dialog, submits, serverVars, historyVars>>
      BY <1>8, <2>2 DEF Receive, historyVars
    <3> HIDE DEF o
    <3> QED
      BY <2>2, <3>1, EndedKeeps
  <2> QED
    BY <2>1, <2>2
<1>9. ASSUME NEW f \in fetches, Fail(f)
      PROVE  LoginInductive'
  BY <1>9, EndedKeeps DEF Fail
<1>10. ASSUME NEW f \in fetches, SessionMiddleware(f)
       PROVE  LoginInductive'
  BY <1>10, CheckedKeeps
<1>11. ASSUME NEW s \in Submit, GrantLogin(s) \/ loginAnswered(s) \/ loginFailed(s)
       PROVE  LoginInductive'
  BY <1>11, GrantKeeps, LoginAnsweredKeeps, LoginFailedKeeps
<1> QED
  BY <1>1, <1>2, <1>3, <1>5, <1>6, <1>7, <1>8, <1>9, <1>10, <1>11 DEF LoginNext, Network, Logins

LEMMA LoginHolds == LoginSpec => []LoginInductive
BY LoginStart, LoginStep, PTL DEF LoginSpec

\* A call whose promise is pending can be seen somewhere, unless another call
\* took its dialog away, and a call is carried out once, unless the button of
\* its dialog was pressed twice (app.js, api and showLoginModal).
THEOREM CallsTrue == LoginSpec => [](LoginTypeOK /\ CallsExplained)
<1>1. ASSUME LoginInductive
      PROVE  LoginTypeOK /\ CallsExplained
  <2>1. ASSUME NEW c \in Call, promise[c] = "pending"
        PROVE  \/ dialog = c
               \/ \E f \in fetches : f.call = c
               \/ \E s \in Submit : submits[s].for = c
               \/ c \in replaced
    BY <1>1, <2>1 DEF LoginInductive, PendingInv, Fetching
  <2>2. ASSUME NEW c \in Call, served[c] > 1, c \notin again
        PROVE  FALSE
    BY <1>1, <2>2 DEF LoginInductive, PlaceInv, OnePlace
  <2>3. LoginTypeOK
    BY <1>1 DEF LoginInductive
  <2> QED
    BY <2>1, <2>2, <2>3 DEF CallsExplained, PendingExplained, RunsOnce
<1> QED
  BY <1>1, LoginHolds, PTL

\* A call that its user turned down is not carried out later, unless a login or
\* a request of it was under way; and the server refuses a session if and only if
\* it was not used for its whole life time (auth.go, ValidateSession).
THEOREM LoginStepsHold == LoginSpec => LoginSteps
<1>1. ASSUME LoginInductive, [LoginNext]_loginVars, NEW c \in Call,
             served'[c] > served[c], promise[c] # "pending"
      PROVE  c \in late \cup again
  <2>1. served[c] \in Nat /\ served'[c] # served[c]
    BY <1>1, LoginIs DEF LoginTypeOK
  <2>2. PICK f \in fetches : SessionMiddleware(f)
    BY <1>1, <2>1, Zenon DEF LoginNext, Network, Logins, apiProtected, submit, cancel, reset, Tick,
         Receive, Fail, GrantLogin, loginAnswered, loginFailed, loginVars, historyVars
  <2>3. f.call = c /\ f.stage = "sent"
    BY <2>1, <2>2, LoginIs DEF SessionMiddleware, LoginTypeOK
  <2>4. ~ NotOnItsWay(c)
    BY <2>2, <2>3 DEF NotOnItsWay, Fetching
  <2> QED
    BY <1>1, <2>4, LoginIs DEF PlaceInv
<1>2. ASSUME LoginInductive, [LoginNext]_loginVars, NEW f \in fetches, f.stage = "sent",
             NEW answer \in {"ok", "error", "denied"}, [f EXCEPT !.stage = answer] \in fetches' \ fetches
      PROVE  IF answer = "denied" THEN unused[f.sid] > TTL ELSE unused[f.sid] <= TTL
  <2> DEFINE g == [f EXCEPT !.stage = answer]
  <2>1. g.stage = answer /\ answer # "sent" /\ g.sid = f.sid /\ g.call = f.call
    BY <1>2 DEF LoginInductive, LoginTypeOK, Fetch
  <2>2. g \in fetches' /\ g \notin fetches
    BY <1>2
  <2> HIDE DEF g
  <2>3. PICK h \in fetches : SessionMiddleware(h)
    <3>1. ASSUME NEW c \in Call, apiProtected(c)
          PROVE  FALSE
      BY <2>1, <2>2, <3>1 DEF apiProtected
    <3>2. ASSUME NEW s \in Submit, loginAnswered(s)
          PROVE  FALSE
      BY <2>1, <2>2, <3>2 DEF loginAnswered
    <3>3. ASSUME NEW h \in fetches, Receive(h) \/ Fail(h)
          PROVE  FALSE
      BY <2>2, <3>3 DEF Receive, Fail
    <3>4. ASSUME fetches' = fetches
          PROVE  FALSE
      BY <2>2, <3>4
    <3> QED
      BY <1>2, <3>1, <3>2, <3>3, <3>4, Zenon DEF LoginNext, Network, Logins, submit, cancel, reset, Tick,
           GrantLogin, loginFailed, loginVars, browserVars
  <2>4. h.sid \in issued
    BY <1>2, LoginIs DEF AgesInv
  <2>5. h.sid = f.sid /\ (answer = "denied" <=> ~ValidateSession(h.sid).valid)
    <3> DEFINE check == ValidateSession(h.sid)
    <3>1. PICK stage \in IF check.valid THEN {"ok", "error"} ELSE {"denied"} :
               fetches' = (fetches \ {h}) \cup {[h EXCEPT !.stage = stage]}
      BY <2>3 DEF SessionMiddleware
    <3> HIDE DEF check
    <3>2. g = [h EXCEPT !.stage = stage]
      BY <2>2, <3>1
    <3>3. h \in Fetch
      BY <1>2 DEF LoginInductive, LoginTypeOK
    <3>4. stage = answer /\ h.sid = f.sid
      BY <2>1, <3>2, <3>3 DEF Fetch
    <3>5. answer = "denied" <=> ~check.valid
      BY <3>1, <3>4
    <3> QED
      BY <3>4, <3>5 DEF check
  <2> QED
    BY <1>2, <2>4, <2>5, CheckIs
<1>3. LoginInductive /\ [LoginNext]_loginVars =>
        \A c \in Call : served'[c] > served[c] /\ promise[c] # "pending" => c \in late \cup again
  BY <1>1
<1>4. LoginInductive /\ [LoginNext]_loginVars =>
        \A f \in fetches : f.stage = "sent" /\ [f EXCEPT !.stage = "denied"] \in fetches' \ fetches
                             => unused[f.sid] > TTL
  BY <1>2
<1>5. LoginInductive /\ [LoginNext]_loginVars =>
        \A f \in fetches, stage \in {"ok", "error"} :
          f.stage = "sent" /\ [f EXCEPT !.stage = stage] \in fetches' \ fetches => unused[f.sid] <= TTL
  BY <1>2
<1> QED
  BY <1>3, <1>4, <1>5, LoginHolds, PTL DEF LoginSpec, LoginSteps, CanceledNotRun, RefusedUnused, AcceptedUsed

-----------------------------------------------------------------------------
(* Lists and requests for them *)

LEMMA PanelsIs ==
  ASSUME PanelsInductive
  PROVE  /\ PanelsTypeOK /\ NewestInv /\ ListInv /\ LaterInv /\ RowInv
         /\ ConfirmTypeOK /\ home \in Page /\ home \in {"vacuum", "locks", "s3", "jobs",
              "extensions", "indexes", "queries", "planner", "drift", "roles", "config",
              "server", "pgbouncer"}
         /\ tab \in Tabs(home) /\ key \in Keys \cup {Unkeyed} /\ visit \in 0 .. MaxVisits /\ here \in BOOLEAN
         /\ None \notin Keys \cup {Unkeyed} /\ MaxVisits \in Nat /\ Key1 # Key2
         /\ last \in {"none", "pending", "shown", "failed"} /\ missed \in BOOLEAN
  BY PanelsAssumption DEF PanelsInductive, PanelsTypeOK, None, Keys

LEMMA FirstTabIs ==
  ASSUME NEW p \in Page
  PROVE  FirstTab(p) \in Tabs(p)
<1>1. \E t \in Tabs(p) : t \in {p, "conflicts", "any status", "all", "missing", "every source"}
  BY PanelsAssumption DEF Tabs
<1> QED
  BY <1>1 DEF FirstTab

\* Every load of a page asks for what the page has to show, unless the page is
\* not there to be filled.
LEMMA LoadIs ==
  ASSUME home \in Page, NEW k, NEW t \in Tabs(home), load(k, t)
  PROVE  \/ ~here /\ UNCHANGED askVars
         \/ \E el \in {Late, visit} : /\ Send(Kind(home, t), k, {el}, TRUE)
                                      /\ home \in DataPages \ {"roles"} => el = Late
<1>1. (~here /\ Early = {}) \/ (here /\ Early = {visit})
  BY DEF Early
<1>2. ASSUME NEW kind, Send(kind, k, Early, TRUE)
      PROVE  (~here /\ UNCHANGED askVars) \/ Send(kind, k, {visit}, TRUE)
  <2>1. CASE ~here
    BY <1>1, <1>2, <2>1 DEF Send
  <2>2. CASE here
    BY <1>1, <1>2, <2>2
  <2> QED
    BY <2>1, <2>2
<1>3. CASE home = "vacuum"
  <2>1. CASE t = "repack"
    <3>1. Send("repack", k, Early, t = "repack")
      BY <1>3, <2>1 DEF load, VacuumLoad, loadRepack
    <3>2. (t = "repack") = TRUE
      BY <2>1
    <3>3. Send("repack", k, Early, TRUE)
      BY <3>1, <3>2
    <3> QED
      BY <1>2, <1>3, <2>1, <3>3 DEF Kind, DataPages
  <2>2. CASE t # "repack"
    BY <1>3, <2>2 DEF load, VacuumLoad, Kind, DataPages
  <2> QED
    BY <2>1, <2>2
<1>4. CASE home = "locks"
  <2>1. Send(t, k, IF t = "tree" THEN Early ELSE {Late}, TRUE)
    BY <1>4 DEF load, LocksLoad
  <2>2. CASE t = "tree"
    BY <1>2, <1>4, <2>1, <2>2 DEF Kind, DataPages
  <2>3. CASE t # "tree"
    BY <1>4, <2>1, <2>3 DEF Kind, DataPages
  <2> QED
    BY <2>2, <2>3
<1>5. CASE home \in {"s3", "jobs", "planner", "drift", "roles", "server"}
  <2>1. Send(home, k, Early, TRUE) /\ Kind(home, t) = home /\ home \notin DataPages \ {"roles"}
    BY <1>5 DEF load, loadObjects, JobsLoad, PlannerLoad, DriftLoad, RolesLoad, loadOverview, Kind, DataPages
  <2> QED
    BY <1>2, <2>1
<1>6. CASE home \in {"extensions", "indexes", "queries", "config", "pgbouncer"}
  <2>1. Send(home, k, {Late}, TRUE) /\ Kind(home, t) = home
    BY <1>6 DEF load, ExtensionsLoad, IndexesLoad, QueriesLoad, loadConfig, loadStats, Kind
  <2> QED
    BY <2>1
<1> QED
  BY <1>3, <1>4, <1>5, <1>6, PanelsAssumption

\* A request that is the newest no more.
LEMMA OlderIs ==
  ASSUME NEW a \in Ask, NEW b \in BOOLEAN
  PROVE  LET o == [a EXCEPT !.new = b]
         IN  o \in Ask /\ o.new = b /\ o.kind = a.kind /\ o.key = a.key /\ o.el = a.el
  BY DEF Ask

LEMMA KindIs ==
  ASSUME home \in Page, NEW t \in Tabs(home)
  PROVE  Kind(home, t) \in Kinds
  BY DEF Kinds

\* The newest request goes out.
LEMMA SentKeeps ==
  ASSUME PanelsInductive, NEW k \in Keys \cup {Unkeyed}, NEW t \in Tabs(home), NEW el \in {Late, visit},
         Send(Kind(home, t), k, {el}, TRUE), home \in DataPages \ {"roles"} => el = Late,
         key' = k, tab' = t, UNCHANGED <<home, here, visit>>
  PROVE  asks' \subseteq Ask /\ last' = "pending" /\ NewestInv'
<1> DEFINE old(a) == [a EXCEPT !.new = @ /\ ~TRUE]
<1>0. PICK n : n = [kind |-> Kind(home, t), key |-> k, el |-> el, new |-> TRUE]
  OBVIOUS
<1>1. /\ asks' = {old(a) : a \in asks} \cup {n} /\ last' = "pending"
  BY <1>0 DEF Send
<1>2. /\ PanelsTypeOK /\ NewestInv /\ home \in Page /\ visit \in 0 .. MaxVisits /\ MaxVisits \in Nat
  BY PanelsIs
<1>3. n \in Ask /\ n.kind = Kind(home, t) /\ n.key = k /\ n.el = el /\ n.new = TRUE
  BY <1>0, <1>2, KindIs DEF Ask, Late
<1>4. ASSUME NEW a \in asks
      PROVE  old(a) \in Ask /\ old(a).new = FALSE /\ old(a).kind = a.kind /\ old(a).el = a.el
  <2>1. a \in Ask /\ old(a) = [a EXCEPT !.new = FALSE]
    BY <1>2 DEF PanelsTypeOK
  <2> QED
    BY <2>1, OlderIs
<1> HIDE DEF old
<1>5. asks' \subseteq Ask
  BY <1>1, <1>3, <1>4
<1>6. n.kind = Chosen'.kind
  BY <1>3 DEF Chosen
<1>7. AskInv(n)'
  BY <1>1, <1>3, <1>6 DEF AskInv
<1>8. ASSUME NEW a \in asks, NEW o, o = old(a)
      PROVE  AskInv(o)' /\ o.new = FALSE
  <2>1. AskInv(a)
    BY <1>2 DEF NewestInv
  <2>2. o.kind \in {Kind(home, u) : u \in Tabs(home)} /\ (home \in DataPages \ {"roles"} => o.el = Late)
    BY <1>4, <1>8, <2>1 DEF AskInv
  <2>3. o.new = FALSE
    BY <1>4, <1>8
  <2> QED
    BY <2>2, <2>3 DEF AskInv
<1>9. \A b \in asks' : AskInv(b)' /\ (b.new => b = n)
  BY <1>1, <1>7, <1>8
<1>10. NewestInv'
  BY <1>9 DEF NewestInv
<1> QED
  BY <1>1, <1>5, <1>10

\* A poll of the repack goes out while another tab is shown.
LEMMA PolledKeeps ==
  ASSUME PanelsInductive, home = "vacuum", tab # "repack",
         Send("repack", key, {visit}, FALSE), UNCHANGED <<home, here, visit, key, tab>>
  PROVE  asks' \subseteq Ask /\ last' = last /\ NewestInv'
<1> DEFINE old(a) == [a EXCEPT !.new = @ /\ ~FALSE]
<1>0. PICK n : n = [kind |-> "repack", key |-> key, el |-> visit, new |-> FALSE]
  OBVIOUS
<1>1. /\ asks' = {old(a) : a \in asks} \cup {n} /\ last' = last
  BY <1>0 DEF Send
<1>2. /\ PanelsTypeOK /\ NewestInv /\ home \in Page /\ visit \in 0 .. MaxVisits /\ key \in Keys \cup {Unkeyed}
  BY PanelsIs
<1>3. "repack" \in Tabs(home) /\ Kind(home, "repack") = "repack"
  BY DEF Tabs, Kind
<1>4. n \in Ask /\ n.kind = "repack" /\ n.new = FALSE /\ "vacuum" \notin DataPages
  <2>1. "repack" \in Kinds
    BY <1>2, <1>3, KindIs
  <2> QED
    BY <1>0, <1>2, <2>1 DEF Ask, DataPages
<1>5. ASSUME NEW a \in asks
      PROVE  old(a) = a
  <2>1. a \in Ask /\ a.new \in BOOLEAN
    BY <1>2 DEF PanelsTypeOK, Ask
  <2>2. (a.new /\ ~FALSE) = a.new
    BY <2>1, Zenon
  <2>3. old(a) = [a EXCEPT !.new = a.new]
    BY <2>2
  <2> QED
    BY <2>1, <2>3 DEF Ask
<1> HIDE DEF old
<1>6. asks' = asks \cup {n}
  BY <1>1, <1>5
<1>7. asks' \subseteq Ask
  BY <1>2, <1>4, <1>6 DEF PanelsTypeOK
<1>8. AskInv(n)'
  BY <1>3, <1>4 DEF AskInv
<1>9. ASSUME NEW a \in asks
      PROVE  AskInv(a)'
  <2>1. AskInv(a)
    BY <1>2 DEF NewestInv
  <2>2. Chosen' = Chosen
    BY DEF Chosen
  <2> QED
    BY <1>1, <2>1, <2>2 DEF AskInv
<1>10. NewestInv'
  BY <1>2, <1>4, <1>6, <1>8, <1>9 DEF NewestInv
<1> QED
  BY <1>1, <1>7, <1>10

\* A load with what is chosen after the step.
LEMMA LoadKeeps ==
  ASSUME PanelsInductive, NEW k \in Keys \cup {Unkeyed}, NEW t \in Tabs(home), load(k, t),
         key' = k, tab' = t, UNCHANGED <<home, here, visit>>
  PROVE  asks' \subseteq Ask /\ last' \in {"none", "pending", "shown", "failed"} /\ NewestInv'
         /\ (here => last' = "pending")
<1>1. CASE ~here /\ UNCHANGED askVars
  <2>1. PanelsTypeOK /\ NewestInv
    BY PanelsIs
  <2>2. \A a \in asks : AskInv(a)'
    BY <1>1, <2>1 DEF NewestInv, AskInv, askVars
  <2> QED
    BY <1>1, <2>1, <2>2 DEF NewestInv, PanelsTypeOK, askVars
<1>2. ASSUME NEW el \in {Late, visit}, Send(Kind(home, t), k, {el}, TRUE),
             home \in DataPages \ {"roles"} => el = Late
      PROVE  asks' \subseteq Ask /\ last' = "pending" /\ NewestInv'
  BY <1>2, SentKeeps
<1> QED
  BY <1>1, <1>2, LoadIs, PanelsIs

\* A load of the repack, by the timer or after the tables of one were chosen.
LEMMA LoadRepackKeeps ==
  ASSUME PanelsInductive, home = "vacuum", loadRepack(key, tab),
         UNCHANGED <<home, here, visit, key, tab>>
  PROVE  asks' \subseteq Ask /\ NewestInv' /\ last' \in {last, "pending"}
<1>1. CASE ~here
  <2>1. UNCHANGED askVars
    BY <1>1 DEF loadRepack, Send, Early
  <2>2. PanelsTypeOK /\ NewestInv
    BY PanelsIs
  <2>3. \A a \in asks : AskInv(a)'
    BY <1>1, <2>1, <2>2 DEF NewestInv, AskInv, askVars
  <2> QED
    BY <2>1, <2>2, <2>3 DEF NewestInv, PanelsTypeOK, askVars
<1>2. CASE here
  <2>1. Early = {visit}
    BY <1>2 DEF Early
  <2>2. Send("repack", key, {visit}, tab = "repack")
    BY <2>1 DEF loadRepack
  <2>3. CASE tab = "repack"
    <3>1. (tab = "repack") = TRUE /\ Kind(home, tab) = "repack" /\ "vacuum" \notin DataPages
      BY <2>3 DEF Kind, DataPages
    <3>2. Send(Kind(home, tab), key, {visit}, TRUE)
      BY <2>2, <3>1
    <3> QED
      BY <3>1, <3>2, SentKeeps, PanelsIs
  <2>4. CASE tab # "repack"
    <3>1. (tab = "repack") = FALSE
      BY <2>4
    <3>2. Send("repack", key, {visit}, FALSE)
      BY <2>2, <3>1
    <3> QED
      BY <2>4, <3>2, PolledKeeps
  <2> QED
    BY <2>3, <2>4
<1> QED
  BY <1>1, <1>2

\* Every answer is shown in the way of its page; those that keep it keep it.
LEMMA AnsweredIs ==
  ASSUME PanelsInductive, NEW a \in asks, Answered(a)
  PROVE  /\ \E view \in Tabs(home) \cup Keys : Show(a, view) /\ (a.kind = Chosen.kind => view = Chosen.view)
         /\ kept' \in {kept, a.key} /\ (home \in DataPages => kept' = a.key)
         /\ timer' \in BOOLEAN /\ (home # "vacuum" => timer' = timer)
         /\ UNCHANGED <<pageVars, key, tab, later, rowVars, confirmVars>>
<1>1. /\ PanelsTypeOK /\ AskInv(a) /\ tab \in Tabs(home) /\ timer \in BOOLEAN
      /\ home \in {"vacuum", "locks", "s3", "jobs", "extensions", "indexes", "queries", "planner",
                   "drift", "roles", "config", "server", "pgbouncer"}
  BY PanelsIs DEF NewestInv, PanelsTypeOK
<1>2. UNCHANGED <<pageVars, key, tab, later, rowVars, confirmVars>>
  BY DEF Answered
<1>3. CASE home = "vacuum"
  <2>1. a.kind \in {"vacuum", "bloat", "repack"} /\ a.kind \in Tabs(home) /\ home \notin DataPages
    BY <1>1, <1>3 DEF AskInv, Kind, Tabs, DataPages
  <2>2. Show(a, a.kind) /\ kept' = kept /\ timer' \in BOOLEAN
    BY <1>1, <2>1 DEF Answered, VacuumAnswered, RepackAnswered
  <2>3. Chosen.kind = tab /\ Chosen.view = tab
    BY <1>3 DEF Chosen, Kind
  <2> QED
    BY <1>2, <1>3, <2>1, <2>2, <2>3
<1>4. CASE home = "locks"
  <2>1. a.kind \in {"conflicts", "tree"} /\ a.kind \in Tabs(home) /\ home \notin DataPages
    BY <1>1, <1>4 DEF AskInv, Kind, Tabs, DataPages
  <2>2. Show(a, a.kind) /\ kept' = kept /\ timer' = timer
    BY <1>1, <2>1 DEF Answered, LocksAnswered
  <2>3. Chosen.kind = tab /\ Chosen.view = tab
    BY <1>4 DEF Chosen, Kind
  <2> QED
    BY <1>1, <1>2, <1>4, <2>1, <2>2, <2>3
<1>5. CASE home = "s3"
  <2>1. a.kind = "s3" /\ key \in Keys /\ home \notin DataPages
    BY <1>1, <1>5 DEF AskInv, Kind, PanelsTypeOK, Keyed, DataPages
  <2>2. Show(a, key) /\ kept' = kept /\ timer' = timer
    BY <2>1 DEF Answered, ObjectsAnswered
  <2>3. Chosen.view = key
    BY <1>5 DEF Chosen
  <2> QED
    BY <1>1, <1>2, <2>1, <2>2, <2>3
<1>6. CASE home \in {"jobs", "queries", "planner", "drift", "server", "pgbouncer"}
  <2>1. a.kind = home /\ home \notin DataPages
    BY <1>1, <1>6 DEF AskInv, Kind, DataPages
  <2>2. Show(a, tab) /\ kept' = kept /\ timer' = timer
    BY <1>6, <2>1 DEF Answered, JobsAnswered, QueriesAnswered, PlannerAnswered, DriftAnswered,
       ServerAnswered, PgBouncerAnswered
  <2>3. Chosen.view = tab
    BY <1>6 DEF Chosen
  <2> QED
    BY <1>1, <1>2, <2>1, <2>2, <2>3
<1>7. CASE home \in {"extensions", "indexes", "roles", "config"}
  <2>1. a.kind = home
    BY <1>1, <1>7 DEF AskInv, Kind
  <2>2. Show(a, tab) /\ kept' = a.key /\ timer' = timer
    BY <1>7, <2>1 DEF Answered, ExtensionsAnswered, IndexesAnswered, RolesAnswered, ConfigAnswered, Keep
  <2>3. Chosen.view = tab
    BY <1>7 DEF Chosen
  <2> QED
    BY <1>1, <1>2, <2>2, <2>3
<1> QED
  BY <1>1, <1>3, <1>4, <1>5, <1>6, <1>7

\* A failure is shown or kept quiet; the page of the queries keeps it quiet.
LEMMA FailedIs ==
  ASSUME PanelsInductive, NEW a \in asks, Failed(a)
  PROVE  /\ Taken(a, "failed") /\ shown' \in {shown, Error} /\ (home = "queries" => shown' = shown)
         /\ UNCHANGED <<missed, kept, timer>>
         /\ UNCHANGED <<pageVars, key, tab, later, rowVars, confirmVars>>
<1>1. home = "queries" => a.kind = "queries"
  BY PanelsIs DEF NewestInv, AskInv, Kind
<1>2. KeepShown(a) \/ (a.kind # "queries" /\ \E els \in {{Late}, {Late, visit}} : ShowError(a, els))
  BY DEF Failed
<1>3. UNCHANGED <<pageVars, key, tab, kept, timer, later, rowVars, confirmVars>>
  BY DEF Failed
<1> QED
  BY <1>1, <1>2, <1>3 DEF KeepShown, ShowError

\* A request is answered or has failed.
LEMMA TakenKeeps ==
  ASSUME PanelsInductive, NEW a \in asks, NEW o \in {"shown", "failed"}, Taken(a, o),
         UNCHANGED <<home, here, visit, key, tab>>
  PROVE  /\ asks' \subseteq Ask /\ last' \in {"none", "pending", "shown", "failed"} /\ NewestInv'
         /\ last' = "shown" => (a.new /\ o = "shown") \/ (last = "shown" /\ ~a.new)
<1>1. asks' = asks \ {a} /\ last' = IF a.new THEN o ELSE last
  BY DEF Taken
<1>2. PanelsTypeOK /\ NewestInv /\ last \in {"none", "pending", "shown", "failed"}
  BY PanelsIs
<1>3. ASSUME NEW b \in asks'
      PROVE  AskInv(b)'
  <2>1. b \in asks /\ b # a /\ AskInv(b)
    BY <1>1, <1>2 DEF NewestInv
  <2>2. b.new => last' = "pending"
    BY <1>1, <1>2, <2>1 DEF NewestInv, AskInv
  <2>3. Chosen' = Chosen
    BY DEF Chosen
  <2> QED
    BY <2>1, <2>2, <2>3 DEF AskInv
<1>4. NewestInv'
  BY <1>1, <1>2, <1>3 DEF NewestInv
<1> QED
  BY <1>1, <1>2, <1>4 DEF PanelsTypeOK

\* Of the open dialogs, a step that answers none and opens none.
LEMMA RowKept ==
  ASSUME PanelsInductive, UNCHANGED <<home, row, confirmVars>>,
         (excused' = excused /\ key' = key) \/ excused' = open
  PROVE  ConfirmTypeOK' /\ row' \in [Box -> Keys \cup {Unkeyed, None}] /\ excused' \subseteq open' /\ RowInv'
<1>1. PanelsTypeOK /\ ConfirmTypeOK /\ RowInv
  BY PanelsIs
<1>2. ConfirmTypeOK'
  BY <1>1 DEF ConfirmTypeOK, confirmVars
<1>3. RowInv'
  BY <1>1 DEF RowInv, confirmVars
<1> QED
  BY <1>1, <1>2, <1>3 DEF PanelsTypeOK, confirmVars

LEMMA NoDeeds == deeds' = {} => DeedsExplained' /\
  deeds' \subseteq [as : Keys \cup {Unkeyed}, on : Keys \cup {Unkeyed}, excused : BOOLEAN, agreed : BOOLEAN]
BY DEF DeedsExplained, ActsAsListed, DoneWasAgreed

LEMMA AnsweredKeeps ==
  ASSUME PanelsInductive, NEW a \in asks, Answered(a), deeds' = {}
  PROVE  PanelsInductive'
<1>1. /\ PanelsTypeOK /\ NewestInv /\ ListInv /\ LaterInv /\ AskInv(a) /\ a \in Ask
      /\ tab \in Tabs(home) /\ key \in Keys \cup {Unkeyed}
  BY PanelsIs DEF NewestInv, PanelsTypeOK
<1>2. /\ kept' \in {kept, a.key} /\ (home \in DataPages => kept' = a.key)
      /\ timer' \in BOOLEAN /\ (home # "vacuum" => timer' = timer)
      /\ UNCHANGED <<home, here, visit, key, tab, later, row, excused, confirmVars>>
  BY AnsweredIs DEF pageVars, rowVars
<1>3. PICK view \in Tabs(home) \cup Keys : Show(a, view) /\ (a.kind = Chosen.kind => view = Chosen.view)
  BY AnsweredIs
<1>4. /\ Taken(a, "shown")
      /\ shown' = IF Visible(a) THEN [kind |-> a.kind, key |-> a.key, view |-> view] ELSE shown
      /\ missed' = IF Visible(a) THEN ~a.new ELSE missed
  BY <1>3 DEF Show
<1>5. /\ asks' \subseteq Ask /\ last' \in {"none", "pending", "shown", "failed"} /\ NewestInv'
      /\ last' = "shown" => a.new \/ (last = "shown" /\ ~a.new)
  BY <1>2, <1>4, TakenKeeps
<1>6. ConfirmTypeOK' /\ row' \in [Box -> Keys \cup {Unkeyed, None}] /\ excused' \subseteq open' /\ RowInv'
  BY <1>2, RowKept
<1>7. a.kind \in Kinds /\ a.key \in Keys \cup {Unkeyed} /\ a.new \in BOOLEAN
  BY <1>1 DEF Ask
<1>8. missed' \in BOOLEAN
  <2>1. (~a.new) \in BOOLEAN
    BY Zenon
  <2> QED
    BY <1>1, <1>4, <2>1 DEF PanelsTypeOK
<1>9. kept' \in Keys \cup {Unkeyed, None}
  BY <1>1, <1>2, <1>7 DEF PanelsTypeOK
<1>10. shown' \in {Blank, Error} \cup [kind : Kinds, key : Keys \cup {Unkeyed}, view : Tabs(home) \cup Keys]
  BY <1>1, <1>4, <1>7 DEF PanelsTypeOK
<1>11. PanelsTypeOK'
  BY <1>1, <1>2, <1>5, <1>6, <1>8, <1>9, <1>10, NoDeeds DEF PanelsTypeOK
<1>12. ASSUME here, last' = "shown", missed' = FALSE
       PROVE  shown' \in {Error, Chosen} /\ (home \in DataPages => kept' = key)
  <2>1. CASE a.new
    <3>1. a.key = key /\ a.kind = Chosen.kind /\ Visible(a)
      BY <1>1, <1>12, <2>1 DEF AskInv, Visible
    <3>2. shown' = Chosen
      BY <1>3, <1>4, <3>1 DEF Chosen
    <3> QED
      BY <1>2, <3>1, <3>2
  <2>2. CASE ~a.new
    <3>1. ~Visible(a)
      BY <1>4, <1>12, <2>2
    <3>2. shown' = shown /\ missed = FALSE /\ last = "shown"
      BY <1>4, <1>5, <1>12, <2>2, <3>1
    <3>3. home \notin DataPages
      <4>1. home \in DataPages \ {"roles"} => Visible(a)
        BY <1>1, <1>12 DEF AskInv, Visible
      <4>2. home = "roles" => a.kind = "roles"
        BY <1>1 DEF AskInv, Kind
      <4>3. home = "roles" => Visible(a)
        BY <1>12, <4>2 DEF Visible
      <4> QED
        BY <3>1, <4>1, <4>3
    <3>4. shown \in {Error, Chosen}
      BY <1>1, <1>12, <3>2 DEF ListInv, UpToDate
    <3> QED
      BY <3>2, <3>3, <3>4
  <2> QED
    BY <2>1, <2>2
<1>13. ListInv'
  <2>1. Chosen' = Chosen
    BY <1>2 DEF Chosen
  <2>2. missed' = FALSE \/ missed' = TRUE
    BY <1>8
  <2>3. home = "queries" => a.kind = "queries"
    BY <1>1 DEF AskInv, Kind
  <2>4. home = "queries" => shown' # Error
    BY <1>1, <1>4, <2>3 DEF ListInv, Error
  <2> QED
    BY <1>2, <1>12, <2>1, <2>2, <2>4 DEF ListInv, UpToDate, Error
<1>14. LaterInv'
  BY <1>1, <1>2 DEF LaterInv
<1> QED
  BY <1>5, <1>6, <1>11, <1>13, <1>14, NoDeeds DEF PanelsInductive

LEMMA FailedKeeps ==
  ASSUME PanelsInductive, NEW a \in asks, Failed(a), deeds' = {}
  PROVE  PanelsInductive'
<1>1. PanelsTypeOK /\ ListInv /\ LaterInv
  BY PanelsIs
<1>2. /\ Taken(a, "failed") /\ shown' \in {shown, Error} /\ (home = "queries" => shown' = shown)
      /\ UNCHANGED <<missed, kept, timer, home, here, visit, key, tab, later, row, excused, confirmVars>>
  BY FailedIs DEF pageVars, rowVars
<1>3. /\ asks' \subseteq Ask /\ last' \in {"none", "pending", "shown", "failed"} /\ NewestInv'
      /\ last' = "shown" => last = "shown"
  BY <1>2, TakenKeeps
<1>4. ConfirmTypeOK' /\ row' \in [Box -> Keys \cup {Unkeyed, None}] /\ excused' \subseteq open' /\ RowInv'
  BY <1>2, RowKept
<1>5. PanelsTypeOK'
  BY <1>1, <1>2, <1>3, <1>4, NoDeeds DEF PanelsTypeOK
<1>6. ListInv'
  BY <1>1, <1>2, <1>3 DEF ListInv, UpToDate, Chosen, Error
<1>7. LaterInv'
  BY <1>1, <1>2 DEF LaterInv
<1> QED
  BY <1>3, <1>4, <1>5, <1>6, <1>7, NoDeeds DEF PanelsInductive

LEMMA PanelsStart == PanelsInit => PanelsInductive
<1> SUFFICES ASSUME PanelsInit
             PROVE  PanelsInductive
  OBVIOUS
<1>1. /\ box = NoBox /\ open = {} /\ handlers = {} /\ swapped = {}
      /\ home \in Page /\ here = FALSE /\ visit = 0
      /\ key = (IF home \in Keyed THEN Key1 ELSE Unkeyed) /\ tab = FirstTab(home)
      /\ kept = None /\ shown = Blank /\ asks = {}
      /\ timer = FALSE /\ later = {} /\ last = "none" /\ missed = FALSE
      /\ row = [b \in Box |-> None] /\ excused = {} /\ deeds = {}
  BY DEF PanelsInit, ConfirmInit
<1>2. tab \in Tabs(home) /\ MaxVisits \in Nat
  BY <1>1, FirstTabIs, PanelsAssumption
<1>3. ConfirmTypeOK
  BY <1>1 DEF ConfirmTypeOK
<1>4. PanelsTypeOK
  <2>1. key \in (IF home \in Keyed THEN Keys ELSE {Unkeyed})
    BY <1>1 DEF Keys
  <2>2. row \in [Box -> Keys \cup {Unkeyed, None}] /\ kept \in Keys \cup {Unkeyed, None}
    BY <1>1
  <2>3. here \in BOOLEAN /\ timer \in BOOLEAN /\ missed \in BOOLEAN
    BY <1>1, Zenon
  <2>7. visit \in 0 .. MaxVisits
    <3>1. visit = 0
      BY <1>1
    <3> QED
      BY <1>2, <3>1
  <2>4. later \subseteq {"load", "loadRepack"} /\ last \in {"none", "pending", "shown", "failed"}
    BY <1>1
  <2>5. shown \in {Blank, Error} \cup [kind : Kinds, key : Keys \cup {Unkeyed}, view : Tabs(home) \cup Keys]
    BY <1>1
  <2>6. deeds \subseteq [as : Keys \cup {Unkeyed}, on : Keys \cup {Unkeyed}, excused : BOOLEAN, agreed : BOOLEAN]
        /\ asks \subseteq Ask /\ excused \subseteq open
    BY <1>1
  <2> QED
    BY <1>1, <1>2, <1>3, <2>1, <2>2, <2>3, <2>4, <2>5, <2>6, <2>7 DEF PanelsTypeOK
<1>5. NewestInv /\ ListInv /\ LaterInv /\ RowInv
  BY <1>1 DEF NewestInv, ListInv, LaterInv, RowInv, Blank, Error
<1>6. DeedsExplained
  BY <1>1 DEF DeedsExplained, ActsAsListed, DoneWasAgreed
<1> QED
  BY <1>4, <1>5, <1>6 DEF PanelsInductive

\* The page is opened or left: what was asked for is not what it now waits for.
LEMMA OpenKeeps ==
  ASSUME PanelsInductive, Open, deeds' = {}
  PROVE  PanelsInductive'
<1>1. /\ visit < MaxVisits /\ visit' = visit + 1 /\ here' = TRUE
      /\ shown' = Blank /\ missed' = FALSE /\ key' = IF home = "s3" THEN Key1 ELSE key
      /\ asks' = {[a EXCEPT !.new = FALSE] : a \in asks} /\ last' = "none"
      /\ later' = later \cup {"load"}
      /\ (excused' = excused /\ key' = key) \/ excused' = open
      /\ UNCHANGED <<home, tab, kept, timer, row, confirmVars>>
  BY DEF Open, Unsettle
<1>2. PanelsTypeOK /\ NewestInv /\ ListInv /\ LaterInv /\ visit \in 0 .. MaxVisits /\ MaxVisits \in Nat
  BY PanelsIs
<1>3. ConfirmTypeOK' /\ row' \in [Box -> Keys \cup {Unkeyed, None}] /\ excused' \subseteq open' /\ RowInv'
  BY <1>1, RowKept
<1>4. ASSUME NEW b \in asks'
      PROVE  b \in Ask /\ b.new = FALSE /\ AskInv(b)'
  <2>1. PICK a \in asks : b = [a EXCEPT !.new = FALSE]
    BY <1>1
  <2>2. a \in Ask /\ AskInv(a)
    BY <1>2 DEF PanelsTypeOK, NewestInv
  <2>3. b \in Ask /\ b.new = FALSE /\ b.kind = a.kind /\ b.el = a.el
    BY <2>1, <2>2, OlderIs
  <2>4. AskInv(b)'
    BY <1>1, <2>2, <2>3 DEF AskInv
  <2> QED
    BY <2>3, <2>4
<1>5. NewestInv' /\ asks' \subseteq Ask
  BY <1>4 DEF NewestInv
<1>6. key' \in (IF home \in Keyed THEN Keys ELSE {Unkeyed})
  BY <1>1, <1>2 DEF PanelsTypeOK, Keyed, Keys
<1>7. visit' \in 0 .. MaxVisits
  BY <1>1, <1>2
<1>8. PanelsTypeOK'
  BY <1>1, <1>2, <1>3, <1>5, <1>6, <1>7, NoDeeds DEF PanelsTypeOK
<1>9. ListInv' /\ LaterInv'
  BY <1>1, <1>2 DEF ListInv, UpToDate, LaterInv, Blank, Error
<1> QED
  BY <1>3, <1>5, <1>8, <1>9, NoDeeds DEF PanelsInductive

LEMMA LeaveKeeps ==
  ASSUME PanelsInductive, Leave, deeds' = {}
  PROVE  PanelsInductive'
<1>1. /\ here' = FALSE /\ shown' = Blank
      /\ UNCHANGED <<home, visit, key, tab, asks, last, kept, missed, timer, later, row, excused, confirmVars>>
  BY DEF Leave, askVars, rowVars
<1>2. PanelsTypeOK /\ NewestInv /\ ListInv /\ LaterInv
  BY PanelsIs
<1>3. ConfirmTypeOK' /\ row' \in [Box -> Keys \cup {Unkeyed, None}] /\ excused' \subseteq open' /\ RowInv'
  BY <1>1, RowKept
<1>4. PanelsTypeOK'
  BY <1>1, <1>2, <1>3, NoDeeds DEF PanelsTypeOK
<1>5. \A a \in asks : AskInv(a)'
  BY <1>1, <1>2 DEF NewestInv, AskInv
<1>6. NewestInv' /\ ListInv' /\ LaterInv'
  BY <1>1, <1>2, <1>5 DEF NewestInv, ListInv, LaterInv, Blank, Error
<1> QED
  BY <1>3, <1>4, <1>6, NoDeeds DEF PanelsInductive

\* Another choice, with the load it makes or without one.
LEMMA ElsewhereKeeps ==
  ASSUME PanelsInductive, ChooseElsewhere, deeds' = {}
  PROVE  PanelsInductive'
<1>1. PICK k \in Keys \ {key} : key' = k
  BY DEF ChooseElsewhere
<1>2. /\ ~here /\ home \in DbPages /\ excused' = open
      /\ UNCHANGED <<home, here, visit, tab, asks, last, kept, shown, missed, timer, later, row, confirmVars>>
  BY DEF ChooseElsewhere, Unsettle, pageVars, askVars, listVars
<1>3. PanelsTypeOK /\ NewestInv /\ ListInv /\ LaterInv
  BY PanelsIs
<1>4. ConfirmTypeOK' /\ row' \in [Box -> Keys \cup {Unkeyed, None}] /\ excused' \subseteq open' /\ RowInv'
  BY <1>2, RowKept
<1>5. PanelsTypeOK'
  BY <1>1, <1>2, <1>3, <1>4, NoDeeds DEF PanelsTypeOK, Keyed
<1>6. \A a \in asks : AskInv(a)'
  BY <1>2, <1>3 DEF NewestInv, AskInv
<1>7. NewestInv' /\ ListInv' /\ LaterInv'
  BY <1>2, <1>3, <1>6 DEF NewestInv, ListInv, LaterInv, Error
<1> QED
  BY <1>4, <1>5, <1>7, NoDeeds DEF PanelsInductive

LEMMA ChooseKeeps ==
  ASSUME PanelsInductive, Choose, deeds' = {}
  PROVE  PanelsInductive'
<1>1. PICK k \in Keys \ {key} : key' = k /\ load(k, tab)
  BY DEF Choose
<1>2. /\ here /\ home \in Keyed /\ excused' = open
      /\ UNCHANGED <<home, here, visit, tab, kept, shown, missed, timer, later, row, confirmVars>>
  BY DEF Choose, Unsettle, pageVars, listVars
<1>3. PanelsTypeOK /\ ListInv /\ LaterInv /\ tab \in Tabs(home)
  BY PanelsIs
<1>4. ConfirmTypeOK' /\ row' \in [Box -> Keys \cup {Unkeyed, None}] /\ excused' \subseteq open' /\ RowInv'
  BY <1>2, RowKept
<1>5. asks' \subseteq Ask /\ last' = "pending" /\ NewestInv'
  BY <1>1, <1>2, <1>3, LoadKeeps
<1>6. PanelsTypeOK'
  BY <1>1, <1>2, <1>3, <1>4, <1>5, NoDeeds DEF PanelsTypeOK
<1>7. ListInv' /\ LaterInv'
  BY <1>2, <1>3, <1>5 DEF ListInv, UpToDate, LaterInv, Error
<1> QED
  BY <1>4, <1>5, <1>6, <1>7, NoDeeds DEF PanelsInductive

LEMMA CompareKeeps ==
  ASSUME PanelsInductive, ChooseToCompare, deeds' = {}
  PROVE  PanelsInductive'
<1>1. PICK k \in Keys \ {key} : key' = k
  BY DEF ChooseToCompare
<1>2. /\ here /\ home = "drift" /\ excused' = open
      /\ asks' = {[a EXCEPT !.new = FALSE] : a \in asks} /\ last' = "none"
      /\ UNCHANGED <<home, here, visit, tab, kept, shown, missed, timer, later, row, confirmVars>>
  BY DEF ChooseToCompare, Unsettle, pageVars, listVars
<1>3. PanelsTypeOK /\ NewestInv /\ ListInv /\ LaterInv
  BY PanelsIs
<1>4. ConfirmTypeOK' /\ row' \in [Box -> Keys \cup {Unkeyed, None}] /\ excused' \subseteq open' /\ RowInv'
  BY <1>2, RowKept
<1>5. ASSUME NEW b \in asks'
      PROVE  b \in Ask /\ b.new = FALSE /\ AskInv(b)'
  <2>1. PICK a \in asks : b = [a EXCEPT !.new = FALSE]
    BY <1>2
  <2>2. a \in Ask /\ AskInv(a)
    BY <1>3 DEF PanelsTypeOK, NewestInv
  <2>3. b \in Ask /\ b.new = FALSE /\ b.kind = a.kind /\ b.el = a.el
    BY <2>1, <2>2, OlderIs
  <2>4. AskInv(b)'
    BY <1>2, <2>2, <2>3 DEF AskInv
  <2> QED
    BY <2>3, <2>4
<1>6. NewestInv' /\ asks' \subseteq Ask
  BY <1>5 DEF NewestInv
<1>7. PanelsTypeOK'
  BY <1>1, <1>2, <1>3, <1>4, <1>6, NoDeeds DEF PanelsTypeOK, Keyed, DbPages
<1>8. ListInv' /\ LaterInv'
  BY <1>2, <1>3 DEF ListInv, UpToDate, LaterInv, Error
<1> QED
  BY <1>4, <1>6, <1>7, <1>8, NoDeeds DEF PanelsInductive

LEMMA SwitchKeeps ==
  ASSUME PanelsInductive, switchTab, deeds' = {}
  PROVE  PanelsInductive'
<1>1. PICK t \in Tabs(home) : tab' = t /\ load(key, t)
  BY DEF switchTab
<1>2. /\ here /\ timer' = FALSE /\ home \in {"vacuum", "locks", "jobs"}
      /\ UNCHANGED <<home, here, visit, key, kept, shown, missed, later, row, excused, confirmVars>>
  BY DEF switchTab, pageVars, listVars, rowVars
<1>3. PanelsTypeOK /\ ListInv /\ LaterInv /\ key \in Keys \cup {Unkeyed}
  BY PanelsIs
<1>4. ConfirmTypeOK' /\ row' \in [Box -> Keys \cup {Unkeyed, None}] /\ excused' \subseteq open' /\ RowInv'
  BY <1>2, RowKept
<1>5. asks' \subseteq Ask /\ last' = "pending" /\ NewestInv'
  BY <1>1, <1>2, <1>3, LoadKeeps
<1>6. PanelsTypeOK'
  BY <1>1, <1>2, <1>3, <1>4, <1>5, NoDeeds DEF PanelsTypeOK
<1>7. ListInv' /\ LaterInv'
  BY <1>2, <1>3, <1>5 DEF ListInv, UpToDate, LaterInv, Error
<1> QED
  BY <1>4, <1>5, <1>6, <1>7, NoDeeds DEF PanelsInductive

\* A tab that shows again what is kept shows what is chosen, if it did.
LEMMA RenderTabKeeps ==
  ASSUME PanelsInductive, renderTab, deeds' = {}
  PROVE  PanelsInductive'
<1>1. PICK t \in Tabs(home) \ {tab} :
        tab' = t /\ shown' = IF kept = None THEN shown ELSE [kind |-> home, key |-> kept, view |-> t]
  BY DEF renderTab
<1>2. /\ here /\ home \in DataPages
      /\ UNCHANGED <<home, here, visit, key, asks, last, kept, missed, timer, later, row, excused, confirmVars>>
  BY DEF renderTab, pageVars, askVars, rowVars
<1>3. PanelsTypeOK /\ NewestInv /\ ListInv /\ LaterInv /\ None \notin Keys \cup {Unkeyed}
      /\ home \in Page /\ key \in Keys \cup {Unkeyed}
  BY PanelsIs
<1>4. ConfirmTypeOK' /\ row' \in [Box -> Keys \cup {Unkeyed, None}] /\ excused' \subseteq open' /\ RowInv'
  BY <1>2, RowKept
<1>5. Chosen.kind = home /\ Chosen' = [kind |-> home, key |-> key, view |-> t]
  BY <1>1, <1>2 DEF Chosen, Kind, DataPages
<1>6. home \in Kinds
  BY <1>1, <1>2, <1>3, KindIs DEF Kind, DataPages
<1>7. shown' \in {Blank, Error} \cup [kind : Kinds, key : Keys \cup {Unkeyed}, view : Tabs(home) \cup Keys]
  BY <1>1, <1>3, <1>6 DEF PanelsTypeOK
<1>8. PanelsTypeOK'
  BY <1>1, <1>2, <1>3, <1>4, <1>7, NoDeeds DEF PanelsTypeOK
<1>9. \A a \in asks : AskInv(a)'
  BY <1>2, <1>3, <1>5 DEF NewestInv, AskInv
<1>10. ASSUME UpToDate
       PROVE  shown' = Chosen' /\ kept = key
  <2>1. kept = key /\ kept # None
    BY <1>2, <1>3, <1>10 DEF ListInv
  <2> QED
    BY <1>1, <1>5, <2>1
<1>11. home # "queries"
  BY <1>2 DEF DataPages
<1>12. NewestInv' /\ ListInv' /\ LaterInv'
  BY <1>2, <1>3, <1>9, <1>10, <1>11 DEF NewestInv, ListInv, UpToDate, LaterInv
<1> QED
  BY <1>4, <1>8, <1>12, NoDeeds DEF PanelsInductive

\* A load of what is chosen, or of the repack, now or held back.
LEMMA LoadingKeeps ==
  ASSUME PanelsInductive, deeds' = {}, load(key, tab) \/ (loadRepack(key, tab) /\ home = "vacuum"),
         shown' = (IF here /\ home = "drift" THEN Blank ELSE shown) \/ (shown' = shown /\ home = "vacuum"),
         later' \subseteq later, UNCHANGED <<home, here, visit, key, tab, kept, missed, timer, row, excused, confirmVars>>
  PROVE  PanelsInductive'
<1>1. PanelsTypeOK /\ ListInv /\ LaterInv /\ tab \in Tabs(home) /\ key \in Keys \cup {Unkeyed}
      /\ last \in {"none", "pending", "shown", "failed"}
  BY PanelsIs
<1>2. ConfirmTypeOK' /\ row' \in [Box -> Keys \cup {Unkeyed, None}] /\ excused' \subseteq open' /\ RowInv'
  BY RowKept
<1>3. /\ asks' \subseteq Ask /\ NewestInv' /\ last' \in {"none", "pending", "shown", "failed"}
      /\ here => last' = "pending" \/ (last' = last /\ home = "vacuum")
  <2>1. CASE load(key, tab)
    BY <1>1, <2>1, LoadKeeps
  <2>2. CASE loadRepack(key, tab) /\ home = "vacuum"
    BY <1>1, <2>2, LoadRepackKeeps
  <2> QED
    BY <2>1, <2>2
<1>4. shown' \in {shown, Blank} /\ (home # "drift" => shown' = shown)
  OBVIOUS
<1>5. PanelsTypeOK'
  BY <1>1, <1>2, <1>3, <1>4, NoDeeds DEF PanelsTypeOK
<1>6. ListInv'
  BY <1>1, <1>3, <1>4 DEF ListInv, UpToDate, Chosen, Blank, Error
<1>7. LaterInv'
  BY <1>1 DEF LaterInv
<1> QED
  BY <1>2, <1>3, <1>5, <1>6, <1>7, NoDeeds DEF PanelsInductive

\* A button asks first: the new dialog takes the place of the one on the screen.
LEMMA PressedKeeps ==
  ASSUME PanelsInductive, NEW b \in Box, Pressed(b), deeds' = {}
  PROVE  PanelsInductive'
<1>1. /\ here /\ home \in AskingPages /\ Offered
      /\ b \notin handlers /\ box' = b /\ open' = open \cup {b} /\ handlers' = handlers \cup {b}
      /\ swapped' = swapped \cup ({box} \ {NoBox})
      /\ row' = [row EXCEPT ![b] = shown.key]
      /\ excused' = IF UpToDate THEN excused ELSE excused \cup {b}
      /\ UNCHANGED <<home, here, visit, key, tab, asks, last, kept, shown, missed, timer, later>>
  BY DEF Pressed, showConfirm, pageVars, askVars, listVars
<1>2. PanelsTypeOK /\ NewestInv /\ ListInv /\ LaterInv /\ RowInv /\ ConfirmTypeOK
  BY PanelsIs
<1>3. /\ box \in open \cup {NoBox} /\ handlers \subseteq Box /\ open \subseteq handlers /\ swapped \subseteq open
      /\ NoBox \notin Box /\ b \notin open
  BY <1>1, <1>2, ConfirmAssumption DEF ConfirmTypeOK
<1>4. ConfirmTypeOK'
  BY <1>1, <1>3 DEF ConfirmTypeOK
<1>5. shown.key \in Keys \cup {Unkeyed}
  BY <1>2 DEF PanelsTypeOK, Blank, Error
<1>6. row' \in [Box -> Keys \cup {Unkeyed, None}] /\ row'[b] = shown.key /\ \A c \in Box : c # b => row'[c] = row[c]
  BY <1>1, <1>2, <1>5 DEF PanelsTypeOK
<1>7. excused' \subseteq open'
  BY <1>1, <1>2 DEF PanelsTypeOK
<1>8. PanelsTypeOK'
  BY <1>1, <1>2, <1>4, <1>6, <1>7, NoDeeds DEF PanelsTypeOK
<1>9. ASSUME NEW c \in open'
      PROVE  row'[c] \in Keys \cup {Unkeyed} /\ (c = box' \/ c \in swapped')
  BY <1>1, <1>2, <1>3, <1>5, <1>6 DEF RowInv
<1>10. ASSUME home \in DbPages, NEW c \in open' \ excused'
       PROVE  row'[c] = key
  <2>1. CASE c = b
    <3>1. UpToDate
      BY <1>1, <1>10, <2>1
    <3>2. shown \in {Error, Chosen}
      BY <1>1, <1>2, <3>1 DEF ListInv
    <3>3. shown # Error
      BY <1>1, <1>2, <1>10 DEF Offered, ListInv, DbPages
    <3> QED
      BY <1>6, <2>1, <3>2, <3>3 DEF Chosen
  <2>2. CASE c # b
    BY <1>1, <1>2, <1>3, <1>6, <1>10, <2>2 DEF RowInv
  <2> QED
    BY <2>1, <2>2
<1>11. RowInv'
  BY <1>1, <1>9, <1>10 DEF RowInv
<1>12. \A a \in asks : AskInv(a)'
  BY <1>1, <1>2 DEF NewestInv, AskInv, Chosen
<1>13. NewestInv' /\ ListInv' /\ LaterInv'
  BY <1>1, <1>2, <1>12 DEF NewestInv, ListInv, UpToDate, LaterInv, Chosen, Error
<1> QED
  BY <1>8, <1>11, <1>13, NoDeeds DEF PanelsInductive

\* A button acts at once, on the database that is chosen.
LEMMA ActKeeps ==
  ASSUME PanelsInductive, ActAtOnce
  PROVE  PanelsInductive'
<1>1. PICK d : d = [as |-> shown.key, on |-> IF home \in DbPages THEN key ELSE shown.key,
                    excused |-> ~UpToDate, agreed |-> TRUE]
  OBVIOUS
<1>2. /\ here /\ home \in ActingPages /\ Offered /\ deeds' = {d} /\ later' = later \cup {"load"}
      /\ UNCHANGED <<home, here, visit, key, tab, asks, last, kept, shown, missed, timer, row, excused, confirmVars>>
  BY <1>1 DEF ActAtOnce, pageVars, askVars, listVars, rowVars
<1>3. PanelsTypeOK /\ NewestInv /\ ListInv /\ LaterInv /\ key \in Keys \cup {Unkeyed}
  BY PanelsIs
<1>4. ConfirmTypeOK' /\ row' \in [Box -> Keys \cup {Unkeyed, None}] /\ excused' \subseteq open' /\ RowInv'
  BY <1>2, RowKept
<1>5. shown.key \in Keys \cup {Unkeyed}
  BY <1>3 DEF PanelsTypeOK, Blank, Error
<1>6. d \in [as : Keys \cup {Unkeyed}, on : Keys \cup {Unkeyed}, excused : BOOLEAN, agreed : BOOLEAN]
  <2>1. (~UpToDate) \in BOOLEAN
    BY Zenon
  <2> QED
    BY <1>1, <1>3, <1>5, <2>1
<1>7. PanelsTypeOK'
  BY <1>2, <1>3, <1>4, <1>6 DEF PanelsTypeOK
<1>8. d.on = d.as \/ UpToDate = FALSE \/ (UpToDate /\ home \in DbPages)
  BY <1>1
<1>9. ASSUME UpToDate, home \in DbPages
      PROVE  shown.key = key
  <2>1. shown \in {Error, Chosen}
    BY <1>2, <1>3, <1>9 DEF ListInv
  <2>2. shown # Error
    BY <1>2, <1>9 DEF Offered, ActingPages, DbPages
  <2> QED
    BY <2>1, <2>2 DEF Chosen
<1>10. ~UpToDate => d.excused
  BY <1>1
<1>11. UpToDate => d.on = d.as
  BY <1>1, <1>9
<1>12. d.agreed
  BY <1>1
<1>13. DeedsExplained'
  BY <1>2, <1>10, <1>11, <1>12 DEF DeedsExplained, ActsAsListed, DoneWasAgreed
<1>14. \A a \in asks : AskInv(a)'
  BY <1>2, <1>3 DEF NewestInv, AskInv, Chosen
<1>15. NewestInv' /\ ListInv' /\ LaterInv'
  BY <1>2, <1>3, <1>14 DEF NewestInv, ListInv, UpToDate, LaterInv, Chosen, Error
<1> QED
  BY <1>4, <1>7, <1>13, <1>15 DEF PanelsInductive

\* The dialogs in gone are settled, those in bs of them with a yes.
LEMMA CarriedKeeps ==
  ASSUME PanelsInductive, NEW gone \in SUBSET open, NEW bs \in SUBSET gone, CarryOut(bs, gone), Settled(gone),
         \A b \in open \ gone : b # box, gone = {box} \/ gone = open,
         box' = NoBox, handlers' \subseteq handlers, open \ gone \subseteq handlers'
  PROVE  PanelsInductive'
<1> DEFINE deed(b) == [as |-> row[b], on |-> Target(b), excused |-> b \in excused,
                       agreed |-> b = box \/ b \in swapped]
<1>1. /\ deeds' = {deed(b) : b \in bs}
      /\ later' = later \/ \E what \in Afterwards : later' = later \cup {what}
      /\ row' = [b \in Box |-> IF b \in gone THEN None ELSE row[b]]
      /\ excused' = excused \ gone
      /\ open' = open \ gone /\ swapped' = swapped \ gone
      /\ UNCHANGED <<home, here, visit, key, tab, asks, last, kept, shown, missed, timer>>
  BY DEF CarryOut, Settled, pageVars, askVars, listVars
<1>2. PanelsTypeOK /\ NewestInv /\ ListInv /\ LaterInv /\ RowInv /\ ConfirmTypeOK /\ key \in Keys \cup {Unkeyed}
  BY PanelsIs
<1>3. ConfirmTypeOK' /\ open \subseteq Box
  BY <1>1, <1>2 DEF ConfirmTypeOK
<1>4. ASSUME NEW b \in bs
      PROVE  /\ deed(b) \in [as : Keys \cup {Unkeyed}, on : Keys \cup {Unkeyed}, excused : BOOLEAN, agreed : BOOLEAN]
             /\ deed(b).on = deed(b).as \/ deed(b).excused
             /\ deed(b).agreed
  <2>1. b \in open /\ row[b] \in Keys \cup {Unkeyed} /\ (b = box \/ b \in swapped)
    BY <1>2 DEF RowInv
  <2>2. Target(b) \in Keys \cup {Unkeyed}
    BY <1>2, <2>1 DEF Target
  <2>3. (b \in excused) \in BOOLEAN
    OBVIOUS
  <2>5. (b = box \/ b \in swapped) \in BOOLEAN
    BY Zenon
  <2>4. b \notin excused => Target(b) = row[b]
    BY <1>2, <2>1 DEF Target, RowInv
  <2> QED
    BY <2>1, <2>2, <2>3, <2>4, <2>5
<1> HIDE DEF deed
<1>5. /\ deeds' \subseteq [as : Keys \cup {Unkeyed}, on : Keys \cup {Unkeyed}, excused : BOOLEAN, agreed : BOOLEAN]
      /\ DeedsExplained'
  BY <1>1, <1>4 DEF DeedsExplained, ActsAsListed, DoneWasAgreed
<1>6. row' \in [Box -> Keys \cup {Unkeyed, None}]
  BY <1>1, <1>2 DEF PanelsTypeOK
<1>7. later' \subseteq {"load", "loadRepack"} /\ (home # "vacuum" => "loadRepack" \notin later')
  <2>1. later \subseteq {"load", "loadRepack"} /\ (home # "vacuum" => "loadRepack" \notin later)
    BY <1>2 DEF PanelsTypeOK, LaterInv
  <2>2. \A what \in Afterwards : what = "load" \/ (what = "loadRepack" /\ home = "vacuum")
    BY DEF Afterwards
  <2> QED
    BY <1>1, <2>1, <2>2
<1>8. excused' \subseteq open'
  BY <1>1, <1>2 DEF PanelsTypeOK
<1>9. PanelsTypeOK'
  BY <1>1, <1>2, <1>3, <1>5, <1>6, <1>7, <1>8 DEF PanelsTypeOK
<1>10. RowInv'
  <2>1. \A b \in open' : b \in open /\ b \notin gone /\ row'[b] = row[b] /\ b # box
    BY <1>1, <1>3
  <2>2. \A b \in open' : row'[b] \in Keys \cup {Unkeyed} /\ b \in swapped'
    BY <1>1, <1>2, <2>1 DEF RowInv
  <2>3. home \in DbPages => \A b \in open' \ excused' : row'[b] = key
    BY <1>1, <1>2, <2>1 DEF RowInv
  <2> QED
    BY <1>1, <2>2, <2>3 DEF RowInv
<1>11. \A a \in asks : AskInv(a)'
  BY <1>1, <1>2 DEF NewestInv, AskInv, Chosen
<1>12. NewestInv' /\ ListInv'
  BY <1>1, <1>2, <1>11 DEF NewestInv, ListInv, UpToDate, Chosen, Error
<1>13. LaterInv'
  BY <1>1, <1>2, <1>7 DEF LaterInv
<1> QED
  BY <1>5, <1>9, <1>10, <1>12, <1>13 DEF PanelsInductive

LEMMA AnswerBoxKeeps ==
  ASSUME PanelsInductive, AnswerBox
  PROVE  PanelsInductive'
<1>1. box \in open \cup {NoBox} /\ open \subseteq handlers /\ RowInv
  BY PanelsIs DEF ConfirmTypeOK
<1>2. ASSUME NEW bs \in SUBSET {box}, Press, CarryOut(bs, {box})
      PROVE  PanelsInductive'
  <2>1. box # NoBox /\ Settled({box}) /\ box' = NoBox /\ handlers' = handlers
    BY <1>2 DEF Press
  <2>2. {box} \in SUBSET open
    BY <1>1, <2>1
  <2> QED
    BY <1>1, <1>2, <2>1, <2>2, CarriedKeeps
<1>3. ASSUME NEW bs \in SUBSET open, Key, CarryOut(bs, open)
      PROVE  PanelsInductive'
  <2>1. Settled(handlers) /\ box' = NoBox /\ handlers' = {}
    BY <1>3 DEF Key
  <2>2. swapped \subseteq open
    BY PanelsIs DEF ConfirmTypeOK
  <2>3. Settled(open)
    BY <1>1, <2>1, <2>2 DEF Settled
  <2> QED
    BY <1>1, <1>3, <2>1, <2>3, CarriedKeeps
<1> QED
  BY <1>2, <1>3 DEF AnswerBox

\* One request at most is the newest, what is shown is its answer or is
\* accounted for, and a dialog is about what its button was pressed on.
LEMMA PanelsStep == PanelsInductive /\ [PanelsNext]_panelVars => PanelsInductive'
<1> SUFFICES ASSUME PanelsInductive, [PanelsNext]_panelVars
             PROVE  PanelsInductive'
  OBVIOUS
<1>1. ASSUME User, deeds' = {}
      PROVE  PanelsInductive'
  <2>1. CASE Open \/ Leave \/ ChooseElsewhere \/ Choose \/ ChooseToCompare \/ switchTab \/ renderTab
    BY <1>1, <2>1, OpenKeeps, LeaveKeeps, ElsewhereKeeps, ChooseKeeps, CompareKeeps, SwitchKeeps, RenderTabKeeps
  <2>2. CASE Refresh
    BY <1>1, <2>2, LoadingKeeps DEF Refresh, Comparing, pageVars, rowVars
  <2>3. CASE \E b \in Box : Pressed(b)
    BY <1>1, <2>3, PressedKeeps
  <2> QED
    BY <1>1, <2>1, <2>2, <2>3 DEF User
<1>2. ASSUME Server, deeds' = {}
      PROVE  PanelsInductive'
  BY <1>2, AnsweredKeeps, FailedKeeps DEF Server
<1>3. ASSUME RunLater, deeds' = {}
      PROVE  PanelsInductive'
  <2>1. PICK what \in later :
          /\ later' = later \ {what}
          /\ IF what = "load" THEN load(key, tab) ELSE loadRepack(key, tab)
    BY <1>3 DEF RunLater
  <2>2. /\ shown' = (IF here /\ home = "drift" THEN Blank ELSE shown)
        /\ UNCHANGED <<home, here, visit, key, tab, kept, missed, timer, row, excused, confirmVars>>
    BY <1>3 DEF RunLater, Comparing, pageVars, rowVars
  <2>3. what = "load" \/ home = "vacuum"
    BY <2>1, PanelsIs DEF LaterInv, PanelsTypeOK
  <2> QED
    BY <1>3, <2>1, <2>2, <2>3, LoadingKeeps
<1>4. ASSUME Poll, deeds' = {}
      PROVE  PanelsInductive'
  <2>1. home = "vacuum"
    BY <1>4, PanelsIs DEF Poll, LaterInv
  <2>2. /\ loadRepack(key, tab)
        /\ UNCHANGED <<home, here, visit, key, tab, kept, shown, missed, timer, later, row, excused, confirmVars>>
    BY <1>4 DEF Poll, pageVars, listVars, rowVars
  <2> QED
    BY <1>4, <2>1, <2>2, LoadingKeeps
<1>5. CASE ActAtOnce
  BY <1>5, ActKeeps
<1>6. CASE AnswerBox
  BY <1>6, AnswerBoxKeeps
<1>7. CASE UNCHANGED panelVars
  <2>1. /\ UNCHANGED <<home, here, visit, key, tab, asks, last, kept, shown, missed, timer, later, row, excused,
                       deeds, box, open, handlers, swapped>>
    BY <1>7 DEF panelVars, pageVars, askVars, listVars, rowVars, confirmVars
  <2>2. /\ PanelsTypeOK /\ NewestInv /\ ListInv /\ LaterInv /\ RowInv /\ DeedsExplained
    BY DEF PanelsInductive
  <2>3. PanelsTypeOK'
    BY <2>1, <2>2 DEF PanelsTypeOK, ConfirmTypeOK
  <2>4. NewestInv' /\ ListInv' /\ LaterInv' /\ RowInv'
    BY <2>1, <2>2 DEF NewestInv, AskInv, ListInv, UpToDate, LaterInv, RowInv, Chosen, Error
  <2>5. DeedsExplained'
    BY <2>1, <2>2 DEF DeedsExplained, ActsAsListed, DoneWasAgreed
  <2> QED
    BY <2>3, <2>4, <2>5 DEF PanelsInductive
<1> QED
  BY <1>1, <1>2, <1>3, <1>4, <1>5, <1>6, <1>7 DEF PanelsNext

LEMMA PanelsHold == PanelsSpec => []PanelsInductive
BY PanelsStart, PanelsStep, PTL DEF PanelsSpec

\* A page shows what is chosen on it, or its newest request was not answered,
\* or failed, or another answer came after it (the load functions of the pages).
THEOREM ListsTrue == PanelsSpec => [](PanelsTypeOK /\ ShownExplained)
<1>1. ASSUME PanelsInductive
      PROVE  PanelsTypeOK /\ ShownExplained
  <2>1. ASSUME here, shown \notin {Error, Chosen}, last \notin {"none", "pending", "failed"}, missed = FALSE
        PROVE  FALSE
    BY <1>1, <2>1, PanelsIs DEF ListInv, UpToDate
  <2>2. missed = FALSE \/ missed = TRUE
    BY <1>1, PanelsIs
  <2> QED
    BY <1>1, <2>1, <2>2 DEF ShownExplained, PanelsInductive
<1> QED
  BY <1>1, PanelsHold, PTL

\* An action is carried out on what its row was listed under, with the user's
\* yes to its own dialog, but for the cases named (app.js, showConfirm).
THEOREM DeedsTrue == PanelsSpec => []DeedsExplained
<1>1. PanelsInductive => DeedsExplained
  BY DEF PanelsInductive
<1> QED
  BY <1>1, PanelsHold, PTL

-----------------------------------------------------------------------------
(* Sums over finite sets                                                   *)

One(s) == CHOOSE x \in s : TRUE

\* g adds up f over the subsets of I as SumFunctionOnSet does.
Adds(f, g, I) ==
  g = [s \in SUBSET I |-> IF s = {} THEN 0 ELSE f[One(s)] + g[s \ {One(s)}]]

\* A set of subsets of a finite set has a smallest member.
LEMMA Smallest ==
  ASSUME NEW I, IsFiniteSet(I), NEW Bad \in SUBSET (SUBSET I), Bad # {}
  PROVE  \E s \in Bad : \A t \in Bad : ~ (t \subseteq s /\ t # s)
<1>1. Bad \subseteq FiniteSubsetsOf(I)
  BY FS_Subset DEF FiniteSubsetsOf
<1>2. PICK s \in Bad : \A t \in Bad : <<t, s>> \notin StrictSubsetOrdering(I)
  BY <1>1, FS_StrictSubsetOrderingWellFounded, WFMin
<1>3. ASSUME NEW t \in Bad, t \subseteq s, t # s PROVE FALSE
  <2>1. <<t, s>> \in StrictSubsetOrdering(I)
    BY <1>3 DEF StrictSubsetOrdering
  <2> QED
    BY <1>2, <2>1
<1> QED
  BY <1>3

LEMMA OneIs ==
  ASSUME NEW S, S # {}
  PROVE  One(S) \in S
  BY DEF One

\* The sum over a part of I does not depend on I.
LEMMA SumUnique ==
  ASSUME NEW f, NEW I, IsFiniteSet(I), NEW J \in SUBSET I, NEW g, NEW h, Adds(f, g, I), Adds(f, h, J)
  PROVE  g[J] = h[J]
<1>1. /\ \A s \in SUBSET J : g[s] = IF s = {} THEN 0 ELSE f[One(s)] + g[s \ {One(s)}]
      /\ \A s \in SUBSET J : h[s] = IF s = {} THEN 0 ELSE f[One(s)] + h[s \ {One(s)}]
  BY DEF Adds
<1> DEFINE Bad == {s \in SUBSET J : g[s] # h[s]}
<1> SUFFICES ASSUME Bad # {} PROVE FALSE
  OBVIOUS
<1>2. IsFiniteSet(J) /\ Bad \in SUBSET (SUBSET J)
  BY FS_Subset
<1>3. PICK s \in Bad : \A t \in Bad : ~ (t \subseteq s /\ t # s)
  <2> HIDE DEF Bad
  <2> QED
    BY <1>2, Smallest
<1>4. s # {} /\ g[s] # h[s]
  BY <1>1, <1>3
<1>5. s \ {One(s)} \in SUBSET J /\ s \ {One(s)} # s
  BY <1>3, <1>4, OneIs
<1>6. s \ {One(s)} \notin Bad
  <2> HIDE DEF Bad
  <2> QED
    BY <1>3, <1>5
<1>7. g[s \ {One(s)}] = h[s \ {One(s)}]
  BY <1>5, <1>6
<1> QED
  BY <1>1, <1>3, <1>4, <1>7

LEMMA SumIs ==
  ASSUME NEW f, NEW I
  PROVE  SumFunctionOnSet(f, I) = (CHOOSE g : Adds(f, g, I))[I]
  BY DEF SumFunctionOnSet, FoldFunctionOnSet, MapThenFoldSet, Adds, One

\* Where SumFunctionOnSet adds up, it does so by two equations.
LEMMA SumStep ==
  ASSUME NEW f, NEW I, IsFiniteSet(I), NEW s \in SUBSET I,
         \A t \in SUBSET s : Adds(f, CHOOSE g : Adds(f, g, t), t)
  PROVE  /\ s = {} => SumFunctionOnSet(f, s) = 0
         /\ s # {} => SumFunctionOnSet(f, s) = f[One(s)] + SumFunctionOnSet(f, s \ {One(s)})
<1> DEFINE r == s \ {One(s)}
           g == CHOOSE k : Adds(f, k, s)
           h == CHOOSE k : Adds(f, k, r)
<1>1. Adds(f, g, s) /\ Adds(f, h, r) /\ r \in SUBSET s /\ IsFiniteSet(s)
  BY FS_Subset
<1>2. SumFunctionOnSet(f, s) = g[s] /\ SumFunctionOnSet(f, r) = h[r]
  BY SumIs
<1> HIDE DEF g, h
<1>3. g[s] = IF s = {} THEN 0 ELSE f[One(s)] + g[r]
  BY <1>1 DEF Adds
<1>4. g[r] = h[r]
  BY <1>1, SumUnique
<1> QED
  BY <1>2, <1>3, <1>4

LEMMA SumExists ==
  ASSUME NEW f, NEW I, IsFiniteSet(I)
  PROVE  Adds(f, CHOOSE g : Adds(f, g, I), I)
<1> DEFINE Bad == {s \in SUBSET I : ~ Adds(f, CHOOSE g : Adds(f, g, s), s)}
<1> SUFFICES ASSUME Bad # {} PROVE FALSE
  OBVIOUS
<1>1. PICK J \in Bad : \A t \in Bad : ~ (t \subseteq J /\ t # J)
  <2>1. Bad \in SUBSET (SUBSET I)
    OBVIOUS
  <2> HIDE DEF Bad
  <2> QED
    BY <2>1, Smallest
<1>2. \A t \in SUBSET J : t # J => Adds(f, CHOOSE g : Adds(f, g, t), t)
  BY <1>1
<1> DEFINE h == [s \in SUBSET J |-> IF s = {} THEN 0 ELSE f[One(s)] + SumFunctionOnSet(f, s \ {One(s)})]
<1>3. \A s \in SUBSET J : h[s] = IF s = {} THEN 0 ELSE f[One(s)] + SumFunctionOnSet(f, s \ {One(s)})
  OBVIOUS
<1>4. h = [s \in SUBSET J |-> h[s]]
  OBVIOUS
<1> HIDE DEF h
<1>5. ASSUME NEW s \in SUBSET J, s # J PROVE SumFunctionOnSet(f, s) = h[s]
  <2>1. \A t \in SUBSET s : Adds(f, CHOOSE g : Adds(f, g, t), t)
    BY <1>2, <1>5
  <2>2. s \in SUBSET I
    BY <1>1
  <2> QED
    BY <1>3, <2>1, <2>2, SumStep
<1>6. ASSUME NEW s \in SUBSET J, s # {} PROVE h[s] = f[One(s)] + h[s \ {One(s)}]
  <2>1. s \ {One(s)} \in SUBSET J /\ s \ {One(s)} # J
    BY <1>6, OneIs
  <2> QED
    BY <1>3, <1>5, <1>6, <2>1
<1>7. Adds(f, h, J)
  BY <1>3, <1>4, <1>6 DEF Adds
<1> QED
  BY <1>1, <1>7

\* What SumFunctionOnSet is, in two equations.
LEMMA SumRec ==
  ASSUME NEW f, NEW I, IsFiniteSet(I)
  PROVE  /\ I = {} => SumFunctionOnSet(f, I) = 0
         /\ I # {} => SumFunctionOnSet(f, I) = f[One(I)] + SumFunctionOnSet(f, I \ {One(I)})
<1>1. \A t \in SUBSET I : Adds(f, CHOOSE g : Adds(f, g, t), t)
  BY SumExists, FS_Subset
<1> QED
  BY <1>1, SumStep

LEMMA SumEmpty == \A f : SumFunctionOnSet(f, {}) = 0
  BY SumRec, FS_EmptySet

LEMMA SumInt ==
  ASSUME NEW f, NEW I, IsFiniteSet(I), \A x \in I : f[x] \in Int
  PROVE  SumFunctionOnSet(f, I) \in Int
<1> DEFINE Bad == {s \in SUBSET I : SumFunctionOnSet(f, s) \notin Int}
<1> SUFFICES ASSUME Bad # {} PROVE FALSE
  OBVIOUS
<1>1. PICK J \in Bad : \A t \in Bad : ~ (t \subseteq J /\ t # J)
  <2>1. Bad \in SUBSET (SUBSET I)
    OBVIOUS
  <2> HIDE DEF Bad
  <2> QED
    BY <2>1, Smallest
<1>2. IsFiniteSet(J) /\ J \in SUBSET I
  BY FS_Subset
<1>3. ASSUME J = {} PROVE FALSE
  <2>1. SumFunctionOnSet(f, J) = 0
    BY <1>3, SumEmpty
  <2> QED
    BY <1>1, <2>1
<1>4. One(J) \in J /\ SumFunctionOnSet(f, J \ {One(J)}) \in Int
  BY <1>1, <1>2, <1>3, OneIs
<1>5. SumFunctionOnSet(f, J) = f[One(J)] + SumFunctionOnSet(f, J \ {One(J)}) /\ f[One(J)] \in Int
  BY <1>2, <1>3, <1>4, SumRec
<1> QED
  BY <1>1, <1>4, <1>5

\* Any one number may be taken out of a sum.
LEMMA SumRemove ==
  ASSUME NEW f, NEW I, IsFiniteSet(I), \A x \in I : f[x] \in Int, NEW x \in I
  PROVE  SumFunctionOnSet(f, I) = f[x] + SumFunctionOnSet(f, I \ {x})
<1> DEFINE Bad == {s \in SUBSET I : \E y \in s : SumFunctionOnSet(f, s) # f[y] + SumFunctionOnSet(f, s \ {y})}
<1> SUFFICES ASSUME Bad # {} PROVE FALSE
  OBVIOUS
<1>1. PICK J \in Bad : \A t \in Bad : ~ (t \subseteq J /\ t # J)
  <2>1. Bad \in SUBSET (SUBSET I)
    OBVIOUS
  <2> HIDE DEF Bad
  <2> QED
    BY <2>1, Smallest
<1>2. IsFiniteSet(J) /\ J \in SUBSET I
  BY FS_Subset
<1>3. PICK y \in J : SumFunctionOnSet(f, J) # f[y] + SumFunctionOnSet(f, J \ {y})
  BY <1>1
<1> DEFINE o == One(J)
           r == J \ {o}
           q == J \ {y}
           rq == r \ {y}
<1>4. o \in J /\ SumFunctionOnSet(f, J) = f[o] + SumFunctionOnSet(f, r)
  BY <1>2, OneIs, SumRec
<1>5. o # y
  BY <1>3, <1>4
<1> HIDE DEF o
<1>6. r \in SUBSET I /\ q \in SUBSET I /\ r \subseteq J /\ q \subseteq J /\ r # J /\ q # J /\ y \in r /\ o \in q /\ rq = q \ {o}
  BY <1>2, <1>4, <1>5
<1>7. r \notin Bad /\ q \notin Bad
  <2> HIDE DEF Bad, r, q
  <2> QED
    BY <1>1, <1>6
<1> HIDE DEF r, q, rq
<1>8. SumFunctionOnSet(f, r) = f[y] + SumFunctionOnSet(f, r \ {y})
  BY <1>6, <1>7
<1>9. SumFunctionOnSet(f, q) = f[o] + SumFunctionOnSet(f, q \ {o})
  BY <1>6, <1>7
<1>10. SumFunctionOnSet(f, rq) \in Int /\ f[y] \in Int /\ f[o] \in Int
  <2>1. IsFiniteSet(rq) /\ \A z \in rq : f[z] \in Int
    BY <1>2, FS_Subset DEF r, rq
  <2> QED
    BY <1>2, <1>4, <2>1, SumInt
<1>11. SumFunctionOnSet(f, r) = f[y] + SumFunctionOnSet(f, rq) /\ SumFunctionOnSet(f, q) = f[o] + SumFunctionOnSet(f, rq)
  BY <1>6, <1>8, <1>9 DEF rq
<1> QED
  BY <1>3, <1>4, <1>10, <1>11 DEF q

\* What holds of the numbers one by one holds of their sums.
LEMMA SumCompare ==
  ASSUME NEW f, NEW g, NEW h, NEW k, NEW I, IsFiniteSet(I),
         \A x \in I : f[x] \in Int /\ g[x] \in Int /\ h[x] \in Int /\ k[x] \in Int,
         \A x \in I : f[x] + g[x] <= h[x] + k[x]
  PROVE  SumFunctionOnSet(f, I) + SumFunctionOnSet(g, I) <= SumFunctionOnSet(h, I) + SumFunctionOnSet(k, I)
<1> DEFINE Holds(s) == SumFunctionOnSet(f, s) + SumFunctionOnSet(g, s) <= SumFunctionOnSet(h, s) + SumFunctionOnSet(k, s)
           Bad == {s \in SUBSET I : ~ Holds(s)}
<1> SUFFICES ASSUME Bad # {} PROVE FALSE
  OBVIOUS
<1>1. PICK J \in Bad : \A t \in Bad : ~ (t \subseteq J /\ t # J)
  <2>1. Bad \in SUBSET (SUBSET I)
    OBVIOUS
  <2> HIDE DEF Bad
  <2> QED
    BY <2>1, Smallest
<1>2. IsFiniteSet(J) /\ J \in SUBSET I
  BY FS_Subset
<1>3. ASSUME J = {} PROVE FALSE
  <2>1. /\ SumFunctionOnSet(f, J) = 0 /\ SumFunctionOnSet(g, J) = 0
        /\ SumFunctionOnSet(h, J) = 0 /\ SumFunctionOnSet(k, J) = 0
    BY <1>3, SumEmpty
  <2> QED
    BY <1>1, <2>1
<1> DEFINE o == One(J)
           r == J \ {o}
<1>4. o \in J
  BY <1>3, OneIs
<1>5. /\ SumFunctionOnSet(f, J) = f[o] + SumFunctionOnSet(f, r)
      /\ SumFunctionOnSet(g, J) = g[o] + SumFunctionOnSet(g, r)
      /\ SumFunctionOnSet(h, J) = h[o] + SumFunctionOnSet(h, r)
      /\ SumFunctionOnSet(k, J) = k[o] + SumFunctionOnSet(k, r)
  BY <1>2, <1>3, SumRec
<1> HIDE DEF o
<1>6. r \in SUBSET I /\ r \subseteq J /\ r # J /\ IsFiniteSet(r)
  BY <1>2, <1>4, FS_Subset
<1>7. Holds(r)
  <2>1. r \notin Bad
    <3> HIDE DEF Bad, r
    <3> QED
      BY <1>1, <1>6
  <2> QED
    BY <1>6, <2>1
<1> HIDE DEF r
<1>8. /\ SumFunctionOnSet(f, r) \in Int /\ SumFunctionOnSet(g, r) \in Int
      /\ SumFunctionOnSet(h, r) \in Int /\ SumFunctionOnSet(k, r) \in Int
  BY <1>6, SumInt
<1>9. f[o] \in Int /\ g[o] \in Int /\ h[o] \in Int /\ k[o] \in Int /\ f[o] + g[o] <= h[o] + k[o]
  BY <1>2, <1>4
<1>10. Holds(J)
  BY <1>5, <1>7, <1>8, <1>9
<1> QED
  BY <1>1, <1>10

LEMMA SumSame ==
  ASSUME NEW f, NEW g, NEW I, IsFiniteSet(I), \A x \in I : f[x] \in Int /\ f[x] = g[x]
  PROVE  SumFunctionOnSet(f, I) = SumFunctionOnSet(g, I)
<1>1. SumFunctionOnSet(f, I) + SumFunctionOnSet(f, I) <= SumFunctionOnSet(f, I) + SumFunctionOnSet(g, I)
  BY SumCompare
<1>2. SumFunctionOnSet(g, I) + SumFunctionOnSet(g, I) <= SumFunctionOnSet(f, I) + SumFunctionOnSet(g, I)
  BY SumCompare
<1>3. SumFunctionOnSet(f, I) \in Int /\ SumFunctionOnSet(g, I) \in Int
  BY SumInt
<1> QED
  BY <1>1, <1>2, <1>3

LEMMA SumNat ==
  ASSUME NEW f, NEW I, IsFiniteSet(I), \A x \in I : f[x] \in Nat
  PROVE  SumFunctionOnSet(f, I) \in Nat
<1> DEFINE Bad == {s \in SUBSET I : SumFunctionOnSet(f, s) \notin Nat}
<1> SUFFICES ASSUME Bad # {} PROVE FALSE
  OBVIOUS
<1>1. PICK J \in Bad : \A t \in Bad : ~ (t \subseteq J /\ t # J)
  <2>1. Bad \in SUBSET (SUBSET I)
    OBVIOUS
  <2> HIDE DEF Bad
  <2> QED
    BY <2>1, Smallest
<1>2. IsFiniteSet(J) /\ J \in SUBSET I
  BY FS_Subset
<1>3. ASSUME J = {} PROVE FALSE
  <2>1. SumFunctionOnSet(f, J) = 0
    BY <1>3, SumEmpty
  <2> QED
    BY <1>1, <2>1
<1>4. One(J) \in J /\ SumFunctionOnSet(f, J \ {One(J)}) \in Nat
  BY <1>1, <1>2, <1>3, OneIs
<1>5. SumFunctionOnSet(f, J) = f[One(J)] + SumFunctionOnSet(f, J \ {One(J)}) /\ f[One(J)] \in Nat
  BY <1>2, <1>3, <1>4, SumRec
<1> QED
  BY <1>1, <1>4, <1>5

LEMMA SumZero ==
  ASSUME NEW f, NEW I, IsFiniteSet(I), \A x \in I : f[x] = 0
  PROVE  SumFunctionOnSet(f, I) = 0
<1> DEFINE Bad == {s \in SUBSET I : SumFunctionOnSet(f, s) # 0}
<1> SUFFICES ASSUME Bad # {} PROVE FALSE
  OBVIOUS
<1>4. PICK J \in Bad : \A t \in Bad : ~ (t \subseteq J /\ t # J)
  <2>1. Bad \in SUBSET (SUBSET I)
    OBVIOUS
  <2> HIDE DEF Bad
  <2> QED
    BY <2>1, Smallest
<1>5. IsFiniteSet(J) /\ J # {} /\ J \in SUBSET I
  BY <1>4, FS_Subset, SumEmpty
<1>6. One(J) \in J /\ SumFunctionOnSet(f, J \ {One(J)}) = 0
  BY <1>4, <1>5, OneIs
<1>7. SumFunctionOnSet(f, J) = f[One(J)] + SumFunctionOnSet(f, J \ {One(J)}) /\ f[One(J)] = 0
  BY <1>5, <1>6, SumRec
<1> QED
  BY <1>4, <1>6, <1>7

LEMMA SumMonotone ==
  ASSUME NEW f, NEW g, NEW I, IsFiniteSet(I), \A x \in I : f[x] \in Int /\ g[x] \in Int /\ f[x] <= g[x]
  PROVE  SumFunctionOnSet(f, I) <= SumFunctionOnSet(g, I)
<1> DEFINE z == [x \in I |-> 0]
<1>1. \A x \in I : z[x] = 0 /\ z[x] \in Int /\ f[x] + z[x] <= g[x] + z[x]
  OBVIOUS
<1> HIDE DEF z
<1>2. SumFunctionOnSet(f, I) + SumFunctionOnSet(z, I) <= SumFunctionOnSet(g, I) + SumFunctionOnSet(z, I)
  BY <1>1, SumCompare
<1>3. SumFunctionOnSet(z, I) = 0 /\ SumFunctionOnSet(f, I) \in Int /\ SumFunctionOnSet(g, I) \in Int
  BY <1>1, SumZero, SumInt
<1> QED
  BY <1>2, <1>3

LEMMA SumOfTwo ==
  ASSUME NEW f, NEW g, NEW h, NEW I, IsFiniteSet(I), \A x \in I : f[x] \in Int /\ g[x] \in Int /\ h[x] \in Int
  PROVE  /\ (\A x \in I : f[x] + g[x] <= h[x]) =>
              SumFunctionOnSet(f, I) + SumFunctionOnSet(g, I) <= SumFunctionOnSet(h, I)
         /\ (\A x \in I : f[x] + g[x] = h[x]) =>
              SumFunctionOnSet(f, I) + SumFunctionOnSet(g, I) = SumFunctionOnSet(h, I)
<1> DEFINE z == [x \in I |-> 0]
<1>1. \A x \in I : z[x] = 0 /\ z[x] \in Int
  OBVIOUS
<1> HIDE DEF z
<1>2. /\ SumFunctionOnSet(z, I) = 0 /\ SumFunctionOnSet(f, I) \in Int
      /\ SumFunctionOnSet(g, I) \in Int /\ SumFunctionOnSet(h, I) \in Int
  BY <1>1, SumZero, SumInt
<1>3. ASSUME \A x \in I : f[x] + g[x] <= h[x]
      PROVE  SumFunctionOnSet(f, I) + SumFunctionOnSet(g, I) <= SumFunctionOnSet(h, I)
  <2>1. \A x \in I : f[x] + g[x] <= h[x] + z[x]
    BY <1>1, <1>3
  <2>2. SumFunctionOnSet(f, I) + SumFunctionOnSet(g, I) <= SumFunctionOnSet(h, I) + SumFunctionOnSet(z, I)
    BY <1>1, <2>1, SumCompare
  <2> QED
    BY <1>2, <2>2
<1>4. ASSUME \A x \in I : f[x] + g[x] = h[x]
      PROVE  SumFunctionOnSet(f, I) + SumFunctionOnSet(g, I) = SumFunctionOnSet(h, I)
  <2>1. \A x \in I : f[x] + g[x] <= h[x] /\ h[x] + z[x] <= f[x] + g[x]
    BY <1>1, <1>4
  <2>2. SumFunctionOnSet(h, I) + SumFunctionOnSet(z, I) <= SumFunctionOnSet(f, I) + SumFunctionOnSet(g, I)
    BY <1>1, <2>1, SumCompare
  <2> QED
    BY <1>2, <1>3, <2>1, <2>2
<1> QED
  BY <1>3, <1>4

-----------------------------------------------------------------------------
(* Sums of sequences                                                       *)

LEMMA Interval ==
  ASSUME NEW a \in Int, NEW b \in Int
  PROVE  /\ IsFiniteSet(a .. b) /\ (a .. b) \ {b} = a .. b - 1 /\ (a .. b) \ {a} = a + 1 .. b
         /\ a <= b => a \in a .. b /\ b \in a .. b
<1>1. IsFiniteSet(a .. b)
  BY FS_Interval
<1>2. (a .. b) \ {b} = a .. b - 1
  OBVIOUS
<1>3. (a .. b) \ {a} = a + 1 .. b
  OBVIOUS
<1> QED
  BY <1>1, <1>2, <1>3

LEMMA SumEnds ==
  ASSUME NEW f, NEW a \in Int, NEW b \in Int, a <= b, \A i \in a .. b : f[i] \in Int
  PROVE  /\ SumFunctionOnSet(f, a .. b) = f[b] + SumFunctionOnSet(f, a .. b - 1)
         /\ SumFunctionOnSet(f, a .. b) = f[a] + SumFunctionOnSet(f, a + 1 .. b)
<1> DEFINE I == a .. b
<1>1. IsFiniteSet(I) /\ I \ {b} = a .. b - 1 /\ I \ {a} = a + 1 .. b /\ a \in I /\ b \in I
  BY Interval
<1>2. \A i \in I : f[i] \in Int
  OBVIOUS
<1> HIDE DEF I
<1>3. /\ SumFunctionOnSet(f, I) = f[b] + SumFunctionOnSet(f, I \ {b})
      /\ SumFunctionOnSet(f, I) = f[a] + SumFunctionOnSet(f, I \ {a})
  BY <1>1, <1>2, SumRemove
<1> QED
  BY <1>1, <1>3 DEF I

LEMMA SumAppend ==
  ASSUME NEW s \in Seq(Nat), NEW x \in Nat
  PROVE  SumFunction(Append(s, x)) = SumFunction(s) + x
<1> DEFINE a == Append(s, x)
           n == Len(s)
<1>1. /\ n \in Nat /\ DOMAIN s = 1 .. n /\ DOMAIN a = 1 .. n + 1 /\ a[n + 1] = x
      /\ \A i \in 1 .. n : a[i] = s[i] /\ s[i] \in Int
  OBVIOUS
<1>2. \A i \in 1 .. n + 1 : a[i] \in Int
  BY <1>1
<1> HIDE DEF a, n
<1>3. IsFiniteSet(1 .. n) /\ n + 1 \in Int /\ 1 <= n + 1 /\ (n + 1) - 1 = n
  BY <1>1, Interval
<1>4. SumFunctionOnSet(a, 1 .. n + 1) = a[n + 1] + SumFunctionOnSet(a, 1 .. (n + 1) - 1)
  BY <1>2, <1>3, SumEnds
<1>5. SumFunctionOnSet(a, 1 .. n) = SumFunctionOnSet(s, 1 .. n) /\ SumFunctionOnSet(s, 1 .. n) \in Int
  BY <1>1, <1>3, SumSame, SumInt
<1>6. SumFunction(a) = x + SumFunction(s) /\ SumFunction(s) \in Int
  BY <1>1, <1>3, <1>4, <1>5 DEF SumFunction
<1> QED
  BY <1>6 DEF a

\* The same numbers one place further on have the same sum.
LEMMA SumShift ==
  ASSUME NEW s, NEW t, NEW n \in Nat, \A i \in 1 .. n : t[i] \in Int /\ t[i] = s[i + 1]
  PROVE  SumFunctionOnSet(t, 1 .. n) = SumFunctionOnSet(s, 2 .. n + 1)
<1> DEFINE Same(k) == SumFunctionOnSet(t, 1 .. k) = SumFunctionOnSet(s, 2 .. k + 1)
           Bad == {1 .. k : k \in {j \in 0 .. n : ~ Same(j)}}
<1> SUFFICES ASSUME Bad # {} PROVE FALSE
  OBVIOUS
<1>1. PICK J \in Bad : \A u \in Bad : ~ (u \subseteq J /\ u # J)
  <2>1. Bad \in SUBSET (SUBSET (1 .. n))
    <3>1. \A k \in 0 .. n : 1 .. k \subseteq 1 .. n
      OBVIOUS
    <3> HIDE DEF Same
    <3> QED
      BY <3>1
  <2>2. IsFiniteSet(1 .. n)
    BY Interval
  <2> DEFINE I == 1 .. n
  <2>3. IsFiniteSet(I) /\ Bad \in SUBSET (SUBSET I) /\ Bad # {}
    BY <2>1, <2>2
  <2> HIDE DEF Bad, I
  <2> QED
    BY <2>3, Smallest
<1>2. PICK k \in 0 .. n : J = 1 .. k /\ ~ Same(k)
  BY <1>1
<1>3. k # 0
  <2>1. IsFiniteSet({}) /\ 1 .. 0 = {} /\ 2 .. 1 = {}
    BY FS_EmptySet
  <2>2. SumFunctionOnSet(t, {}) = 0 /\ SumFunctionOnSet(s, {}) = 0
    BY <2>1, SumRec
  <2> QED
    BY <1>2, <2>1, <2>2
<1>4. Same(k - 1)
  <2>1. 1 .. k - 1 \subseteq 1 .. k /\ 1 .. k - 1 # 1 .. k /\ k - 1 \in 0 .. n
    BY <1>3
  <2>2. 1 .. k - 1 \notin Bad
    <3> HIDE DEF Bad
    <3> QED
      BY <1>1, <1>2, <2>1
  <2> QED
    BY <2>1, <2>2
<1>5. (k + 1) - 1 = k /\ (k - 1) + 1 = k /\ 1 <= k /\ 2 <= k + 1 /\ k \in Int /\ k + 1 \in Int
  BY <1>3
<1>6. \A i \in 1 .. k : t[i] \in Int
  OBVIOUS
<1>7. \A i \in 2 .. k + 1 : s[i] \in Int
  <2> TAKE i \in 2 .. k + 1
  <2>1. i - 1 \in 1 .. n /\ (i - 1) + 1 = i
    OBVIOUS
  <2> QED
    BY <2>1
<1>8. SumFunctionOnSet(t, 1 .. k) = t[k] + SumFunctionOnSet(t, 1 .. k - 1)
  BY <1>5, <1>6, SumEnds
<1>9. SumFunctionOnSet(s, 2 .. k + 1) = s[k + 1] + SumFunctionOnSet(s, 2 .. (k + 1) - 1)
  BY <1>5, <1>7, SumEnds
<1>10. t[k] = s[k + 1]
  BY <1>3
<1> QED
  BY <1>2, <1>4, <1>5, <1>8, <1>9, <1>10

LEMMA SumTail ==
  ASSUME NEW s \in Seq(Nat), s # <<>>
  PROVE  SumFunction(s) = s[1] + SumFunction(Tail(s))
<1> DEFINE t == Tail(s)
           n == Len(s) - 1
<1>1. /\ n \in Nat /\ Len(s) = n + 1 /\ DOMAIN s = 1 .. n + 1 /\ DOMAIN t = 1 .. n
      /\ \A i \in 1 .. n : t[i] \in Int /\ t[i] = s[i + 1]
      /\ \A i \in 1 .. n + 1 : s[i] \in Int
  OBVIOUS
<1> HIDE DEF t, n
<1>2. 1 + 1 = 2 /\ 1 <= n + 1 /\ n + 1 \in Int
  BY <1>1
<1>3. SumFunctionOnSet(s, 1 .. n + 1) = s[1] + SumFunctionOnSet(s, 1 + 1 .. n + 1)
  BY <1>1, <1>2, SumEnds
<1>4. SumFunctionOnSet(t, 1 .. n) = SumFunctionOnSet(s, 2 .. n + 1)
  BY <1>1, SumShift
<1>5. SumFunction(s) = s[1] + SumFunction(t)
  BY <1>1, <1>2, <1>3, <1>4 DEF SumFunction
<1> QED
  BY <1>5 DEF t

-----------------------------------------------------------------------------
(* The rates of the dashboard *)

LEMMA GrowthIs ==
  ASSUME NEW d \in Int
  PROVE  Growth(d) \in Nat /\ Growth(d) = IF d > 0 THEN d ELSE 0
<1> DEFINE m == IF d > 0 THEN d ELSE 0
<1>1. m \in {0, d} /\ \A y \in {0, d} : y <= m
  OBVIOUS
<1>2. \A x \in {0, d} : (\A y \in {0, d} : y <= x) => x = m
  OBVIOUS
<1> HIDE DEF m
<1>3. Max({0, d}) = m
  BY <1>1, <1>2 DEF Max
<1> QED
  BY <1>3 DEF Growth, m

\* The chart loses no point but the oldest.
LEMMA ChartIs ==
  ASSUME NEW p \in Seq(Nat), Len(p) <= MaxPoints, NEW x \in Nat, MaxPoints \in Nat \ {0}
  PROVE  LET q == Chart(Append(p, x))
         IN  /\ q \in Seq(Nat) /\ Len(q) <= MaxPoints /\ SumFunction(q) <= SumFunction(p) + x
             /\ Len(q) < MaxPoints => Len(p) < MaxPoints /\ SumFunction(q) = SumFunction(p) + x
<1> DEFINE a == Append(p, x)
           q == Chart(a)
<1>1. a \in Seq(Nat) /\ Len(a) = Len(p) + 1 /\ a # <<>> /\ SumFunction(a) = SumFunction(p) + x
  BY SumAppend
<1>2. SumFunction(a) \in Nat /\ SumFunction(Tail(a)) \in Nat /\ a[1] \in Nat
  <2>1. \A b \in Seq(Nat) : SumFunction(b) \in Nat
    <3> TAKE b \in Seq(Nat)
    <3>1. DOMAIN b = 1 .. Len(b) /\ Len(b) \in Int
      OBVIOUS
    <3>2. IsFiniteSet(DOMAIN b) /\ \A i \in DOMAIN b : b[i] \in Nat
      BY <3>1, Interval
    <3> QED
      BY <3>2, SumNat DEF SumFunction
  <2>2. Tail(a) \in Seq(Nat) /\ a[1] \in Nat
    BY <1>1
  <2> QED
    BY <1>1, <2>1, <2>2
<1>3. SumFunction(a) = a[1] + SumFunction(Tail(a))
  BY <1>1, SumTail
<1> HIDE DEF a
<1>4. Tail(a) \in Seq(Nat) /\ Len(Tail(a)) = Len(p)
  BY <1>1
<1>5. CASE Len(a) > MaxPoints
  <2>1. q = Tail(a)
    BY <1>5 DEF Chart
  <2> HIDE DEF q
  <2>2. q \in Seq(Nat) /\ Len(q) = Len(p) /\ Len(p) = MaxPoints
    BY <1>1, <1>4, <1>5, <2>1
  <2>3. SumFunction(q) <= SumFunction(p) + x
    BY <1>1, <1>2, <1>3, <2>1
  <2> QED
    BY <2>2, <2>3 DEF q, a
<1>6. CASE Len(a) <= MaxPoints
  <2>1. q = a
    BY <1>1, <1>6 DEF Chart
  <2> HIDE DEF q
  <2>2. q \in Seq(Nat) /\ Len(q) <= MaxPoints /\ Len(p) < MaxPoints
    BY <1>1, <1>6, <2>1
  <2>3. SumFunction(q) = SumFunction(p) + x /\ SumFunction(q) \in Nat
    BY <1>1, <1>2, <2>1
  <2> QED
    BY <2>2, <2>3 DEF q, a
<1> QED
  BY <1>1, <1>5, <1>6

\* What grows by no more than t does from c, grows by no more in all: the sums,
\* and the sum of what each grew by.
LEMMA TotalGrowth ==
  ASSUME NEW D, IsFiniteSet(D), NEW v \in [D -> Int], NEW p \in [D -> Int], NEW t \in [D -> Int], NEW c \in [D -> Int],
         \A d \in D : v[d] - p[d] <= t[d] - c[d] /\ c[d] <= t[d]
  PROVE  Growth(SumFunction(v) - SumFunction(p)) <= SumFunction(t) - SumFunction(c)
<1>1. /\ SumFunction(v) = SumFunctionOnSet(v, D) /\ SumFunction(p) = SumFunctionOnSet(p, D)
      /\ SumFunction(t) = SumFunctionOnSet(t, D) /\ SumFunction(c) = SumFunctionOnSet(c, D)
  BY DEF SumFunction
<1>2. \A d \in D : v[d] \in Int /\ p[d] \in Int /\ t[d] \in Int /\ c[d] \in Int
  OBVIOUS
<1>3. /\ SumFunctionOnSet(v, D) \in Int /\ SumFunctionOnSet(p, D) \in Int
      /\ SumFunctionOnSet(t, D) \in Int /\ SumFunctionOnSet(c, D) \in Int
  BY <1>2, SumInt
<1>4. SumFunctionOnSet(v, D) + SumFunctionOnSet(c, D) <= SumFunctionOnSet(t, D) + SumFunctionOnSet(p, D)
  <2>1. \A d \in D : v[d] + c[d] <= t[d] + p[d]
    BY <1>2
  <2> QED
    BY <1>2, <2>1, SumCompare
<1>5. SumFunctionOnSet(c, D) <= SumFunctionOnSet(t, D)
  BY <1>2, SumMonotone
<1>6. SumFunction(v) - SumFunction(p) \in Int
  BY <1>1, <1>3
<1> QED
  BY <1>1, <1>3, <1>4, <1>5, <1>6, GrowthIs

LEMMA Total ==
  ASSUME NEW D, IsFiniteSet(D), NEW v \in [D -> Nat]
  PROVE  SumFunction(v) \in Nat
<1>1. DOMAIN v = D /\ \A d \in D : v[d] \in Nat
  OBVIOUS
<1> QED
  BY <1>1, SumNat DEF SumFunction

LEMMA EmptyTotal ==
  ASSUME NEW v, DOMAIN v = {}
  PROVE  SumFunction(v) = 0
  BY SumEmpty DEF SumFunction

LEMMA EmptyChart == SumFunction(<<>>) = 0
<1>1. DOMAIN <<>> = {}
  OBVIOUS
<1> QED
  BY <1>1, EmptyTotal

\* What the type of the counts says, one database at a time.
LEMMA ValueIs ==
  ASSUME DashboardAssumption, NEW v \in Value
  PROVE  v \in [Db -> Nat] /\ DOMAIN v = Db /\ \A d \in Db : v[d] \in 0 .. MaxCount /\ v[d] \in Nat
  BY DEF DashboardAssumption, Value

LEMMA ListedIs ==
  ASSUME DashboardAssumption, NEW v \in Listed
  PROVE  /\ DOMAIN v \in {{}, Db} /\ v \in [DOMAIN v -> Nat] /\ IsFiniteSet(DOMAIN v)
         /\ \A d \in DOMAIN v : d \in Db /\ v[d] \in 0 .. MaxCount /\ v[d] \in Nat
  BY FS_EmptySet DEF DashboardAssumption, Value, Listed

LEMMA SampleIs ==
  ASSUME NEW s \in Sample
  PROVE  s.at \in 0 .. MaxTime /\ s.val \in Listed /\ s.true \in Value
  BY DEF Sample

LEMMA NoDbsIs == NoDbs \in Listed /\ DOMAIN NoDbs = {}
<1>1. NoDbs \in [{} -> 0 .. MaxCount] /\ DOMAIN NoDbs = {}
  BY DEF NoDbs
<1> QED
  BY <1>1 DEF Listed

LEMMA DashStart ==
  ASSUME DashboardAssumption, DashboardInit
  PROVE  DashboardInductive
<1> USE DEF DashboardAssumption
<1>1. count \in Value /\ base \in Value /\ lastTrue \in Value
  BY DEF DashboardInit, Value
<1>2. DashboardTypeOK
  <2>1. rate.total \in Nat /\ rate.of \in [Db -> Nat]
    BY DEF DashboardInit, NoRate
  <2>2. prev \in Listed /\ first \in Listed /\ DOMAIN first = DOMAIN prev
    BY NoDbsIs DEF DashboardInit
  <2>3. _data \in Seq(Nat) /\ Len(_data) <= MaxPoints
    BY DEF DashboardInit
  <2>4. time \in 0 .. MaxTime /\ prevAt \in {Never} \cup 0 .. MaxTime /\ prevTotal \in Nat /\ way \subseteq Sample
    BY DEF DashboardInit
  <2>5. asked \in BOOLEAN /\ overtaken \in BOOLEAN /\ statsReset \in BOOLEAN /\ listed \in BOOLEAN
    BY DEF DashboardInit
  <2> QED
    BY <1>1, <2>1, <2>2, <2>3, <2>4, <2>5 DEF DashboardTypeOK
<1>3. WayInv
  BY DEF DashboardInit, WayInv
<1>4. LastInv
  BY NoDbsIs DEF DashboardInit, LastInv, Never
<1>5. ChartInv
  <2>1. DOMAIN prev = {} /\ DOMAIN first = {} /\ NoDbs \in [{} -> 0 .. MaxCount]
    BY NoDbsIs DEF DashboardInit, NoDbs
  <2>2. SumFunction(_data) = 0 /\ SumFunction(prev) = 0 /\ SumFunction(first) = 0 /\ SumFunction(NoDbs) = 0
    BY <2>1, NoDbsIs, EmptyTotal, EmptyChart DEF DashboardInit
  <2>3. Counted(NoDbs) /\ \A d \in DOMAIN prev : NoDbs[d] <= lastTrue[d]
    BY <2>1 DEF Counted
  <2>4. NoDbs \in [DOMAIN prev -> 0 .. MaxCount]
    BY <2>1
  <2>5. /\ SumFunction(_data) <= SumFunction(NoDbs) - SumFunction(first)
        /\ SumFunction(_data) = SumFunction(prev) - SumFunction(first)
    BY <2>2
  <2> QED
    BY <2>3, <2>4, <2>5 DEF ChartInv
<1>6. RateIsGrowth
  BY DEF DashboardInit, RateIsGrowth, NoRate
<1> QED
  BY <1>2, <1>3, <1>4, <1>5, <1>6 DEF DashboardInductive

LEMMA WorkStep ==
  ASSUME DashboardAssumption, DashboardInductive, Work
  PROVE  DashboardInductive'
<1> USE DEF DashboardAssumption
<1>1. /\ base' = base /\ asked' = asked /\ way' = way /\ _data' = _data /\ prev' = prev /\ prevAt' = prevAt
      /\ prevTotal' = prevTotal /\ rate' = rate /\ first' = first /\ lastTrue' = lastTrue
      /\ overtaken' = overtaken /\ listed' = listed /\ statsReset' = statsReset
  BY DEF Work, rateVars
<1>2. time' \in 0 .. MaxTime /\ time \in 0 .. MaxTime /\ time <= time'
  BY DEF Work, DashboardInductive, DashboardTypeOK
<1>3. count' \in Value /\ count \in Value /\ base \in Value /\ \A d \in Db : count[d] <= count'[d]
  <2>1. PICK dbs \in SUBSET {d \in Db : count[d] < MaxCount} :
          count' = [d \in Db |-> IF d \in dbs THEN count[d] + 1 ELSE count[d]]
    BY DEF Work
  <2>2. count \in Value /\ base \in Value
    BY DEF DashboardInductive, DashboardTypeOK
  <2>3. \A d \in Db : count[d] \in 0 .. MaxCount
    BY <2>2, ValueIs
  <2>4. \A d \in Db : count'[d] \in 0 .. MaxCount /\ count[d] <= count'[d]
    BY <2>1, <2>3
  <2>5. count' = [d \in Db |-> count'[d]]
    BY <2>1
  <2> QED
    BY <2>2, <2>4, <2>5 DEF Value
<1>4. DashboardTypeOK'
  BY <1>1, <1>2, <1>3 DEF DashboardInductive, DashboardTypeOK
<1>5. \A d \in Db : count[d] \in Nat /\ count'[d] \in Nat /\ base[d] \in Nat
  BY <1>3, ValueIs
<1>6. \A s \in way : s.at \in Nat /\ \A d \in Db : s.true[d] \in Nat
  BY SampleIs, ValueIs DEF DashboardInductive, DashboardTypeOK
<1>7. WayInv'
  <2>1. \A d \in Db : base'[d] <= count'[d] /\ (~statsReset' => base'[d] = 0)
    BY <1>1, <1>3, <1>5 DEF DashboardInductive, WayInv
  <2>2. \A s \in way : s.at <= time' /\ \A d \in Db : s.true[d] <= count'[d]
    BY <1>2, <1>3, <1>5, <1>6 DEF DashboardInductive, WayInv
  <2> QED
    BY <1>1, <2>1, <2>2 DEF DashboardInductive, WayInv, Before
<1>8. LastInv'
  <2>1. lastTrue \in Value /\ prevAt \in {Never} \cup 0 .. MaxTime
    BY DEF DashboardInductive, DashboardTypeOK
  <2>2. \A d \in Db : lastTrue[d] <= count'[d]
    BY <1>3, <1>5, <2>1, ValueIs DEF DashboardInductive, LastInv
  <2>3. prevAt <= time'
    BY <1>2, <2>1 DEF DashboardInductive, LastInv, Never
  <2> QED
    BY <1>1, <2>2, <2>3 DEF DashboardInductive, LastInv, Counted, Before
<1>9. ChartInv' /\ RateIsGrowth'
  BY <1>1 DEF DashboardInductive, ChartInv, RateIsGrowth, Counted, Before
<1> QED
  BY <1>4, <1>7, <1>8, <1>9 DEF DashboardInductive

LEMMA ResetStep ==
  ASSUME DashboardAssumption, DashboardInductive, ResetStatistics
  PROVE  DashboardInductive'
<1> USE DEF DashboardAssumption
<1>1. /\ count' = count /\ time' = time /\ asked' = asked /\ way' = way /\ _data' = _data /\ prev' = prev /\ prevAt' = prevAt
      /\ prevTotal' = prevTotal /\ rate' = rate /\ first' = first /\ lastTrue' = lastTrue
      /\ overtaken' = overtaken /\ listed' = listed /\ statsReset' /\ base' = count /\ statsReset' \in BOOLEAN
  BY DEF ResetStatistics, rateVars
<1>2. count \in Value /\ base \in Value
  BY DEF DashboardInductive, DashboardTypeOK
<1>3. \A d \in Db : count[d] \in Nat /\ base[d] \in Nat /\ base[d] <= base'[d]
  BY <1>1, <1>2, ValueIs DEF DashboardInductive, WayInv
<1>4. DashboardTypeOK'
  BY <1>1, <1>2 DEF DashboardInductive, DashboardTypeOK
<1>5. \A s \in way : \A d \in DOMAIN s.val : d \in Db /\ Before(s, d) \in Int
  <2> TAKE s \in way
  <2>1. s.val \in Listed /\ s.true \in Value
    BY SampleIs DEF DashboardInductive, DashboardTypeOK
  <2>2. \A d \in DOMAIN s.val : d \in Db /\ s.val[d] \in Nat
    BY <2>1, ListedIs
  <2>3. \A d \in Db : s.true[d] \in Nat
    BY <2>1, ValueIs
  <2> QED
    BY <2>2, <2>3 DEF Before
<1>6. WayInv'
  <2>1. \A d \in Db : base'[d] <= count'[d] /\ (~statsReset' => base'[d] = 0)
    BY <1>1, <1>3
  <2>2. \A s \in way : \A d \in DOMAIN s.val : Before(s, d) <= base'[d]
    <3> TAKE s \in way
    <3> TAKE d \in DOMAIN s.val
    <3>1. d \in Db /\ Before(s, d) \in Int /\ Before(s, d) <= base[d]
      BY <1>5 DEF DashboardInductive, WayInv
    <3> QED
      BY <1>3, <1>1, <3>1
  <2> QED
    BY <1>1, <2>1, <2>2 DEF DashboardInductive, WayInv, Before
<1>7. ASSUME NEW c \in [DOMAIN prev -> Nat], Counted(c) PROVE Counted(c)'
  <2>1. prev \in Listed
    BY DEF DashboardInductive, DashboardTypeOK
  <2>2. \A d \in DOMAIN prev : d \in Db /\ prev[d] \in Nat /\ c[d] \in Nat
    BY <2>1, ListedIs
  <2>3. \A d \in DOMAIN prev : c[d] - prev[d] <= base'[d]
    BY <1>3, <1>1, <1>7, <2>2 DEF Counted
  <2> QED
    BY <1>1, <1>7, <2>3 DEF Counted, Before
<1>8. LastInv'
  <2>1. lastTrue \in Value
    BY DEF DashboardInductive, DashboardTypeOK
  <2>2. listed => Counted(lastTrue)'
    <3> SUFFICES ASSUME listed PROVE Counted(lastTrue)'
      OBVIOUS
    <3>1. DOMAIN prev = Db /\ Counted(lastTrue) /\ lastTrue \in [DOMAIN prev -> Nat]
      BY <2>1, ValueIs DEF DashboardInductive, LastInv
    <3> QED
      BY <1>1, <1>7, <3>1 DEF Counted, Before
  <2> QED
    BY <1>1, <2>2 DEF DashboardInductive, LastInv
<1>9. ChartInv'
  BY <1>1, <1>7 DEF DashboardInductive, ChartInv, Counted, Before
<1>10. RateIsGrowth'
  BY <1>1 DEF DashboardInductive, RateIsGrowth
<1> QED
  BY <1>4, <1>6, <1>8, <1>9, <1>10 DEF DashboardInductive

LEMMA CollectStep ==
  ASSUME DashboardAssumption, DashboardInductive,
         NEW via \in Stream \cup {Http}, NEW dbs \in {{}, Db}, CollectStats(via, dbs)
  PROVE  DashboardInductive'
<1> USE DEF DashboardAssumption
<1>1. /\ count' = count /\ base' = base /\ time' = time /\ _data' = _data /\ prev' = prev /\ prevAt' = prevAt
      /\ prevTotal' = prevTotal /\ rate' = rate /\ first' = first /\ lastTrue' = lastTrue
      /\ overtaken' = overtaken /\ listed' = listed /\ statsReset' = statsReset /\ asked' \in BOOLEAN
  BY DEF CollectStats, rateVars, pgVars, DashboardInductive, DashboardTypeOK
<1> DEFINE n == [via |-> via, at |-> time, true |-> count, val |-> [d \in dbs |-> count[d] - base[d]]]
<1>2. way' = way \cup {n}
  BY DEF CollectStats
<1>3. n.via = via /\ n.at = time /\ n.true = count /\ DOMAIN n.val = dbs /\ \A d \in dbs : n.val[d] = count[d] - base[d]
  OBVIOUS
<1>4. count \in Value /\ base \in Value /\ time \in 0 .. MaxTime /\ way \subseteq Sample
  BY DEF DashboardInductive, DashboardTypeOK
<1>5. \A d \in Db : count[d] \in 0 .. MaxCount /\ base[d] \in Nat /\ base[d] <= count[d] /\ count[d] \in Nat
  BY <1>4, ValueIs DEF DashboardInductive, WayInv
<1>6. n.val \in Listed
  <2>1. \A d \in dbs : count[d] - base[d] \in 0 .. MaxCount
    BY <1>5
  <2>2. n.val \in [dbs -> 0 .. MaxCount]
    BY <2>1
  <2> QED
    BY <2>2 DEF Listed, Value
<1>7. n \in Sample
  BY <1>4, <1>6 DEF Sample
<1> HIDE DEF n
<1>8. DashboardTypeOK'
  BY <1>1, <1>2, <1>4, <1>7 DEF DashboardInductive, DashboardTypeOK
<1>9. \A s \in way : /\ s.at <= n.at /\ s.at \in Int /\ \A d \in Db : s.true[d] <= n.true[d]
                     /\ \A d \in DOMAIN s.val \cap DOMAIN n.val : Before(s, d) <= Before(n, d)
  <2> TAKE s \in way
  <2>1. s.at \in 0 .. MaxTime
    BY <1>4, SampleIs
  <2>2. s.at <= time /\ (\A d \in Db : s.true[d] <= count[d]) /\ \A d \in DOMAIN s.val : Before(s, d) <= base[d]
    BY DEF DashboardInductive, WayInv
  <2>3. \A d \in dbs : Before(n, d) = base[d]
    BY <1>3, <1>5 DEF Before
  <2> QED
    BY <1>3, <2>1, <2>2, <2>3
<1>10. n.at \in Int
  BY <1>3, <1>4
<1>11. WayInv'
  <2>1. ASSUME NEW s \in way'
        PROVE  /\ DOMAIN s.val \in {{}, Db} /\ s.at <= time
               /\ \A d \in Db : s.true[d] <= count[d]
               /\ \A d \in DOMAIN s.val : s.val[d] <= s.true[d] /\ Before(s, d) <= base[d]
    <3>1. CASE s \in way
      BY <3>1 DEF DashboardInductive, WayInv
    <3>2. CASE s = n
      <4>1. s.at <= time /\ \A d \in Db : s.true[d] <= count[d]
        BY <1>3, <1>4, <1>5, <3>2
      <4>2. \A d \in dbs : s.val[d] <= s.true[d] /\ Before(s, d) <= base[d]
        BY <1>3, <1>5, <3>2 DEF Before
      <4> QED
        BY <1>3, <3>2, <4>1, <4>2
    <3> QED
      BY <1>2, <3>1, <3>2
  <2>2. ASSUME NEW s \in way', NEW o \in way', s.at < o.at
        PROVE  /\ \A d \in Db : s.true[d] <= o.true[d]
               /\ \A d \in DOMAIN s.val \cap DOMAIN o.val : Before(s, d) <= Before(o, d)
    <3>1. CASE s \in way /\ o \in way
      BY <2>2, <3>1 DEF DashboardInductive, WayInv
    <3>2. CASE s \in way /\ o = n
      BY <1>9, <3>2
    <3>3. CASE s = n
      BY <1>2, <1>9, <1>10, <2>2, <3>3
    <3> QED
      BY <1>2, <3>1, <3>2, <3>3
  <2>3. \A d \in Db : base[d] <= count[d] /\ (~statsReset => base[d] = 0)
    BY DEF DashboardInductive, WayInv
  <2> QED
    BY <1>1, <2>1, <2>2, <2>3 DEF WayInv, Before
<1>12. ASSUME NEW c, Counted(c) PROVE Counted(c)'
  <2>1. \A d \in DOMAIN n.val : Before(n, d) = base[d]
    BY <1>3, <1>5 DEF Before
  <2>2. ASSUME NEW d \in DOMAIN prev, NEW s \in way', s.at > prevAt, d \in DOMAIN s.val
        PROVE  c[d] - prev[d] <= Before(s, d)
    BY <1>2, <1>12, <2>1, <2>2 DEF Counted
  <2> QED
    BY <1>1, <1>12, <2>2 DEF Counted, Before
<1>13. LastInv'
  <2>1. \A d \in Db : \A s \in way' : s.at > prevAt => lastTrue[d] <= s.true[d]
    BY <1>2, <1>3 DEF DashboardInductive, LastInv
  <2>2. ASSUME listed PROVE Counted(lastTrue)'
    <3>1. PICK c : c = lastTrue
      OBVIOUS
    <3>2. Counted(c)'
      BY <1>12, <2>2, <3>1 DEF DashboardInductive, LastInv
    <3> QED
      BY <1>1, <3>1, <3>2 DEF Counted
  <2> QED
    BY <1>1, <2>1, <2>2 DEF DashboardInductive, LastInv, Counted, Before
<1>14. ChartInv'
  BY <1>1, <1>12 DEF DashboardInductive, ChartInv, Counted, Before
<1>15. RateIsGrowth'
  BY <1>1 DEF DashboardInductive, RateIsGrowth
<1> QED
  BY <1>8, <1>11, <1>13, <1>14, <1>15 DEF DashboardInductive

LEMMA RenderStep ==
  ASSUME DashboardAssumption, DashboardInductive, render
  PROVE  DashboardInductive'
<1> USE DEF DashboardAssumption
<1>1. /\ count' = count /\ base' = base /\ time' = time /\ way' = way /\ statsReset' = statsReset
      /\ _data' = <<>> /\ prev' = NoDbs /\ prevAt' = Never /\ prevTotal' = 0
      /\ rate' = NoRate /\ first' = NoDbs /\ lastTrue' = [d \in Db |-> 0]
      /\ overtaken' = FALSE /\ listed' = FALSE /\ asked' = TRUE
  BY DEF render, pgVars
<1>2. count \in Value /\ time \in 0 .. MaxTime /\ way \subseteq Sample
  BY DEF DashboardInductive, DashboardTypeOK
<1>3. lastTrue' \in Value /\ (\A d \in Db : lastTrue'[d] = 0)
  BY <1>1 DEF Value
<1>4. DashboardTypeOK'
  <2>1. NoRate.total \in Nat /\ NoRate.of \in [Db -> Nat]
    BY DEF NoRate
  <2>2. prev' \in Listed /\ first' \in Listed /\ DOMAIN first' = DOMAIN prev'
    BY <1>1, NoDbsIs
  <2>3. _data' \in Seq(Nat) /\ Len(_data') <= MaxPoints
    BY <1>1
  <2> QED
    BY <1>1, <1>3, <2>1, <2>2, <2>3 DEF DashboardInductive, DashboardTypeOK
<1>5. WayInv'
  BY <1>1 DEF DashboardInductive, WayInv, Before
<1>6. LastInv'
  <2>1. \A d \in Db : 0 <= count[d] /\ \A s \in way : 0 <= s.true[d]
    BY <1>2, ValueIs, SampleIs
  <2>2. prevAt' <= time'
    BY <1>1, <1>2 DEF Never
  <2>3. DOMAIN prev' = {}
    BY <1>1, NoDbsIs
  <2> QED
    BY <1>1, <1>3, <2>1, <2>2, <2>3 DEF LastInv
<1>7. ChartInv'
  <2>1. DOMAIN prev' = {} /\ DOMAIN first' = {} /\ NoDbs \in [{} -> 0 .. MaxCount]
    BY <1>1, NoDbsIs DEF NoDbs
  <2>2. SumFunction(_data') = 0 /\ SumFunction(prev') = 0 /\ SumFunction(first') = 0 /\ SumFunction(NoDbs) = 0
    BY <1>1, <2>1, NoDbsIs, EmptyTotal, EmptyChart
  <2>3. Counted(NoDbs)' /\ \A d \in DOMAIN prev' : NoDbs[d] <= lastTrue'[d]
    BY <2>1 DEF Counted
  <2>4. NoDbs \in [DOMAIN prev' -> 0 .. MaxCount]
    BY <2>1
  <2>5. /\ SumFunction(_data') <= SumFunction(NoDbs) - SumFunction(first')
        /\ SumFunction(_data') = SumFunction(prev') - SumFunction(first')
    BY <2>2
  <2> QED
    BY <2>3, <2>4, <2>5 DEF ChartInv, Counted
<1>8. RateIsGrowth'
  BY <1>1 DEF RateIsGrowth, NoRate
<1> QED
  BY <1>4, <1>5, <1>6, <1>7, <1>8 DEF DashboardInductive

LEMMA MergeIs ==
  ASSUME NEW f, NEW g
  PROVE  /\ DOMAIN Over(f, g) = DOMAIN f \cup DOMAIN g
         /\ \A x \in DOMAIN f : Over(f, g)[x] = f[x]
         /\ DOMAIN f = {} => \A x \in DOMAIN g : Over(f, g)[x] = g[x]
  BY DEF Over

\* Merging what is listed in full, or not at all.
LEMMA MergeListed ==
  ASSUME NEW f \in Listed, NEW g \in Listed, DashboardAssumption
  PROVE  /\ Over(f, g) \in Listed
         /\ DOMAIN f = {} => Over(f, g) = g
         /\ DOMAIN f = Db => Over(f, g) = f
<1>1. f = [x \in DOMAIN f |-> f[x]] /\ g = [x \in DOMAIN g |-> g[x]] /\ DOMAIN f \in {{}, Db} /\ DOMAIN g \in {{}, Db}
  BY DEF Listed, Value
<1>2. Over(f, g) = [x \in DOMAIN f \cup DOMAIN g |-> IF x \in DOMAIN f THEN f[x] ELSE g[x]]
  BY DEF Over
<1>3. DOMAIN f = {} => Over(f, g) = g
  BY <1>1, <1>2
<1>4. DOMAIN f = Db => Over(f, g) = f
  BY <1>1, <1>2
<1> QED
  BY <1>1, <1>3, <1>4

\* What arrives in onData.
Arrives(s) ==
  /\ s \in way /\ way' = way \ {s}
  /\ updateDashboard(s)
  /\ UNCHANGED <<pgVars, asked, statsReset>>

LEMMA ArriveType ==
  ASSUME DashboardAssumption, DashboardInductive, NEW s, Arrives(s)
  PROVE  DashboardTypeOK'
<1> USE DEF DashboardAssumption
<1>1. /\ count' = count /\ base' = base /\ time' = time /\ asked' = asked /\ statsReset' = statsReset
      /\ way' \subseteq way /\ prevAt' = s.at /\ lastTrue' = s.true /\ rate' = rates(s)
      /\ prev' = Over(s.val, prev) /\ first' = Over(first, [d \in DOMAIN s.val |-> s.true[d]])
      /\ prevTotal' = SumFunction(s.val)
      /\ _data' = Chart(Append(_data, commits(s.val)))
      /\ overtaken' \in BOOLEAN /\ listed' \in BOOLEAN
  BY DEF Arrives, updateDashboard, pgVars
<1>2. s \in Sample /\ s.at \in 0 .. MaxTime /\ s.val \in Listed /\ s.true \in Value
  BY SampleIs DEF Arrives, DashboardInductive, DashboardTypeOK
<1>3. prev \in Listed /\ first \in Listed /\ DOMAIN first = DOMAIN prev /\ lastTrue \in Value
  BY DEF DashboardInductive, DashboardTypeOK
<1>4. /\ DOMAIN s.val \in {{}, Db} /\ s.val \in [DOMAIN s.val -> Nat] /\ IsFiniteSet(DOMAIN s.val)
      /\ \A d \in DOMAIN s.val : d \in Db /\ s.val[d] \in Nat
  BY <1>2, ListedIs
<1>5. DOMAIN prev \in {{}, Db} /\ prev \in [DOMAIN prev -> Nat] /\ \A d \in DOMAIN prev : prev[d] \in Nat
  BY <1>3, ListedIs
<1>6. SumFunction(s.val) \in Nat
  BY <1>4, Total
<1>7. commits(s.val) \in Nat
  <2> DEFINE g == [d \in DOMAIN s.val |-> IF d \in DOMAIN prev THEN Growth(s.val[d] - prev[d]) ELSE 0]
  <2>1. \A d \in DOMAIN s.val : d \in DOMAIN prev => Growth(s.val[d] - prev[d]) \in Nat
    <3> TAKE d \in DOMAIN s.val
    <3> HAVE d \in DOMAIN prev
    <3>1. s.val[d] - prev[d] \in Int
      BY <1>4, <1>5
    <3> QED
      BY <3>1, GrowthIs
  <2>2. g \in [DOMAIN s.val -> Nat]
    BY <2>1
  <2> HIDE DEF g
  <2>3. SumFunction(g) \in Nat
    BY <1>4, <2>2, Total
  <2> QED
    BY <2>3 DEF commits, g
<1>8. _data' \in Seq(Nat) /\ Len(_data') <= MaxPoints
  <2>1. _data \in Seq(Nat) /\ Len(_data) <= MaxPoints
    BY DEF DashboardInductive, DashboardTypeOK
  <2> QED
    BY <1>1, <1>7, <2>1, ChartIs
<1>9. prev' \in Listed /\ first' \in Listed /\ DOMAIN first' = DOMAIN prev'
  <2> DEFINE t == [d \in DOMAIN s.val |-> s.true[d]]
  <2>1. t \in Listed /\ DOMAIN t = DOMAIN s.val
    <3>1. \A d \in Db : s.true[d] \in 0 .. MaxCount
      BY <1>2, ValueIs
    <3>2. t \in [DOMAIN s.val -> 0 .. MaxCount]
      BY <1>4, <3>1
    <3> QED
      BY <1>4, <3>2 DEF Listed, Value
  <2>2. first' = Over(first, t)
    BY <1>1
  <2> HIDE DEF t
  <2>3. prev' \in Listed /\ first' \in Listed
    BY <1>1, <1>2, <1>3, <2>1, <2>2, MergeListed
  <2>4. DOMAIN first' = DOMAIN first \cup DOMAIN t /\ DOMAIN prev' = DOMAIN s.val \cup DOMAIN prev
    BY <1>1, <2>2, MergeIs
  <2> QED
    BY <1>3, <2>1, <2>3, <2>4
<1>10. rate'.total \in Nat /\ rate'.of \in [Db -> Nat]
  <2>1. NoRate.total \in Nat /\ NoRate.of \in [Db -> Nat]
    BY DEF NoRate
  <2>2. CASE prevAt = Never \/ s.at <= prevAt
    BY <1>1, <2>1, <2>2 DEF rates
  <2>3. CASE ~ (prevAt = Never \/ s.at <= prevAt)
    <3>1. /\ rate'.total = Growth(SumFunction(s.val) - prevTotal)
          /\ rate'.of = [d \in Db |-> IF d \notin DOMAIN s.val THEN 0
                                      ELSE IF d \in DOMAIN prev THEN Growth(s.val[d] - prev[d]) ELSE s.val[d]]
      BY <1>1, <2>3 DEF rates
    <3>2. SumFunction(s.val) - prevTotal \in Int
      BY <1>6 DEF DashboardInductive, DashboardTypeOK
    <3>3. \A d \in DOMAIN s.val : d \in DOMAIN prev => Growth(s.val[d] - prev[d]) \in Nat
      <4> TAKE d \in DOMAIN s.val
      <4> HAVE d \in DOMAIN prev
      <4>1. s.val[d] - prev[d] \in Int
        BY <1>4, <1>5
      <4> QED
        BY <4>1, GrowthIs
    <3>4. Growth(SumFunction(s.val) - prevTotal) \in Nat
      BY <3>2, GrowthIs
    <3> QED
      BY <1>4, <3>1, <3>3, <3>4
  <2> QED
    BY <2>2, <2>3
<1>11. time' \in 0 .. MaxTime /\ count' \in Value /\ base' \in Value /\ way' \subseteq Sample /\ asked' \in BOOLEAN /\ statsReset' \in BOOLEAN
  BY <1>1 DEF DashboardInductive, DashboardTypeOK
<1> QED
  BY <1>1, <1>2, <1>6, <1>8, <1>9, <1>10, <1>11 DEF DashboardTypeOK

\* A newer sample is of no fewer transactions than the last one.
LEMMA ArriveLast ==
  ASSUME DashboardAssumption, DashboardInductive, NEW s, Arrives(s)
  PROVE  WayInv' /\ LastInv'
<1> USE DEF DashboardAssumption
<1>1. /\ count' = count /\ base' = base /\ time' = time /\ statsReset' = statsReset
      /\ way' = way \ {s} /\ prevAt' = s.at /\ lastTrue' = s.true
      /\ prev' = Over(s.val, prev) /\ prevTotal' = SumFunction(s.val)
      /\ listed' = (DOMAIN s.val # {}) /\ s \in way
  BY DEF Arrives, updateDashboard, pgVars
<1>2. s.val \in Listed /\ prev \in Listed /\ s.true \in Value /\ s.at \in 0 .. MaxTime
  BY SampleIs DEF Arrives, DashboardInductive, DashboardTypeOK
<1>3. WayInv'
  BY <1>1 DEF DashboardInductive, WayInv, Before
<1>4. DOMAIN s.val \in {{}, Db} /\ DOMAIN prev \in {{}, Db} /\ DOMAIN prev' = DOMAIN s.val \cup DOMAIN prev
  BY <1>1, <1>2, ListedIs, MergeIs
<1>5. /\ s.at <= time /\ \A d \in Db : s.true[d] <= count[d]
      /\ \A d \in DOMAIN s.val : s.val[d] <= s.true[d] /\ Before(s, d) <= base[d]
      /\ \A o \in way : s.at < o.at =>
            /\ \A d \in Db : s.true[d] <= o.true[d]
            /\ \A d \in DOMAIN s.val \cap DOMAIN o.val : Before(s, d) <= Before(o, d)
  BY <1>1 DEF DashboardInductive, WayInv
<1>6. \A o \in way' : o \in way /\ (o.at > s.at => s.at < o.at)
  <2> TAKE o \in way'
  <2>1. o \in way /\ o.at \in 0 .. MaxTime
    BY <1>1, SampleIs DEF DashboardInductive, DashboardTypeOK
  <2> QED
    BY <1>2, <2>1
<1>7. ASSUME listed'
      PROVE  DOMAIN prev' = Db /\ prevTotal' = SumFunction(prev') /\ Counted(lastTrue)'
  <2>1. DOMAIN s.val = Db /\ prev' = s.val
    BY <1>1, <1>2, <1>4, <1>7, MergeListed
  <2>2. \A d \in DOMAIN s.val :
          /\ s.val[d] <= s.true[d] /\ s.true[d] - s.val[d] <= base[d]
          /\ \A o \in way' : o.at > s.at /\ d \in DOMAIN o.val => s.true[d] - s.val[d] <= Before(o, d)
    BY <1>5, <1>6 DEF Before
  <2>3. Counted(lastTrue)'
    BY <1>1, <2>1, <2>2 DEF Counted, Before
  <2> QED
    BY <1>1, <2>1, <2>3
<1>8. LastInv'
  BY <1>1, <1>4, <1>5, <1>6, <1>7 DEF LastInv
<1> QED
  BY <1>3, <1>8

\* What the last values are below of counts c the samples to come are above.
LEMMA GrownSince ==
  ASSUME DashboardAssumption, DashboardInductive, NEW s \in way, s.at > prevAt,
         NEW c \in [DOMAIN prev -> 0 .. MaxCount], Counted(c), \A d \in DOMAIN prev : c[d] <= lastTrue[d],
         DOMAIN prev = Db, DOMAIN s.val = Db
  PROVE  /\ \A d \in Db : /\ s.val[d] - prev[d] <= s.true[d] - c[d] /\ c[d] <= s.true[d]
                          /\ ~statsReset => prev[d] <= s.val[d] /\ s.val[d] = s.true[d] /\ c[d] = prev[d]
         /\ {s.val, prev, s.true, c} \subseteq [Db -> Nat]
<1> USE DEF DashboardAssumption
<1>1. s.val \in Listed /\ prev \in Listed /\ s.true \in Value /\ lastTrue \in Value /\ base \in Value
  BY SampleIs DEF DashboardInductive, DashboardTypeOK
<1>2. s.val \in [Db -> Nat] /\ prev \in [Db -> Nat] /\ s.true \in [Db -> Nat] /\ c \in [Db -> Nat]
  BY <1>1, ListedIs, ValueIs
<1>3. ASSUME NEW d \in Db
      PROVE  /\ s.val[d] - prev[d] <= s.true[d] - c[d] /\ c[d] <= s.true[d]
             /\ ~statsReset => prev[d] <= s.val[d] /\ s.val[d] = s.true[d] /\ c[d] = prev[d]
  <2>1. /\ s.val[d] \in Nat /\ prev[d] \in Nat /\ s.true[d] \in Nat /\ c[d] \in Nat
        /\ lastTrue[d] \in Nat /\ base[d] \in Nat
    BY <1>1, <1>2, ValueIs
  <2>2. prev[d] <= c[d] /\ c[d] - prev[d] <= base[d] /\ c[d] - prev[d] <= s.true[d] - s.val[d]
    BY DEF Counted, Before
  <2>3. /\ s.val[d] <= s.true[d] /\ s.true[d] - s.val[d] <= base[d]
        /\ ~statsReset => base[d] = 0
    BY DEF DashboardInductive, WayInv, Before
  <2>4. c[d] <= lastTrue[d] /\ lastTrue[d] <= s.true[d]
    BY DEF DashboardInductive, LastInv
  <2> QED
    BY <2>1, <2>2, <2>3, <2>4
<1> QED
  BY <1>2, <1>3

LEMMA ArriveRate ==
  ASSUME DashboardAssumption, DashboardInductive, NEW s, Arrives(s)
  PROVE  RateIsGrowth'
<1> USE DEF DashboardAssumption
<1>1. rate' = rates(s) /\ s \in way
  BY DEF Arrives, updateDashboard
<1>2. CASE prevAt = Never \/ s.at <= prevAt
  BY <1>1, <1>2 DEF rates, NoRate, RateIsGrowth
<1>3. CASE ~ (prevAt = Never \/ s.at <= prevAt)
  <2>1. /\ rate'.total = Growth(SumFunction(s.val) - prevTotal)
        /\ rate'.grown = SumFunction(s.true) - SumFunction(lastTrue)
        /\ rate'.gap = ~listed
        /\ \A d \in Db : /\ rate'.of[d] = IF d \notin DOMAIN s.val THEN 0
                                          ELSE IF d \in DOMAIN prev THEN Growth(s.val[d] - prev[d]) ELSE s.val[d]
                         /\ rate'.each[d] = s.true[d] - lastTrue[d]
    BY <1>1, <1>3 DEF rates
  <2> SUFFICES ASSUME listed
               PROVE  rate'.total <= rate'.grown /\ \A d \in Db : rate'.of[d] <= rate'.each[d]
    BY <2>1 DEF RateIsGrowth
  <2>2. s.at > prevAt
    <3>1. s.at \in 0 .. MaxTime /\ prevAt \in {Never} \cup 0 .. MaxTime
      BY <1>1, SampleIs DEF DashboardInductive, DashboardTypeOK
    <3> QED
      BY <1>3, <3>1 DEF Never
  <2>3. /\ s.val \in Listed /\ prev \in Listed /\ s.true \in [Db -> Nat] /\ lastTrue \in [Db -> 0 .. MaxCount]
        /\ lastTrue \in [Db -> Nat]
    <3>1. s.val \in Listed /\ prev \in Listed /\ s.true \in Value /\ lastTrue \in Value
      BY <1>1, SampleIs DEF DashboardInductive, DashboardTypeOK
    <3> QED
      BY <3>1, ValueIs DEF Value
  <2>4. DOMAIN prev = Db /\ prevTotal = SumFunction(prev) /\ Counted(lastTrue)
    BY DEF DashboardInductive, LastInv
  <2>5. \A d \in Db : lastTrue[d] <= s.true[d] /\ lastTrue[d] \in Nat /\ s.true[d] \in Nat
    BY <1>1, <2>2, <2>3 DEF DashboardInductive, LastInv
  <2>6. CASE DOMAIN s.val = Db
    <3>1. \A d \in DOMAIN prev : lastTrue[d] <= lastTrue[d]
      BY <2>4, <2>5
    <3>2. /\ \A d \in Db : s.val[d] - prev[d] <= s.true[d] - lastTrue[d]
          /\ s.val \in [Db -> Nat] /\ prev \in [Db -> Nat]
      BY <1>1, <2>2, <2>3, <2>4, <2>6, <3>1, GrownSince
    <3>3. s.val \in [Db -> Int] /\ prev \in [Db -> Int] /\ s.true \in [Db -> Int] /\ lastTrue \in [Db -> Int]
      BY <2>3, <3>2
    <3>4. Growth(SumFunction(s.val) - SumFunction(prev)) <= SumFunction(s.true) - SumFunction(lastTrue)
      <4>1. \A d \in Db : s.val[d] - prev[d] <= s.true[d] - lastTrue[d] /\ lastTrue[d] <= s.true[d]
        BY <2>5, <3>2
      <4> QED
        BY <3>3, <4>1, TotalGrowth
    <3>5. ASSUME NEW d \in Db PROVE rate'.of[d] <= rate'.each[d]
      <4>1. s.val[d] \in Int /\ prev[d] \in Int /\ s.val[d] - prev[d] \in Int
        BY <3>3
      <4>2. Growth(s.val[d] - prev[d]) <= s.true[d] - lastTrue[d]
        BY <2>5, <3>2, <4>1, GrowthIs
      <4> QED
        BY <2>1, <2>4, <2>6, <4>2
    <3> QED
      BY <2>1, <2>4, <3>4, <3>5
  <2>7. CASE DOMAIN s.val = {}
    <3>1. SumFunction(s.val) = 0
      BY <2>7, EmptyTotal
    <3>2. SumFunction(prev) \in Nat /\ SumFunction(s.true) \in Nat /\ SumFunction(lastTrue) \in Nat
      BY <2>3, <2>4, ListedIs, Total
    <3>3. SumFunction(lastTrue) <= SumFunction(s.true)
      <4>1. DOMAIN lastTrue = Db /\ DOMAIN s.true = Db
        BY <2>3
      <4>2. \A d \in Db : lastTrue[d] \in Int /\ s.true[d] \in Int /\ lastTrue[d] <= s.true[d]
        BY <2>5
      <4>3. SumFunctionOnSet(lastTrue, Db) <= SumFunctionOnSet(s.true, Db)
        BY <4>2, SumMonotone
      <4> QED
        BY <4>1, <4>3 DEF SumFunction
    <3>4. SumFunction(s.val) - prevTotal \in Int /\ Growth(SumFunction(s.val) - prevTotal) = 0
      BY <2>4, <3>1, <3>2, GrowthIs
    <3>5. \A d \in Db : rate'.of[d] <= rate'.each[d]
      BY <2>1, <2>5, <2>7
    <3> QED
      BY <2>1, <3>2, <3>3, <3>4, <3>5
  <2>8. DOMAIN s.val \in {{}, Db}
    BY <2>3, ListedIs
  <2> QED
    BY <2>6, <2>7, <2>8
<1> QED
  BY <1>2, <1>3

\* The chart goes on: with no database listed nothing is counted, with the
\* first ones nothing yet, and from then on what they grew by.
LEMMA ArriveChart ==
  ASSUME DashboardAssumption, DashboardInductive, NEW s, Arrives(s)
  PROVE  ChartInv'
<1> USE DEF DashboardAssumption
<1>1. /\ base' = base /\ statsReset' = statsReset
      /\ way' = way \ {s} /\ prevAt' = s.at /\ lastTrue' = s.true
      /\ prev' = Over(s.val, prev) /\ first' = Over(first, [d \in DOMAIN s.val |-> s.true[d]])
      /\ _data' = Chart(Append(_data, commits(s.val)))
      /\ overtaken' = (overtaken \/ s.at <= prevAt) /\ s \in way
  BY DEF Arrives, updateDashboard, pgVars
<1>2. /\ s.val \in Listed /\ prev \in Listed /\ first \in Listed /\ DOMAIN first = DOMAIN prev
      /\ s.true \in Value /\ lastTrue \in Value /\ s.at \in 0 .. MaxTime /\ prevAt \in {Never} \cup 0 .. MaxTime
      /\ _data \in Seq(Nat) /\ Len(_data) <= MaxPoints
  BY SampleIs DEF Arrives, DashboardInductive, DashboardTypeOK
<1> SUFFICES ASSUME ~overtaken'
             PROVE  \E c \in [DOMAIN prev' -> 0 .. MaxCount] :
                      /\ Counted(c)' /\ \A d \in DOMAIN prev' : c[d] <= lastTrue'[d]
                      /\ SumFunction(_data') <= SumFunction(c) - SumFunction(first')
                      /\ ~statsReset' /\ Len(_data') < MaxPoints =>
                           SumFunction(_data') = SumFunction(prev') - SumFunction(first')
  BY DEF ChartInv
<1>3. ~overtaken /\ s.at > prevAt
  <2>1. ~overtaken /\ ~ (s.at <= prevAt)
    BY <1>1
  <2> QED
    BY <1>2, <2>1 DEF Never
<1>4. PICK c \in [DOMAIN prev -> 0 .. MaxCount] :
        /\ Counted(c) /\ \A d \in DOMAIN prev : c[d] <= lastTrue[d]
        /\ SumFunction(_data) <= SumFunction(c) - SumFunction(first)
        /\ ~statsReset /\ Len(_data) < MaxPoints =>
             SumFunction(_data) = SumFunction(prev) - SumFunction(first)
  BY <1>3 DEF DashboardInductive, ChartInv
<1>5. /\ DOMAIN s.val \in {{}, Db} /\ DOMAIN prev \in {{}, Db} /\ IsFiniteSet(DOMAIN prev)
      /\ prev \in [DOMAIN prev -> Nat] /\ first \in [DOMAIN prev -> Nat] /\ c \in [DOMAIN prev -> Nat]
      /\ s.val \in [DOMAIN s.val -> Nat] /\ s.true \in [Db -> Nat] /\ s.true \in [Db -> 0 .. MaxCount]
      /\ DOMAIN s.true = Db /\ IsFiniteSet(DOMAIN s.val) /\ \A d \in DOMAIN prev : d \in Db
  BY <1>2, ListedIs, ValueIs DEF Value
<1>6. /\ SumFunction(prev) \in Nat /\ SumFunction(first) \in Nat /\ SumFunction(c) \in Nat
      /\ SumFunction(s.val) \in Nat /\ SumFunction(s.true) \in Nat
  BY <1>5, Total
<1>7. \A d \in Db : lastTrue[d] <= s.true[d] /\ lastTrue[d] \in Nat /\ s.true[d] \in Nat
  BY <1>1, <1>2, <1>3, ValueIs DEF DashboardInductive, LastInv
<1>8. SumFunction(_data) \in Nat
  <2>1. DOMAIN _data = 1 .. Len(_data) /\ Len(_data) \in Int /\ \A i \in DOMAIN _data : _data[i] \in Nat
    BY <1>2
  <2>2. IsFiniteSet(DOMAIN _data)
    BY <2>1, Interval
  <2> QED
    BY <2>1, <2>2, SumNat DEF SumFunction
<1>9. ASSUME commits(s.val) \in Nat
      PROVE  /\ SumFunction(_data') <= SumFunction(_data) + commits(s.val) /\ SumFunction(_data') \in Nat
             /\ Len(_data') < MaxPoints => Len(_data) < MaxPoints /\ SumFunction(_data') = SumFunction(_data) + commits(s.val)
  <2>1. /\ _data' \in Seq(Nat) /\ SumFunction(_data') <= SumFunction(_data) + commits(s.val)
        /\ Len(_data') < MaxPoints => Len(_data) < MaxPoints /\ SumFunction(_data') = SumFunction(_data) + commits(s.val)
    BY <1>1, <1>2, <1>9, ChartIs
  <2>2. DOMAIN _data' = 1 .. Len(_data') /\ Len(_data') \in Int /\ \A i \in DOMAIN _data' : _data'[i] \in Nat
    BY <2>1
  <2>3. IsFiniteSet(DOMAIN _data')
    BY <2>2, Interval
  <2>4. SumFunction(_data') \in Nat
    BY <2>2, <2>3, SumNat DEF SumFunction
  <2> QED
    BY <2>1, <2>4
<1>10. DOMAIN prev' = DOMAIN s.val \cup DOMAIN prev
  BY <1>1, MergeIs
<1>11. CASE DOMAIN s.val = {}
  <2>1. commits(s.val) = 0
    <3>1. DOMAIN [d \in DOMAIN s.val |-> IF d \in DOMAIN prev THEN Growth(s.val[d] - prev[d]) ELSE 0] = {}
      BY <1>11
    <3> QED
      BY <3>1, EmptyTotal DEF commits
  <2>2. prev' = prev /\ first' = first
    <3> DEFINE t == [d \in DOMAIN s.val |-> s.true[d]]
    <3>1. first' = Over(first, t) /\ DOMAIN t = {}
      BY <1>1, <1>11
    <3> HIDE DEF t
    <3>2. first = [d \in DOMAIN first |-> first[d]]
      BY <1>2 DEF Listed, Value
    <3>3. Over(first, t) = first
      BY <3>1, <3>2 DEF Over
    <3> QED
      BY <1>1, <1>2, <1>11, <3>1, <3>3, MergeListed
  <2>3. Counted(c)'
    <3>1. ASSUME NEW d \in DOMAIN prev, NEW o \in way', o.at > s.at, d \in DOMAIN o.val
          PROVE  c[d] - prev[d] <= Before(o, d)
      <4>1. o \in way /\ o.at \in 0 .. MaxTime
        BY <1>1, SampleIs DEF DashboardInductive, DashboardTypeOK
      <4>2. o.at > prevAt
        BY <1>2, <1>3, <3>1, <4>1 DEF Never
      <4> QED
        BY <1>4, <3>1, <4>1, <4>2 DEF Counted
    <3> QED
      BY <1>1, <1>4, <2>2, <3>1 DEF Counted, Before
  <2>4. \A d \in DOMAIN prev' : c[d] <= lastTrue'[d]
    <3> SUFFICES ASSUME NEW d \in DOMAIN prev PROVE c[d] <= s.true[d]
      BY <1>1, <2>2
    <3>1. d \in Db /\ c[d] \in Nat /\ c[d] <= lastTrue[d]
      BY <1>4, <1>5
    <3> QED
      BY <1>7, <3>1
  <2>5. SumFunction(_data') <= SumFunction(c) - SumFunction(first')
    BY <1>4, <1>6, <1>8, <1>9, <2>1, <2>2
  <2>6. ~statsReset' /\ Len(_data') < MaxPoints => SumFunction(_data') = SumFunction(prev') - SumFunction(first')
    BY <1>1, <1>4, <1>6, <1>8, <1>9, <2>1, <2>2
  <2>7. c \in [DOMAIN prev' -> 0 .. MaxCount]
    BY <2>2
  <2> QED
    BY <2>3, <2>4, <2>5, <2>6, <2>7
<1>12. CASE DOMAIN s.val = Db
  <2>1. prev' = s.val /\ DOMAIN prev' = Db
    BY <1>1, <1>2, <1>5, <1>10, <1>12, MergeListed
  <2>2. Counted(s.true)'
    <3>1. /\ \A d \in DOMAIN s.val : s.val[d] <= s.true[d] /\ s.true[d] - s.val[d] <= base[d]
          /\ \A o \in way : s.at < o.at => \A d \in DOMAIN s.val \cap DOMAIN o.val : s.true[d] - s.val[d] <= Before(o, d)
      BY <1>1 DEF DashboardInductive, WayInv, Before
    <3>2. \A o \in way' : o \in way /\ (o.at > s.at => s.at < o.at)
      <4> TAKE o \in way'
      <4>1. o \in way /\ o.at \in 0 .. MaxTime
        BY <1>1, SampleIs DEF DashboardInductive, DashboardTypeOK
      <4> QED
        BY <1>2, <4>1
    <3> QED
      BY <1>1, <2>1, <3>1, <3>2 DEF Counted, Before
  <2>3. \A d \in DOMAIN prev' : s.true[d] <= lastTrue'[d]
    BY <1>1, <1>7, <2>1
  <2>4. s.true \in [DOMAIN prev' -> 0 .. MaxCount]
    BY <1>5, <2>1
  <2>5. ASSUME ~statsReset PROVE SumFunction(s.val) = SumFunction(s.true)
    <3>1. \A d \in Db : s.val[d] = s.true[d] /\ s.val[d] \in Int
      <4> TAKE d \in Db
      <4>1. s.val[d] <= s.true[d] /\ s.true[d] - s.val[d] <= base[d] /\ base[d] = 0
        BY <1>1, <1>12, <2>5 DEF DashboardInductive, WayInv, Before
      <4>2. s.val[d] \in Nat /\ s.true[d] \in Nat
        BY <1>5, <1>12
      <4> QED
        BY <4>1, <4>2
    <3> QED
      BY <1>5, <1>12, <3>1, SumSame DEF SumFunction
  <2>6. CASE DOMAIN prev = {} /\ Db # {}
    <3>1. commits(s.val) = 0
      <4> DEFINE g == [d \in DOMAIN s.val |-> IF d \in DOMAIN prev THEN Growth(s.val[d] - prev[d]) ELSE 0]
      <4>1. DOMAIN g = Db /\ \A d \in Db : g[d] = 0
        BY <1>12, <2>6
      <4> HIDE DEF g
      <4>2. SumFunction(g) = 0
        BY <1>5, <1>12, <4>1, SumZero DEF SumFunction
      <4> QED
        BY <4>2 DEF commits, g
    <3>2. first' = s.true
      <4> DEFINE t == [d \in DOMAIN s.val |-> s.true[d]]
      <4>1. first' = Over(first, t) /\ t = s.true /\ DOMAIN t = Db
        BY <1>1, <1>5, <1>12
      <4> HIDE DEF t
      <4>2. DOMAIN first = {}
        BY <1>2, <2>6
      <4>3. t = [d \in DOMAIN t |-> t[d]]
        BY <1>5, <4>1
      <4>4. Over(first, t) = t
        BY <4>2, <4>3 DEF Over
      <4> QED
        BY <4>1, <4>4
    <3>3. SumFunction(prev) = 0 /\ SumFunction(first) = 0 /\ SumFunction(c) = 0
      BY <1>2, <1>5, <2>6, EmptyTotal
    <3>4. SumFunction(_data) = 0
      BY <1>4, <1>8, <3>3
    <3>5. SumFunction(_data') <= SumFunction(s.true) - SumFunction(first')
      BY <1>6, <1>9, <3>1, <3>2, <3>4
    <3>6. ~statsReset' /\ Len(_data') < MaxPoints => SumFunction(_data') = SumFunction(prev') - SumFunction(first')
      BY <1>1, <1>6, <1>9, <2>1, <2>5, <3>1, <3>2, <3>4
    <3> QED
      BY <2>2, <2>3, <2>4, <3>5, <3>6
  <2>7. CASE DOMAIN prev = Db
    <3>1. first' = first
      <4> DEFINE t == [d \in DOMAIN s.val |-> s.true[d]]
      <4>1. first' = Over(first, t) /\ DOMAIN t = DOMAIN first
        BY <1>1, <1>2, <1>12, <2>7
      <4> HIDE DEF t
      <4>2. first = [d \in DOMAIN first |-> first[d]]
        BY <1>2 DEF Listed, Value
      <4> QED
        BY <4>1, <4>2 DEF Over
    <3>2. commits(s.val) = SumFunction([d \in Db |-> Growth(s.val[d] - prev[d])])
      <4>1. [d \in DOMAIN s.val |-> IF d \in DOMAIN prev THEN Growth(s.val[d] - prev[d]) ELSE 0]
              = [d \in Db |-> Growth(s.val[d] - prev[d])]
        BY <1>12, <2>7
      <4> QED
        BY <4>1 DEF commits
    <3>3. /\ \A d \in Db : /\ s.val[d] - prev[d] <= s.true[d] - c[d] /\ c[d] <= s.true[d]
                           /\ ~statsReset => prev[d] <= s.val[d]
          /\ {s.val, prev, s.true, c} \subseteq [Db -> Nat]
      BY <1>1, <1>3, <1>4, <1>12, <2>7, GrownSince
    <3>4. s.val \in [Db -> Int] /\ prev \in [Db -> Int] /\ s.true \in [Db -> Int] /\ c \in [Db -> Int]
      BY <3>3
    <3>5. /\ commits(s.val) <= SumFunction(s.true) - SumFunction(c)
          /\ ~statsReset => commits(s.val) = SumFunction(s.val) - SumFunction(prev)
      <4> DEFINE g == [d \in Db |-> Growth(s.val[d] - prev[d])]
      <4>1. \A d \in Db : s.val[d] \in Int /\ prev[d] \in Int /\ s.true[d] \in Int /\ c[d] \in Int
        BY <3>4
      <4>2. DOMAIN g = Db /\ \A d \in Db : g[d] = Growth(s.val[d] - prev[d])
        OBVIOUS
      <4> HIDE DEF g
      <4>3. ASSUME NEW d \in Db
            PROVE  /\ g[d] \in Int /\ g[d] + c[d] <= s.true[d]
                   /\ ~statsReset => g[d] + prev[d] = s.val[d]
        <5>1. s.val[d] - prev[d] \in Int
          BY <4>1
        <5>2. g[d] \in Int /\ g[d] = IF s.val[d] - prev[d] > 0 THEN s.val[d] - prev[d] ELSE 0
          BY <4>2, <5>1, GrowthIs
        <5>3. /\ s.val[d] - prev[d] <= s.true[d] - c[d] /\ c[d] <= s.true[d]
              /\ ~statsReset => prev[d] <= s.val[d]
          BY <3>3
        <5>4. s.val[d] \in Int /\ prev[d] \in Int /\ s.true[d] \in Int /\ c[d] \in Int
          BY <4>1
        <5>5. g[d] + c[d] <= s.true[d]
          BY <5>2, <5>3, <5>4
        <5>6. prev[d] <= s.val[d] => g[d] + prev[d] = s.val[d]
          BY <5>2, <5>4
        <5> QED
          BY <5>2, <5>3, <5>5, <5>6
      <4>4. SumFunctionOnSet(g, Db) + SumFunctionOnSet(c, Db) <= SumFunctionOnSet(s.true, Db)
        BY <4>1, <4>3, SumOfTwo
      <4>5. ~statsReset => SumFunctionOnSet(g, Db) + SumFunctionOnSet(prev, Db) = SumFunctionOnSet(s.val, Db)
        BY <4>1, <4>3, SumOfTwo
      <4>6. /\ SumFunctionOnSet(g, Db) \in Int /\ SumFunctionOnSet(c, Db) \in Int /\ SumFunctionOnSet(s.true, Db) \in Int
            /\ SumFunctionOnSet(prev, Db) \in Int /\ SumFunctionOnSet(s.val, Db) \in Int
        BY <4>1, <4>3, SumInt
      <4>7. commits(s.val) = SumFunctionOnSet(g, Db)
        BY <3>2, <4>2 DEF SumFunction, g
      <4>8. DOMAIN c = Db /\ DOMAIN prev = Db /\ DOMAIN s.val = Db /\ DOMAIN s.true = Db
        BY <3>4
      <4> QED
        BY <4>4, <4>5, <4>6, <4>7, <4>8 DEF SumFunction
    <3>6. commits(s.val) \in Nat
      <4>1. \A d \in Db : Growth(s.val[d] - prev[d]) \in Nat
        <5> TAKE d \in Db
        <5>1. s.val[d] \in Int /\ prev[d] \in Int /\ s.val[d] - prev[d] \in Int
          BY <3>4
        <5> QED
          BY <5>1, GrowthIs
      <4>2. [d \in Db |-> Growth(s.val[d] - prev[d])] \in [Db -> Nat]
        BY <4>1
      <4> QED
        BY <3>2, <4>2, Total
    <3>7. SumFunction(_data') <= SumFunction(s.true) - SumFunction(first')
      BY <1>4, <1>6, <1>8, <1>9, <3>1, <3>5, <3>6
    <3>8. ~statsReset' /\ Len(_data') < MaxPoints => SumFunction(_data') = SumFunction(prev') - SumFunction(first')
      BY <1>1, <1>4, <1>6, <1>8, <1>9, <2>1, <3>1, <3>5, <3>6
    <3> QED
      BY <2>2, <2>3, <2>4, <3>7, <3>8
  <2> QED
    BY <1>5, <2>6, <2>7
<1> QED
  BY <1>5, <1>11, <1>12

LEMMA DashStep ==
  ASSUME DashboardAssumption, DashboardInductive, DashboardNext
  PROVE  DashboardInductive'
<1>1. CASE Work
  BY <1>1, WorkStep
<1>2. CASE ResetStatistics
  BY <1>2, ResetStep
<1>3. CASE \E via \in Stream \cup {Http}, dbs \in {{}, Db} : CollectStats(via, dbs)
  BY <1>3, CollectStep
<1>4. CASE onData
  <2>1. PICK s : Arrives(s)
    BY <1>4 DEF onData, Arrives
  <2> QED
    BY <2>1, ArriveType, ArriveLast, ArriveRate, ArriveChart DEF DashboardInductive
<1>5. CASE render
  BY <1>5, RenderStep
<1> QED
  BY <1>1, <1>2, <1>3, <1>4, <1>5 DEF DashboardNext

LEMMA DashUnchanged ==
  ASSUME DashboardInductive, UNCHANGED dashVars
  PROVE  DashboardInductive'
<1>1. /\ count' = count /\ base' = base /\ time' = time /\ asked' = asked /\ way' = way /\ _data' = _data
      /\ prev' = prev /\ prevAt' = prevAt /\ prevTotal' = prevTotal /\ rate' = rate /\ first' = first
      /\ lastTrue' = lastTrue /\ overtaken' = overtaken /\ listed' = listed /\ statsReset' = statsReset
  BY DEF dashVars, pgVars, rateVars
<1> QED
  BY <1>1 DEF DashboardInductive, DashboardTypeOK, WayInv, LastInv, ChartInv, RateIsGrowth, Counted, Before

LEMMA DashSays ==
  ASSUME DashboardAssumption, DashboardInductive
  PROVE  RatesExplained
<1>1. RateIsGrowth
  BY DEF DashboardInductive
<1>2. ASSUME ~overtaken
      PROVE  /\ SumFunction(_data) <= SumFunctionOnSet(lastTrue, DOMAIN first) - SumFunction(first)
             /\ ~statsReset /\ Len(_data) < MaxPoints =>
                  SumFunction(_data) = SumFunction(prev) - SumFunction(first)
  <2>1. PICK c \in [DOMAIN prev -> 0 .. MaxCount] :
          /\ \A d \in DOMAIN prev : c[d] <= lastTrue[d]
          /\ SumFunction(_data) <= SumFunction(c) - SumFunction(first)
          /\ ~statsReset /\ Len(_data) < MaxPoints =>
               SumFunction(_data) = SumFunction(prev) - SumFunction(first)
    BY <1>2 DEF DashboardInductive, ChartInv
  <2>2. /\ prev \in Listed /\ first \in Listed /\ DOMAIN first = DOMAIN prev /\ lastTrue \in Value
        /\ _data \in Seq(Nat)
    BY DEF DashboardInductive, DashboardTypeOK
  <2>3. \A d \in DOMAIN prev : c[d] \in Int /\ lastTrue[d] \in Int /\ c[d] <= lastTrue[d]
    BY <2>1, <2>2, ListedIs, ValueIs DEF DashboardAssumption
  <2>4. IsFiniteSet(DOMAIN prev)
    BY <2>2, ListedIs
  <2>5. SumFunction(c) <= SumFunctionOnSet(lastTrue, DOMAIN first)
    BY <2>2, <2>3, <2>4, SumMonotone DEF SumFunction
  <2>6. SumFunction(c) \in Int /\ SumFunctionOnSet(lastTrue, DOMAIN first) \in Int
    BY <2>2, <2>3, <2>4, SumInt DEF SumFunction
  <2>7. SumFunction(first) \in Nat
    BY <2>2, ListedIs, Total
  <2>8. SumFunction(_data) \in Nat
    <3>1. DOMAIN _data = 1 .. Len(_data) /\ Len(_data) \in Int /\ \A i \in DOMAIN _data : _data[i] \in Nat
      BY <2>2
    <3>2. IsFiniteSet(DOMAIN _data)
      BY <3>1, Interval
    <3> QED
      BY <3>1, <3>2, SumNat DEF SumFunction
  <2> QED
    BY <2>1, <2>5, <2>6, <2>7, <2>8
<1> QED
  BY <1>1, <1>2 DEF RatesExplained, CommitsOnce

\* The chart counts each transaction once, and a rate is the growth between two
\* samples of updateDashboard (dashboard.js).
THEOREM RatesTrue == DashboardSpec => [](DashboardTypeOK /\ RatesExplained)
<1>1. DashboardInit => DashboardInductive
  BY DashboardAssumption, DashStart
<1>2. DashboardInductive /\ [DashboardNext]_dashVars => DashboardInductive'
  BY DashboardAssumption, DashStep, DashUnchanged
<1>3. DashboardInductive => DashboardTypeOK /\ RatesExplained
  BY DashboardAssumption, DashSays DEF DashboardInductive
<1> QED
  BY <1>1, <1>2, <1>3, PTL DEF DashboardSpec

-----------------------------------------------------------------------------
\* The three parts of the pages keep the types of their state, side by side
\* (app.js, dashboard.js).
THEOREM WebTyped == WebSpec => []WebTypeOK
<1> DEFINE Inv == LoginInductive /\ PanelsInductive /\ DashboardInductive
<1>1. WebInit => Inv
  BY LoginStart, PanelsStart, DashStart, DashboardAssumption DEF WebInit
<1>2. Inv /\ [WebNext]_<<part, loginVars, panelVars, dashVars>> => Inv'
  <2> SUFFICES ASSUME Inv, [WebNext]_<<part, loginVars, panelVars, dashVars>>
               PROVE  Inv'
    OBVIOUS
  <2>1. [LoginNext]_loginVars /\ [PanelsNext]_panelVars /\ [DashboardNext]_dashVars
    BY DEF WebNext
  <2> QED
    BY <2>1, LoginStep, PanelsStep, DashStep, DashUnchanged, DashboardAssumption
<1>3. Inv => WebTypeOK
  BY DEF LoginInductive, PanelsInductive, DashboardInductive, WebTypeOK
<1> QED
  BY <1>1, <1>2, <1>3, PTL DEF WebSpec
=============================================================================
