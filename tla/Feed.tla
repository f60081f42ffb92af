-------------------------------- MODULE Feed --------------------------------
(***************************************************************************)
(* The sockets of the web front end: the dashboard's stream of samples     *)
(* (connectWebSocket to updateWsStatus in backend/web/static/js/app.js),   *)
(* the log viewer's stream of lines (logs.js) and navigate, which opens    *)
(* and closes both.                                                        *)
(*                                                                         *)
(* A socket that is closed fires its handlers later, and one that is       *)
(* closed before it was open also fires the error handler.  By then the    *)
(* variable the handlers use may hold another socket.                      *)
(***************************************************************************)
EXTENDS Naturals, FiniteSets

CONSTANTS
  Feeds, Logs,  \* the sockets of the dashboard and of the log viewer at once
  NoSocket,     \* null
  MaxLoads      \* renderings of the log viewer that wait for their first lines

Socket == Feeds \cup Logs

ASSUME FeedAssumption ==
  Feeds \cap Logs = {} /\ NoSocket \notin Socket /\ MaxLoads \in Nat \ {0}

VARIABLES
  page,             \* the page on the screen
  sock,             \* the sockets of the browser
  ws,               \* ws: the dashboard's socket
  wsReconnectTimer, \* wsReconnectTimer
  wsStatus,         \* updateWsStatus: "connected" is shown
  _ws,              \* LogStream._ws
  loads,            \* LogStream.render, waiting in loadRecent
  hasty,            \* history: connectWebSocket replaced a socket that was not closed
  doubled           \* history: LogStream.connectWs closed a socket that was there

feedVars == <<page, sock, ws, wsReconnectTimer, wsStatus, _ws, loads, hasty, doubled>>

\* broken: closed before it was open.  heard: onclose is set.
Free  == [stage |-> "free", heard |-> FALSE]
Fresh == [stage |-> "connecting", heard |-> TRUE]

FeedTypeOK ==
  /\ page \in {"dashboard", "logs", "other"}
  /\ sock \in [Socket -> [heard : BOOLEAN,
                          stage : {"free", "connecting", "open", "closing", "broken"}]]
  /\ ws \in Feeds \cup {NoSocket} /\ _ws \in Logs \cup {NoSocket}
  /\ wsReconnectTimer \in BOOLEAN /\ wsStatus \in BOOLEAN /\ loads \in 0 .. MaxLoads
  /\ hasty \in BOOLEAN /\ doubled \in BOOLEAN
  /\ _ws # NoSocket => sock[_ws].stage # "free"

\* The login is followed by the first navigate.
FeedInit ==
  /\ page = "other" /\ sock = [s \in Socket |-> Free]
  /\ ws = NoSocket /\ wsReconnectTimer = FALSE /\ wsStatus = FALSE
  /\ _ws = NoSocket /\ loads = 0 /\ hasty = FALSE /\ doubled = FALSE

-----------------------------------------------------------------------------
(* Closing *)

Closed(r) ==
  CASE r.stage = "open"       -> [r EXCEPT !.stage = "closing"]
    [] r.stage = "connecting" -> [r EXCEPT !.stage = "broken"]
    [] OTHER                  -> r

close(socks, s) ==
  [t \in Socket |-> IF t = s THEN Closed(socks[t]) ELSE socks[t]]

\* onclose = null, then close.
Drop(socks, s) ==
  [t \in Socket |-> IF t = s THEN [Closed(socks[t]) EXCEPT !.heard = FALSE] ELSE socks[t]]

\* LogStream.destroy
destroy == Drop(sock, _ws)

-----------------------------------------------------------------------------
(* The dashboard's socket *)

\* Only an open socket keeps another from being made.
connectWebSocket(socks) ==
  IF ws # NoSocket /\ socks[ws].stage = "open"
  THEN sock' = socks /\ UNCHANGED <<ws, hasty>>
  ELSE \E s \in Feeds :
         /\ sock[s].stage = "free"
         /\ sock' = [socks EXCEPT ![s] = Fresh]
         /\ ws' = s
         /\ hasty' = (hasty \/ (ws # NoSocket /\ socks[ws].stage # "free"))

\* Variant for checking the properties: the timer of the page before stays.
disconnectKeepsTimer(socks) ==
  /\ wsStatus' = FALSE
  /\ sock' = Drop(socks, ws) /\ ws' = NoSocket
  /\ UNCHANGED <<hasty, wsReconnectTimer>>

disconnectWebSocket(socks) ==
  /\ wsReconnectTimer' = FALSE /\ wsStatus' = FALSE
  /\ sock' = Drop(socks, ws) /\ ws' = NoSocket
  /\ UNCHANGED hasty

onopen(s) ==
  /\ sock[s].stage = "connecting"
  /\ sock' = [sock EXCEPT ![s].stage = "open"]
  /\ IF s \in Feeds THEN wsStatus' = TRUE /\ wsReconnectTimer' = FALSE
     ELSE UNCHANGED <<wsStatus, wsReconnectTimer>>
  /\ UNCHANGED <<page, ws, _ws, loads, hasty, doubled>>

\* Variant for checking the properties: no reconnection is scheduled.
oncloseGivesUp(s) ==
  IF sock[s].heard /\ s \in Feeds
  THEN wsStatus' = FALSE /\ UNCHANGED wsReconnectTimer ELSE UNCHANGED <<wsReconnectTimer, wsStatus>>

\* scheduleReconnect leaves a timer that is running alone.
onclose(s) ==
  IF sock[s].heard /\ s \in Feeds
  THEN wsStatus' = FALSE /\ wsReconnectTimer' = TRUE ELSE UNCHANGED <<wsReconnectTimer, wsStatus>>

\* onerror closes the socket that ws holds now.
onerror(s) ==
  IF s \in Feeds /\ ws # s THEN close(sock, ws) ELSE sock

\* Variant for checking the properties: a stream that ended is remembered.
logsOncloseKeeps(s) == UNCHANGED _ws

\* LogStream: onclose forgets the socket that _ws holds now.
logsOnclose(s) ==
  _ws' = IF sock[s].heard /\ s \in Logs THEN NoSocket ELSE _ws

Gone(s, socks) ==
  /\ sock' = [socks EXCEPT ![s] = Free]
  /\ ws' = IF ws = s THEN NoSocket ELSE ws   \* a closed socket is as good as none
  /\ onclose(s) /\ logsOnclose(s)
  /\ UNCHANGED <<page, loads, hasty, doubled>>

\* The server or the browser ends an open connection: no error.
Finish(s) ==
  /\ sock[s].stage = "closing"
  /\ Gone(s, sock)

ServerCloses(s) ==
  /\ sock[s].stage = "open"
  /\ sock' = [sock EXCEPT ![s].stage = "closing"]
  /\ UNCHANGED <<page, ws, wsReconnectTimer, wsStatus, _ws, loads, hasty, doubled>>

\* A connection that fails, is refused (an expired session), or was closed
\* before it was there: the error, then the close.
Break(s) ==
  /\ sock[s].stage \in {"connecting", "open", "broken"}
  /\ Gone(s, onerror(s))

\* The timer of scheduleReconnect, wherever the user is by then.
Reconnect ==
  /\ wsReconnectTimer
  /\ wsReconnectTimer' = FALSE
  /\ connectWebSocket(sock)
  /\ UNCHANGED <<page, wsStatus, _ws, loads, doubled>>

-----------------------------------------------------------------------------
(* The log viewer *)

connectWs(s) ==
  /\ sock' = [close(sock, _ws) EXCEPT ![s] = Fresh]
  /\ doubled' = (doubled \/ _ws # NoSocket)

\* loadRecent is answered, or fails, and the rendering goes on to connectWs.
loadRecent ==
  /\ loads > 0
  /\ loads' = loads - 1
  /\ \E s \in Logs : sock[s].stage = "free" /\ connectWs(s) /\ _ws' = s
  /\ UNCHANGED <<page, ws, wsReconnectTimer, wsStatus, hasty>>

-----------------------------------------------------------------------------
\* The link in the menu, the back button, or the refresh button for the page
\* that is there.
navigate(p) ==
  /\ page' = p
  /\ loads' = loads + (IF p = "logs" THEN 1 ELSE 0) /\ loads' <= MaxLoads
  /\ _ws' = NoSocket
  /\ IF p = "dashboard" THEN connectWebSocket(destroy) /\ UNCHANGED <<wsReconnectTimer, wsStatus>>
     ELSE disconnectWebSocket(destroy)
  /\ UNCHANGED doubled

FeedNext ==
  \/ \E p \in {"dashboard", "logs", "other"} : navigate(p)
  \/ \E s \in Socket : onopen(s) \/ Finish(s) \/ ServerCloses(s) \/ Break(s)
  \/ Reconnect \/ loadRecent

FeedSpec == FeedInit /\ [][FeedNext]_feedVars

\* The browser runs its timers and reports what became of a connection; whether
\* connections succeed is left open.
FeedFairness ==
  /\ WF_feedVars(Reconnect)
  /\ \A s \in Socket : WF_feedVars(Finish(s)) /\ WF_feedVars(sock[s].stage = "broken" /\ Break(s))

FeedFairSpec == FeedSpec /\ FeedFairness

-----------------------------------------------------------------------------
Live(s) == sock[s].stage \in {"connecting", "open"}
Feeding(s) == Live(s) /\ s \in Feeds
Leaving(s) == sock[s].stage \in {"closing", "broken"} /\ s \in Feeds /\ sock[s].heard

\* "connected" is shown only over an open stream, or one whose end the browser
\* is about to report.
ConnectedIsTrue ==
  wsStatus => \E s \in Socket : (Feeding(s) /\ sock[s].stage = "open") \/ Leaving(s)

\* "disconnected" stays over an open stream only after a hasty connection.
DisconnectedIsTrue ==
  page = "dashboard" /\ ~wsStatus /\ ~wsReconnectTimer /\ ~hasty =>
    \E s \in Socket : (Feeding(s) /\ sock[s].stage = "connecting") \/ Leaving(s)

\* The dashboard never gives up: there is a socket, or a timer for the next.
DashboardLives ==
  page = "dashboard" => wsReconnectTimer \/ \E s \in Socket : Feeding(s) \/ Leaving(s)

\* Off the dashboard nothing streams or reconnects, but for the sockets that a
\* hasty connection left behind.
QuietElsewhere ==
  page # "dashboard" /\ ~hasty => ~wsReconnectTimer /\ \A s \in Socket : ~Feeding(s)

\* The log viewer knows the one stream it has, unless it once opened one over
\* another.
OneLogStream ==
  ~doubled => \A s \in Socket : Live(s) /\ s \in Logs => s = _ws

\* The sockets that app.js and logs.js know of are those that stream, and the
\* status shown is theirs, through every close, error and change of page.
SocketsExplained ==
  /\ ConnectedIsTrue /\ DisconnectedIsTrue
  /\ DashboardLives /\ QuietElsewhere /\ OneLogStream

\* What these rest on.  A socket that is in use has its handlers.
Handled(s) ==
  /\ sock[s].heard => sock[s].stage # "free"
  /\ Live(s) => sock[s].heard

\* Unless a socket was replaced, only the one that the page knows of has any.
DashboardInv ==
  /\ \A s \in Feeds : Handled(s)
  /\ ~hasty => \A s \in Feeds : sock[s].heard =>
       /\ s = ws /\ page = "dashboard"
       /\ sock[s].stage = "open" => wsStatus
  /\ ~hasty /\ wsReconnectTimer => page = "dashboard"
  /\ ConnectedIsTrue /\ DashboardLives

LogStreamInv ==
  /\ \A s \in Logs : Handled(s)
  /\ _ws # NoSocket => sock[_ws].heard
  /\ ~doubled => \A s \in Logs : sock[s].heard => s = _ws

FeedInductive == FeedTypeOK /\ DashboardInv /\ LogStreamInv

\* While the dashboard stays on the screen it is connected, or tries to be,
\* again and again.
KeepsTrying ==
  <>[](page = "dashboard") => []<>(\E s \in Socket : Feeding(s))
=============================================================================
