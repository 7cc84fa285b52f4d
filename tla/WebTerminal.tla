---------------------------- MODULE WebTerminal ----------------------------
(***************************************************************************)
(* The browser client terminal/terminal.js, one page, with the daemon and  *)
(* the network as it meets them. The page is event driven: each handler    *)
(* runs to its end as one step, and handlers of sockets that are no longer *)
(* S.ws still fire and work on the same page state S.                      *)
(*                                                                         *)
(* Reconnect delays are not timed: a timer that is set may fire at any     *)
(* time. A socket whose close event was handled is forgotten, and its      *)
(* identity may be used again.                                             *)
(***************************************************************************)
EXTENDS Integers, FiniteSets

CONSTANTS
  Sids,      \* session ids the daemon gives out
  Socks,     \* bound: WebSocket objects alive at one time
  MaxPosts,  \* bound: POST /sessions requests on their way to the daemon
  MaxStops   \* bound: stop requests of one session in flight

ASSUME PageAssumption ==
  /\ "none" \notin Sids \cup Socks
  /\ MaxPosts \in Nat /\ MaxStops \in Nat

VARIABLES
  S,        \* the page: sid, ws, connected, userDisconnected, reconnect timer
  buttons,  \* which of the toolbar buttons are enabled
  sock,     \* the WebSocket objects and the server's end of them
  posting,  \* POST /sessions on their way to the daemon
  created,  \* sessions whose creation the page has not been told yet
  stops,    \* stop requests of a session whose answer has not come
  daemon    \* what the daemon knows of a session

vars == <<S, buttons, sock, posting, created, stops, daemon>>

Live == {"connecting", "open", "served", "told"}
Unused == [st |-> "unused", sid |-> "none"]

TypeOK ==
  /\ S \in [sid : Sids \cup {"none"}, ws : Socks \cup {"none"}, connected : BOOLEAN,
            userDisconnected : BOOLEAN, timer : BOOLEAN, unlocked : BOOLEAN]
  /\ buttons \in [start : BOOLEAN, stop : BOOLEAN]
  /\ sock \in [Socks -> [st : Live \cup {"closing", "ended"}, sid : Sids] \cup {Unused}]
  /\ posting \in 0 .. MaxPosts
  /\ created \subseteq Sids
  /\ stops \in [Sids -> 0 .. MaxStops]
  /\ daemon \in [Sids -> {"fresh", "running", "exited", "lost"}]

Init ==
  /\ S = [sid |-> "none", ws |-> "none", connected |-> FALSE,
          userDisconnected |-> FALSE, timer |-> FALSE, unlocked |-> FALSE]
  /\ buttons = [start |-> TRUE, stop |-> FALSE]
  /\ sock = [k \in Socks |-> Unused]
  /\ posting = 0 /\ created = {}
  /\ stops = [s \in Sids |-> 0]
  /\ daemon = [s \in Sids |-> "fresh"]

-----------------------------------------------------------------------------
(* connect(sid) and disconnect(), as the handlers call them.               *)

\* connect: a new socket becomes S.ws; the one before it is not closed.
\* tmr is what the caller leaves of the reconnect timer.
ConnectTo(s, tmr) ==
  \E k \in Socks :
    /\ sock[k] = Unused
    /\ sock' = [sock EXCEPT ![k] = [st |-> "connecting", sid |-> s]]
    /\ S' = [S EXCEPT !.sid = s, !.ws = k, !.userDisconnected = FALSE, !.timer = tmr]

\* What disconnect leaves of the page.
PageOffline == [S EXCEPT !.userDisconnected = TRUE, !.timer = FALSE, !.connected = FALSE,
                         !.ws = "none", !.sid = "none"]

\* disconnect: closes S.ws only. socks is sock after the caller's own part.
Disconnect(socks) ==
  /\ S' = PageOffline
  /\ sock' = IF S.ws # "none" /\ socks[S.ws].st \in Live
               THEN [socks EXCEPT ![S.ws].st = "closing"] ELSE socks
  /\ buttons' = [start |-> TRUE, stop |-> FALSE]

-----------------------------------------------------------------------------
(* The user.                                                               *)

\* handleLogin with the right password; a wrong one changes nothing.
Login ==
  /\ ~S.unlocked
  /\ S' = [S EXCEPT !.unlocked = TRUE]
  /\ UNCHANGED <<buttons, sock, posting, created, stops, daemon>>

HandleStart ==
  /\ S.unlocked /\ buttons.start /\ posting < MaxPosts
  /\ posting' = posting + 1
  /\ UNCHANGED <<S, buttons, sock, created, stops, daemon>>

StopClicked ==
  /\ S.unlocked /\ buttons.stop /\ S.sid # "none" /\ stops[S.sid] < MaxStops
  /\ stops' = [stops EXCEPT ![S.sid] = @ + 1]
  /\ UNCHANGED <<S, buttons, sock, posting, created, daemon>>

\* (mutant) does not look whether there is a session
ForegroundedAlways ==
  /\ ~S.userDisconnected /\ ~S.connected
  /\ ConnectTo(S.sid, FALSE)
  /\ UNCHANGED <<buttons, posting, created, stops, daemon>>
\* visibilitychange: the page returns to the foreground.
Foregrounded ==
  /\ S.sid # "none" /\ ~S.userDisconnected /\ ~S.connected
  /\ ConnectTo(S.sid, FALSE)
  /\ UNCHANGED <<buttons, posting, created, stops, daemon>>

-----------------------------------------------------------------------------
(* Answers to fetch().                                                     *)

StartAnswered(s) ==
  /\ s \in created
  /\ created' = created \ {s}
  /\ ConnectTo(s, S.timer)
  /\ UNCHANGED <<buttons, posting, stops, daemon>>

\* The request or its answer was lost, or the daemon refused it.
StartFails ==
  /\ \/ posting > 0 /\ posting' = posting - 1 /\ UNCHANGED created
     \/ \E s \in created : created' = created \ {s} /\ UNCHANGED posting
  /\ UNCHANGED <<S, buttons, sock, stops, daemon>>

\* stopSession goes on to disconnect() whatever became of its request, and
\* whatever session the page shows by then.
StopReturns(s) ==
  /\ stops[s] > 0
  /\ stops' = [stops EXCEPT ![s] = @ - 1]
  /\ Disconnect(sock)
  /\ UNCHANGED <<posting, created, daemon>>

-----------------------------------------------------------------------------
(* The reconnect timer.                                                    *)

\* (mutant) the timer's callback does not connect
TimerIdle ==
  /\ S.timer
  /\ S' = [S EXCEPT !.timer = FALSE] /\ UNCHANGED sock
  /\ UNCHANGED <<buttons, posting, created, stops, daemon>>
TimerFires ==
  /\ S.timer
  /\ IF S.userDisconnected \/ S.sid = "none"
       THEN S' = [S EXCEPT !.timer = FALSE] /\ UNCHANGED sock
       ELSE ConnectTo(S.sid, FALSE)
  /\ UNCHANGED <<buttons, posting, created, stops, daemon>>

-----------------------------------------------------------------------------
(* Events of a socket.                                                     *)

OnOpen(k) ==
  /\ sock[k].st = "connecting"
  /\ sock' = [sock EXCEPT ![k].st = "open"]
  /\ S' = [S EXCEPT !.connected = TRUE]
  /\ buttons' = [start |-> FALSE, stop |-> TRUE]
  /\ UNCHANGED <<posting, created, stops, daemon>>

\* The exited message, which the server sends and then closes the socket.
OnExited(k) ==
  /\ sock[k].st = "told"
  /\ Disconnect([sock EXCEPT ![k].st = "ended"])
  /\ UNCHANGED <<posting, created, stops, daemon>>

\* (mutant) only a connection that had been up is worth a reconnect
ReconnectsIfConnected == S.sid # "none" /\ ~S.userDisconnected /\ S.connected
\* onclose: is a reconnect scheduled?
Reconnects == S.sid # "none" /\ ~S.userDisconnected

\* (mutant) the close of a socket that is no longer S.ws is ignored
OnCloseOwn(k) ==
  /\ sock[k].st = "ended"
  /\ sock' = [sock EXCEPT ![k] = Unused]
  /\ S' = IF S.ws # k THEN S
           ELSE [S EXCEPT !.connected = FALSE, !.ws = "none", !.timer = @ \/ Reconnects]
  /\ UNCHANGED <<buttons, posting, created, stops, daemon>>
\* The page's timer may have been set already: scheduleReconnect sets it anew.
\* A closed S.ws behaves like none.
OnClose(k) ==
  /\ sock[k].st = "ended"
  /\ sock' = [sock EXCEPT ![k] = Unused]
  /\ S' = [S EXCEPT !.connected = FALSE,
                    !.ws = IF @ = k THEN "none" ELSE @,
                    !.timer = @ \/ Reconnects]
  /\ buttons' = IF S.sid # "none" /\ S.userDisconnected
                  THEN [start |-> TRUE, stop |-> FALSE] ELSE buttons
  /\ UNCHANGED <<posting, created, stops, daemon>>

-----------------------------------------------------------------------------
(* The daemon and the network, from the page's side.                       *)

DaemonCreates ==
  /\ posting > 0 /\ posting' = posting - 1
  /\ \E s \in Sids : /\ daemon[s] = "fresh"
                     /\ daemon' = [daemon EXCEPT ![s] = "running"]
                     /\ created' = created \cup {s}
  /\ UNCHANGED <<S, buttons, sock, stops>>

\* The process ends by itself, or by a stop request that came through.
SessionExits(s) ==
  /\ daemon[s] = "running"
  /\ daemon' = [daemon EXCEPT ![s] = "exited"]
  /\ UNCHANGED <<S, buttons, sock, posting, created, stops>>

\* (mutant) whether a session has exited is not looked at
DaemonServesAll(k) ==
  /\ sock[k].st = "open"
  /\ sock' = [sock EXCEPT ![k].st = IF daemon[sock[k].sid] = "lost" THEN "ended" ELSE "served"]
  /\ UNCHANGED <<S, buttons, posting, created, stops, daemon>>
\* handle_session_ws: serve a running session, tell of an exited one and
\* close, or close on an unknown one.
DaemonAnswers(k) ==
  /\ sock[k].st = "open"
  /\ sock' = [sock EXCEPT ![k].st = CASE daemon[sock[k].sid] = "running" -> "served"
                                      [] daemon[sock[k].sid] = "exited"  -> "told"
                                      [] OTHER -> "ended"]
  /\ UNCHANGED <<S, buttons, posting, created, stops, daemon>>

\* The closing handshake of a socket the page closed is over.
CloseEnds(k) ==
  /\ sock[k].st = "closing"
  /\ sock' = [sock EXCEPT ![k].st = "ended"]
  /\ UNCHANGED <<S, buttons, posting, created, stops, daemon>>

\* A connection can not be made or breaks.
Drop(k) ==
  /\ sock[k].st \in Live
  /\ sock' = [sock EXCEPT ![k].st = "ended"]
  /\ UNCHANGED <<S, buttons, posting, created, stops, daemon>>

\* The daemon restarts: its registry is in memory only.
Restart ==
  /\ daemon' = [s \in Sids |-> IF daemon[s] = "fresh" THEN "fresh" ELSE "lost"]
  /\ sock' = [k \in Socks |-> IF sock[k].st \in Live \cup {"closing"}
                                THEN [sock[k] EXCEPT !.st = "ended"] ELSE sock[k]]
  /\ UNCHANGED <<S, buttons, posting, created, stops>>

Next ==
  \/ Login \/ HandleStart \/ StopClicked \/ Foregrounded
  \/ StartFails \/ TimerFires \/ DaemonCreates \/ Restart
  \/ \E s \in Sids : StartAnswered(s) \/ StopReturns(s) \/ SessionExits(s)
  \/ \E k \in Socks : OnOpen(k) \/ OnExited(k) \/ OnClose(k)
                        \/ DaemonAnswers(k) \/ CloseEnds(k) \/ Drop(k)

Spec == Init /\ [][Next]_vars

(* Fairness: the browser fires its timers and events, the daemon answers,   *)
(* and a stop request is answered or fails. The user owes nothing. Handling *)
(* of a socket is fair as a whole: what is pending on it happens.           *)
SocketMoves(k) == OnOpen(k) \/ OnExited(k) \/ OnClose(k) \/ DaemonAnswers(k) \/ CloseEnds(k)

FairSpec ==
  /\ Spec
  /\ WF_vars(TimerFires)
  /\ \A k \in Socks : WF_vars(SocketMoves(k))
  /\ \A s \in Sids : WF_vars(StopReturns(s)) /\ WF_vars(StartAnswered(s))

-----------------------------------------------------------------------------
(* Properties.                                                             *)

\* The page is never stranded: as long as it shows a session, a reconnect is
\* scheduled or a socket to that very session is still to be heard of.
NeverStranded ==
  S.sid # "none" => S.timer \/ \E k \in Socks : sock[k].sid = S.sid

\* A page the user left, or was sent away from by an exit, has no session, no
\* socket of its own and no timer. It may still show "connected", through a
\* socket it abandoned before (StoppedStaysOffline fails), but then only for as
\* long as such a socket has its close event to come, which corrects it.
ToClose == {"open", "served", "told", "ended"}
OfflineIsClean ==
  S.userDisconnected =>
    /\ S.sid = "none" /\ S.ws = "none" /\ ~S.timer
    /\ S.connected => \E k \in Socks : sock[k].st \in ToClose

\* While the network and the daemon stay up (a session the daemon has lost is
\* refused for ever), a page whose session runs is in the end connected for
\* good, or the user has left the session.
Breaks == Restart \/ \E k \in Socks : Drop(k) /\ daemon[sock[k].sid] # "lost"
NetworkStaysUp == <>[][~Breaks]_vars
Reconnected ==
  NetworkStaysUp =>
    <>[](S.sid # "none" /\ daemon[S.sid] = "running" => S.connected)

\* A page that was cut off from a session learns of its exit: it does not go
\* on reconnecting to it. (A restart of the daemon forgets the exit.)
ExitIsLearned ==
  NetworkStaysUp =>
    \A s \in Sids : (S.sid = s /\ daemon[s] = "exited" /\ ~S.connected)
                     ~> (S.sid # s \/ daemon[s] = "lost")

\* terminal.js:276: "User intentionally stopped - don't reconnect": after a
\* stop the page does not get connected again by itself.
StoppedStaysOffline == S.userDisconnected => ~S.connected
=============================================================================
