------------------------- MODULE WebTerminalProofs -------------------------
(***************************************************************************)
(* Proofs about the browser client, for any number of sessions, sockets    *)
(* and requests in flight: what is left on a page its user left, and that  *)
(* a page that shows a session still has something that brings it back.    *)
(*                                                                         *)
(* The second rests on the first: a timer that fires and a socket that     *)
(* closes do nothing for a page whose user left, so that such a page must  *)
(* not show a session. The first does not say that the page stays          *)
(* disconnected, which the code does not achieve: it says that a page that *)
(* shows "connected", left or not, has a socket whose close is to come.    *)
(***************************************************************************)
EXTENDS WebTerminal, TLAPS

\* What a page shows as connected is some socket's doing, and that socket has
\* yet to close.
ConnectedCloses == S.connected => \E k \in Socks : sock[k].st \in ToClose

PageInv == TypeOK /\ OfflineIsClean /\ NeverStranded /\ ConnectedCloses

Pages == [sid : Sids \cup {"none"}, ws : Socks \cup {"none"}, connected : BOOLEAN,
          userDisconnected : BOOLEAN, timer : BOOLEAN, unlocked : BOOLEAN]
Sockets == [st : Live \cup {"closing", "ended"}, sid : Sids]
Buttons == [start : BOOLEAN, stop : BOOLEAN]

\* The type invariant, with a name for each type.
LEMMA PageTypes ==
  TypeOK <=> /\ S \in Pages /\ buttons \in Buttons
             /\ sock \in [Socks -> Sockets \cup {Unused}]
             /\ posting \in 0 .. MaxPosts /\ created \subseteq Sids
             /\ stops \in [Sids -> 0 .. MaxStops]
             /\ daemon \in [Sids -> {"fresh", "running", "exited", "lost"}]
BY DEF TypeOK, Pages, Buttons, Sockets

\* A socket that is in use has a session, and keeps it until it is forgotten.
LEMMA SocketMovesOn ==
  ASSUME sock \in [Socks -> Sockets \cup {Unused}], NEW k \in Socks,
         sock[k].st # "unused", NEW st \in Live \cup {"closing", "ended"}
  PROVE  /\ sock[k] \in Sockets /\ [sock[k] EXCEPT !.st = st] \in Sockets
         /\ [sock EXCEPT ![k].st = st] \in [Socks -> Sockets \cup {Unused}]
         /\ \A j \in Socks : [sock EXCEPT ![k].st = st][j].sid = sock[j].sid
         /\ [sock EXCEPT ![k].st = st][k].st = st
<1>1. sock[k] \in Sockets
  BY DEF Unused
<1>2. /\ [sock[k] EXCEPT !.st = st] \in Sockets
      /\ [sock[k] EXCEPT !.st = st].sid = sock[k].sid /\ [sock[k] EXCEPT !.st = st].st = st
  BY <1>1 DEF Sockets
<1>3. [sock EXCEPT ![k].st = st] = [sock EXCEPT ![k] = [sock[k] EXCEPT !.st = st]]
  OBVIOUS
<1>4. QED BY <1>1, <1>2, <1>3

\* connect() leaves a page that shows the session, with a socket to it.
LEMMA ConnectEffect ==
  ASSUME TypeOK, NEW s \in Sids, NEW tmr \in BOOLEAN, ConnectTo(s, tmr)
  PROVE  /\ S' \in Pages /\ S'.sid = s /\ ~S'.userDisconnected
         /\ sock' \in [Socks -> Sockets \cup {Unused}]
         /\ \E k \in Socks : sock'[k].sid = s
         /\ ConnectedCloses => ConnectedCloses'
<1>1. PICK k \in Socks :
        /\ sock' = [sock EXCEPT ![k] = [st |-> "connecting", sid |-> s]]
        /\ S' = [S EXCEPT !.sid = s, !.ws = k, !.userDisconnected = FALSE, !.timer = tmr]
        /\ sock[k] = Unused
  BY DEF ConnectTo
<1>2. S \in Pages /\ sock \in [Socks -> Sockets \cup {Unused}]
  BY PageTypes
<1>3. [st |-> "connecting", sid |-> s] \in Sockets
  BY DEF Sockets, Live
<1>4. S' \in Pages /\ S'.sid = s /\ ~S'.userDisconnected
  BY <1>1, <1>2 DEF Pages
<1>5. ASSUME ConnectedCloses, S'.connected PROVE \E j \in Socks : sock'[j].st \in ToClose
  <2>1. S.connected
    BY <1>1, <1>2, <1>5 DEF Pages
  <2>2. PICK j \in Socks : sock[j].st \in ToClose
    BY <1>5, <2>1 DEF ConnectedCloses
  <2>3. j # k
    BY <1>1, <2>2 DEF Unused, ToClose
  <2>4. sock'[j] = sock[j]
    BY <1>1, <1>2, <2>3
  <2>5. QED BY <2>2, <2>4
<1>6. QED BY <1>1, <1>2, <1>3, <1>4, <1>5 DEF ConnectedCloses

\* disconnect() leaves a page without a session, a socket or a timer.
LEMMA DisconnectEffect ==
  ASSUME TypeOK, NEW socks \in [Socks -> Sockets \cup {Unused}], Disconnect(socks)
  PROVE  /\ S' \in Pages /\ S'.sid = "none" /\ S'.ws = "none" /\ ~S'.timer
         /\ ~S'.connected
         /\ sock' \in [Socks -> Sockets \cup {Unused}] /\ buttons' \in Buttons
<1>1. S \in Pages
  BY PageTypes
<1>2. /\ S' \in Pages /\ S'.sid = "none" /\ S'.ws = "none" /\ ~S'.timer /\ ~S'.connected
      /\ buttons' \in Buttons
  BY <1>1 DEF Disconnect, PageOffline, Pages, Buttons
<1>3. CASE S.ws # "none" /\ socks[S.ws].st \in Live
  <2>1. socks[S.ws] \in Sockets
    BY <1>1, <1>3 DEF Pages, Unused, Live
  <2>2. [socks[S.ws] EXCEPT !.st = "closing"] \in Sockets
    BY <2>1 DEF Sockets
  <2>3. sock' = [socks EXCEPT ![S.ws] = [socks[S.ws] EXCEPT !.st = "closing"]]
    BY <1>3 DEF Disconnect
  <2>4. QED BY <1>2, <2>2, <2>3
<1>4. CASE ~(S.ws # "none" /\ socks[S.ws].st \in Live)
  BY <1>2, <1>4 DEF Disconnect
<1>5. QED BY <1>3, <1>4

\* The invariant holds at the start.
LEMMA PageInit == Init => PageInv
BY PageAssumption
   DEF Init, PageInv, TypeOK, OfflineIsClean, NeverStranded, ConnectedCloses, Unused

\* Every step keeps it.
LEMMA PageStep == PageInv /\ [Next]_vars => PageInv'
<1> SUFFICES ASSUME PageInv, [Next]_vars PROVE PageInv'
  OBVIOUS
<1>t. TypeOK /\ OfflineIsClean /\ NeverStranded /\ ConnectedCloses
  BY DEF PageInv
<1>a. /\ S \in Pages /\ buttons \in Buttons
      /\ sock \in [Socks -> Sockets \cup {Unused}]
      /\ posting \in 0 .. MaxPosts /\ created \subseteq Sids
      /\ stops \in [Sids -> 0 .. MaxStops]
      /\ daemon \in [Sids -> {"fresh", "running", "exited", "lost"}]
      /\ "none" \notin Sids \cup Socks /\ MaxPosts \in Nat /\ MaxStops \in Nat
  BY <1>t, PageTypes, PageAssumption
<1>b. ASSUME S' \in Pages, buttons' \in Buttons, sock' \in [Socks -> Sockets \cup {Unused}],
             posting' \in 0 .. MaxPosts, created' \subseteq Sids,
             stops' \in [Sids -> 0 .. MaxStops],
             daemon' \in [Sids -> {"fresh", "running", "exited", "lost"}]
      PROVE  TypeOK'
  BY <1>b DEF TypeOK, Pages, Buttons, Sockets
<1>n. ASSUME TypeOK', S'.userDisconnected => S'.sid = "none" /\ S'.ws = "none" /\ ~S'.timer,
             S'.sid # "none" => S'.timer \/ \E k \in Socks : sock'[k].sid = S'.sid,
             ConnectedCloses'
      PROVE  PageInv'
  BY <1>n DEF PageInv, OfflineIsClean, NeverStranded, ConnectedCloses
\* Steps that leave the page's session, its sockets' sessions and its timer.
<1>c. ASSUME TypeOK', S'.sid = S.sid, S'.ws = S.ws, S'.timer = S.timer,
             S'.userDisconnected = S.userDisconnected,
             \A k \in Socks : sock'[k].sid = sock[k].sid, ConnectedCloses'
      PROVE  PageInv'
  BY <1>c, <1>n, <1>t DEF OfflineIsClean, NeverStranded
\* Steps of the server or the network on one socket, and the page's onopen.
<1>s. ASSUME NEW k \in Socks, sock[k].st # "unused",
             NEW st \in ToClose, sock' = [sock EXCEPT ![k].st = st],
             S' = S \/ S' = [S EXCEPT !.connected = TRUE], buttons' \in Buttons,
             UNCHANGED <<posting, created, stops, daemon>>
      PROVE  PageInv'
  <2>1. /\ sock' \in [Socks -> Sockets \cup {Unused}]
        /\ \A j \in Socks : sock'[j].sid = sock[j].sid
        /\ sock'[k].st \in ToClose
    BY ZenonT(40), <1>a, <1>s, SocketMovesOn DEF Live, ToClose
  <2>2. /\ S' \in Pages /\ S'.sid = S.sid /\ S'.ws = S.ws /\ S'.timer = S.timer
        /\ S'.userDisconnected = S.userDisconnected
    BY <1>a, <1>s DEF Pages
  <2>3. QED BY <1>a, <1>b, <1>c, <1>s, <2>1, <2>2 DEF ConnectedCloses
<1>1. CASE Login \/ HandleStart \/ StopClicked \/ StartFails
  <2>1. /\ sock' = sock /\ S' \in Pages /\ S'.sid = S.sid /\ S'.ws = S.ws
        /\ S'.timer = S.timer /\ S'.userDisconnected = S.userDisconnected
        /\ S'.connected = S.connected
    BY <1>1, <1>a DEF Login, HandleStart, StopClicked, StartFails, Pages
  <2>2. posting' \in 0 .. MaxPosts /\ created' \subseteq Sids
    BY <1>1, <1>a DEF Login, HandleStart, StopClicked, StartFails
  <2>3. stops' \in [Sids -> 0 .. MaxStops]
    BY <1>1, <1>a DEF Login, HandleStart, StopClicked, StartFails
  <2>4. UNCHANGED <<buttons, daemon>>
    BY <1>1 DEF Login, HandleStart, StopClicked, StartFails
  <2>5. QED BY <1>a, <1>b, <1>c, <1>t, <2>1, <2>2, <2>3, <2>4 DEF ConnectedCloses
<1>2. CASE Foregrounded
  <2>1. S.sid \in Sids /\ ConnectTo(S.sid, FALSE)
    BY <1>2, <1>a DEF Foregrounded, Pages
  <2>2. QED BY <1>2, <1>a, <1>b, <1>n, <1>t, <2>1, ConnectEffect DEF Foregrounded
<1>3. ASSUME NEW s \in Sids, StartAnswered(s) PROVE PageInv'
  <2>1. S.timer \in BOOLEAN /\ ConnectTo(s, S.timer)
    BY <1>3, <1>a DEF StartAnswered, Pages
  <2>2. QED BY <1>3, <1>a, <1>b, <1>n, <1>t, <2>1, ConnectEffect DEF StartAnswered
<1>4. ASSUME NEW s \in Sids, StopReturns(s) PROVE PageInv'
  <2>1. stops' \in [Sids -> 0 .. MaxStops] /\ Disconnect(sock)
    BY <1>4, <1>a DEF StopReturns
  <2>2. QED BY <1>4, <1>a, <1>b, <1>n, <1>t, <2>1, DisconnectEffect
           DEF StopReturns, ConnectedCloses
<1>5. CASE TimerFires
  <2>1. CASE S.sid = "none"
    <3>1. S' = [S EXCEPT !.timer = FALSE] /\ UNCHANGED <<sock, buttons, posting, created, stops, daemon>>
      BY <1>5, <2>1 DEF TimerFires
    <3>2. /\ S' \in Pages /\ S'.sid = "none" /\ S'.ws = S.ws /\ ~S'.timer
          /\ S'.userDisconnected = S.userDisconnected /\ S'.connected = S.connected
      BY <1>a, <2>1, <3>1 DEF Pages
    <3>3. QED BY <1>a, <1>b, <1>n, <1>t, <3>1, <3>2 DEF OfflineIsClean, ConnectedCloses
  <2>2. CASE S.sid # "none"
    <3>1. S.sid \in Sids /\ ConnectTo(S.sid, FALSE)
      BY <1>5, <1>a, <1>t, <2>2 DEF TimerFires, OfflineIsClean, Pages
    <3>2. QED BY <1>5, <1>a, <1>b, <1>n, <1>t, <3>1, ConnectEffect DEF TimerFires
  <2>3. QED BY <2>1, <2>2
<1>6. ASSUME NEW k \in Socks, OnOpen(k) PROVE PageInv'
  BY <1>6, <1>s DEF OnOpen, ToClose, Buttons
<1>7. ASSUME NEW k \in Socks, OnExited(k) PROVE PageInv'
  <2>1. [sock EXCEPT ![k].st = "ended"] \in [Socks -> Sockets \cup {Unused}]
    BY <1>7, <1>a, SocketMovesOn DEF OnExited
  <2>2. QED BY <1>7, <1>a, <1>b, <1>n, <1>t, <2>1, DisconnectEffect
           DEF OnExited, ConnectedCloses
<1>8. ASSUME NEW k \in Socks, OnClose(k) PROVE PageInv'
  <2>1. /\ S' \in Pages /\ S'.sid = S.sid /\ S'.userDisconnected = S.userDisconnected
        /\ S'.ws \in {"none", S.ws} /\ S'.timer = (S.timer \/ Reconnects)
        /\ ~S'.connected
    BY <1>8, <1>a DEF OnClose, Pages, Reconnects
  <2>2. sock' \in [Socks -> Sockets \cup {Unused}] /\ buttons' \in Buttons
    BY <1>8, <1>a DEF OnClose, Buttons
  <2>3. S.sid # "none" => S'.timer
    BY <1>t, <2>1 DEF Reconnects, OfflineIsClean
  <2>4. S'.userDisconnected => S'.sid = "none" /\ S'.ws = "none" /\ ~S'.timer
    BY <1>t, <2>1 DEF Reconnects, OfflineIsClean
  <2>5. QED BY <1>8, <1>a, <1>b, <1>n, <2>1, <2>2, <2>3, <2>4 DEF OnClose, ConnectedCloses
<1>9. ASSUME NEW k \in Socks, DaemonAnswers(k) \/ CloseEnds(k) \/ Drop(k) PROVE PageInv'
  BY <1>9, <1>a, <1>s DEF DaemonAnswers, CloseEnds, Drop, Live, ToClose
<1>10. CASE DaemonCreates
  <2>1. /\ UNCHANGED <<S, sock, buttons, stops>> /\ posting' \in 0 .. MaxPosts
        /\ created' \subseteq Sids
        /\ daemon' \in [Sids -> {"fresh", "running", "exited", "lost"}]
    BY <1>10, <1>a DEF DaemonCreates
  <2>2. QED BY <1>a, <1>b, <1>c, <1>t, <2>1 DEF ConnectedCloses
<1>11. ASSUME NEW s \in Sids, SessionExits(s) PROVE PageInv'
  BY <1>11, <1>a, <1>b, <1>c, <1>t DEF SessionExits, ConnectedCloses
<1>12. CASE Restart
  <2>1. \A k \in Socks : /\ sock'[k] \in Sockets \cup {Unused}
                         /\ sock'[k].sid = sock[k].sid
                         /\ sock[k].st \in ToClose => sock'[k].st \in ToClose
    <3>1. ASSUME NEW k \in Socks, sock[k].st \in Live \cup {"closing"}
          PROVE  /\ [sock[k] EXCEPT !.st = "ended"] \in Sockets
                 /\ [sock[k] EXCEPT !.st = "ended"].sid = sock[k].sid
                 /\ [sock[k] EXCEPT !.st = "ended"].st \in ToClose
      <4>1. sock[k] \in Sockets
        BY <1>a, <3>1 DEF Unused, Live
      <4>2. QED BY <4>1 DEF Sockets, ToClose
    <3>2. QED BY <1>12, <1>a, <3>1 DEF Restart
  <2>2. sock' \in [Socks -> Sockets \cup {Unused}]
    BY <1>12, <2>1 DEF Restart
  <2>3. daemon' \in [Sids -> {"fresh", "running", "exited", "lost"}]
    BY <1>12 DEF Restart
  <2>4. ConnectedCloses'
    BY <1>12, <1>t, <2>1 DEF Restart, ConnectedCloses
  <2>5. QED BY <1>12, <1>a, <1>b, <1>c, <2>1, <2>2, <2>3, <2>4 DEF Restart
<1>13. CASE UNCHANGED vars
  BY <1>13, <1>a, <1>b, <1>c, <1>t DEF vars, ConnectedCloses
<1>14. QED
  BY <1>1, <1>2, <1>3, <1>4, <1>5, <1>6, <1>7, <1>8, <1>9, <1>10, <1>11, <1>12, <1>13
     DEF Next

\* The inductive invariant of the page: types, a clean state when offline, and
\* no page left without a way on (terminal.js).
THEOREM PageInvariant == Spec => []PageInv
<1>1. QED BY PageInit, PageStep, PTL DEF Spec

\* The page and what it shares with the daemon keep to their types: a socket
\* in use always has a session.
THEOREM PageIsTyped == Spec => []TypeOK
<1>1. PageInv => TypeOK
  BY DEF PageInv
<1>2. QED BY <1>1, PageInvariant, PTL

\* After disconnect() no handler that runs later, of whichever socket, brings
\* back the session, its timer or a socket of the page's own. If the page shows
\* "connected" all the same, it is through an abandoned socket yet to close.
THEOREM OfflineStaysClean == Spec => []OfflineIsClean
<1>1. PageInv => OfflineIsClean
  BY DEF PageInv
<1>2. QED BY <1>1, PageInvariant, PTL

\* A page that shows a session has its reconnect timer set, or a socket to
\* that session whose events are still to come.
THEOREM PageIsNeverStranded == Spec => []NeverStranded
<1>1. PageInv => NeverStranded
  BY DEF PageInv
<1>2. QED BY <1>1, PageInvariant, PTL
=============================================================================
