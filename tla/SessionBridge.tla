--------------------------- MODULE SessionBridge ---------------------------
(***************************************************************************)
(* One session of the daemon as its clients meet it: the RunningSession of *)
(* session/registry.rs around a ConPty, the WebSocket bridge of            *)
(* net/websocket.rs with its two pumps per connection, and the HTTP        *)
(* handlers of net/routes.rs that take the same session lock.              *)
(*                                                                         *)
(* The session lock is an RwLock. What a task does while it holds it, with *)
(* no await between, is one step. A lock is kept across steps in two       *)
(* places: a write that blocks in write_all keeps the write lock (variable *)
(* lock) until it returns, and a handler that tells a new client of the    *)
(* exit keeps its read guard (handler state "ended") until that message is *)
(* sent.                                                                   *)
(***************************************************************************)
EXTENDS ConPty, Sequences

CONSTANTS
  Conns,        \* WebSocket connections, one identity per connect
  Requests,     \* HTTP requests to /sessions/{id}/input, /stop, /resize
  MaxInFlight   \* bound: client frames on their way to one input pump

ASSUME BridgeAssumption ==
  /\ Conns \cap Requests = {}
  /\ MaxInFlight \in Nat \ {0}
  /\ "free" \notin Conns \cup Requests
  /\ Sizes \cap {"input", "stop", "other", "close", "off", "recv", "idle",
                 "write", "done"} = {}

\* What a client can ask of the session, over either protocol.
Commands == {"input", "stop"} \cup Sizes
\* Frames that reach the input pump; "other" stands for the control messages
\* that are still TODO, ping and pong: the pump ignores them.
Frames == Commands \cup {"other", "close"}

VARIABLES
  registered,  \* the session is in SessionRegistry.sessions
  sess,        \* RunningSession.exited, exit_code and size
  lock,        \* "free", or the task blocked in write_all under the write lock
  handler,     \* handle_session_ws of a connection
  out,         \* its output pump
  inp,         \* its input pump; a command while one waits for the lock
  sock,        \* the socket, as the peer left it
  inbox,       \* frames sent by the client, not yet taken by the input pump
  held,        \* chunks an output pump read and is sending
  received,    \* chunks the client got
  notice,      \* final message the client got: "none", "error", "exited"
  req          \* an HTTP handler; a command while one waits for the lock

connVars == <<handler, out, inp, sock, inbox, held, received, notice>>
vars == <<ptyVars, registered, sess, lock, connVars, req>>

TypeOK ==
  /\ PtyTypeOK
  /\ registered \in BOOLEAN
  /\ sess \in [exited : BOOLEAN, code : ExitCodes \cup {NoCode, Killed}, size : Sizes]
  /\ lock \in Conns \cup Requests \cup {"free"}
  /\ handler \in [Conns -> {"idle", "lookup", "check", "unknown", "ended",
                         "pumping", "refused"}]
  /\ out \in [Conns -> {"off", "poll", "send", "done"}]
  /\ inp \in [Conns -> {"off", "recv", "write", "done"} \cup Commands]
  /\ sock \in [Conns -> {"none", "open", "gone"}]
  /\ inbox \in [Conns -> Seq(Frames)]
  /\ held \in [Conns -> SUBSET Nat]
  /\ received \in [Conns -> SUBSET Nat]
  /\ notice \in [Conns -> {"none", "error", "exited"}]
  /\ req \in [Requests -> {"idle", "write", "done"} \cup Commands]

Init ==
  /\ PtyInit
  /\ registered = FALSE
  /\ sess = [exited |-> FALSE, code |-> NoCode, size |-> DefaultSize]
  /\ lock = "free"
  /\ handler = [c \in Conns |-> "idle"]
  /\ out = [c \in Conns |-> "off"]
  /\ inp = [c \in Conns |-> "off"]
  /\ sock = [c \in Conns |-> "none"]
  /\ inbox = [c \in Conns |-> <<>>]
  /\ held = [c \in Conns |-> {}]
  /\ received = [c \in Conns |-> {}]
  /\ notice = [c \in Conns |-> "none"]
  /\ req = [r \in Requests |-> "idle"]

\* Tasks that hold the session's read guard while they send, and what a task
\* that wants the write lock waits for. Readers share: they wait for lock only.
Readers == {c \in Conns : handler[c] = "ended"}
Unlocked == lock = "free" /\ Readers = {}

-----------------------------------------------------------------------------
(* POST /sessions. The registry starts the process before it locks its map *)
(* and inserts the session; a start that fails registers nothing.          *)
CreateSession ==
  /\ Start
  /\ UNCHANGED <<registered, sess, lock, connVars, req>>

RegisterSession ==
  /\ pty.started /\ ~registered
  /\ registered' = TRUE
  /\ UNCHANGED <<ptyVars, sess, lock, connVars, req>>

(* The child and the reader thread run on their own.                       *)
ProcessStep == Process /\ UNCHANGED <<registered, sess, lock, connVars, req>>

-----------------------------------------------------------------------------
(* Methods of RunningSession, as effects on pty, child and sess.           *)

\* (mutant) does not record the exit the handle reports
SessPollExitForgets(p) == pty' = AfterPollExit(p) /\ UNCHANGED sess

\* poll_exit() after a handle operation that left the handle at p.
SessPollExit(p) ==
  LET q == AfterPollExit(p) IN
  /\ pty' = q
  /\ sess' = IF q.exited THEN [sess EXCEPT !.exited = TRUE, !.code = q.code] ELSE sess

\* (mutants) terminate() that only flags the session; terminate() without the
\* exited check
SessTerminateFlagOnly ==
  IF sess.exited THEN UNCHANGED <<pty, sess>>
  ELSE pty' = pty /\ sess' = [sess EXCEPT !.exited = TRUE, !.code = Killed]
SessTerminateAlways ==
  pty' = AfterTerminate(pty) /\ sess' = [sess EXCEPT !.exited = TRUE, !.code = Killed]

SessTerminate ==
  IF sess.exited THEN UNCHANGED <<pty, sess>>
  ELSE /\ pty' = AfterTerminate(pty)
       /\ sess' = [sess EXCEPT !.exited = TRUE, !.code = Killed]

\* resize(): refused after exit, and when the console refuses it.
SessResize(s) ==
  \/ UNCHANGED <<pty, sess>>
  \/ /\ ~sess.exited /\ pty.open
     /\ pty' = AfterResize(pty, s)
     /\ sess' = [sess EXCEPT !.size = s]

-----------------------------------------------------------------------------
(* The client and the network.                                             *)

Connect(c) ==
  /\ handler[c] = "idle"
  /\ handler' = [handler EXCEPT ![c] = "lookup"]
  /\ sock' = [sock EXCEPT ![c] = "open"]
  /\ UNCHANGED <<ptyVars, registered, sess, lock, out, inp, inbox, held,
                 received, notice, req>>

ClientSend(c, f) ==
  /\ sock[c] = "open" /\ handler[c] # "refused" /\ inp[c] # "done"
  /\ Len(inbox[c]) < MaxInFlight
  /\ inbox' = [inbox EXCEPT ![c] = Append(@, f)]
  /\ UNCHANGED <<ptyVars, registered, sess, lock, handler, out, inp, sock, held, received, notice, req>>

\* The connection breaks; frames still on the way may be lost with it.
Disconnect(c) ==
  /\ sock[c] = "open"
  /\ sock' = [sock EXCEPT ![c] = "gone"]
  /\ \E n \in 0 .. Len(inbox[c]) : inbox' = [inbox EXCEPT ![c] = SubSeq(@, 1, n)]
  /\ UNCHANGED <<ptyVars, registered, sess, lock, handler, out, inp, held,
                 received, notice, req>>

-----------------------------------------------------------------------------
(* handle_session_ws: look the session up, send an unknown or an exited    *)
(* one's client away, else spawn the pumps. Exit is checked under a read   *)
(* lock of its own. The guard lives to the end of that block, so the       *)
(* Exited message is sent, and awaited, under it.                          *)
Lookup(c) ==
  /\ handler[c] = "lookup"
  /\ handler' = [handler EXCEPT ![c] = IF registered THEN "check" ELSE "unknown"]
  /\ UNCHANGED <<ptyVars, registered, sess, lock, out, inp, sock, inbox, held,
                 received, notice, req>>

CheckExited(c) ==
  /\ handler[c] = "check" /\ lock = "free"
  /\ IF sess.exited
       THEN handler' = [handler EXCEPT ![c] = "ended"] /\ UNCHANGED <<out, inp>>
       ELSE /\ handler' = [handler EXCEPT ![c] = "pumping"]
            /\ out' = [out EXCEPT ![c] = "poll"]
            /\ inp' = [inp EXCEPT ![c] = "recv"]
  /\ UNCHANGED <<ptyVars, registered, sess, lock, sock, inbox, held, received,
                 notice, req>>

\* The send completes, or fails on a broken connection; then the handler
\* returns and its guard, if it had one, is gone.
Refuse(c) ==
  /\ handler[c] \in {"unknown", "ended"}
  /\ notice' = IF sock[c] # "open" THEN notice
               ELSE [notice EXCEPT ![c] = IF handler[c] = "ended" THEN "exited" ELSE "error"]
  /\ handler' = [handler EXCEPT ![c] = "refused"]
  /\ UNCHANGED <<ptyVars, registered, sess, lock, out, inp, sock, inbox, held,
                 received, req>>

\* Once a pump ends the handler only logs and returns: it builds an Exited
\* message but has no sender left for it, and the pump that still runs is
\* detached, not stopped. So the end of the handler is no step of its own.
-----------------------------------------------------------------------------
(* The output pump. Its first step is the critical section: exit check,    *)
(* read(), and poll_exit() when the pipe was closed, in which case what    *)
(* read() returned goes nowhere.                                           *)
\* (mutant) the exited check without its break
OutPollNoBreak(c) ==
  /\ out[c] = "poll" /\ Unlocked /\ ~sess.exited
  /\ IF ReadClosed(pty)
       THEN SessPollExit(AfterRead(pty)) /\ UNCHANGED <<out, held>>
       ELSE /\ ReadData(pty) # {}
            /\ pty' = AfterRead(pty)
            /\ held' = [held EXCEPT ![c] = ReadData(pty)]
            /\ out' = [out EXCEPT ![c] = "send"]
            /\ UNCHANGED sess
  /\ UNCHANGED <<child, chan, registered, lock, handler, inp, sock, inbox,
                 received, notice, req>>

OutPoll(c) ==
  /\ out[c] = "poll" /\ Unlocked
  /\ IF sess.exited
       THEN /\ out' = [out EXCEPT ![c] = "done"]
            /\ UNCHANGED <<pty, sess, held>>
     ELSE IF ReadClosed(pty)
       THEN /\ SessPollExit(AfterRead(pty))
            /\ out' = [out EXCEPT ![c] = "done"]
            /\ UNCHANGED held
     ELSE /\ ReadData(pty) # {}     \* nothing to send: sleep and poll again
          /\ pty' = AfterRead(pty)
          /\ held' = [held EXCEPT ![c] = ReadData(pty)]
          /\ out' = [out EXCEPT ![c] = "send"]
          /\ UNCHANGED sess
  /\ UNCHANGED <<child, chan, registered, lock, handler, inp, sock, inbox, received, notice, req>>

\* (mutants) sends the newest chunk first; takes a failed send for the end of
\* a connection that is still up
OutSendNewest(c) ==
  /\ out[c] = "send"
  /\ \E k \in held[c] :
       /\ \A j \in held[c] : j <= k
       /\ received' = [received EXCEPT ![c] = @ \cup {k}]
       /\ held' = [held EXCEPT ![c] = @ \ {k}]
  /\ out' = IF held'[c] = {} THEN [out EXCEPT ![c] = "poll"] ELSE out
  /\ UNCHANGED <<ptyVars, registered, sess, lock, handler, inp, sock, inbox,
                 notice, req>>
OutSendDrops(c) ==
  /\ out[c] = "send"
  /\ out' = [out EXCEPT ![c] = "poll"] /\ held' = [held EXCEPT ![c] = {}]
  /\ UNCHANGED <<ptyVars, registered, sess, lock, handler, inp, sock, inbox,
                 received, notice, req>>

\* Sending happens without the lock. Once the peer is gone a send fails, or
\* still succeeds into a buffer nobody reads.
OutSend(c) ==
  /\ out[c] = "send"
  /\ \/ /\ sock[c] = "open"
        /\ received' = [received EXCEPT ![c] = @ \cup held[c]]
        /\ out' = [out EXCEPT ![c] = "poll"]
     \/ /\ sock[c] = "gone"
        /\ \E next \in {"poll", "done"} : out' = [out EXCEPT ![c] = next]
        /\ UNCHANGED received
  /\ held' = [held EXCEPT ![c] = {}]
  /\ UNCHANGED <<ptyVars, registered, sess, lock, handler, inp, sock, inbox,
                 notice, req>>

-----------------------------------------------------------------------------
(* Commands are carried out under the session lock, by an input pump or an *)
(* HTTP handler alike.                                                     *)
\* (mutant) the stop command is parsed and dropped
PerformNoStop(m) == m # "input" /\ UNCHANGED <<pty, child, sess>>
Perform(m) ==
  \/ m = "stop" /\ SessTerminate /\ UNCHANGED child
  \/ m \in Sizes /\ SessResize(m) /\ UNCHANGED child
  \/ /\ m = "input"
     /\ IF sess.exited THEN UNCHANGED child ELSE WriteReturns
     /\ UNCHANGED <<pty, sess>>

MustBlock(m) == m = "input" /\ ~sess.exited /\ pty.open /\ ~StdinRoom

\* Receiving: a close frame or the end of the stream ends the pump.
InRecv(c) ==
  /\ inp[c] = "recv"
  /\ \/ /\ inbox[c] # <<>>
        /\ inbox' = [inbox EXCEPT ![c] = Tail(@)]
        /\ LET f == Head(inbox[c]) IN
           \/ /\ f \in Commands
              /\ inp' = [inp EXCEPT ![c] = f]
              /\ UNCHANGED sock
           \/ f = "other" /\ UNCHANGED <<inp, sock>>
           \/ /\ f = "close"
              /\ inp' = [inp EXCEPT ![c] = "done"]
              /\ sock' = [sock EXCEPT ![c] = "gone"]
     \/ /\ sock[c] = "gone" /\ inbox[c] = <<>>
        /\ inp' = [inp EXCEPT ![c] = "done"]
        /\ UNCHANGED <<inbox, sock>>
  /\ UNCHANGED <<ptyVars, registered, sess, lock, handler, out, held, received,
                 notice, req>>

InApply(c) ==
  /\ inp[c] \in Commands /\ Unlocked
  /\ \/ /\ Perform(inp[c])
        /\ inp' = [inp EXCEPT ![c] = IF @ = "stop" THEN "done" ELSE "recv"]
        /\ UNCHANGED lock
     \/ /\ MustBlock(inp[c])
        /\ lock' = c
        /\ inp' = [inp EXCEPT ![c] = "write"]
        /\ UNCHANGED <<pty, child, sess>>
  /\ UNCHANGED <<chan, registered, handler, out, sock, inbox, held, received,
                 notice, req>>

InWritten(c) ==
  /\ inp[c] = "write" /\ WriteReturns
  /\ lock' = "free"
  /\ inp' = [inp EXCEPT ![c] = "recv"]
  /\ UNCHANGED <<pty, chan, registered, sess, handler, out, sock, inbox, held, received, notice, req>>

-----------------------------------------------------------------------------
(* HTTP: a request that finds the session waits for the same lock.         *)
ReqArrives(r, m) ==
  /\ req[r] = "idle"
  /\ req' = [req EXCEPT ![r] = IF registered THEN m ELSE "done"]
  /\ UNCHANGED <<ptyVars, registered, sess, lock, connVars>>

\* (mutant) the handler does not wait for the lock
ReqApplyUnlocked(r) ==
  /\ req[r] \in Commands /\ Perform(req[r])
  /\ req' = [req EXCEPT ![r] = "done"]
  /\ UNCHANGED <<chan, registered, connVars, lock>>
ReqApply(r) ==
  /\ req[r] \in Commands /\ Unlocked
  /\ \/ /\ Perform(req[r])
        /\ req' = [req EXCEPT ![r] = "done"]
        /\ UNCHANGED lock
     \/ /\ MustBlock(req[r])
        /\ lock' = r
        /\ req' = [req EXCEPT ![r] = "write"]
        /\ UNCHANGED <<pty, child, sess>>
  /\ UNCHANGED <<chan, registered, connVars>>

ReqWritten(r) ==
  /\ req[r] = "write" /\ WriteReturns
  /\ lock' = "free"
  /\ req' = [req EXCEPT ![r] = "done"]
  /\ UNCHANGED <<pty, chan, registered, sess, connVars>>

-----------------------------------------------------------------------------
Next ==
  \/ CreateSession \/ RegisterSession \/ ProcessStep
  \/ \E c \in Conns :
       \/ Connect(c) \/ Disconnect(c)
       \/ \E f \in Frames : ClientSend(c, f)
       \/ Lookup(c) \/ CheckExited(c) \/ Refuse(c)
       \/ OutPoll(c) \/ OutSend(c)
       \/ InRecv(c) \/ InApply(c) \/ InWritten(c)
  \/ \E r \in Requests :
       \/ \E m \in Commands : ReqArrives(r, m)
       \/ ReqApply(r) \/ ReqWritten(r)

Spec == Init /\ [][Next]_vars

(* Fairness. Tokio runs every runnable task again, and its RwLock serves    *)
(* waiters in order, so a step that waits for the lock is strongly fair. A  *)
(* send completes because the peer reads or the connection breaks, also the *)
(* one under a read guard. The reader thread is an OS thread. Neither       *)
(* clients nor the child owe steps.                                         *)
ServerFairness ==
  /\ \A c \in Conns :
       /\ WF_vars(Lookup(c)) /\ WF_vars(Refuse(c)) /\ WF_vars(InRecv(c))
       /\ WF_vars(OutSend(c)) /\ WF_vars(InWritten(c))
       /\ SF_vars(CheckExited(c))
       /\ SF_vars(OutPoll(c)) /\ SF_vars(InApply(c))
  /\ \A r \in Requests : SF_vars(ReqApply(r)) /\ WF_vars(ReqWritten(r))
  /\ WF_vars((ReaderData \/ ReaderEof) /\ ProcessStep)

FairSpec == Spec /\ ServerFairness

\* A child that goes on reading its stdin while it lives.
ChildKeepsReading == WF_vars(ChildReads /\ ProcessStep)

-----------------------------------------------------------------------------
(* Safety.                                                                 *)

\* Every chunk of output reaches at most one connection and reaches it once:
\* two pumps that poll the same session never hand out the same chunk, and a
\* pump never sends again what its client already has. (That is what the code
\* does with several clients; registry.rs:16 says it broadcasts to them all,
\* see OutputIsBroadcast.)
AtMostOnce ==
  /\ \A c \in Conns : received[c] \cap held[c] = {}
  /\ \A c, d \in Conns :
       c # d => (received[c] \cup held[c]) \cap (received[d] \cup held[d]) = {}

\* What a connection receives is in the order the child wrote it, although
\* each chunk is read under the lock and sent after it was released.
InOrder ==
  [][\A c \in Conns : \A new \in received'[c] \ received[c] :
       \A old \in received[c] : old < new]_vars

\* Output that was read from the handle and is neither with a client nor on
\* its way has a cause: the session ended, or some client's socket broke.
LossHasCause ==
  (\A c \in Conns : sock[c] # "gone") /\ ~sess.exited =>
    1 .. pty.taken \subseteq UNION {received[c] \cup held[c] : c \in Conns}

\* RunningSession and the handle it wraps never disagree outside a critical
\* section: on whether the process exited, with which code, and on the size.
SessMirrorsPty ==
  sess.exited = pty.exited /\ sess.code = pty.code /\ sess.size = pty.size

\* Who keeps the session lock across steps, and when. The write lock: exactly
\* the one task inside write_all; the session can not exit or be torn down
\* under it, and nobody reads. Read guards: only of a session that has exited,
\* so a client that is slow to take the Exited message delays pumps and
\* requests that have nothing left to do but never the output or a stop.
LockIsExclusive ==
  /\ \A c \in Conns : inp[c] = "write" <=> lock = c
  /\ \A r \in Requests : req[r] = "write" <=> lock = r
  /\ lock # "free" => ~sess.exited /\ pty.open /\ Readers = {}
  /\ Readers # {} => sess.exited

\* After the exit was recorded it is final, no input reaches the child any
\* more, and no further output is taken from the handle.
ExitFreezesSession ==
  [][sess.exited => /\ sess' = sess
                    /\ child'.stdin <= child.stdin
                    /\ pty'.taken = pty.taken]_vars

\* The bridge implements the abstract stream: a pump's critical section takes,
\* its send delivers, and an Eof or a stop ends the session.
Stream == INSTANCE OutputStream WITH
  Clients <- Conns,
  written <- child.out,
  taken   <- pty.taken,
  hand    <- held,
  client  <- received,
  gone    <- {c \in Conns : sock[c] = "gone"},
  over    <- sess.exited

ImplementsStream == Stream!Spec

(* Liveness.                                                               *)

\* Once the exit is recorded, by whichever task, every output pump ends.
ExitStopsOutputPumps ==
  sess.exited ~> \A c \in Conns : out[c] \in {"off", "done"}

\* A running output pump notices the end of a dead child's output, even while
\* writers compete for the lock. (After a read error with a live child it need
\* not: a writer can sit in write_all for good.)
EofIsNoticed ==
  \A c \in Conns :
    (chan.eof /\ child.life = "dead" /\ out[c] = "poll") ~> sess.exited

\* A stop request takes effect, if the child goes on reading its stdin: only
\* then is a writer sure to release the lock the request waits for.
StopTakesEffect ==
  ChildKeepsReading => \A r \in Requests : req[r] = "stop" ~> sess.exited

-----------------------------------------------------------------------------
(* What the documentation and comments claim.                              *)

\* doc/architecture.md:294: "All bytes from the ConPTY master are forwarded
\* verbatim": when the pump of a connected client has ended because the
\* process ended by itself, the client has all of the output.
AllForwarded ==
  \A c \in Conns :
    (out[c] = "done" /\ sock[c] = "open" /\ chan.eof /\ pty.code # Killed)
      => 1 .. chan.sent \subseteq UNION {received[d] : d \in Conns}

\* registry.rs:16: "Output from a running session, broadcast to all connected
\* clients": a client that got a chunk and a later one was connected all the
\* while, so it got every chunk between them.
OutputIsBroadcast ==
  \A c \in Conns : \A j, l \in received[c] : j .. l \subseteq received[c]
=============================================================================
