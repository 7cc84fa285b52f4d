------------------------ MODULE SessionBridgeProofs ------------------------
(***************************************************************************)
(* Proofs about the bridge, for any number of connections, HTTP requests   *)
(* and chunks: type correctness; the session, its handle and the lock      *)
(* agree; every chunk is delivered at most once, in order, and is lost     *)
(* only for a reason; the bridge implements OutputStream.                  *)
(*                                                                         *)
(* The lemmas first summarise what a critical section does to the handle,  *)
(* the session and the child; the invariants are then proved in the order  *)
(* types, agreement, data.                                                 *)
(***************************************************************************)
EXTENDS SessionBridge, TLAPS

USE PtyAssumption, BridgeAssumption DEF NoCode, Killed

-----------------------------------------------------------------------------
(* What the operations on the handle return.                               *)

\* Whatever is done to a handle, it stays one.
LEMMA HandleTypes ==
  ASSUME PtyTypeOK, NEW s \in Sizes
  PROVE  /\ AfterRead(pty) \in Handles
         /\ AfterPollExit(AfterRead(pty)) \in Handles
         /\ AfterTerminate(pty) \in Handles
         /\ AfterResize(pty, s) \in Handles
<1>1. ASSUME NEW p \in Handles PROVE AfterRead(p) \in Handles
  <2>1. CASE Readable(p)
    <3>1. AfterRead(p) = [p EXCEPT !.taken = chan.sent, !.exited = chan.eof,
                                   !.code = IF chan.eof THEN 0 ELSE @]
      BY <2>1 DEF AfterRead
    <3>2. chan.sent \in Nat /\ chan.eof \in BOOLEAN
      BY DEF PtyTypeOK
    <3>3. QED BY <3>1, <3>2 DEF Handles
  <2>2. CASE ~Readable(p) BY <2>2 DEF AfterRead
  <2>3. QED BY <2>1, <2>2
<1>2. ASSUME NEW p \in Handles PROVE AfterPollExit(p) \in Handles
  <2>1. child.code \in ExitCodes \cup {NoCode}
    BY DEF PtyTypeOK
  <2>2. QED BY <2>1 DEF AfterPollExit, Handles
<1>3. pty \in Handles
  BY DEF PtyTypeOK
<1>4. AfterTerminate(pty) \in Handles
  BY <1>3 DEF AfterTerminate, Handles
<1>5. AfterResize(pty, s) \in Handles
  BY <1>3 DEF AfterResize, Handles
<1>6. QED BY <1>1, <1>2, <1>3, <1>4, <1>5

\* A read takes all that was sent, and learns of the end if it was sent.
LEMMA ReadEffect ==
  ASSUME PtyTypeOK, Readable(pty)
  PROVE  /\ AfterRead(pty).taken = chan.sent
         /\ AfterRead(pty).exited = chan.eof
         /\ AfterRead(pty).code = IF chan.eof THEN 0 ELSE pty.code
         /\ AfterRead(pty).size = pty.size
         /\ AfterRead(pty).open = pty.open
         /\ AfterRead(pty).started = pty.started
         /\ chan.eof => AfterPollExit(AfterRead(pty)) = AfterRead(pty)
  BY DEF PtyTypeOK, Handles, AfterRead, AfterPollExit, Readable

\* A write touches nothing but the child's stdin, by at most one input.
LEMMA WriteEffect ==
  ASSUME PtyTypeOK, WriteReturns
  PROVE  /\ child' \in [life : {"none", "running", "dead"},
                        code : ExitCodes \cup {NoCode}, out : Nat,
                        stdin : 0 .. StdinCap]
         /\ child'.out = child.out /\ child'.life = child.life
         /\ child'.code = child.code
  BY DEF PtyTypeOK, WriteReturns, StdinRoom, PutStdin

\* The commands are told apart from the states of a pump.
LEMMA CommandsDistinct ==
  /\ "input" \notin Sizes /\ "stop" \notin Sizes /\ "write" \notin Commands
  /\ "recv" \notin Commands /\ "done" \notin Commands /\ "off" \notin Commands
  /\ "idle" \notin Commands
  BY DEF Commands

\* A command, as far as the handle and the session go.
LEMMA PerformEffect ==
  ASSUME TypeOK, NEW m \in Commands, Perform(m)
  PROVE  /\ pty' \in Handles
         /\ sess' \in [exited : BOOLEAN, code : ExitCodes \cup {NoCode, Killed},
                       size : Sizes]
         /\ child' \in [life : {"none", "running", "dead"},
                        code : ExitCodes \cup {NoCode}, out : Nat,
                        stdin : 0 .. StdinCap]
         /\ child'.out = child.out /\ pty'.taken = pty.taken
         /\ sess.exited => UNCHANGED <<sess, pty, child>>
         /\ SessMirrorsPty => SessMirrorsPty'
         /\ pty'.started = pty.started
         /\ ~sess'.exited => pty'.open = pty.open
<1> USE DEF TypeOK, PtyTypeOK, SessMirrorsPty
<1>1. CASE m = "stop"
  <2>1. SessTerminate /\ UNCHANGED child
    BY <1>1, CommandsDistinct DEF Perform
  <2>2. CASE sess.exited
    BY <2>1, <2>2 DEF SessTerminate
  <2>3. CASE ~sess.exited
    <3>1. /\ pty' = AfterTerminate(pty)
          /\ sess' = [sess EXCEPT !.exited = TRUE, !.code = Killed]
      BY <2>1, <2>3 DEF SessTerminate
    <3>2. pty' \in Handles
      BY <3>1, HandleTypes
    <3>3. pty'.taken = pty.taken /\ pty'.started = pty.started
      BY <3>1 DEF AfterTerminate, Handles
    <3>4. SessMirrorsPty => SessMirrorsPty'
      BY <2>3, <3>1 DEF AfterTerminate, Handles
    <3>5. QED BY <2>1, <2>3, <3>1, <3>2, <3>3, <3>4
  <2>4. QED BY <2>2, <2>3
<1>2. CASE m \in Sizes
  <2>1. SessResize(m) /\ UNCHANGED child
    BY <1>2, CommandsDistinct DEF Perform
  <2>2. CASE UNCHANGED <<pty, sess>>
    BY <2>1, <2>2
  <2>3. CASE /\ ~sess.exited /\ pty.open
             /\ pty' = AfterResize(pty, m)
             /\ sess' = [sess EXCEPT !.size = m]
    <3>1. pty' \in Handles
      BY <1>2, <2>3, HandleTypes
    <3>2. QED BY <1>2, <2>1, <2>3, <3>1 DEF AfterResize, Handles
  <2>4. QED BY <2>1, <2>2, <2>3 DEF SessResize
<1>3. CASE m = "input"
  <2>1. UNCHANGED <<pty, sess>> /\ (IF sess.exited THEN UNCHANGED child ELSE WriteReturns)
    BY <1>3, CommandsDistinct DEF Perform
  <2>2. QED BY <2>1, WriteEffect
<1>4. QED BY <1>1, <1>2, <1>3 DEF Commands

-----------------------------------------------------------------------------
(* Types.                                                                  *)

\* What receiving a frame does to an input pump.
LEMMA RecvEffect ==
  ASSUME NEW c \in Conns, InRecv(c)
  PROVE  /\ \/ inp' = inp
            \/ inp' = [inp EXCEPT ![c] = "done"]
            \/ \E f \in Commands : inp' = [inp EXCEPT ![c] = f]
         /\ sock' = sock \/ sock' = [sock EXCEPT ![c] = "gone"]
         /\ inp[c] = "recv"
<1> DEFINE f == Head(inbox[c])
<1>1. \/ f \in Commands /\ inp' = [inp EXCEPT ![c] = f] /\ UNCHANGED sock
      \/ f = "other" /\ UNCHANGED <<inp, sock>>
      \/ f = "close" /\ inp' = [inp EXCEPT ![c] = "done"] /\ sock' = [sock EXCEPT ![c] = "gone"]
      \/ inp' = [inp EXCEPT ![c] = "done"] /\ UNCHANGED sock
  BY DEF InRecv
<1>2. inp[c] = "recv"
  BY DEF InRecv
<1> HIDE DEF f
<1>3. QED BY <1>1, <1>2

\* Waiting for input touches no other connection.
LEMMA RecvOthers ==
  ASSUME TypeOK, NEW c \in Conns, InRecv(c)
  PROVE  /\ \A d \in Conns : d # c => inp'[d] = inp[d] /\ sock'[d] = sock[d]
         /\ inp'[c] # "write"
<1>1. inp \in [Conns -> {"off", "recv", "write", "done"} \cup Commands]
      /\ sock \in [Conns -> {"none", "open", "gone"}]
  BY DEF TypeOK
<1>2. \A d \in Conns : d # c => sock'[d] = sock[d]
  BY <1>1, RecvEffect
<1>3. CASE inp' = inp
  BY <1>2, <1>3, RecvEffect
<1>4. CASE inp' = [inp EXCEPT ![c] = "done"]
  BY <1>1, <1>2, <1>4
<1>5. ASSUME NEW f \in Commands, inp' = [inp EXCEPT ![c] = f]
      PROVE  inp'[c] # "write" /\ \A d \in Conns : d # c => inp'[d] = inp[d]
  BY <1>1, <1>5, CommandsDistinct
<1>6. QED BY <1>2, <1>3, <1>4, <1>5, RecvEffect

\* The types hold at the start.
LEMMA InitTypes == Init => TypeOK
<1> SUFFICES ASSUME Init PROVE TypeOK
  OBVIOUS
<1>1. PtyTypeOK
  BY DEF Init, PtyInit, PtyTypeOK, Handles
<1>2. inbox \in [Conns -> Seq(Frames)]
  <2>1. << >> \in Seq(Frames) OBVIOUS
  <2>2. QED BY <2>1 DEF Init
<1>3. sess \in [exited : BOOLEAN, code : ExitCodes \cup {NoCode, Killed}, size : Sizes]
  BY DEF Init
<1>4. QED BY <1>1, <1>2, <1>3 DEF Init, TypeOK

\* The child and the reader thread.
LEMMA ProcessEffect ==
  ASSUME PtyTypeOK, Process
  PROVE  /\ pty' = pty
         /\ PtyTypeOK'
         /\ child'.out >= child.out /\ child'.stdin <= child.stdin
         /\ chan'.sent >= chan.sent
         /\ chan.sent <= child.out => chan'.sent <= child'.out
<1> USE DEF PtyTypeOK
<1>1. CASE ChildWrites BY <1>1 DEF ChildWrites
<1>2. CASE ChildReads  BY <1>2 DEF ChildReads
<1>3. CASE ChildExits
  <2>1. PICK k \in ExitCodes : child' = [child EXCEPT !.life = "dead", !.code = k]
    BY <1>3 DEF ChildExits
  <2>2. UNCHANGED <<pty, chan>>
    BY <1>3 DEF ChildExits
  <2>3. child' \in [life : {"none", "running", "dead"},
                   code : ExitCodes \cup {NoCode}, out : Nat, stdin : 0 .. StdinCap]
    BY <2>1
  <2>4. child'.out = child.out /\ child'.stdin = child.stdin
    BY <2>1
  <2>5. child.stdin \in Int /\ child.out \in Int /\ chan.sent \in Int
    OBVIOUS
  <2>6. QED BY <2>2, <2>3, <2>4, <2>5
<1>4. CASE ReaderData  BY <1>4 DEF ReaderData
<1>5. CASE ReaderEof
  <2>1. chan' = [chan EXCEPT !.eof = TRUE] /\ UNCHANGED <<pty, child>>
    BY <1>5 DEF ReaderEof
  <2>2. /\ chan' \in [sent : Nat, eof : BOOLEAN, cut : BOOLEAN]
        /\ chan'.sent = chan.sent
    BY <2>1
  <2>3. child.stdin \in Int /\ child.out \in Int /\ chan.sent \in Int
    OBVIOUS
  <2>4. QED BY <2>1, <2>2, <2>3
<1>6. CASE ReaderError
  <2>1. chan' = [chan EXCEPT !.eof = TRUE, !.cut = TRUE] /\ UNCHANGED <<pty, child>>
    BY <1>6 DEF ReaderError
  <2>2. /\ chan' \in [sent : Nat, eof : BOOLEAN, cut : BOOLEAN]
        /\ chan'.sent = chan.sent
    BY <2>1
  <2>3. child.stdin \in Int /\ child.out \in Int /\ chan.sent \in Int
    OBVIOUS
  <2>4. QED BY <2>1, <2>2, <2>3
<1>7. QED BY <1>1, <1>2, <1>3, <1>4, <1>5, <1>6 DEF Process

\* Every step keeps the types.
LEMMA TypesStep == TypeOK /\ [Next]_vars => TypeOK'
<1> SUFFICES ASSUME TypeOK, [Next]_vars PROVE TypeOK'
  OBVIOUS
<1> USE DEF TypeOK, connVars, ptyVars
<1>1. CASE CreateSession
  <2>1. pty' \in Handles
    BY <1>1 DEF CreateSession, Start, PtyTypeOK, Handles
  <2>2. child' \in [life : {"none", "running", "dead"}, code : ExitCodes \cup {NoCode},
                    out : Nat, stdin : 0 .. StdinCap]
    <3>1. PICK n \in {0, 1} : child' = [child EXCEPT !.life = "running", !.stdin = n]
      BY <1>1 DEF CreateSession, Start
    <3>2. n \in 0 .. StdinCap
      OBVIOUS
    <3>3. QED BY <3>1, <3>2 DEF PtyTypeOK
  <2>3. UNCHANGED <<chan, registered, sess, lock, connVars, req>>
    BY <1>1 DEF CreateSession, Start
  <2>4. QED BY <2>1, <2>2, <2>3 DEF PtyTypeOK
<1>2. CASE RegisterSession
  BY <1>2 DEF RegisterSession, PtyTypeOK
<1>3. CASE ProcessStep
  BY <1>3, ProcessEffect DEF ProcessStep
<1>4. ASSUME NEW c \in Conns, Connect(c) PROVE TypeOK'
  BY <1>4 DEF Connect, PtyTypeOK
<1>5. ASSUME NEW c \in Conns, Disconnect(c) PROVE TypeOK'
  <2>1. PICK n \in 0 .. Len(inbox[c]) :
          inbox' = [inbox EXCEPT ![c] = SubSeq(@, 1, n)]
    BY <1>5 DEF Disconnect
  <2>2. inbox[c] \in Seq(Frames)
    OBVIOUS
  <2>3. SubSeq(inbox[c], 1, n) \in Seq(Frames)
    BY <2>2
  <2>4. inbox' \in [Conns -> Seq(Frames)]
    BY <2>1, <2>3
  <2>5. QED BY <1>5, <2>4 DEF Disconnect, PtyTypeOK
<1>6. ASSUME NEW c \in Conns, NEW f \in Frames, ClientSend(c, f) PROVE TypeOK'
  <2>1. inbox' \in [Conns -> Seq(Frames)]
    BY <1>6 DEF ClientSend
  <2>2. QED BY <1>6, <2>1 DEF ClientSend, PtyTypeOK
<1>7. ASSUME NEW c \in Conns, Lookup(c) PROVE TypeOK'
  BY <1>7 DEF Lookup, PtyTypeOK
<1>8. ASSUME NEW c \in Conns, CheckExited(c) PROVE TypeOK'
  <2>1. UNCHANGED <<ptyVars, registered, sess, lock, sock, inbox, held, received, req>>
    BY <1>8 DEF CheckExited
  <2>2. CASE sess.exited
    BY <1>8, <2>1, <2>2 DEF CheckExited, PtyTypeOK
  <2>3. CASE ~sess.exited
    <3>1. /\ handler' = [handler EXCEPT ![c] = "pumping"]
          /\ out' = [out EXCEPT ![c] = "poll"]
          /\ inp' = [inp EXCEPT ![c] = "recv"]
          /\ UNCHANGED notice
      BY <1>8, <2>3 DEF CheckExited
    <3>2. QED BY <2>1, <3>1 DEF PtyTypeOK
  <2>4. QED BY <2>2, <2>3
<1>8a. ASSUME NEW c \in Conns, Refuse(c) PROVE TypeOK'
  BY <1>8a DEF Refuse, PtyTypeOK
<1>9. ASSUME NEW c \in Conns, OutPoll(c) PROVE TypeOK'
  <2>1. UNCHANGED <<child, chan, registered, lock, handler, inp, sock, inbox,
                    received, notice, req>>
    BY <1>9 DEF OutPoll
  <2>2. out' \in [Conns -> {"off", "poll", "send", "done"}]
    BY <1>9 DEF OutPoll
  <2>3. pty' \in Handles
    BY <1>9, HandleTypes DEF OutPoll, SessPollExit, PtyTypeOK
  <2>4. held' \in [Conns -> SUBSET Nat]
    <3>1. ReadData(pty) \subseteq Nat
      BY DEF ReadData, PtyTypeOK, Handles
    <3>2. held' = held \/ held' = [held EXCEPT ![c] = ReadData(pty)]
      BY <1>9 DEF OutPoll
    <3>3. CASE held' = held
      BY <3>3
    <3>4. CASE held' = [held EXCEPT ![c] = ReadData(pty)]
      BY <3>1, <3>4
    <3>5. QED BY <3>2, <3>3, <3>4
  <2>5. sess' \in [exited : BOOLEAN, code : ExitCodes \cup {NoCode, Killed}, size : Sizes]
    <3>1. AfterPollExit(AfterRead(pty)).code \in ExitCodes \cup {NoCode, Killed}
      BY HandleTypes DEF PtyTypeOK, Handles
    <3>2. \/ sess' = sess
          \/ sess' = [sess EXCEPT !.exited = TRUE,
                                  !.code = AfterPollExit(AfterRead(pty)).code]
      BY <1>9 DEF OutPoll, SessPollExit
    <3>3. QED BY <3>1, <3>2
  <2>6. QED BY <2>1, <2>2, <2>3, <2>4, <2>5 DEF PtyTypeOK
<1>10. ASSUME NEW c \in Conns, OutSend(c) PROVE TypeOK'
  <2>1. received' \in [Conns -> SUBSET Nat]
    <3>1. received[c] \cup held[c] \in SUBSET Nat
      <4>1. received[c] \in SUBSET Nat /\ held[c] \in SUBSET Nat
        OBVIOUS
      <4>2. QED BY <4>1
    <3>2. \/ received' = received
          \/ received' = [received EXCEPT ![c] = @ \cup held[c]]
      BY <1>10 DEF OutSend
    <3>3. QED BY ZenonT(40), <3>1, <3>2
  <2>2. out' \in [Conns -> {"off", "poll", "send", "done"}]
    BY <1>10 DEF OutSend
  <2>3. held' \in [Conns -> SUBSET Nat]
    BY <1>10 DEF OutSend
  <2>4. UNCHANGED <<ptyVars, registered, sess, lock, handler, inp, sock, inbox,
                    notice, req>>
    BY <1>10 DEF OutSend
  <2>5. QED BY <2>1, <2>2, <2>3, <2>4 DEF PtyTypeOK
<1>11. ASSUME NEW c \in Conns, InRecv(c) PROVE TypeOK'
  <2>1. inbox' \in [Conns -> Seq(Frames)]
    <3>1. inbox[c] # <<>> => Tail(inbox[c]) \in Seq(Frames)
      OBVIOUS
    <3>2. QED BY <1>11, <3>1 DEF InRecv
  <2>2. inp' \in [Conns -> {"off", "recv", "write", "done"} \cup Commands]
    <3>1. CASE inp' = inp
      BY <3>1
    <3>2. CASE inp' = [inp EXCEPT ![c] = "done"]
      BY <3>2
    <3>3. ASSUME NEW f \in Commands, inp' = [inp EXCEPT ![c] = f]
          PROVE  inp' \in [Conns -> {"off", "recv", "write", "done"} \cup Commands]
      BY <3>3
    <3>4. QED BY <1>11, <3>1, <3>2, <3>3, RecvEffect
  <2>3. sock' \in [Conns -> {"none", "open", "gone"}]
    BY <1>11 DEF InRecv
  <2>4. UNCHANGED <<ptyVars, registered, sess, lock, handler, out, held, received,
                    notice, req>>
    BY <1>11 DEF InRecv
  <2>5. QED BY <2>1, <2>2, <2>3, <2>4 DEF PtyTypeOK
<1>12. ASSUME NEW c \in Conns, InApply(c) PROVE TypeOK'
  <2>1. UNCHANGED <<chan, registered, handler, out, sock, inbox, held, received,
                    notice, req>>
    BY <1>12 DEF InApply
  <2>2. CASE /\ Perform(inp[c])
             /\ inp' = [inp EXCEPT ![c] = IF @ = "stop" THEN "done" ELSE "recv"]
             /\ UNCHANGED lock
    BY <1>12, <2>1, <2>2, PerformEffect DEF InApply, PtyTypeOK
  <2>3. CASE /\ lock' = c
             /\ inp' = [inp EXCEPT ![c] = "write"]
             /\ UNCHANGED <<pty, child, sess>>
    BY <2>1, <2>3 DEF PtyTypeOK
  <2>4. QED BY <1>12, <2>2, <2>3 DEF InApply
<1>13. ASSUME NEW c \in Conns, InWritten(c) PROVE TypeOK'
  BY <1>13, WriteEffect DEF InWritten, PtyTypeOK
<1>14. ASSUME NEW r \in Requests, NEW m \in Commands, ReqArrives(r, m) PROVE TypeOK'
  BY <1>14 DEF ReqArrives, PtyTypeOK
<1>15. ASSUME NEW r \in Requests, ReqApply(r) PROVE TypeOK'
  <2>1. UNCHANGED <<chan, registered, connVars>>
    BY <1>15 DEF ReqApply
  <2>2. CASE Perform(req[r]) /\ req' = [req EXCEPT ![r] = "done"] /\ UNCHANGED lock
    BY <1>15, <2>1, <2>2, PerformEffect DEF ReqApply, PtyTypeOK
  <2>3. CASE /\ lock' = r
             /\ req' = [req EXCEPT ![r] = "write"]
             /\ UNCHANGED <<pty, child, sess>>
    BY <2>1, <2>3 DEF PtyTypeOK
  <2>4. QED BY <1>15, <2>2, <2>3 DEF ReqApply
<1>16. ASSUME NEW r \in Requests, ReqWritten(r) PROVE TypeOK'
  BY <1>16, WriteEffect DEF ReqWritten, PtyTypeOK
<1>17. CASE UNCHANGED vars
  BY <1>17 DEF vars, PtyTypeOK
<1>18. QED
  BY <1>1, <1>2, <1>3, <1>4, <1>5, <1>6, <1>7, <1>8, <1>8a, <1>9, <1>10, <1>11, <1>12,
     <1>13, <1>14, <1>15, <1>16, <1>17 DEF Next

\* Every variable keeps its type, whatever the sizes and bounds.
THEOREM TypeCorrect == Spec => []TypeOK
  BY InitTypes, TypesStep, PTL DEF Spec

-----------------------------------------------------------------------------
(* The session, the handle and the lock.                                   *)

Agreement == SessMirrorsPty /\ LockIsExclusive /\ ChunksInOrder

\* The critical section of an output pump has three outcomes: it ends without
\* a change, it finds the end of the output, or it takes what is readable.
PollEnds(c)  == UNCHANGED <<pty, sess, held>> /\ out' = [out EXCEPT ![c] = "done"]
PollFinds(c) ==
  /\ chan.eof /\ ~sess.exited /\ sess'.exited /\ pty'.exited
  /\ sess'.code = pty'.code /\ sess'.size = sess.size /\ pty'.size = pty.size
  /\ pty'.taken = chan.sent
  /\ held' = held /\ out' = [out EXCEPT ![c] = "done"]
PollTakes(c) ==
  /\ ~sess.exited /\ sess' = sess
  /\ pty.taken < chan.sent /\ pty'.taken = chan.sent
  /\ ~pty'.exited /\ pty'.code = pty.code /\ pty'.size = pty.size
  /\ held' = [held EXCEPT ![c] = (pty.taken + 1) .. chan.sent]
  /\ out' = [out EXCEPT ![c] = "send"]

\* A turn of the output pump ends it, finds an exit, or takes chunks.
LEMMA PollEffect ==
  ASSUME TypeOK, Agreement, NEW c \in Conns, OutPoll(c)
  PROVE  PollEnds(c) \/ PollFinds(c) \/ PollTakes(c)
<1>1. PtyTypeOK /\ SessMirrorsPty /\ ChunksInOrder
  BY DEF TypeOK, Agreement
<1>2. CASE sess.exited
  BY <1>2 DEF OutPoll, PollEnds
<1>3. CASE ~sess.exited /\ ~Readable(pty)
  <2>1. pty.exited = FALSE
    BY <1>1, <1>3 DEF SessMirrorsPty
  <2>2. ~pty.open
    BY <1>3, <2>1 DEF Readable
  <2>3. ReadClosed(pty) /\ AfterRead(pty) = pty
    BY <1>3 DEF ReadClosed, AfterRead
  <2>4. AfterPollExit(pty) = pty
    BY <2>2 DEF AfterPollExit
  <2>5. QED BY <1>3, <2>1, <2>3, <2>4 DEF OutPoll, SessPollExit, PollEnds
<1>4. CASE ~sess.exited /\ Readable(pty) /\ chan.eof
  <2>1. ReadClosed(pty)
    BY <1>4 DEF ReadClosed
  <2>2. /\ pty' = AfterRead(pty)
        /\ sess' = [sess EXCEPT !.exited = TRUE, !.code = AfterRead(pty).code]
        /\ held' = held /\ out' = [out EXCEPT ![c] = "done"]
    BY <1>1, <1>4, <2>1, ReadEffect DEF OutPoll, SessPollExit
  <2>3. QED BY <1>1, <1>4, <2>2, ReadEffect DEF PollFinds, TypeOK
<1>5. CASE ~sess.exited /\ Readable(pty) /\ ~chan.eof
  <2>1. ~ReadClosed(pty)
    BY <1>5 DEF ReadClosed
  <2>2. ReadData(pty) = (pty.taken + 1) .. chan.sent
    BY <1>5 DEF ReadData
  <2>3. /\ ReadData(pty) # {} /\ pty' = AfterRead(pty) /\ sess' = sess
        /\ held' = [held EXCEPT ![c] = ReadData(pty)]
        /\ out' = [out EXCEPT ![c] = "send"]
    BY <1>5, <2>1 DEF OutPoll
  <2>4. pty.taken < chan.sent
    BY <1>1, <2>2, <2>3 DEF PtyTypeOK, Handles
  <2>5. QED BY <1>1, <1>5, <2>2, <2>3, <2>4, ReadEffect DEF PollTakes, PtyTypeOK
<1>6. QED BY <1>2, <1>3, <1>4, <1>5

\* A connection has no socket before it connects, and no pumps before the
\* handler has let it in.
Unconnected ==
  \A c \in Conns :
    /\ handler[c] = "idle" => sock[c] = "none"
    /\ handler[c] # "pumping" => inp[c] = "off" /\ out[c] = "off"

\* A connection not made yet stays untouched.
LEMMA UnconnectedStep == TypeOK /\ Unconnected /\ [Next]_vars => Unconnected'
<1> SUFFICES ASSUME TypeOK, Unconnected, [Next]_vars PROVE Unconnected'
  OBVIOUS
<1> USE DEF Unconnected
<1>0. ASSUME UNCHANGED <<handler, sock, inp, out>> PROVE Unconnected'
  BY <1>0
<1>1. CASE CreateSession
  BY <1>1, <1>0 DEF CreateSession, connVars
<1>2. CASE RegisterSession
  BY <1>2, <1>0 DEF RegisterSession, connVars
<1>3. CASE ProcessStep
  BY <1>3, <1>0 DEF ProcessStep, connVars
<1>4. ASSUME NEW c \in Conns, Connect(c) PROVE Unconnected'
  BY <1>4 DEF Connect, TypeOK
<1>5. ASSUME NEW c \in Conns, Disconnect(c) PROVE Unconnected'
  BY <1>5 DEF Disconnect, TypeOK
<1>6. ASSUME NEW c \in Conns, NEW f \in Frames, ClientSend(c, f) PROVE Unconnected'
  BY <1>6, <1>0 DEF ClientSend
<1>7. ASSUME NEW c \in Conns, Lookup(c) PROVE Unconnected'
  BY <1>7 DEF Lookup, TypeOK
<1>8. ASSUME NEW c \in Conns, CheckExited(c) PROVE Unconnected'
  BY <1>8 DEF CheckExited, TypeOK
<1>8a. ASSUME NEW c \in Conns, Refuse(c) PROVE Unconnected'
  BY <1>8a DEF Refuse, TypeOK
<1>9. ASSUME NEW c \in Conns, OutPoll(c) PROVE Unconnected'
  <2>1. UNCHANGED <<handler, sock, inp>> /\ handler[c] = "pumping"
    BY <1>9 DEF OutPoll
  <2>2. \A d \in Conns : d # c => out'[d] = out[d]
    BY <1>9 DEF OutPoll, TypeOK
  <2>3. QED BY <2>1, <2>2
<1>10. ASSUME NEW c \in Conns, OutSend(c) PROVE Unconnected'
  <2>1. UNCHANGED <<handler, sock, inp>> /\ handler[c] = "pumping"
    BY <1>10 DEF OutSend
  <2>2. \A d \in Conns : d # c => out'[d] = out[d]
    BY <1>10 DEF OutSend, TypeOK
  <2>3. QED BY <2>1, <2>2
<1>11. ASSUME NEW c \in Conns, InRecv(c) PROVE Unconnected'
  <2>1. handler[c] = "pumping" /\ UNCHANGED <<handler, out>>
    BY <1>11, RecvEffect DEF InRecv
  <2>2. \A d \in Conns : d # c => inp'[d] = inp[d] /\ sock'[d] = sock[d]
    BY <1>11, RecvOthers
  <2>3. QED BY <2>1, <2>2
<1>12. ASSUME NEW c \in Conns, InApply(c) PROVE Unconnected'
  BY <1>12, CommandsDistinct DEF InApply, TypeOK
<1>13. ASSUME NEW c \in Conns, InWritten(c) PROVE Unconnected'
  BY <1>13 DEF InWritten, TypeOK
<1>14. ASSUME NEW r \in Requests, NEW m \in Commands, ReqArrives(r, m) PROVE Unconnected'
  BY <1>14, <1>0 DEF ReqArrives, connVars
<1>15. ASSUME NEW r \in Requests, ReqApply(r) PROVE Unconnected'
  BY <1>15, <1>0 DEF ReqApply, connVars
<1>16. ASSUME NEW r \in Requests, ReqWritten(r) PROVE Unconnected'
  BY <1>16, <1>0 DEF ReqWritten, connVars
<1>17. CASE UNCHANGED vars
  BY <1>17, <1>0 DEF vars, connVars
<1>18. QED
  BY <1>1, <1>2, <1>3, <1>4, <1>5, <1>6, <1>7, <1>8, <1>8a, <1>9, <1>10, <1>11, <1>12,
     <1>13, <1>14, <1>15, <1>16, <1>17 DEF Next

\* The session is registered once its process was started, and every task that
\* acts on it found it in the registry: so nothing exits before the start.
RegisteredFirst ==
  /\ registered => pty.started
  /\ \A c \in Conns : handler[c] \in {"check", "ended", "pumping"} => registered
  /\ \A r \in Requests : req[r] \in Commands \cup {"write"} => registered
  /\ sess.exited => registered

\* Nobody reaches the session before it is registered.
LEMMA RegisteredStep ==
  TypeOK /\ Unconnected /\ RegisteredFirst /\ [Next]_vars => RegisteredFirst'
<1> SUFFICES ASSUME TypeOK, Unconnected, RegisteredFirst, [Next]_vars
             PROVE  RegisteredFirst'
  OBVIOUS
<1>a. PtyTypeOK
  BY DEF TypeOK
<1> USE DEF RegisteredFirst
<1>0. ASSUME UNCHANGED <<registered, handler, req>>, sess'.exited => registered,
             pty'.started = pty.started
      PROVE  RegisteredFirst'
  BY <1>0
<1>1. CASE CreateSession
  BY <1>1, <1>a DEF CreateSession, Start, CanStart, connVars, PtyTypeOK, Handles
<1>2. CASE RegisterSession
  BY <1>2 DEF RegisterSession, connVars, ptyVars
<1>3. CASE ProcessStep
  BY <1>3, <1>0, <1>a, ProcessEffect DEF ProcessStep, connVars
<1>4. ASSUME NEW c \in Conns,
             Connect(c) \/ Lookup(c) \/ CheckExited(c) \/ Refuse(c)
      PROVE  RegisteredFirst'
  BY <1>4 DEF Connect, Lookup, CheckExited, Refuse, ptyVars, TypeOK
<1>5. ASSUME NEW c \in Conns,
             \/ Disconnect(c) \/ OutSend(c) \/ InRecv(c)
             \/ \E f \in Frames : ClientSend(c, f)
      PROVE  RegisteredFirst'
  BY <1>5, <1>0 DEF Disconnect, OutSend, InRecv, ClientSend, ptyVars
<1>6. ASSUME NEW c \in Conns, OutPoll(c) PROVE RegisteredFirst'
  <2>1. UNCHANGED <<registered, handler, req>> /\ handler[c] = "pumping"
    BY <1>6 DEF OutPoll, Unconnected
  <2>2. pty'.started = pty.started
    BY <1>6, <1>a
       DEF OutPoll, SessPollExit, AfterRead, AfterPollExit, PtyTypeOK, Handles
  <2>3. QED BY <1>0, <2>1, <2>2
<1>7. ASSUME NEW c \in Conns, InApply(c) PROVE RegisteredFirst'
  <2>1. UNCHANGED <<registered, handler, req>> /\ handler[c] = "pumping"
    BY <1>7, CommandsDistinct DEF InApply, Unconnected
  <2>2. pty'.started = pty.started
    BY <1>7, PerformEffect DEF InApply
  <2>3. QED BY <1>0, <2>1, <2>2
<1>8. ASSUME NEW c \in Conns, InWritten(c) PROVE RegisteredFirst'
  BY <1>8, <1>0 DEF InWritten
<1>9. ASSUME NEW r \in Requests, NEW m \in Commands, ReqArrives(r, m)
      PROVE  RegisteredFirst'
  BY <1>9, CommandsDistinct DEF ReqArrives, connVars, ptyVars, TypeOK
<1>10. ASSUME NEW r \in Requests, ReqApply(r) PROVE RegisteredFirst'
  <2>1. UNCHANGED <<registered, handler>> /\ registered
    BY <1>10 DEF ReqApply, connVars
  <2>2. pty'.started = pty.started
    BY <1>10, PerformEffect DEF ReqApply
  <2>3. QED BY <2>1, <2>2
<1>11. ASSUME NEW r \in Requests, ReqWritten(r) PROVE RegisteredFirst'
  BY <1>11 DEF ReqWritten, connVars, TypeOK
<1>12. CASE UNCHANGED vars
  BY <1>12, <1>0 DEF vars, connVars, ptyVars
<1>13. QED
  BY <1>1, <1>2, <1>3, <1>4, <1>5, <1>6, <1>7, <1>8, <1>9, <1>10, <1>11, <1>12 DEF Next

\* Session and handle agree at the start.
LEMMA AgreementInit == Init => Agreement
  BY CommandsDistinct
     DEF Init, PtyInit, Agreement, SessMirrorsPty, LockIsExclusive, ChunksInOrder, Readers

\* Every step keeps them so.
LEMMA AgreementStep == TypeOK /\ Agreement /\ [Next]_vars => Agreement'
<1> SUFFICES ASSUME TypeOK, Agreement, [Next]_vars PROVE Agreement'
  OBVIOUS
<1>a. TypeOK'
  BY TypesStep
<1>b. PtyTypeOK /\ PtyTypeOK'
  BY <1>a DEF TypeOK
<1> USE DEF Agreement
<1>0. ASSUME UNCHANGED <<pty, sess, chan, child, inp, lock, req>>, Readers' = Readers
      PROVE  Agreement'
  BY <1>0 DEF SessMirrorsPty, LockIsExclusive, ChunksInOrder
<1>1. CASE CreateSession
  <2>1. /\ pty'.exited = pty.exited /\ pty'.code = pty.code /\ pty'.size = pty.size
        /\ pty'.taken = pty.taken /\ pty'.open
        /\ child'.out = child.out /\ UNCHANGED <<chan, sess, inp, lock, req, handler>>
    BY <1>1, <1>b DEF CreateSession, Start, PtyTypeOK, Handles, connVars
  <2>2. QED BY <2>1 DEF SessMirrorsPty, LockIsExclusive, ChunksInOrder, Readers
<1>2. CASE RegisterSession
  BY <1>2, <1>0 DEF RegisterSession, connVars, ptyVars, Readers
<1>3. CASE ProcessStep
  <2>1. UNCHANGED <<pty, sess, lock, inp, req, handler>>
    BY <1>3, <1>b, ProcessEffect DEF ProcessStep, connVars
  <2>2. pty.taken <= chan'.sent /\ chan'.sent <= child'.out
    BY <1>3, <1>b, ProcessEffect DEF ProcessStep, ChunksInOrder, PtyTypeOK, Handles
  <2>3. QED BY <2>1, <2>2 DEF SessMirrorsPty, LockIsExclusive, ChunksInOrder, Readers
<1>4. ASSUME NEW c \in Conns, Connect(c) PROVE Agreement'
  <2>1. Readers' = Readers
    BY <1>4 DEF Connect, Readers, TypeOK
  <2>2. QED BY <1>4, <1>0, <2>1 DEF Connect, ptyVars
<1>5. ASSUME NEW c \in Conns, Disconnect(c) PROVE Agreement'
  BY <1>5, <1>0 DEF Disconnect, ptyVars, Readers
<1>6. ASSUME NEW c \in Conns, NEW f \in Frames, ClientSend(c, f) PROVE Agreement'
  BY <1>6, <1>0 DEF ClientSend, ptyVars, Readers
<1>7. ASSUME NEW c \in Conns, Lookup(c) PROVE Agreement'
  <2>1. Readers' = Readers
    BY <1>7 DEF Lookup, Readers, TypeOK
  <2>2. QED BY <1>7, <1>0, <2>1 DEF Lookup, ptyVars
<1>8. ASSUME NEW c \in Conns, CheckExited(c) PROVE Agreement'
  <2>1. UNCHANGED <<ptyVars, sess, lock, req>> /\ lock = "free"
    BY <1>8 DEF CheckExited
  <2>2. inp' = inp \/ inp' = [inp EXCEPT ![c] = "recv"]
    BY <1>8 DEF CheckExited
  <2>3. Readers' # {} => sess'.exited
    \* Only an exited session makes the handler keep its guard.
    <3>1. CASE sess.exited
      BY <2>1, <3>1
    <3>2. CASE ~sess.exited
      <4>1. handler' = [handler EXCEPT ![c] = "pumping"]
        BY <1>8, <3>2 DEF CheckExited
      <4>2. Readers' \subseteq Readers
        BY <4>1 DEF Readers, TypeOK
      <4>3. QED BY <3>2, <4>2 DEF LockIsExclusive
    <3>3. QED BY <3>1, <3>2
  <2>4. LockIsExclusive'
    BY <2>1, <2>2, <2>3 DEF LockIsExclusive, TypeOK
  <2>5. QED BY <2>1, <2>4 DEF SessMirrorsPty, ChunksInOrder, ptyVars
<1>8a. ASSUME NEW c \in Conns, Refuse(c) PROVE Agreement'
  <2>1. UNCHANGED <<ptyVars, sess, lock, req, inp>>
    BY <1>8a DEF Refuse
  <2>2. Readers' \subseteq Readers
    BY <1>8a DEF Refuse, Readers, TypeOK
  <2>3. LockIsExclusive'
    BY <2>1, <2>2 DEF LockIsExclusive, ptyVars
  <2>4. QED BY <2>1, <2>3 DEF SessMirrorsPty, ChunksInOrder, ptyVars
<1>9. ASSUME NEW c \in Conns, OutPoll(c) PROVE Agreement'
  <2>1. /\ UNCHANGED <<child, chan, lock, inp, req>> /\ lock = "free"
        /\ Readers = {} /\ Readers' = {}
    BY <1>9 DEF OutPoll, Unlocked, Readers
  <2>2. LockIsExclusive'
    BY <2>1 DEF LockIsExclusive
  <2>3. SessMirrorsPty' /\ ChunksInOrder'
    <3>1. CASE PollEnds(c)
      BY <2>1, <3>1 DEF PollEnds, SessMirrorsPty, ChunksInOrder
    <3>2. CASE PollFinds(c)
      BY <2>1, <3>2, <1>a, <1>b
         DEF PollFinds, SessMirrorsPty, ChunksInOrder, TypeOK, PtyTypeOK, Handles
    <3>3. CASE PollTakes(c)
      BY <2>1, <3>3, <1>a, <1>b
         DEF PollTakes, SessMirrorsPty, ChunksInOrder, TypeOK, PtyTypeOK, Handles
    <3>4. QED BY <1>9, <3>1, <3>2, <3>3, PollEffect
  <2>4. QED BY <2>2, <2>3
<1>10. ASSUME NEW c \in Conns, OutSend(c) PROVE Agreement'
  BY <1>10, <1>0 DEF OutSend, ptyVars, Readers
<1>11. ASSUME NEW c \in Conns, InRecv(c) PROVE Agreement'
  <2>1. UNCHANGED <<ptyVars, sess, lock, req>> /\ Readers' = Readers
    BY <1>11 DEF InRecv, Readers
  <2>2. inp[c] # "write" /\ lock # c
    BY <1>11, RecvEffect DEF LockIsExclusive
  <2>3. inp'[c] # "write" /\ \A d \in Conns : d # c => inp'[d] = inp[d]
    BY <1>11, RecvOthers
  <2>4. LockIsExclusive'
    BY <2>1, <2>2, <2>3 DEF LockIsExclusive, ptyVars
  <2>5. QED BY <2>1, <2>4 DEF SessMirrorsPty, ChunksInOrder, ptyVars
<1>12. ASSUME NEW c \in Conns, InApply(c) PROVE Agreement'
  <2>1. /\ UNCHANGED <<chan, req>> /\ lock = "free" /\ inp[c] \in Commands
        /\ Readers = {} /\ Readers' = {}
    BY <1>12 DEF InApply, Unlocked, Readers
  <2>2. CASE /\ Perform(inp[c])
             /\ inp' = [inp EXCEPT ![c] = IF @ = "stop" THEN "done" ELSE "recv"]
             /\ UNCHANGED lock
    <3>1. SessMirrorsPty' /\ child'.out = child.out /\ pty'.taken = pty.taken
      BY <2>1, <2>2, PerformEffect
    <3>2. inp'[c] # "write" /\ \A d \in Conns : d # c => inp'[d] = inp[d]
      BY <2>2 DEF TypeOK
    <3>3. LockIsExclusive'
      BY <2>1, <2>2, <3>2 DEF LockIsExclusive
    <3>4. QED BY <2>1, <3>1, <3>3 DEF ChunksInOrder
  <2>3. CASE /\ MustBlock(inp[c])
             /\ lock' = c
             /\ inp' = [inp EXCEPT ![c] = "write"]
             /\ UNCHANGED <<pty, child, sess>>
    <3>1. ~sess.exited /\ pty.open
      BY <2>3 DEF MustBlock
    <3>2. inp'[c] = "write" /\ \A d \in Conns : d # c => inp'[d] = inp[d]
      BY <2>3 DEF TypeOK
    <3>3. LockIsExclusive'
      BY <2>1, <2>3, <3>1, <3>2 DEF LockIsExclusive
    <3>4. QED BY <2>1, <2>3, <3>3 DEF SessMirrorsPty, ChunksInOrder
  <2>4. QED BY <1>12, <2>2, <2>3 DEF InApply
<1>13. ASSUME NEW c \in Conns, InWritten(c) PROVE Agreement'
  <2>1. /\ UNCHANGED <<pty, chan, sess, req>> /\ lock' = "free"
        /\ inp[c] = "write" /\ inp' = [inp EXCEPT ![c] = "recv"]
        /\ Readers' = Readers
    BY <1>13 DEF InWritten, Readers
  <2>2. child'.out = child.out
    BY <1>13, <1>b, WriteEffect DEF InWritten
  <2>3. inp'[c] = "recv" /\ \A d \in Conns : d # c => inp'[d] = inp[d]
    BY <2>1 DEF TypeOK
  <2>4. LockIsExclusive'
    BY <2>1, <2>3 DEF LockIsExclusive
  <2>5. QED BY <2>1, <2>2, <2>4 DEF SessMirrorsPty, ChunksInOrder
<1>14. ASSUME NEW r \in Requests, NEW m \in Commands, ReqArrives(r, m) PROVE Agreement'
  <2>1. /\ UNCHANGED <<ptyVars, sess, lock, inp>> /\ req[r] = "idle"
        /\ Readers' = Readers
    BY <1>14 DEF ReqArrives, connVars, Readers
  <2>2. req'[r] # "write" /\ \A q \in Requests : q # r => req'[q] = req[q]
    BY <1>14, CommandsDistinct DEF ReqArrives, TypeOK
  <2>3. LockIsExclusive'
    BY <2>1, <2>2 DEF LockIsExclusive, ptyVars
  <2>4. QED BY <2>1, <2>3 DEF SessMirrorsPty, ChunksInOrder, ptyVars
<1>15. ASSUME NEW r \in Requests, ReqApply(r) PROVE Agreement'
  <2>1. /\ UNCHANGED <<chan, inp>> /\ lock = "free" /\ req[r] \in Commands
        /\ Readers = {} /\ Readers' = {}
    BY <1>15 DEF ReqApply, connVars, Unlocked, Readers
  <2>2. CASE Perform(req[r]) /\ req' = [req EXCEPT ![r] = "done"] /\ UNCHANGED lock
    <3>1. SessMirrorsPty' /\ child'.out = child.out /\ pty'.taken = pty.taken
      BY <2>1, <2>2, PerformEffect
    <3>2. req'[r] # "write" /\ \A q \in Requests : q # r => req'[q] = req[q]
      BY <2>2 DEF TypeOK
    <3>3. LockIsExclusive'
      BY <2>1, <2>2, <3>2 DEF LockIsExclusive
    <3>4. QED BY <2>1, <3>1, <3>3 DEF ChunksInOrder
  <2>3. CASE /\ MustBlock(req[r])
             /\ lock' = r
             /\ req' = [req EXCEPT ![r] = "write"]
             /\ UNCHANGED <<pty, child, sess>>
    <3>1. ~sess.exited /\ pty.open
      BY <2>3 DEF MustBlock
    <3>2. req'[r] = "write" /\ \A q \in Requests : q # r => req'[q] = req[q]
      BY <2>3 DEF TypeOK
    <3>3. LockIsExclusive'
      BY <2>1, <2>3, <3>1, <3>2 DEF LockIsExclusive
    <3>4. QED BY <2>1, <2>3, <3>3 DEF SessMirrorsPty, ChunksInOrder
  <2>4. QED BY <1>15, <2>2, <2>3 DEF ReqApply
<1>16. ASSUME NEW r \in Requests, ReqWritten(r) PROVE Agreement'
  <2>1. /\ UNCHANGED <<pty, chan, sess, inp>> /\ lock' = "free"
        /\ req[r] = "write" /\ req' = [req EXCEPT ![r] = "done"]
        /\ Readers' = Readers
    BY <1>16 DEF ReqWritten, connVars, Readers
  <2>2. child'.out = child.out
    BY <1>16, <1>b, WriteEffect DEF ReqWritten
  <2>3. req'[r] = "done" /\ \A q \in Requests : q # r => req'[q] = req[q]
    BY <2>1 DEF TypeOK
  <2>4. LockIsExclusive'
    BY <2>1, <2>3 DEF LockIsExclusive
  <2>5. QED BY <2>1, <2>2, <2>4 DEF SessMirrorsPty, ChunksInOrder
<1>17. CASE UNCHANGED vars
  BY <1>17, <1>0 DEF vars, connVars, ptyVars, Readers
<1>18. QED
  BY <1>1, <1>2, <1>3, <1>4, <1>5, <1>6, <1>7, <1>8, <1>8a, <1>9, <1>10, <1>11, <1>12,
     <1>13, <1>14, <1>15, <1>16, <1>17 DEF Next

\* Session and handle always agree.
LEMMA AgreementInvariant == Spec => [](TypeOK /\ Agreement)
<1>1. Init => TypeOK /\ Agreement
  BY InitTypes, AgreementInit
<1>2. (TypeOK /\ Agreement) /\ [Next]_vars => (TypeOK /\ Agreement)'
  BY TypesStep, AgreementStep
<1>3. QED BY <1>1, <1>2, PTL DEF Spec

\* The session and its handle never disagree about exit, exit code and size.
THEOREM MirrorCorrect == Spec => []SessMirrorsPty
  BY AgreementInvariant, PTL DEF Agreement

\* Whoever is blocked in a write holds the lock alone, on a live session; a
\* handler that sends under its read guard does so on an exited one.
THEOREM LockCorrect == Spec => []LockIsExclusive
  BY AgreementInvariant, PTL DEF Agreement

-----------------------------------------------------------------------------
(* The data: where every chunk is.                                         *)

\* What strengthens AtMostOnce and LossHasCause: chunks with clients or on
\* their way were all taken, and what a pump holds is newer than what its
\* client has. Only a sending pump holds chunks, and it holds at least one.
ChunksPlaced ==
  \A c \in Conns :
    /\ received[c] \cup held[c] \subseteq 1 .. pty.taken
    /\ out[c] = "send" <=> held[c] # {}
    /\ \A old \in received[c], new \in held[c] : old < new

Delivery == ChunksPlaced /\ AtMostOnce /\ LossHasCause

\* Nothing is delivered at the start.
LEMMA DeliveryInit == Init => Delivery
  BY DEF Init, PtyInit, Delivery, ChunksPlaced, AtMostOnce, LossHasCause

\* Steps that leave the chunks where they are, and repair nothing.
LEMMA DeliveryStutter ==
  ASSUME Delivery, pty'.taken = pty.taken, UNCHANGED <<held, received>>,
         \A c \in Conns : out'[c] = "send" <=> out[c] = "send",
         \A c \in Conns : sock[c] = "gone" => sock'[c] = "gone",
         sess.exited => sess'.exited
  PROVE  Delivery'
  BY DEF Delivery, ChunksPlaced, AtMostOnce, LossHasCause

\* One pump takes the readable chunks, its hands being empty.
LEMMA TakeKeepsDelivery ==
  ASSUME TypeOK, TypeOK', Agreement, Delivery, NEW c \in Conns, out[c] = "poll",
         PollTakes(c), UNCHANGED <<received, sock>>
  PROVE  Delivery'
<1> DEFINE new == (pty.taken + 1) .. chan.sent
<1>1. /\ pty.taken \in Nat /\ chan.sent \in Nat /\ pty.taken < chan.sent
      /\ pty'.taken = chan.sent
  BY DEF TypeOK, PtyTypeOK, Handles, PollTakes
<1>2. held[c] = {}
  BY DEF Delivery, ChunksPlaced
<1>3. held'[c] = new /\ \A d \in Conns : d # c => held'[d] = held[d]
  BY DEF PollTakes, TypeOK
<1>4. out'[c] = "send" /\ \A d \in Conns : d # c => out'[d] = out[d]
  BY DEF PollTakes, TypeOK
<1>5. new # {} /\ new \subseteq 1 .. chan.sent /\ new \cap 1 .. pty.taken = {}
  <2>1. pty.taken + 1 \in new
    BY <1>1
  <2>2. QED BY <1>1, <2>1
<1>6. 1 .. pty.taken \subseteq 1 .. chan.sent
  BY <1>1
<1>7. 1 .. chan.sent = (1 .. pty.taken) \cup new
  BY <1>1
<1> HIDE DEF new
<1>8. ChunksPlaced'
  <2>1. \A d \in Conns : received[d] \subseteq 1 .. pty.taken
    BY DEF Delivery, ChunksPlaced
  <2>2. \A old \in received[c], k \in new : old < k
    BY <1>1, <2>1 DEF new
  <2>3. \A d \in Conns : received[d] \cup held'[d] \subseteq 1 .. chan.sent
    BY <1>3, <1>5, <1>6 DEF Delivery, ChunksPlaced
  <2>4. QED BY <1>1, <1>3, <1>4, <1>5, <2>2, <2>3 DEF Delivery, ChunksPlaced
<1>9. AtMostOnce'
  <2>1. \A d \in Conns : (received[d] \cup held[d]) \cap new = {}
    BY <1>5 DEF Delivery, ChunksPlaced
  <2>2. QED BY <1>2, <1>3, <2>1 DEF Delivery, AtMostOnce
<1>10. LossHasCause'
  <2>1. SUFFICES ASSUME \A d \in Conns : sock[d] # "gone", ~sess.exited
                 PROVE  1 .. chan.sent \subseteq UNION {received[d] \cup held'[d] : d \in Conns}
    BY <1>1 DEF LossHasCause, PollTakes
  <2>2. 1 .. pty.taken \subseteq UNION {received[d] \cup held[d] : d \in Conns}
    BY <2>1 DEF Delivery, LossHasCause
  <2>3. \A d \in Conns : held[d] \subseteq held'[d]
    BY <1>2, <1>3
  <2>4. QED BY <1>3, <1>7, <2>2, <2>3
<1>11. QED BY <1>8, <1>9, <1>10 DEF Delivery

\* A send moves what the pump holds to its client, or loses it with a client
\* that is gone.
LEMMA SendKeepsDelivery ==
  ASSUME TypeOK, Delivery, NEW c \in Conns, OutSend(c)
  PROVE  Delivery'
<1>1. /\ UNCHANGED <<pty, sess, sock>> /\ held' = [held EXCEPT ![c] = {}]
      /\ out'[c] # "send" /\ \A d \in Conns : d # c => out'[d] = out[d]
  BY DEF OutSend, TypeOK, ptyVars
<1>2. held'[c] = {} /\ \A d \in Conns : d # c => held'[d] = held[d]
  BY <1>1 DEF TypeOK
<1>3. CASE sock[c] = "open"
  <2>1. received' = [received EXCEPT ![c] = @ \cup held[c]]
    BY <1>3 DEF OutSend
  <2>2. /\ received'[c] = received[c] \cup held[c]
        /\ \A d \in Conns : d # c => received'[d] = received[d]
    BY <2>1 DEF TypeOK
  <2>3. \A d \in Conns : received'[d] \cup held'[d] = received[d] \cup held[d]
    BY <1>2, <2>2
  <2>4. ChunksPlaced'
    BY <1>1, <1>2, <2>2, <2>3 DEF Delivery, ChunksPlaced
  <2>5. AtMostOnce'
    BY <1>2, <2>2, <2>3 DEF Delivery, AtMostOnce
  <2>6. LossHasCause'
    BY <1>1, <2>3 DEF Delivery, LossHasCause
  <2>7. QED BY <2>4, <2>5, <2>6 DEF Delivery
<1>4. CASE sock[c] = "gone"
  <2>1. UNCHANGED received
    BY <1>4 DEF OutSend
  <2>2. ChunksPlaced' /\ AtMostOnce'
    BY <1>1, <1>2, <2>1 DEF Delivery, ChunksPlaced, AtMostOnce
  <2>3. LossHasCause'
    BY <1>1, <1>4 DEF LossHasCause
  <2>4. QED BY <2>2, <2>3 DEF Delivery
<1>5. QED BY <1>3, <1>4 DEF OutSend

\* Every step keeps the chunks where they belong, and each lost one has its cause.
LEMMA DeliveryStep ==
  TypeOK /\ Agreement /\ Unconnected /\ Delivery /\ [Next]_vars => Delivery'
<1> SUFFICES ASSUME TypeOK, Agreement, Unconnected, Delivery, [Next]_vars
             PROVE  Delivery'
  OBVIOUS
<1>a. TypeOK'
  BY TypesStep
<1>b. PtyTypeOK
  BY DEF TypeOK
<1>1. CASE CreateSession
  <2>1. pty'.taken = pty.taken /\ UNCHANGED <<held, received, out, sock, sess>>
    BY <1>1, <1>b DEF CreateSession, Start, PtyTypeOK, Handles, connVars
  <2>2. QED BY <2>1, DeliveryStutter
<1>2. CASE RegisterSession
  BY <1>2, DeliveryStutter DEF RegisterSession, connVars, ptyVars
<1>3. CASE ProcessStep
  <2>1. UNCHANGED <<pty, held, received, out, sock, sess>>
    BY <1>3, <1>b, ProcessEffect DEF ProcessStep, connVars
  <2>2. QED BY <2>1, DeliveryStutter
<1>4. ASSUME NEW c \in Conns, Connect(c) PROVE Delivery'
  <2>1. UNCHANGED <<pty, sess, out, held, received>> /\ sock[c] = "none"
        /\ sock' = [sock EXCEPT ![c] = "open"]
    BY <1>4 DEF Connect, ptyVars, Unconnected
  <2>2. \A d \in Conns : sock[d] = "gone" => sock'[d] = "gone"
    BY <2>1 DEF TypeOK
  <2>3. QED BY <2>1, <2>2, DeliveryStutter
<1>5. ASSUME NEW c \in Conns, Disconnect(c) PROVE Delivery'
  <2>1. UNCHANGED <<pty, sess, out, held, received>>
        /\ sock' = [sock EXCEPT ![c] = "gone"]
    BY <1>5 DEF Disconnect, ptyVars
  <2>2. \A d \in Conns : sock[d] = "gone" => sock'[d] = "gone"
    BY <2>1 DEF TypeOK
  <2>3. QED BY <2>1, <2>2, DeliveryStutter
<1>6. ASSUME NEW c \in Conns, NEW f \in Frames, ClientSend(c, f) PROVE Delivery'
  BY <1>6, DeliveryStutter DEF ClientSend, ptyVars
<1>7. ASSUME NEW c \in Conns, Lookup(c) PROVE Delivery'
  <2>1. UNCHANGED <<pty, sess, sock, out, held, received>>
    BY <1>7 DEF Lookup, ptyVars
  <2>2. QED BY <2>1, DeliveryStutter
<1>8. ASSUME NEW c \in Conns, CheckExited(c) PROVE Delivery'
  \* A pump starts with empty hands: its connection was not sending.
  <2>1. UNCHANGED <<pty, sess, sock, held, received>>
        /\ (out' = out \/ out' = [out EXCEPT ![c] = "poll"]) /\ handler[c] = "check"
    BY <1>8 DEF CheckExited, ptyVars
  <2>2. out[c] # "send"
    BY <2>1 DEF Unconnected
  <2>3. QED BY <2>1, <2>2, DeliveryStutter DEF TypeOK
<1>8a. ASSUME NEW c \in Conns, Refuse(c) PROVE Delivery'
  BY <1>8a, DeliveryStutter DEF Refuse, ptyVars
<1>9. ASSUME NEW c \in Conns, OutPoll(c) PROVE Delivery'
  <2>1. UNCHANGED <<received, sock, chan>> /\ out[c] = "poll"
    BY <1>9 DEF OutPoll
  <2>2. CASE PollEnds(c)
    <3>1. \A d \in Conns : out'[d] = "send" <=> out[d] = "send"
      BY <2>1, <2>2 DEF PollEnds, TypeOK
    <3>2. QED BY <2>1, <2>2, <3>1, DeliveryStutter DEF PollEnds
  <2>3. CASE PollFinds(c)
    <3>1. \A d \in Conns : out'[d] = "send" <=> out[d] = "send"
      BY <2>1, <2>3 DEF PollFinds, TypeOK
    <3>2. /\ pty.taken \in Nat /\ chan.sent \in Nat /\ pty.taken <= chan.sent
          /\ pty'.taken = chan.sent
      BY <2>3 DEF PollFinds, Agreement, ChunksInOrder, TypeOK, PtyTypeOK, Handles
    <3>3. 1 .. pty.taken \subseteq 1 .. pty'.taken
      BY <3>2
    <3>4. ChunksPlaced' /\ AtMostOnce'
      BY <2>1, <2>3, <3>1, <3>3 DEF PollFinds, Delivery, ChunksPlaced, AtMostOnce
    <3>5. LossHasCause'
      BY <2>3 DEF PollFinds, LossHasCause
    <3>6. QED BY <3>4, <3>5 DEF Delivery
  <2>4. CASE PollTakes(c)
    BY <2>1, <2>4, <1>a, TakeKeepsDelivery
  <2>5. QED BY <1>9, <2>2, <2>3, <2>4, PollEffect
<1>10. ASSUME NEW c \in Conns, OutSend(c) PROVE Delivery'
  BY <1>10, SendKeepsDelivery
<1>11. ASSUME NEW c \in Conns, InRecv(c) PROVE Delivery'
  <2>1. UNCHANGED <<pty, sess, out, held, received>>
    BY <1>11 DEF InRecv, ptyVars
  <2>2. \A d \in Conns : sock[d] = "gone" => sock'[d] = "gone"
    BY <1>11, RecvEffect DEF TypeOK
  <2>3. QED BY <2>1, <2>2, DeliveryStutter
<1>12. ASSUME NEW c \in Conns, InApply(c) PROVE Delivery'
  <2>1. UNCHANGED <<out, sock, held, received>> /\ inp[c] \in Commands
    BY <1>12 DEF InApply
  <2>2. pty'.taken = pty.taken /\ (sess.exited => sess'.exited)
    BY <1>12, <2>1, PerformEffect DEF InApply
  <2>3. QED BY <2>1, <2>2, DeliveryStutter
<1>13. ASSUME NEW c \in Conns, InWritten(c) PROVE Delivery'
  BY <1>13, DeliveryStutter DEF InWritten
<1>14. ASSUME NEW r \in Requests, NEW m \in Commands, ReqArrives(r, m) PROVE Delivery'
  BY <1>14, DeliveryStutter DEF ReqArrives, connVars, ptyVars
<1>15. ASSUME NEW r \in Requests, ReqApply(r) PROVE Delivery'
  <2>1. UNCHANGED <<out, sock, held, received>> /\ req[r] \in Commands
    BY <1>15 DEF ReqApply, connVars
  <2>2. pty'.taken = pty.taken /\ (sess.exited => sess'.exited)
    BY <1>15, <2>1, PerformEffect DEF ReqApply
  <2>3. QED BY <2>1, <2>2, DeliveryStutter
<1>16. ASSUME NEW r \in Requests, ReqWritten(r) PROVE Delivery'
  BY <1>16, DeliveryStutter DEF ReqWritten, connVars
<1>17. CASE UNCHANGED vars
  BY <1>17, DeliveryStutter DEF vars, connVars, ptyVars
<1>18. QED
  BY <1>1, <1>2, <1>3, <1>4, <1>5, <1>6, <1>7, <1>8, <1>8a, <1>9, <1>10, <1>11, <1>12,
     <1>13, <1>14, <1>15, <1>16, <1>17 DEF Next

\* The inductive invariant of the bridge.
LEMMA DeliveryInvariant == Spec => [](TypeOK /\ Agreement /\ Unconnected /\ Delivery)
<1> DEFINE Inv == TypeOK /\ Agreement /\ Unconnected /\ Delivery
<1>1. Init => Unconnected
  BY DEF Init, Unconnected
<1>2. Init => Inv
  BY <1>1, InitTypes, AgreementInit, DeliveryInit
<1>3. Inv /\ [Next]_vars => Inv'
  BY TypesStep, AgreementStep, UnconnectedStep, DeliveryStep
<1>4. QED BY <1>2, <1>3, PTL DEF Spec

\* Every chunk is delivered at most once, to at most one connection.
THEOREM DeliveredAtMostOnce == Spec => []AtMostOnce
  BY DeliveryInvariant, PTL DEF Delivery

\* No chunk that was read disappears while the session runs and every client
\* is connected.
THEOREM LossIsExplained == Spec => []LossHasCause
  BY DeliveryInvariant, PTL DEF Delivery

\* Each client receives the chunks it gets in the order they were written.
THEOREM DeliveredInOrder == Spec => InOrder
<1>1. TypeOK /\ Delivery /\ [Next]_vars =>
        [\A c \in Conns : \A new \in received'[c] \ received[c] :
           \A old \in received[c] : old < new]_vars
  <2> SUFFICES ASSUME TypeOK, Delivery, Next,
                      NEW c \in Conns, NEW new \in received'[c] \ received[c],
                      NEW old \in received[c]
               PROVE  old < new
    OBVIOUS
  <2>1. \E d \in Conns : OutSend(d)
    <3>1. received' # received
      OBVIOUS
    <3>2. QED BY <3>1 DEF Next, CreateSession, RegisterSession, ProcessStep, Connect,
        Disconnect, ClientSend, Lookup, CheckExited, Refuse, OutPoll, InRecv, InApply,
        InWritten, ReqArrives, ReqApply, ReqWritten, connVars
  <2>2. PICK d \in Conns : OutSend(d)
    BY <2>1
  <2>3. received' = [received EXCEPT ![d] = @ \cup held[d]]
    BY <2>2 DEF OutSend
  <2>4. c = d /\ new \in held[c]
    BY <2>3 DEF TypeOK
  <2>5. QED BY <2>4 DEF Delivery, ChunksPlaced
<1>2. QED BY <1>1, DeliveryInvariant, PTL DEF Spec, InOrder

\* The invariant that places a session's start before everything else.
LEMMA RegisteredInvariant == Spec => [](TypeOK /\ Unconnected /\ RegisteredFirst)
<1>1. Init => TypeOK /\ Unconnected /\ RegisteredFirst
  BY InitTypes, CommandsDistinct DEF Init, PtyInit, Unconnected, RegisteredFirst
<1>2. (TypeOK /\ Unconnected /\ RegisteredFirst) /\ [Next]_vars
        => (TypeOK /\ Unconnected /\ RegisteredFirst)'
  BY TypesStep, UnconnectedStep, RegisteredStep
<1>3. QED BY <1>1, <1>2, PTL DEF Spec

\* After the exit is recorded nothing about the session changes any more: no
\* new exit code or size, no input into the child, no output out of it.
THEOREM ExitIsFrozen == Spec => ExitFreezesSession
<1>1. TypeOK /\ Agreement /\ RegisteredFirst /\ [Next]_vars =>
        [sess.exited => /\ sess' = sess
                        /\ child'.stdin <= child.stdin
                        /\ pty'.taken = pty.taken]_vars
  <2> SUFFICES ASSUME TypeOK, Agreement, RegisteredFirst, Next, sess.exited
               PROVE  /\ sess' = sess
                      /\ child'.stdin <= child.stdin
                      /\ pty'.taken = pty.taken
    OBVIOUS
  <2>a. child.stdin \in Int /\ PtyTypeOK
    BY DEF TypeOK, PtyTypeOK
  <2>b. lock = "free"
    BY DEF Agreement, LockIsExclusive
  <2>0. ASSUME UNCHANGED <<sess, child, pty>>
        PROVE  sess' = sess /\ child'.stdin <= child.stdin /\ pty'.taken = pty.taken
    BY <2>0, <2>a
  <2>1. CASE CreateSession
    BY <2>1 DEF CreateSession, Start, CanStart, RegisteredFirst
  <2>2. CASE RegisterSession
    BY <2>2, <2>0 DEF RegisterSession, ptyVars
  <2>3. CASE ProcessStep
    BY <2>3, <2>a, ProcessEffect DEF ProcessStep
  <2>4. ASSUME NEW c \in Conns,
               \/ Connect(c) \/ Disconnect(c) \/ Lookup(c) \/ CheckExited(c) \/ Refuse(c)
               \/ OutSend(c) \/ InRecv(c) \/ \E f \in Frames : ClientSend(c, f)
        PROVE  UNCHANGED <<sess, child, pty>>
    BY <2>4 DEF Connect, Disconnect, Lookup, CheckExited, Refuse, OutSend, InRecv, ClientSend,
                ptyVars
  <2>5. ASSUME NEW c \in Conns, OutPoll(c) PROVE UNCHANGED <<sess, child, pty>>
    BY <2>5 DEF OutPoll
  <2>6. ASSUME NEW c \in Conns, InApply(c) PROVE UNCHANGED <<sess, child, pty>>
    <3>1. Perform(inp[c]) => UNCHANGED <<sess, child, pty>>
      BY <2>6, PerformEffect DEF InApply
    <3>2. QED BY <2>6, <3>1 DEF InApply
  <2>7. ASSUME NEW c \in Conns, InWritten(c) PROVE FALSE
    BY <2>7, <2>b DEF InWritten, Agreement, LockIsExclusive
  <2>8. ASSUME NEW r \in Requests, NEW m \in Commands, ReqArrives(r, m)
        PROVE  UNCHANGED <<sess, child, pty>>
    BY <2>8 DEF ReqArrives, ptyVars
  <2>9. ASSUME NEW r \in Requests, ReqApply(r) PROVE UNCHANGED <<sess, child, pty>>
    <3>1. Perform(req[r]) => UNCHANGED <<sess, child, pty>>
      BY <2>9, PerformEffect DEF ReqApply
    <3>2. QED BY <2>9, <3>1 DEF ReqApply
  <2>10. ASSUME NEW r \in Requests, ReqWritten(r) PROVE FALSE
    BY <2>10, <2>b DEF ReqWritten, Agreement, LockIsExclusive
  <2>11. QED
    BY <2>0, <2>1, <2>2, <2>3, <2>4, <2>5, <2>6, <2>7, <2>8, <2>9, <2>10 DEF Next
<1>2. QED BY <1>1, AgreementInvariant, RegisteredInvariant, PTL DEF Spec, ExitFreezesSession

-----------------------------------------------------------------------------
(* The bridge implements the abstract output stream.                       *)

Gone == {c \in Conns : sock[c] = "gone"}

\* The bridge starts as the stream does.
LEMMA StreamInit == Init => Stream!Init
  BY DEF Init, PtyInit, Stream!Init

\* Every step of the bridge is one of the stream, or none.
LEMMA StreamStep ==
  TypeOK /\ Agreement /\ Unconnected /\ Delivery /\ [Next]_vars
    => [Stream!Next]_(Stream!streamVars)
<1> SUFFICES ASSUME TypeOK, Agreement, Unconnected, Delivery, [Next]_vars
             PROVE  Stream!Next \/ UNCHANGED Stream!streamVars
  OBVIOUS
<1>b. PtyTypeOK
  BY DEF TypeOK
<1>0. ASSUME child'.out = child.out, pty'.taken = pty.taken, sess'.exited = sess.exited,
             UNCHANGED <<held, received>>, Gone' = Gone
      PROVE  UNCHANGED Stream!streamVars
  BY <1>0 DEF Stream!streamVars, Gone
<1>e. ASSUME child'.out = child.out, ~sess.exited, sess'.exited,
             pty'.taken \in pty.taken .. child.out,
             UNCHANGED <<held, received, sock>>
      PROVE  Stream!Next
  <2>1. sess.exited = FALSE /\ sess'.exited = TRUE
    BY <1>e, TypesStep DEF TypeOK
  <2>2. Stream!End
    BY <1>e, <2>1 DEF Stream!End
  <2>3. QED BY <2>2 DEF Stream!Next
<1>1. CASE CreateSession
  <2>1. child'.out = child.out /\ pty'.taken = pty.taken
        /\ UNCHANGED <<held, received, sock, sess>>
    BY <1>1, <1>b DEF CreateSession, Start, PtyTypeOK, Handles, connVars
  <2>2. QED BY <1>0, <2>1 DEF Gone
<1>2. CASE RegisterSession
  BY <1>2, <1>0 DEF RegisterSession, connVars, ptyVars, Gone
<1>3. CASE ProcessStep
  <2>1. UNCHANGED <<pty, held, received, sock, sess>>
    BY <1>3, <1>b, ProcessEffect DEF ProcessStep, connVars
  <2>2. CASE ChildWrites
    <3>1. child'.out = child.out + 1
      BY <2>2, <1>b DEF ChildWrites, PtyTypeOK
    <3>2. Stream!Produce
      BY <2>1, <3>1 DEF Stream!Produce
    <3>3. QED BY <3>2 DEF Stream!Next
  <2>3. CASE ChildReads \/ ChildExits \/ ReaderData \/ ReaderEof \/ ReaderError
    <3>1. child'.out = child.out
      <4>1. CASE ChildReads
        BY <4>1, <1>b DEF ChildReads, PtyTypeOK
      <4>2. CASE ChildExits
        BY <4>2, <1>b DEF ChildExits, PtyTypeOK
      <4>3. CASE ReaderData \/ ReaderEof \/ ReaderError
        BY <4>3 DEF ReaderData, ReaderEof, ReaderError
      <4>4. QED BY <2>3, <4>1, <4>2, <4>3
    <3>2. QED BY <1>0, <2>1, <3>1 DEF Gone
  <2>4. QED BY <1>3, <2>2, <2>3 DEF ProcessStep, Process
<1>4. ASSUME NEW c \in Conns, Connect(c) PROVE UNCHANGED Stream!streamVars
  <2>1. UNCHANGED <<ptyVars, sess, held, received>> /\ sock[c] = "none"
        /\ sock' = [sock EXCEPT ![c] = "open"]
    BY <1>4 DEF Connect, Unconnected
  <2>2. Gone' = Gone
    BY <2>1 DEF Gone, TypeOK
  <2>3. QED BY <1>0, <2>1, <2>2 DEF ptyVars
<1>5. ASSUME NEW c \in Conns, sock' = [sock EXCEPT ![c] = "gone"],
             UNCHANGED <<ptyVars, sess, held, received>>
      PROVE  Stream!Next
  <2>1. Gone' = Gone \cup {c}
    BY <1>5 DEF Gone, TypeOK
  <2>2. Stream!Leave(c)
    BY <1>5, <2>1 DEF Stream!Leave, ptyVars, Gone
  <2>3. QED BY <2>2 DEF Stream!Next
<1>6. ASSUME NEW c \in Conns, Disconnect(c) PROVE Stream!Next
  BY <1>5, <1>6 DEF Disconnect
<1>7. ASSUME NEW c \in Conns,
             Lookup(c) \/ CheckExited(c) \/ Refuse(c) \/ \E f \in Frames : ClientSend(c, f)
      PROVE  UNCHANGED Stream!streamVars
  BY <1>7, <1>0 DEF Lookup, CheckExited, Refuse, ClientSend, ptyVars, Gone
<1>9. ASSUME NEW c \in Conns, OutPoll(c) PROVE Stream!Next \/ UNCHANGED Stream!streamVars
  <2>1. UNCHANGED <<child, chan, received, sock>> /\ out[c] = "poll"
    BY <1>9 DEF OutPoll
  <2>a. /\ pty.taken \in Nat /\ chan.sent \in Nat /\ child.out \in Nat
        /\ pty.taken <= chan.sent /\ chan.sent <= child.out
    BY <1>b DEF PtyTypeOK, Handles, Agreement, ChunksInOrder
  <2>2. CASE PollEnds(c)
    BY <2>1, <2>2, <1>0 DEF PollEnds, Gone
  <2>3. CASE PollFinds(c)
    <3>1. pty'.taken \in pty.taken .. child.out
      BY <2>3, <2>a DEF PollFinds
    <3>2. QED BY <1>e, <2>1, <2>3, <3>1 DEF PollFinds
  <2>4. CASE PollTakes(c)
    <3>1. held[c] = {}
      BY <2>1 DEF Delivery, ChunksPlaced
    <3>2. pty'.taken \in (pty.taken + 1) .. child.out
      BY <2>4, <2>a DEF PollTakes
    <3>3. Stream!Take(c)
      BY <2>1, <2>4, <3>1, <3>2 DEF PollTakes, Stream!Take
    <3>4. QED BY <3>3 DEF Stream!Next
  <2>5. QED BY <1>9, <2>2, <2>3, <2>4, PollEffect
<1>10. ASSUME NEW c \in Conns, OutSend(c) PROVE Stream!Next
  <2>1. UNCHANGED <<ptyVars, sess, sock>> /\ held' = [held EXCEPT ![c] = {}]
        /\ held[c] # {}
    BY <1>10 DEF OutSend, Delivery, ChunksPlaced
  <2>2. CASE sock[c] = "open"
    <3>1. received' = [received EXCEPT ![c] = @ \cup held[c]]
      BY <1>10, <2>2 DEF OutSend
    <3>2. Stream!Deliver(c)
      BY <2>1, <2>2, <3>1 DEF Stream!Deliver, ptyVars
    <3>3. QED BY <3>2 DEF Stream!Next
  <2>3. CASE sock[c] = "gone"
    <3>1. UNCHANGED received
      BY <1>10, <2>3 DEF OutSend
    <3>2. Stream!Lose(c)
      BY <2>1, <2>3, <3>1 DEF Stream!Lose, ptyVars
    <3>3. QED BY <3>2 DEF Stream!Next
  <2>4. QED BY <1>10, <2>2, <2>3 DEF OutSend
<1>11. ASSUME NEW c \in Conns, InRecv(c) PROVE Stream!Next \/ UNCHANGED Stream!streamVars
  <2>1. UNCHANGED <<ptyVars, sess, held, received>>
    BY <1>11 DEF InRecv
  <2>2. QED BY <1>0, <1>5, <1>11, <2>1, RecvEffect DEF ptyVars, Gone
<1>12. ASSUME NEW m \in Commands, Perform(m),
              UNCHANGED <<held, received, sock>>
       PROVE  Stream!Next \/ UNCHANGED Stream!streamVars
  <2>1. child'.out = child.out /\ pty'.taken = pty.taken
    BY <1>12, PerformEffect
  <2>2. CASE sess'.exited = sess.exited
    BY <1>0, <1>12, <2>1, <2>2 DEF Gone
  <2>3. CASE sess'.exited # sess.exited
    <3>1. ~sess.exited /\ sess'.exited
      BY <1>12, <2>3, PerformEffect DEF TypeOK
    <3>2. pty'.taken \in pty.taken .. child.out
      BY <1>b, <2>1 DEF PtyTypeOK, Handles, Agreement, ChunksInOrder
    <3>3. QED BY <1>e, <1>12, <2>1, <3>1, <3>2
  <2>4. QED BY <2>2, <2>3
<1>13. ASSUME UNCHANGED <<child, pty, sess, held, received, sock>>
       PROVE  UNCHANGED Stream!streamVars
  BY <1>0, <1>13 DEF Gone
<1>14. ASSUME WriteReturns, UNCHANGED <<pty, sess, held, received, sock>>
       PROVE  UNCHANGED Stream!streamVars
  BY <1>0, <1>b, <1>14, WriteEffect DEF Gone
<1>15. ASSUME NEW c \in Conns, InApply(c) \/ InWritten(c)
       PROVE  Stream!Next \/ UNCHANGED Stream!streamVars
  BY <1>12, <1>13, <1>14, <1>15 DEF InApply, InWritten
<1>16. ASSUME NEW r \in Requests,
              ReqApply(r) \/ ReqWritten(r) \/ \E m \in Commands : ReqArrives(r, m)
       PROVE  Stream!Next \/ UNCHANGED Stream!streamVars
  BY <1>12, <1>13, <1>14, <1>16 DEF ReqApply, ReqWritten, ReqArrives, connVars, ptyVars
<1>17. CASE UNCHANGED vars
  BY <1>13, <1>17 DEF vars, connVars, ptyVars
<1>18. QED
  BY <1>1, <1>2, <1>3, <1>4, <1>6, <1>7, <1>9, <1>10, <1>11, <1>15, <1>16, <1>17
     DEF Next

\* The bridge with its locks, pumps and frames implements the work queue that
\* loses output only at the end of the session and to clients that left.
THEOREM BridgeImplementsStream == Spec => ImplementsStream
<1>1. Spec => [][Stream!Next]_(Stream!streamVars)
  BY StreamStep, DeliveryInvariant, PTL DEF Spec
<1>2. QED BY <1>1, StreamInit, PTL DEF Spec, ImplementsStream, Stream!Spec
=============================================================================
