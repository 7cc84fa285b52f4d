------------------------ MODULE SessionServiceProofs ------------------------
(***************************************************************************)
(* Proofs about the session manager and its processes, for any number of   *)
(* sessions, any terminal and whatever the children do between two system  *)
(* calls: the runtime agrees with its handle, a session that is over has   *)
(* no process and stays over, and the end of the output loses nothing.     *)
(*                                                                         *)
(* The properties are about sessions that no call works on. What makes     *)
(* them inductive is what they leave out: the handle has both its ends or  *)
(* none, a handle with a child belongs to a live session, and a call knows *)
(* what it has found.                                                      *)
(***************************************************************************)
EXTENDS SessionService, TLAPS

\* Nothing has happened to an id that was not given to a session.
Untouched(s) ==
  /\ rt[s] = [status |-> "Created", pid |-> FALSE]
  /\ pty[s] = NoHandle /\ child[s] = NoChild
  /\ past[s] = [end |-> "none", lost |-> FALSE, terminated |-> FALSE]

\* A session's record, handle and process go together.
Agrees(s) ==
  /\ entry[s] = "absent" => Untouched(s)
  /\ entry[s] # "absent" => rt[s].status \in Live \cup Over
  /\ rt[s].status \in Live => rt[s].pid
  /\ rt[s].status \in Over =>
       ~rt[s].pid /\ pty[s] = NoHandle /\ child[s].life = "reaped"
  /\ pty[s].fd <=> pty[s].pid
  /\ pty[s].pid => rt[s].status \in Live /\ child[s].life \in {"running", "zombie"}
  /\ past[s].terminated => rt[s].status \in Live /\ ~pty[s].pid
  /\ entry[s] = "present" /\ rt[s].pid => pty[s].pid \/ past[s].terminated
  /\ past[s].end = "eof" => ~past[s].lost
SessionsAgree == \A s \in Sessions : Agrees(s)

\* What a call knows at its stages. The end of the output stays the end.
CallKnows ==
  /\ call.stage # "none" => call.s \in Sessions
  /\ call.stage \in {"read", "closed", "exit"} => call.op = "poll"
  /\ call.stage \in {"grace", "reap"} =>
       call.op \in {"stop", "mark", "terminate", "drop"} /\ pty[call.s].pid
  /\ call.op = "drop" => call.stage \in {"grace", "reap"} /\ entry[call.s] = "removed"
  /\ call.stage = "closed" /\ pty[call.s].fd =>
       child[call.s].tty = "closed" /\ child[call.s].unread = 0

ServiceInv == TypeOK /\ SessionsAgree /\ CallKnows

Runtimes == [status : {"Created"} \cup Live \cup Over, pid : BOOLEAN]
Calls == [op : {"idle", "input", "poll", "stop", "mark", "terminate", "drop"},
          s : Sessions \cup {"none"},
          stage : {"none", "write", "read", "closed", "exit", "grace", "reap"},
          todo : SUBSET Sessions]
Pasts == [end : {"none", "eof", "quiet", "stop"}, lost : BOOLEAN, terminated : BOOLEAN]

-----------------------------------------------------------------------------
(* Operators.                                                              *)

\* try_transition: a session that is over stays over, and a live one becomes
\* what it is told to become.
LEMMA TransitionEffect ==
  /\ \A from, to : Transition(from, to) \in {from, to}
  /\ \A from \in Over : \A to : Transition(from, to) = from
  /\ \A from \in Live, to \in Live \cup Over : Transition(from, to) = to
  /\ Transition(Transition("Created", "Starting"), "Running") = "Running"
  /\ \A from \in {"Created"} \cup Live \cup Over :
       Transition(Transition(from, "Starting"), "Running") \in Live \cup Over
BY DEF Transition, ValidTransitions, Live, Over

\* A read finds data only if there is some, and the end only if there is none.
LEMMA ReadEffect ==
  ASSUME NEW h \in Handles, NEW c \in Children
  PROVE  /\ ReadFinds(h, c) \subseteq {"data", "closed", "nothing"}
         /\ "data" \in ReadFinds(h, c) => h.fd /\ c.unread > 0
         /\ "closed" \in ReadFinds(h, c) /\ h.fd => c.tty = "closed" /\ c.unread = 0
BY DEF ReadFinds, Handles, Children

\* What happens to a child keeps it a child.
LEMMA ChildTypes ==
  ASSUME NEW c \in Children
  PROVE  /\ Reaped(c) \in Children /\ Killed(c) \in Children
         /\ c.unread > 0 => Taken(c) \in Children
         /\ Exits(c) \subseteq Children
         /\ NoChild \in Children /\ Spawned \in Children
<1>1. /\ Reaped(c) \in Children /\ Killed(c) \in Children
      /\ NoChild \in Children /\ Spawned \in Children
  BY PosixAssumption DEF Children, Reaped, Killed, NoChild, Spawned
<1>2. c.unread > 0 => Taken(c) \in Children
  BY PosixAssumption DEF Children, Taken
<1>3. QED BY <1>1, <1>2 DEF Exits

\* The end of a session is written down with what was left unread.
LEMMA EndedEffect ==
  ASSUME past \in [Sessions -> Pasts], NEW s \in Sessions,
         NEW end \in {"eof", "quiet", "stop"}
  PROVE  /\ Ended(s, end) \in [Sessions -> Pasts]
         /\ \A z \in Sessions : z # s => Ended(s, end)[z] = past[z]
         /\ Ended(s, end)[s].end = end
         /\ Ended(s, end)[s].lost <=> child[s].unread > 0
         /\ Ended(s, end)[s].terminated = past[s].terminated
<1> DEFINE lost == child[s].unread > 0
<1>1. Ended(s, end) = [past EXCEPT ![s] = [past[s] EXCEPT !.end = end, !.lost = lost]]
  BY DEF Ended, Pasts
<1>2. lost \in BOOLEAN
  OBVIOUS
<1>3. lost <=> child[s].unread > 0
  OBVIOUS
<1> HIDE DEF lost
<1>4. [past[s] EXCEPT !.end = end, !.lost = lost] \in Pasts
  BY <1>2 DEF Pasts
<1>5. QED BY <1>1, <1>2, <1>3, <1>4 DEF Pasts

-----------------------------------------------------------------------------
(* Types.                                                                  *)

\* The types hold at the start.
LEMMA TypesInit == Init => TypeOK
BY PosixAssumption DEF Init, TypeOK, NoHandle, Handles, NoChild, Children, Idle, Live, Over

\* Every step keeps the types.
LEMMA TypesStep == TypeOK /\ CallKnows /\ [Next]_vars => TypeOK'
<1> SUFFICES ASSUME TypeOK, CallKnows, [Next]_vars PROVE TypeOK'
  OBVIOUS
<1>a. /\ entry \in [Sessions -> {"absent", "present", "removed"}]
      /\ rt \in [Sessions -> Runtimes] /\ pty \in [Sessions -> Handles]
      /\ child \in [Sessions -> Children] /\ call \in Calls /\ stored \subseteq Sessions
      /\ past \in [Sessions -> Pasts]
  BY DEF TypeOK, Runtimes, Calls, Pasts
<1>b. ASSUME entry' \in [Sessions -> {"absent", "present", "removed"}],
             rt' \in [Sessions -> Runtimes], pty' \in [Sessions -> Handles],
             child' \in [Sessions -> Children], call' \in Calls, stored' \subseteq Sessions,
             past' \in [Sessions -> Pasts]
      PROVE  TypeOK'
  BY <1>b DEF TypeOK, Runtimes, Calls, Pasts
<1>c. Idle \in Calls /\ NoHandle \in Handles /\ Opened \in Handles
  BY DEF Idle, Calls, NoHandle, Opened, Handles
<1>t. \A r \in Runtimes, to \in Live \cup Over : Transition(r.status, to) \in {"Created"} \cup Live \cup Over
  BY TransitionEffect DEF Runtimes
\* terminate() and its callers.
<1>r. ASSUME TerminateReturns(call.s), call.s \in Sessions PROVE TypeOK'
  <2>1. child' \in [Sessions -> Children] /\ pty' \in [Sessions -> Handles]
    BY <1>a, <1>c, <1>r, ChildTypes DEF TerminateReturns
  <2>2. ShutDown(rt[call.s]) \in Runtimes
    BY <1>a, <1>r, <1>t DEF ShutDown, Runtimes, Over
  <2>3. rt' \in [Sessions -> Runtimes]
    BY <1>a, <1>r, <2>2 DEF TerminateReturns
  <2>4. past' \in [Sessions -> Pasts]
    <3>1. Ended(call.s, "stop") \in [Sessions -> Pasts]
      BY <1>a, <1>r, EndedEffect
    <3>2. QED BY <1>a, <1>r, <3>1 DEF TerminateReturns, Pasts
  <2>5. QED BY <1>a, <1>b, <1>c, <1>r, <2>1, <2>3, <2>4 DEF TerminateReturns
<1>1. ASSUME NEW s \in Sessions, CreateSession(s) PROVE TypeOK'
  <2>1. Started(rt[s]) \in Runtimes
    BY <1>a, TransitionEffect DEF Started, Runtimes, CreateSession
  <2>2. QED BY <1>1, <1>a, <1>b, <1>c, <2>1, ChildTypes DEF CreateSession
<1>2. ASSUME NEW s \in Sessions, RemoveSession(s) PROVE TypeOK'
  BY <1>2, <1>a, <1>b DEF RemoveSession
<1>3. ASSUME NEW s \in Sessions,
             SendInput(s) \/ StopSession(s) \/ DropHandle(s)
               \/ TerminateRuntime(s, "mark") \/ TerminateRuntime(s, "terminate")
      PROVE  TypeOK'
  <2>1. call' \in Calls /\ UNCHANGED <<entry, rt, pty, child, stored, past>>
    BY <1>3, <1>c DEF SendInput, StopSession, DropHandle, TerminateRuntime, Terminating, Calls
  <2>2. QED BY <1>a, <1>b, <2>1
<1>4. CASE WriteReturns
  BY <1>4, <1>a, <1>b, <1>c DEF WriteReturns
<1>5. ASSUME NEW s \in Sessions, NEW to \in Live, Mark(s, to) PROVE TypeOK'
  <2>1. [rt[s] EXCEPT !.status = Transition(@, to)] \in Runtimes
    BY <1>a, <1>t DEF Runtimes
  <2>2. QED BY <1>5, <1>a, <1>b, <2>1 DEF Mark
<1>6. ASSUME NEW ss \in SUBSET Sessions, Poll(ss) PROVE TypeOK'
  <2>1. call' \in Calls
    BY <1>6, <1>c DEF Poll, Calls
  <2>2. QED BY <1>6, <1>a, <1>b, <2>1 DEF Poll
<1>7. ASSUME NEW s \in Sessions, PollNext(s) PROVE TypeOK'
  <2>1. call' \in Calls
    BY <1>7, <1>a, <1>c DEF PollNext, Calls
  <2>2. QED BY <1>7, <1>a, <1>b, <2>1 DEF PollNext
<1>8. CASE PollRead
  <2>1. call.s \in Sessions
    BY <1>8 DEF PollRead, CallKnows
  <2>2. call' \in Calls
    BY <1>8, <1>a DEF PollRead, Calls
  <2>3. child' \in [Sessions -> Children]
    BY <1>8, <1>a, <2>1, ReadEffect, ChildTypes DEF PollRead
  <2>4. QED BY <1>8, <1>a, <1>b, <2>2, <2>3 DEF PollRead
<1>9. CASE PollExit
  <2>1. call.s \in Sessions
    BY <1>9 DEF PollExit, CallKnows
  <2>2. call' \in Calls
    BY <1>9, <1>a, <1>c DEF PollExit, Polled, Calls
  <2>3. CASE ~ExitFound(pty[call.s], child[call.s])
    BY <1>9, <1>a, <1>b, <2>2, <2>3 DEF PollExit
  <2>4. CASE ExitFound(pty[call.s], child[call.s])
    <3>1. child' \in [Sessions -> Children] /\ pty' \in [Sessions -> Handles]
      BY <1>9, <1>a, <1>c, <2>1, <2>4, ChildTypes DEF PollExit
    <3>2. [status |-> ExitStatus(call.s), pid |-> FALSE] \in Runtimes
      BY DEF ExitStatus, Runtimes, Over
    <3>3. rt' \in [Sessions -> Runtimes]
      BY <1>9, <1>a, <2>1, <2>4, <3>2 DEF PollExit, HandleExit
    <3>4. past' \in [Sessions -> Pasts]
      BY <1>9, <1>a, <2>1, <2>4, EndedEffect DEF PollExit
    <3>5. QED BY <1>9, <1>a, <1>b, <2>2, <3>1, <3>3, <3>4 DEF PollExit
  <2>5. QED BY <2>3, <2>4
<1>10. CASE GraceReaps \/ KillReaps
  BY <1>10, <1>r DEF GraceReaps, KillReaps, CallKnows
<1>11. CASE GraceEnds
  <2>1. call.s \in Sessions /\ call' \in Calls
    BY <1>11, <1>a DEF GraceEnds, CallKnows, Calls
  <2>2. QED BY <1>11, <1>a, <1>b, <2>1, ChildTypes DEF GraceEnds
<1>12. CASE TerminateFails
  BY <1>12, <1>a, <1>b, <1>c DEF TerminateFails
<1>13. ASSUME NEW s \in Sessions, ChildWrites(s) PROVE TypeOK'
  <2>1. [child[s] EXCEPT !.unread = @ + 1] \in Children
    BY <1>13, <1>a, PosixAssumption DEF ChildWrites, Children
  <2>2. QED BY <1>13, <1>a, <1>b, <2>1 DEF ChildWrites, Child
<1>14. ASSUME NEW s \in Sessions, ChildExits(s) PROVE TypeOK'
  BY <1>14, <1>a, <1>b, ChildTypes DEF ChildExits, Child
<1>15. ASSUME NEW s \in Sessions, TtyCloses(s) PROVE TypeOK'
  <2>1. [child[s] EXCEPT !.tty = "closed"] \in Children
    BY <1>a DEF Children
  <2>2. QED BY <1>15, <1>a, <1>b, <2>1 DEF TtyCloses, Child
<1>16. CASE UNCHANGED vars
  BY <1>16, <1>a, <1>b DEF vars
<1>17. "AwaitingInput" \in Live /\ "Running" \in Live
  BY DEF Live
<1>18. {s \in Sessions : entry[s] = "present"} \in SUBSET Sessions
       /\ \A s \in Sessions : {s} \in SUBSET Sessions
  OBVIOUS
<1>19. QED
  BY <1>1, <1>2, <1>3, <1>4, <1>5, <1>6, <1>7, <1>8, <1>9, <1>10, <1>11, <1>12, <1>13,
     <1>14, <1>15, <1>16, <1>17, <1>18 DEF Next

-----------------------------------------------------------------------------
(* Sessions.                                                               *)

\* A terminate() that returns: the child is reaped, and only the callers that
\* end the session change its record.
LEMMA TerminateEffect ==
  ASSUME TypeOK, NEW s \in Sessions, TerminateReturns(s)
  PROVE  /\ entry' = entry
         /\ \A z \in Sessions : z # s =>
              UNCHANGED <<rt[z], pty[z], child[z], past[z]>>
         /\ pty'[s] = NoHandle /\ child'[s].life = "reaped"
         /\ call.op \in {"stop", "mark"} => rt'[s] = ShutDown(rt[s])
         /\ call.op \notin {"stop", "mark"} => rt'[s] = rt[s]
         /\ past'[s].end = "stop"
         /\ past'[s].terminated <=> past[s].terminated \/ call.op = "terminate"
<1>1. past \in [Sessions -> Pasts]
  BY DEF TypeOK, Pasts
<1> DEFINE ended == Ended(s, "stop")
           terminated == ended[s].terminated \/ call.op = "terminate"
<1>2. past' = [ended EXCEPT ![s].terminated = terminated]
  BY DEF TerminateReturns
<1>3. /\ ended \in [Sessions -> Pasts] /\ \A z \in Sessions : z # s => ended[z] = past[z]
      /\ ended[s].end = "stop" /\ ended[s].terminated = past[s].terminated
  BY <1>1, EndedEffect
<1>4. terminated <=> past[s].terminated \/ call.op = "terminate"
  BY <1>3
<1> HIDE DEF ended, terminated
<1>5. /\ \A z \in Sessions : z # s => past'[z] = past[z]
      /\ past'[s].end = "stop" /\ past'[s].terminated = terminated
  BY <1>2, <1>3 DEF Pasts
<1>6. /\ entry' = entry
      /\ \A z \in Sessions : z # s => UNCHANGED <<rt[z], pty[z], child[z]>>
      /\ pty'[s] = NoHandle /\ child'[s].life = "reaped"
      /\ call.op \in {"stop", "mark"} => rt'[s] = ShutDown(rt[s])
      /\ call.op \notin {"stop", "mark"} => rt'[s] = rt[s]
  BY DEF TerminateReturns, TypeOK, Reaped, Children
<1>7. QED BY <1>4, <1>5, <1>6

\* There are no sessions at the start.
LEMMA AgreeInit == Init => SessionsAgree
BY DEF Init, SessionsAgree, Agrees, Untouched, Live, Over, NoHandle

\* Every step keeps entry, runtime, handle and child of a session agreed.
LEMMA AgreeStep ==
  TypeOK /\ SessionsAgree /\ CallKnows /\ [Next]_vars => SessionsAgree'
<1> SUFFICES ASSUME TypeOK, SessionsAgree, CallKnows, [Next]_vars,
                    NEW z \in Sessions
             PROVE  Agrees(z)'
  BY DEF SessionsAgree
<1>a. /\ entry \in [Sessions -> {"absent", "present", "removed"}]
      /\ rt \in [Sessions -> Runtimes] /\ pty \in [Sessions -> Handles]
      /\ child \in [Sessions -> Children] /\ call \in Calls
      /\ past \in [Sessions -> Pasts]
  BY DEF TypeOK, Runtimes, Calls, Pasts
<1>b. Agrees(z)
  BY DEF SessionsAgree
<1>o. /\ ~NoHandle.pid /\ ~NoHandle.fd /\ Opened.pid /\ Opened.fd
      /\ Spawned.life = "running" /\ NoChild.life = "none" /\ NoChild.tty = "closed"
      /\ Live \cap Over = {} /\ "Created" \notin Live \cup Over
      /\ "Running" \in Live /\ "Exited" \in Over /\ "Error" \in Over
  BY DEF NoHandle, Opened, Spawned, NoChild, Live, Over
<1>c. ASSUME UNCHANGED <<entry[z], rt[z], pty[z], child[z], past[z]>>
      PROVE  Agrees(z)'
  BY <1>b, <1>c DEF Agrees, Untouched
\* What the child does on its own, and what is read from it.
<1>d. ASSUME UNCHANGED <<entry, rt, pty, past>>, NEW s \in Sessions, NEW next,
             child' = [child EXCEPT ![s] = next], child[s] # NoChild,
             child[s].life \in {"running", "zombie"} =>
               next.life \in {"running", "zombie"},
             child[s].life = "reaped" => next.life = "reaped"
      PROVE  Agrees(z)'
  <2>1. CASE z # s
    BY <1>a, <1>c, <1>d, <2>1
  <2>2. CASE z = s
    BY <1>a, <1>b, <1>d, <2>2 DEF Agrees, Untouched
  <2>3. QED BY <2>1, <2>2
<1>r. ASSUME TerminateReturns(call.s), call.stage \in {"grace", "reap"} PROVE Agrees(z)'
  <2>1. /\ call.s \in Sessions /\ call.op \in {"stop", "mark", "terminate", "drop"}
        /\ pty[call.s].pid
        /\ call.op = "drop" => entry[call.s] = "removed"
    BY <1>r DEF CallKnows
  <2>2. CASE z # call.s
    BY <1>c, <1>r, <2>1, <2>2, TerminateEffect
  <2>3. CASE z = call.s
    <3>1. /\ rt[z].status \in Live /\ rt[z].pid /\ ~past[z].terminated /\ entry[z] # "absent"
      BY <1>b, <1>o, <2>1, <2>3 DEF Agrees, Untouched
    <3>2. /\ entry' = entry /\ pty'[z] = NoHandle /\ child'[z].life = "reaped"
          /\ call.op \in {"stop", "mark"} => rt'[z] = ShutDown(rt[z])
          /\ call.op \notin {"stop", "mark"} => rt'[z] = rt[z]
          /\ past'[z].end = "stop"
          /\ past'[z].terminated <=> call.op = "terminate"
      BY <1>r, <2>1, <2>3, <3>1, TerminateEffect
    <3>3. ShutDown(rt[z]).status = "Exited" /\ ~ShutDown(rt[z]).pid
      BY <1>o, <3>1, TransitionEffect DEF ShutDown
    <3>4. QED BY <1>o, <2>1, <2>3, <3>1, <3>2, <3>3 DEF Agrees
  <2>4. QED BY <2>2, <2>3
<1>1. ASSUME NEW s \in Sessions, CreateSession(s) PROVE Agrees(z)'
  <2>1. CASE z # s
    BY <1>1, <1>a, <1>c, <2>1 DEF CreateSession
  <2>2. CASE z = s
    <3>1. Untouched(z)
      BY <1>1, <1>b, <2>2 DEF CreateSession, Agrees
    <3>2. /\ entry'[z] = "present" /\ pty'[z] = Opened /\ child'[z] = Spawned
          /\ rt'[z] = Started(rt[z]) /\ past'[z] = past[z]
      BY <1>1, <1>a, <2>2 DEF CreateSession
    <3>3. rt'[z].status = "Running" /\ rt'[z].pid
      BY <3>1, <3>2, TransitionEffect DEF Started, Untouched
    <3>4. QED BY <1>o, <3>1, <3>2, <3>3 DEF Agrees, Untouched
  <2>3. QED BY <2>1, <2>2
<1>2. ASSUME NEW s \in Sessions, RemoveSession(s) PROVE Agrees(z)'
  <2>1. CASE z # s
    BY <1>2, <1>a, <1>c, <2>1 DEF RemoveSession
  <2>2. CASE z = s
    BY <1>2, <1>a, <1>b, <2>2 DEF RemoveSession, Present, Agrees
  <2>3. QED BY <2>1, <2>2
<1>3. ASSUME NEW s \in Sessions,
             \/ SendInput(s) \/ StopSession(s) \/ DropHandle(s) \/ PollNext(s)
             \/ TerminateRuntime(s, "mark") \/ TerminateRuntime(s, "terminate")
      PROVE  Agrees(z)'
  BY <1>3, <1>c DEF SendInput, StopSession, DropHandle, PollNext, TerminateRuntime
<1>4. CASE WriteReturns \/ \E ss \in SUBSET Sessions : Poll(ss)
  BY <1>4, <1>c DEF WriteReturns, Poll
<1>5. ASSUME NEW s \in Sessions, NEW to \in Live, Mark(s, to) PROVE Agrees(z)'
  <2>1. CASE z # s
    BY <1>5, <1>a, <1>c, <2>1 DEF Mark
  <2>2. CASE z = s
    <3>1. /\ UNCHANGED <<entry, pty, child, past>> /\ entry[z] = "present"
          /\ rt'[z].status = Transition(rt[z].status, to) /\ rt'[z].pid = rt[z].pid
      BY <1>5, <1>a, <2>2 DEF Mark, Present, Runtimes
    <3>2. \/ rt[z].status \in Live /\ rt'[z].status \in Live
          \/ rt[z].status \in Over /\ rt'[z].status = rt[z].status
      BY <1>b, <3>1, TransitionEffect DEF Agrees
    <3>3. QED BY <1>b, <1>o, <3>1, <3>2 DEF Agrees
  <2>3. QED BY <2>1, <2>2
<1>6. CASE PollRead
  <2>1. UNCHANGED <<entry, rt, pty, past>> /\ call.s \in Sessions
    BY <1>6 DEF PollRead, CallKnows
  <2>2. CASE child' = child
    BY <1>c, <2>1, <2>2
  <2>3. CASE child' # child
    <3>1. child' = [child EXCEPT ![call.s] = Taken(@)] /\ child[call.s].unread > 0
      BY <1>6, <1>a, <2>1, <2>3, ReadEffect DEF PollRead
    <3>2. child[call.s] # NoChild /\ Taken(child[call.s]).life = child[call.s].life
      BY <1>a, <2>1, <3>1 DEF NoChild, Taken, Children
    <3>3. QED BY <1>d, <2>1, <3>1, <3>2
  <2>4. QED BY <2>2, <2>3
<1>7. CASE PollExit
  <2>1. call.s \in Sessions
    BY <1>7 DEF PollExit, CallKnows
  <2>2. CASE ~ExitFound(pty[call.s], child[call.s]) \/ z # call.s
    <3>1. CASE ~ExitFound(pty[call.s], child[call.s])
      BY <1>7, <1>c, <3>1 DEF PollExit
    <3>2. CASE ExitFound(pty[call.s], child[call.s]) /\ z # call.s
      BY <1>7, <1>a, <1>c, <2>1, <3>2, EndedEffect DEF PollExit, HandleExit
    <3>3. QED BY <2>2, <3>1, <3>2
  <2>3. CASE ExitFound(pty[call.s], child[call.s]) /\ z = call.s
    <3>1. /\ entry' = entry /\ pty'[z] = NoHandle /\ child'[z].life = "reaped"
          /\ rt' = HandleExit(z)
      BY <1>7, <1>a, <2>1, <2>3 DEF PollExit, Reaped, Children
    <3>2. /\ past'[z].terminated = past[z].terminated
          /\ past'[z].end = "eof" => call.stage = "closed"
          /\ past'[z].lost <=> child[z].unread > 0
      BY <1>7, <1>a, <2>1, <2>3, EndedEffect DEF PollExit
    <3>3. pty[z].pid /\ pty[z].fd /\ rt[z].status \in Live /\ ~past[z].terminated
          /\ entry[z] # "absent"
      BY <1>b, <1>o, <2>3 DEF ExitFound, Agrees, Untouched
    <3>4. ExitStatus(z) \in Over /\ rt'[z] = [status |-> ExitStatus(z), pid |-> FALSE]
      <4>1. ExitStatus(z) \in Over /\ <<rt[z].status, ExitStatus(z)>> \in ValidTransitions
        BY <1>o, <3>3 DEF ExitStatus, ValidTransitions, Live, Over
      <4> QED BY <1>a, <3>1, <4>1 DEF HandleExit
    <3>5. past'[z].end = "eof" => ~past'[z].lost
      BY <1>a, <2>1, <2>3, <3>2, <3>3 DEF CallKnows
    <3>6. QED BY <1>o, <3>1, <3>2, <3>3, <3>4, <3>5 DEF Agrees
  <2>4. QED BY <2>2, <2>3
<1>8. CASE GraceReaps \/ KillReaps
  BY <1>8, <1>r DEF GraceReaps, KillReaps
<1>9. CASE GraceEnds
  <2>1. /\ UNCHANGED <<entry, rt, pty, past>> /\ call.s \in Sessions /\ pty[call.s].pid
        /\ child' = [child EXCEPT ![call.s] = Killed(child[call.s])]
    BY <1>9 DEF GraceEnds, CallKnows
  <2>2. child[call.s].life \in {"running", "zombie"}
    BY <2>1 DEF SessionsAgree, Agrees
  <2>3. Killed(child[call.s]).life = "zombie" /\ child[call.s] # NoChild
    BY <1>a, <1>o, <2>1, <2>2 DEF Killed, Children
  <2>4. QED BY <1>d, <2>1, <2>2, <2>3
<1>10. CASE TerminateFails
  <2>1. UNCHANGED <<entry, rt, child, past>> /\ call.s \in Sessions
        /\ (call.op = "drop" => entry[call.s] = "removed") /\ pty[call.s].pid
    BY <1>10 DEF TerminateFails, CallKnows
  <2>2. CASE pty'[z] = pty[z]
    BY <1>c, <2>1, <2>2
  <2>3. CASE pty'[z] # pty[z]
    <3>1. z = call.s /\ pty'[z] = NoHandle /\ entry[z] = "removed"
      BY <1>10, <1>a, <2>1, <2>3 DEF TerminateFails
    <3>2. QED BY <1>b, <1>o, <2>1, <3>1 DEF Agrees
  <2>4. QED BY <2>2, <2>3
<1>11. ASSUME NEW s \in Sessions, ChildWrites(s) PROVE Agrees(z)'
  <2>1. child[s] # NoChild
    BY <1>11 DEF ChildWrites, NoChild
  <2>2. [child[s] EXCEPT !.unread = @ + 1].life = child[s].life
    BY <1>a DEF Children
  <2>3. QED BY <1>11, <1>d, <2>1, <2>2 DEF ChildWrites, Child
<1>12. ASSUME NEW s \in Sessions, ChildExits(s) PROVE Agrees(z)'
  BY <1>12, <1>d, <1>o DEF ChildExits, Child, Exits
<1>13. ASSUME NEW s \in Sessions, TtyCloses(s) PROVE Agrees(z)'
  <2>1. child[s] # NoChild
    BY <1>13 DEF TtyCloses, NoChild
  <2>2. [child[s] EXCEPT !.tty = "closed"].life = child[s].life
    BY <1>a DEF Children
  <2>3. QED BY <1>13, <1>d, <2>1, <2>2 DEF TtyCloses, Child
<1>14. CASE UNCHANGED vars
  BY <1>14, <1>c DEF vars
<1>15. /\ "AwaitingInput" \in Live /\ "Running" \in Live
       /\ {s \in Sessions : entry[s] = "present"} \in SUBSET Sessions
       /\ \A s \in Sessions : {s} \in SUBSET Sessions
  BY DEF Live
<1>16. QED
  BY <1>1, <1>2, <1>3, <1>4, <1>5, <1>6, <1>7, <1>8, <1>9, <1>10, <1>11, <1>12, <1>13,
     <1>14, <1>15 DEF Next

-----------------------------------------------------------------------------
(* Calls.                                                                  *)

\* No call is in progress at the start.
LEMMA CallInit == Init => CallKnows
BY DEF Init, CallKnows, Idle

\* Every step leaves the call in progress right about its session.
LEMMA CallStep ==
  TypeOK /\ SessionsAgree /\ CallKnows /\ [Next]_vars => CallKnows'
<1> SUFFICES ASSUME TypeOK, SessionsAgree, CallKnows, [Next]_vars PROVE CallKnows'
  OBVIOUS
<1>a. /\ entry \in [Sessions -> {"absent", "present", "removed"}]
      /\ pty \in [Sessions -> Handles] /\ child \in [Sessions -> Children]
      /\ call \in Calls /\ Idle.stage = "none" /\ Idle.op = "idle" /\ Idle.s = "none"
  BY DEF TypeOK, Calls, Idle
<1>i. ASSUME call'.stage = "none", call'.op # "drop" PROVE CallKnows'
  BY <1>i DEF CallKnows
\* The children may do what they like; the end of the output stays the end.
<1>d. ASSUME UNCHANGED <<entry, pty, call>>, NEW s \in Sessions, NEW next \in Children,
             child' = [child EXCEPT ![s] = next],
             child[s].tty = "closed" =>
               next.tty = "closed" /\ next.unread = child[s].unread
      PROVE  CallKnows'
  <2>1. \A z \in Sessions : child[z].tty = "closed" =>
          child'[z].tty = "closed" /\ child'[z].unread = child[z].unread
    BY <1>a, <1>d
  <2>2. QED BY <1>d, <2>1 DEF CallKnows
\* A call begins with terminate().
<1>t. ASSUME UNCHANGED <<entry, pty>>, NEW s \in Sessions, pty[s].pid,
             NEW op \in {"stop", "mark", "terminate", "drop"},
             op = "drop" => entry[s] = "removed", call' = Terminating(op, s)
      PROVE  CallKnows'
  <2>1. call'.op = op /\ call'.s = s /\ call'.stage = "grace"
    BY <1>t DEF Terminating, Idle
  <2>2. QED BY <1>t, <2>1 DEF CallKnows
<1>1. ASSUME NEW s \in Sessions, CreateSession(s) \/ RemoveSession(s) PROVE CallKnows'
  BY <1>1, <1>a, <1>i DEF CreateSession, RemoveSession, Present
<1>2. ASSUME NEW s \in Sessions, SendInput(s) PROVE CallKnows'
  BY <1>2, <1>a DEF SendInput, Idle, CallKnows
<1>3. ASSUME NEW s \in Sessions, StopSession(s) PROVE CallKnows'
  BY <1>3, <1>t DEF StopSession
<1>4. ASSUME NEW s \in Sessions, NEW op \in {"mark", "terminate"}, TerminateRuntime(s, op)
      PROVE  CallKnows'
  BY <1>4, <1>t DEF TerminateRuntime
<1>5. ASSUME NEW s \in Sessions, DropHandle(s) PROVE CallKnows'
  BY <1>5, <1>t DEF DropHandle
<1>6. CASE WriteReturns \/ GraceReaps \/ KillReaps \/ TerminateFails
  BY <1>6, <1>a, <1>i DEF WriteReturns, GraceReaps, KillReaps, TerminateFails, TerminateReturns
<1>7. ASSUME NEW s \in Sessions, NEW to, Mark(s, to) PROVE CallKnows'
  BY <1>7, <1>a, <1>i DEF Mark, Present
<1>8. ASSUME NEW ss \in SUBSET Sessions, Poll(ss) PROVE CallKnows'
  BY <1>8, <1>i DEF Poll, Idle
<1>9. ASSUME NEW s \in Sessions, PollNext(s) PROVE CallKnows'
  <2>1. \/ call'.stage = "none" /\ call'.op # "drop"
        \/ call'.op = "poll" /\ call'.stage = "read" /\ call'.s = s
    BY <1>9, <1>a DEF PollNext, Calls
  <2>2. QED BY <1>i, <2>1 DEF CallKnows
<1>10. CASE PollRead
  <2>1. /\ call.s \in Sessions /\ call.op = "poll" /\ UNCHANGED <<entry, pty>>
        /\ call'.s = call.s /\ call'.op = "poll"
    BY <1>10, <1>a DEF PollRead, CallKnows, Calls
  <2>2. \/ call'.stage \in {"read", "exit"}
        \/ /\ call'.stage = "closed" /\ child' = child
           /\ "closed" \in ReadFinds(pty[call.s], child[call.s])
    BY <1>10, <1>a DEF PollRead, Calls
  <2>3. QED BY <1>a, <2>1, <2>2, ReadEffect DEF CallKnows
<1>11. CASE PollExit
  <2>1. call.op = "poll"
    BY <1>11 DEF PollExit, CallKnows
  <2>2. call'.stage = "none" /\ call'.op # "drop"
    BY <1>11, <1>a, <2>1 DEF PollExit, Polled, Calls
  <2>3. QED BY <1>i, <2>2
<1>12. CASE GraceEnds
  <2>1. /\ UNCHANGED <<entry, pty>> /\ call.s \in Sessions /\ call.stage = "grace"
        /\ call'.s = call.s /\ call'.op = call.op /\ call'.stage = "reap"
    BY <1>12, <1>a DEF GraceEnds, CallKnows, Calls
  <2>2. QED BY <2>1 DEF CallKnows
<1>13. ASSUME NEW s \in Sessions, ChildWrites(s) PROVE CallKnows'
  <2>1. child[s].tty # "closed" /\ [child[s] EXCEPT !.unread = @ + 1] \in Children
    BY <1>13, <1>a, PosixAssumption DEF ChildWrites, Children
  <2>2. QED BY <1>13, <1>d, <2>1 DEF ChildWrites, Child
<1>14. ASSUME NEW s \in Sessions, ChildExits(s) PROVE CallKnows'
  BY <1>14, <1>d DEF ChildExits, Child, Exits
<1>15. ASSUME NEW s \in Sessions, TtyCloses(s) PROVE CallKnows'
  <2>1. child[s].tty = "open" /\ [child[s] EXCEPT !.tty = "closed"] \in Children
    BY <1>15, <1>a DEF TtyCloses, Children
  <2>2. QED BY <1>15, <1>d, <2>1 DEF TtyCloses, Child
<1>16. CASE UNCHANGED vars
  BY <1>16 DEF vars, CallKnows
<1>17. /\ {s \in Sessions : entry[s] = "present"} \in SUBSET Sessions
       /\ \A s \in Sessions : {s} \in SUBSET Sessions
  OBVIOUS
<1>18. QED
  BY <1>1, <1>2, <1>3, <1>4, <1>5, <1>6, <1>7, <1>8, <1>9, <1>10, <1>11, <1>12, <1>13,
     <1>14, <1>15, <1>16, <1>17 DEF Next

-----------------------------------------------------------------------------
(* The theorems.                                                           *)

\* The sessions' records, handles and processes agree at every step of every
\* call of the manager, whatever the children do in between.
THEOREM ServiceInvariant == Spec => []ServiceInv
<1>1. Init => ServiceInv
  BY TypesInit, AgreeInit, CallInit DEF ServiceInv
<1>2. ServiceInv /\ [Next]_vars => ServiceInv'
  BY TypesStep, AgreeStep, CallStep DEF ServiceInv
<1>3. QED BY <1>1, <1>2, PTL DEF Spec

\* The manager, its runtimes, handles and processes keep to their types; a
\* terminal never holds less than nothing or more than fits.
THEOREM ServiceTypes == Spec => []TypeOK
<1>1. ServiceInv => TypeOK
  BY DEF ServiceInv
<1>2. QED BY <1>1, ServiceInvariant, PTL

\* Between calls a runtime has a pid exactly when its handle has one and the
\* session is live, except after SessionRuntime::terminate().
THEOREM RuntimesMirrorPtys == Spec => []RuntimeMirrorsPty
<1>1. ServiceInv => RuntimeMirrorsPty
  <2> SUFFICES ASSUME ServiceInv, NEW s \in Sessions, entry[s] = "present"
               PROVE  /\ rt[s].pid <=> rt[s].status \in Live
                      /\ rt[s].pid <=> (pty[s].pid \/ past[s].terminated)
    BY DEF RuntimeMirrorsPty
  <2>1. Agrees(s)
    BY DEF ServiceInv, SessionsAgree
  <2>2. QED BY <2>1 DEF Agrees
<1>2. QED BY <1>1, ServiceInvariant, PTL

\* handle_exit and shutdown end a session only when its process is reaped.
THEOREM SessionsOverAreReaped == Spec => []OverMeansReaped
<1>1. ServiceInv => OverMeansReaped
  BY DEF ServiceInv, SessionsAgree, Agrees, OverMeansReaped
<1>2. QED BY <1>1, ServiceInvariant, PTL

\* poll_once reads to the end before it asks for the exit, so that an exit
\* found after the end of the output loses none of it.
THEOREM EndOfOutputLosesNothing == Spec => []EofLosesNothing
<1>1. ServiceInv => EofLosesNothing
  BY DEF ServiceInv, SessionsAgree, Agrees, EofLosesNothing
<1>2. QED BY <1>1, ServiceInvariant, PTL

\* No later call changes the record or the handle of a session that is over.
LEMMA OverStep ==
  ServiceInv /\ [Next]_vars =>
    \A s \in Sessions : rt[s].status \in Over => rt'[s] = rt[s] /\ pty'[s] = NoHandle
<1> SUFFICES ASSUME ServiceInv, [Next]_vars, NEW z \in Sessions, rt[z].status \in Over
             PROVE  rt'[z] = rt[z] /\ pty'[z] = NoHandle
  OBVIOUS
<1>a. /\ rt \in [Sessions -> Runtimes] /\ pty \in [Sessions -> Handles]
      /\ entry \in [Sessions -> {"absent", "present", "removed"}]
      /\ TypeOK /\ CallKnows
  BY DEF ServiceInv, TypeOK, Runtimes
<1>b. Agrees(z) /\ pty[z] = NoHandle /\ ~pty[z].pid /\ entry[z] # "absent"
  BY DEF ServiceInv, SessionsAgree, Agrees, Untouched, NoHandle, Over
<1>c. ASSUME UNCHANGED <<rt[z], pty[z]>> PROVE rt'[z] = rt[z] /\ pty'[z] = NoHandle
  BY <1>b, <1>c
<1>1. ASSUME NEW s \in Sessions, CreateSession(s) PROVE rt'[z] = rt[z] /\ pty'[z] = NoHandle
  BY <1>1, <1>a, <1>b DEF CreateSession
<1>2. ASSUME NEW s \in Sessions, NEW to, Mark(s, to)
      PROVE  rt'[z] = rt[z] /\ pty'[z] = NoHandle
  <2>1. [rt[z] EXCEPT !.status = rt[z].status] = rt[z]
    BY <1>a DEF Runtimes
  <2>2. Transition(rt[z].status, to) = rt[z].status
    BY TransitionEffect
  <2>3. QED BY <1>2, <1>a, <1>b, <2>1, <2>2 DEF Mark
<1>3. CASE PollExit
  <2>1. CASE ExitFound(pty[call.s], child[call.s])
    BY <1>3, <1>a, <1>b, <2>1 DEF PollExit, HandleExit, ExitFound
  <2>2. CASE ~ExitFound(pty[call.s], child[call.s])
    BY <1>3, <1>c, <2>2 DEF PollExit
  <2>3. QED BY <2>1, <2>2
<1>4. CASE GraceReaps \/ KillReaps
  <2>1. call.s \in Sessions /\ call.s # z /\ TerminateReturns(call.s)
    BY <1>4, <1>a, <1>b DEF GraceReaps, KillReaps, CallKnows
  <2>2. QED BY <1>a, <1>c, <2>1, TerminateEffect
<1>5. CASE TerminateFails
  BY <1>5, <1>a, <1>b DEF TerminateFails
<1>6. CASE UNCHANGED <<rt, pty>>
  BY <1>6, <1>c
<1>7. QED
  BY <1>1, <1>2, <1>3, <1>4, <1>5, <1>6 DEF Next, vars, WriteReturns, PollRead, GraceEnds, Poll,
     RemoveSession, SendInput, PollNext, StopSession, DropHandle, TerminateRuntime,
     ChildWrites, ChildExits, TtyCloses, Child

\* A session that is over stays as it is, whatever is called or happens next.
THEOREM OverStaysOver == Spec => OverIsFinal
<1>1. ServiceInv /\ [Next]_vars =>
        [\A s \in Sessions :
           rt[s].status \in Over => rt'[s] = rt[s] /\ pty'[s] = NoHandle]_vars
  BY OverStep
<1>2. QED BY <1>1, ServiceInvariant, PTL DEF Spec, OverIsFinal
=============================================================================
