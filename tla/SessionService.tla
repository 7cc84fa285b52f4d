--------------------------- MODULE SessionService ---------------------------
(***************************************************************************)
(* SessionManager over SessionRuntime over PosixPtyProcess, with their     *)
(* child processes. The manager serves one call at a time and a call blocks *)
(* until it returns, but the children run on between the system calls it   *)
(* makes: polling reads until nothing is there and then asks for the exit, *)
(* and terminate() signals, waits, kills and reaps.                        *)
(*                                                                         *)
(* Calls that only answer an error and creations that fail leave nothing   *)
(* behind and are left out; so are sizes, viewports and what the records   *)
(* say besides the status.                                                 *)
(***************************************************************************)
EXTENDS PosixPty, FiniteSets

CONSTANT Sessions  \* session ids (random, never made twice); bounds creations
ASSUME SessionsAssumption == "none" \notin Sessions

VARIABLES
  entry,   \* is the session in the manager's map?
  rt,      \* SessionRuntime: the record's status and pid
  pty,     \* PosixPtyProcess
  child,   \* the processes
  call,    \* the call in progress
  stored,  \* sessions.json: sessions whose record was written
  past     \* how a session ended, and whether terminate() was called (history)

vars == <<entry, rt, pty, child, call, stored, past>>

Live == {"Running", "AwaitingInput"}
Over == {"Exited", "Error"}
Idle == [op |-> "idle", s |-> "none", stage |-> "none", todo |-> {}]

TypeOK ==
  /\ entry \in [Sessions -> {"absent", "present", "removed"}]
  /\ rt \in [Sessions -> [status : {"Created"} \cup Live \cup Over, pid : BOOLEAN]]
  /\ pty \in [Sessions -> Handles]
  /\ child \in [Sessions -> Children]
  /\ call \in [op : {"idle", "input", "poll", "stop", "mark", "terminate", "drop"},
               s : Sessions \cup {"none"},
               stage : {"none", "write", "read", "closed", "exit", "grace", "reap"},
               todo : SUBSET Sessions]
  /\ stored \subseteq Sessions
  /\ past \in [Sessions -> [end : {"none", "eof", "quiet", "stop"}, lost : BOOLEAN,
                            terminated : BOOLEAN]]

Init ==
  /\ entry = [s \in Sessions |-> "absent"]
  /\ rt = [s \in Sessions |-> [status |-> "Created", pid |-> FALSE]]
  /\ pty = [s \in Sessions |-> NoHandle]
  /\ child = [s \in Sessions |-> NoChild]
  /\ call = Idle /\ stored = {}
  /\ past = [s \in Sessions |-> [end |-> "none", lost |-> FALSE, terminated |-> FALSE]]

Present(s) == call = Idle /\ entry[s] = "present"

\* is_valid_transition. (mutant first: a session that is over may be run on)
ValidTransitionsLax ==
  {<<"Created", "Starting">>, <<"Starting", "Running">>, <<"Starting", "Error">>}
    \cup {t \in (Live \cup Over) \X (Live \cup Over) : t[1] # t[2]}
ValidTransitions ==
  {<<"Created", "Starting">>, <<"Starting", "Running">>, <<"Starting", "Error">>}
    \cup {t \in Live \X (Live \cup Over) : t[1] # t[2]}
\* The status after try_transition.
Transition(from, to) == IF <<from, to>> \in ValidTransitions THEN to ELSE from

\* The runtime after start() and after a shutdown() that terminated the child.
Started(r) ==
  [status |-> Transition(Transition(r.status, "Starting"), "Running"), pid |-> TRUE]
ShutDown(r) == [status |-> Transition(r.status, "Exited"), pid |-> FALSE]

-----------------------------------------------------------------------------
(* Creation and removal.                                                   *)

\* create_session: the process starts, the record passes Starting, and the
\* write of it, which may fail in the ways of write_file_atomically, is not
\* waited for.
CreateSession(s) ==
  /\ call = Idle /\ entry[s] = "absent"
  /\ entry' = [entry EXCEPT ![s] = "present"]
  /\ pty' = [pty EXCEPT ![s] = Opened]
  /\ child' = [child EXCEPT ![s] = Spawned]
  /\ rt' = [rt EXCEPT ![s] = Started(@)]
  /\ stored' \in {stored \cup {s}, {s}, stored, {}}
  /\ UNCHANGED <<call, past>>

\* remove_session forgets the runtime. The process is its owner's.
RemoveSession(s) ==
  /\ Present(s)
  /\ entry' = [entry EXCEPT ![s] = "removed"]
  /\ UNCHANGED <<rt, pty, child, call, stored, past>>

-----------------------------------------------------------------------------
(* Input and marks.                                                        *)

\* send_input blocks in write() for as long as the child does not read.
SendInput(s) ==
  /\ Present(s) /\ rt[s].status \in Live /\ pty[s].fd
  /\ call' = [Idle EXCEPT !.op = "input", !.s = s, !.stage = "write"]
  /\ UNCHANGED <<entry, rt, pty, child, stored, past>>
WriteReturns ==
  /\ call.stage = "write"
  /\ call' = Idle
  /\ UNCHANGED <<entry, rt, pty, child, stored, past>>

\* mark_awaiting_input, mark_running.
Mark(s, status) ==
  /\ Present(s)
  /\ rt' = [rt EXCEPT ![s].status = Transition(@, status)]
  /\ UNCHANGED <<entry, pty, child, call, stored, past>>

-----------------------------------------------------------------------------
(* poll_session, poll_all and poll_once.                                   *)

Poll(ss) ==
  /\ call = Idle /\ ss # {} /\ \A s \in ss : entry[s] = "present"
  /\ call' = [Idle EXCEPT !.op = "poll", !.todo = ss]
  /\ UNCHANGED <<entry, rt, pty, child, stored, past>>

Polled == IF call.todo = {} THEN Idle ELSE [call EXCEPT !.s = "none", !.stage = "none"]

\* Without a pid poll_once returns at once.
PollNext(s) ==
  /\ call.op = "poll" /\ call.stage = "none" /\ s \in call.todo
  /\ call' = IF rt[s].pid THEN [call EXCEPT !.s = s, !.stage = "read", !.todo = @ \ {s}]
             ELSE IF call.todo = {s} THEN Idle
             ELSE [call EXCEPT !.todo = @ \ {s}]
  /\ UNCHANGED <<entry, rt, pty, child, stored, past>>

\* (mutant) the end of the output does not end the loop
PollReadOn ==
  /\ call.stage = "read"
  /\ \E found \in ReadFinds(pty[call.s], child[call.s]) :
       \/ /\ found = "data" /\ child' = [child EXCEPT ![call.s] = Taken(@)] /\ UNCHANGED call
       \/ /\ found = "closed" /\ UNCHANGED <<call, child>>
       \/ /\ found = "nothing" /\ call' = [call EXCEPT !.stage = "exit"] /\ UNCHANGED child
  /\ UNCHANGED <<entry, rt, pty, stored, past>>
\* poll_once reads on after data.
PollRead ==
  /\ call.stage = "read"
  /\ \E found \in ReadFinds(pty[call.s], child[call.s]) :
       \/ /\ found = "data"
          /\ child' = [child EXCEPT ![call.s] = Taken(@)]
          /\ UNCHANGED call
       \/ /\ found = "closed"
          /\ call' = [call EXCEPT !.stage = "closed"] /\ UNCHANGED child
       \/ /\ found = "nothing"
          /\ call' = [call EXCEPT !.stage = "exit"] /\ UNCHANGED child
  /\ UNCHANGED <<entry, rt, pty, stored, past>>

\* The master is closed: what is unread is lost.
Ended(s, end) == [past EXCEPT ![s].end = end, ![s].lost = child[s].unread > 0]

\* handle_exit; a transition that is refused leaves the pid. (mutant first: the
\* status is set and the pid stays)
ExitStatus(s) == IF child[s].clean THEN "Exited" ELSE "Error"
HandleExitKeepsPid(s) == [rt EXCEPT ![s].status = Transition(@, ExitStatus(s))]
HandleExit(s) ==
  IF <<rt[s].status, ExitStatus(s)>> \in ValidTransitions
  THEN [rt EXCEPT ![s] = [status |-> ExitStatus(s), pid |-> FALSE]] ELSE rt

PollExit ==
  /\ call.stage \in {"closed", "exit"}
  /\ IF ExitFound(pty[call.s], child[call.s])
       THEN /\ child' = [child EXCEPT ![call.s] = Reaped(@)]
            /\ pty' = [pty EXCEPT ![call.s] = NoHandle]
            /\ rt' = HandleExit(call.s)
            /\ past' = Ended(call.s, IF call.stage = "closed" THEN "eof" ELSE "quiet")
       ELSE UNCHANGED <<rt, pty, child, past>>
  /\ call' = Polled
  /\ UNCHANGED <<entry, stored>>

-----------------------------------------------------------------------------
(* terminate() of the handle and its callers.                              *)

\* SIGTERM; terminate is false without a pid or when the signal is refused.
Terminating(op, s) == [Idle EXCEPT !.op = op, !.s = s, !.stage = "grace"]

\* shutdown (stop_session) on a session that is not over.
StopSession(s) ==
  /\ Present(s) /\ rt[s].status \in Live /\ rt[s].pid /\ pty[s].pid
  /\ call' = Terminating("stop", s)
  /\ UNCHANGED <<entry, rt, pty, child, stored, past>>

\* terminate_and_mark_exited, terminate: methods of the runtime.
TerminateRuntime(s, op) ==
  /\ Present(s) /\ rt[s].pid /\ pty[s].pid
  /\ call' = Terminating(op, s)
  /\ UNCHANGED <<entry, rt, pty, child, stored, past>>

\* The owner drops the handle of a session that was removed.
DropHandle(s) ==
  /\ call = Idle /\ entry[s] = "removed" /\ pty[s].pid
  /\ call' = Terminating("drop", s)
  /\ UNCHANGED <<entry, rt, pty, child, stored, past>>

\* What the caller makes of it once the child is reaped.
TerminateReturns(s) ==
  /\ child' = [child EXCEPT ![s] = Reaped(@)]
  /\ pty' = [pty EXCEPT ![s] = NoHandle]
  /\ rt' = IF call.op \in {"stop", "mark"} THEN [rt EXCEPT ![s] = ShutDown(@)] ELSE rt
  /\ past' = [Ended(s, "stop") EXCEPT ![s].terminated = @ \/ call.op = "terminate"]
  /\ call' = Idle
  /\ UNCHANGED <<entry, stored>>

\* wait_for_exit finds the exit within the grace period ...
GraceReaps ==
  /\ call.stage = "grace" /\ child[call.s].life = "zombie"
  /\ TerminateReturns(call.s)
\* ... or the period ends and the child is killed. (mutant first: terminate
\* does not wait for the child any more)
GraceEndsEarly ==
  /\ call.stage = "grace"
  /\ rt' = IF call.op \in {"stop", "mark"} THEN [rt EXCEPT ![call.s] = ShutDown(@)] ELSE rt
  /\ pty' = [pty EXCEPT ![call.s] = NoHandle]
  /\ past' = Ended(call.s, "stop")
  /\ call' = Idle
  /\ UNCHANGED <<entry, child, stored>>
\* (mutant) without SIGKILL the last waitpid waits for the child's own exit
GraceEndsMild ==
  /\ call.stage = "grace"
  /\ call' = [call EXCEPT !.stage = "reap"]
  /\ UNCHANGED <<entry, rt, pty, child, stored, past>>
GraceEnds ==
  /\ call.stage = "grace"
  /\ child' = [child EXCEPT ![call.s] = Killed(@)]
  /\ call' = [call EXCEPT !.stage = "reap"]
  /\ UNCHANGED <<entry, rt, pty, stored, past>>
KillReaps ==
  /\ call.stage = "reap" /\ child[call.s].life = "zombie"
  /\ TerminateReturns(call.s)

\* A signal is refused or the last waitpid interrupted: terminate is false and
\* changes nothing; a handle that is dropped closes its master all the same.
TerminateFails ==
  /\ call.stage \in {"grace", "reap"}
  /\ call' = Idle
  /\ pty' = IF call.op = "drop" THEN [pty EXCEPT ![call.s] = NoHandle] ELSE pty
  /\ UNCHANGED <<entry, rt, child, stored, past>>

-----------------------------------------------------------------------------
(* The processes.                                                          *)

Child(s, next) ==
  /\ child' = [child EXCEPT ![s] = next]
  /\ UNCHANGED <<entry, rt, pty, call, stored, past>>

\* The child or a descendant; it waits when the terminal's buffer is full.
ChildWrites(s) ==
  /\ pty[s].fd /\ child[s].tty = "open" /\ child[s].unread < TtyCap
  /\ Child(s, [child[s] EXCEPT !.unread = @ + 1])
ChildExits(s) ==
  child[s].life = "running" /\ \E next \in Exits(child[s]) : Child(s, next)
TtyCloses(s) ==
  child[s].tty = "open" /\ Child(s, [child[s] EXCEPT !.tty = "closed"])

Next ==
  \/ WriteReturns \/ PollRead \/ PollExit \/ GraceReaps \/ GraceEnds
  \/ KillReaps \/ TerminateFails
  \/ Poll({s \in Sessions : entry[s] = "present"})
  \/ \E s \in Sessions :
       \/ CreateSession(s) \/ RemoveSession(s) \/ SendInput(s)
       \/ Poll({s}) \/ PollNext(s)
       \/ Mark(s, "AwaitingInput") \/ Mark(s, "Running")
       \/ StopSession(s) \/ DropHandle(s)
       \/ TerminateRuntime(s, "mark") \/ TerminateRuntime(s, "terminate")
       \/ ChildWrites(s) \/ ChildExits(s) \/ TtyCloses(s)

Spec == Init /\ [][Next]_vars

(* Fairness: a call that was made goes on, whatever the children do, except *)
(* that write() returns only when the child reads.                          *)
FairSpec ==
  /\ Spec
  /\ WF_vars(PollRead \/ PollExit \/ \E s \in Sessions : PollNext(s))
  /\ WF_vars(GraceReaps \/ GraceEnds) /\ WF_vars(KillReaps)

-----------------------------------------------------------------------------
(* Properties.                                                             *)

\* Between calls the runtime has a pid exactly when its handle has one and the
\* session is live; only SessionRuntime::terminate() breaks that, and leaves a
\* session that is Running for ever.
RuntimeMirrorsPty ==
  \A s \in Sessions :
    call.s # s /\ entry[s] = "present" =>
      /\ rt[s].pid <=> rt[s].status \in Live
      /\ rt[s].pid <=> (pty[s].pid \/ past[s].terminated)

\* A session that is over has no process left: none that runs, and no zombie.
OverMeansReaped ==
  \A s \in Sessions : rt[s].status \in Over => child[s].life = "reaped"

\* An exit that poll_once finds at the end of the output loses none of it.
EofLosesNothing == \A s \in Sessions : past[s].end = "eof" => ~past[s].lost

\* Once a session is over its status and its handle stay as they are, whatever
\* is called next.
OverIsFinal ==
  [][\A s \in Sessions :
       rt[s].status \in Over => rt'[s] = rt[s] /\ pty'[s] = NoHandle]_vars

\* A stop returns, though the child ignores SIGTERM and writes for ever.
StopReturns == (call.op = "stop") ~> (call.op # "stop")

\* A poll returns if no child writes for ever: poll_once reads on as long as
\* there is output, and poll_all serves no other session meanwhile.
ChildrenPause == \A s \in Sessions : <>[][~ChildWrites(s)]_vars
PollReturns == ChildrenPause => ((call.op = "poll") ~> (call.op # "poll"))
=============================================================================
