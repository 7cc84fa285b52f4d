------------------------------- MODULE ConPty -------------------------------
(***************************************************************************)
(* The pseudo-console of one session: the handle object of                 *)
(* src/session/conpty.rs, its background reader thread with the mpsc       *)
(* channel, and the child process behind them.                             *)
(*                                                                         *)
(* A chunk of output is the number of its position in the child's output.  *)
(* The reader channel therefore needs no sequence: it holds the chunks     *)
(* pty.taken+1 .. chan.sent, followed by the Eof message iff chan.eof.     *)
(*                                                                         *)
(* The handle's methods are operators from handle record to handle record, *)
(* so that SessionBridge can compose several of them in one critical       *)
(* section; PtyNext drives them in any order, as the trait allows.         *)
(***************************************************************************)
EXTENDS Integers, FiniteSets

CONSTANTS
  MaxChunks,      \* bound: how many chunks the child writes
  StdinCap,       \* inputs the child's stdin holds before write_all blocks
  ExitCodes,      \* exit codes a child may return by itself
  Sizes,          \* terminal sizes
  DefaultSize,    \* TerminalSize::default()
  ReaderMayFail   \* may reader.read() return Err while the child lives?

ASSUME PtyAssumption ==
  /\ MaxChunks \in Nat
  /\ StdinCap \in Nat \ {0}
  /\ ExitCodes \subseteq Nat /\ 0 \in ExitCodes
  /\ DefaultSize \in Sizes
  /\ ReaderMayFail \in BOOLEAN

NoCode == -2      \* exit_code: None
Killed == -1      \* exit_code: Some(-1)

VARIABLES
  pty,    \* the ConPtyProcess: pair/writer/reader_rx/child present, exited, ...
  child,  \* the child process: its life, exit code, output and stdin
  chan    \* the reader thread: chunks sent into the channel, Eof sent, read() failed

ptyVars == <<pty, child, chan>>

Handles == [started : BOOLEAN, open : BOOLEAN, exited : BOOLEAN,
            code : ExitCodes \cup {NoCode, Killed}, taken : Nat, size : Sizes]

PtyTypeOK ==
  /\ pty \in Handles
  /\ child \in [life : {"none", "running", "dead"},
                code : ExitCodes \cup {NoCode}, out : Nat, stdin : 0 .. StdinCap]
  /\ chan \in [sent : Nat, eof : BOOLEAN, cut : BOOLEAN]

PtyInit ==
  /\ pty = [started |-> FALSE, open |-> FALSE, exited |-> FALSE,
            code |-> NoCode, taken |-> 0, size |-> DefaultSize]
  /\ child = [life |-> "none", code |-> NoCode, out |-> 0, stdin |-> 0]
  /\ chan = [sent |-> 0, eof |-> FALSE, cut |-> FALSE]

-----------------------------------------------------------------------------
(* The handle's methods.                                                   *)

\* What read() finds in the channel, and whether it reports the pipe closed.
Readable(p) == p.open /\ ~p.exited
\* (mutant) forgets the first of several messages it drained
ReadDataSkips(p) == IF Readable(p) THEN (p.taken + 2) .. chan.sent ELSE {}
ReadData(p) == IF Readable(p) THEN (p.taken + 1) .. chan.sent ELSE {}
ReadClosed(p) == Readable(p) => chan.eof

\* (mutants) reports data without consuming it; throws away what came together
\* with the Eof; takes the empty channel it ends at for a disconnected one
AfterReadPeeks(p) ==
  IF ~Readable(p) THEN p
  ELSE [p EXCEPT !.exited = chan.eof, !.code = IF chan.eof THEN 0 ELSE @]
AfterReadEofFirst(p) ==
  IF ~Readable(p) THEN p
  ELSE [p EXCEPT !.taken = IF chan.eof THEN @ ELSE chan.sent, !.exited = chan.eof,
                 !.code = IF chan.eof THEN 0 ELSE @]
AfterReadEmptyIsEof(p) ==
  IF ~Readable(p) THEN p ELSE [p EXCEPT !.taken = chan.sent, !.exited = TRUE, !.code = 0]

\* read(): drains the channel; an Eof among the messages marks the process
\* as exited with code 0, whatever the child returned.
AfterRead(p) ==
  IF ~Readable(p) THEN p
  ELSE [p EXCEPT !.taken  = chan.sent,
                 !.exited = chan.eof,
                 !.code   = IF chan.eof THEN 0 ELSE @]

\* poll_exit(): asks the child handle (try_wait), unless already exited.
AfterPollExit(p) ==
  IF p.exited \/ ~p.open \/ child.life # "dead" THEN p
  ELSE [p EXCEPT !.exited = TRUE, !.code = child.code]

\* terminate(): drops writer, receiver, pair and child handle.
AfterTerminate(p) ==
  IF p.exited THEN p
  ELSE [p EXCEPT !.open = FALSE, !.exited = TRUE, !.code = Killed]

\* resize(): needs the pair; the console may refuse.
AfterResize(p, s) == [p EXCEPT !.size = s]

-----------------------------------------------------------------------------
(* start() leaves a running child with every handle present. The reader    *)
(* thread starts with it, and the cursor report start() writes for the     *)
(* console stays in the child's stdin or is taken by the console. A start  *)
(* that fails keeps nothing in the handle, so it is no step, also when the *)
(* console gives no writer or reader to a child spawned already: that      *)
(* child runs on and belongs to no handle.                                 *)
CanStart == ~pty.open /\ ~pty.started

Start ==
  /\ CanStart
  /\ pty' = [pty EXCEPT !.started = TRUE, !.open = TRUE]
  /\ \E report \in {0, 1} :
       child' = [child EXCEPT !.life = "running", !.stdin = report]
  /\ UNCHANGED chan

(* write(): write_all blocks while the child's stdin is full, so the step  *)
(* is the moment it returns. Towards a dead child the bytes may be kept by *)
(* the console or refused.                                                 *)
StdinRoom == child.stdin < StdinCap
PutStdin == child' = [child EXCEPT !.stdin = @ + 1]
\* (mutant) a write that does not wait for room
WriteReturnsEarly == (pty.open /\ PutStdin) \/ (~pty.open /\ UNCHANGED child)
WriteReturns ==
  \/ pty.open /\ StdinRoom /\ PutStdin
  \/ (~pty.open \/ child.life = "dead") /\ UNCHANGED child

Write     == WriteReturns /\ UNCHANGED <<pty, chan>>
Read      == pty' = AfterRead(pty) /\ UNCHANGED <<child, chan>>
PollExit  == pty' = AfterPollExit(pty) /\ UNCHANGED <<child, chan>>
Terminate == pty' = AfterTerminate(pty) /\ UNCHANGED <<child, chan>>
Resize    == \E s \in Sizes : /\ pty.open
                              /\ pty' = AfterResize(pty, s)
                              /\ UNCHANGED <<child, chan>>

-----------------------------------------------------------------------------
(* The child process.                                                      *)
ChildWrites ==
  /\ child.life = "running" /\ child.out < MaxChunks
  /\ child' = [child EXCEPT !.out = @ + 1]
  /\ UNCHANGED <<pty, chan>>

ChildReads ==
  /\ child.life = "running" /\ child.stdin > 0
  /\ child' = [child EXCEPT !.stdin = @ - 1]
  /\ UNCHANGED <<pty, chan>>

ChildExits ==
  /\ child.life = "running"
  /\ \E k \in ExitCodes : child' = [child EXCEPT !.life = "dead", !.code = k]
  /\ UNCHANGED <<pty, chan>>

(* The reader thread: forwards what the pipe holds, then Eof once the      *)
(* child is gone and the pipe is empty, or at once when read() errs. It    *)
(* stops at Eof, and when the receiver has been dropped.                   *)
ReaderData ==
  /\ pty.open /\ ~chan.eof /\ chan.sent < child.out
  /\ chan' = [chan EXCEPT !.sent = @ + 1]
  /\ UNCHANGED <<pty, child>>

ReaderEof ==
  /\ pty.open /\ ~chan.eof
  /\ child.life = "dead" /\ chan.sent = child.out
  /\ chan' = [chan EXCEPT !.eof = TRUE]
  /\ UNCHANGED <<pty, child>>

ReaderError ==
  /\ ReaderMayFail /\ pty.open /\ ~chan.eof
  /\ chan' = [chan EXCEPT !.eof = TRUE, !.cut = TRUE]
  /\ UNCHANGED <<pty, child>>

Process ==
  \/ ChildWrites \/ ChildReads \/ ChildExits
  \/ ReaderData \/ ReaderEof \/ ReaderError

PtyNext ==
  \/ Start \/ Write \/ Read \/ PollExit \/ Terminate \/ Resize
  \/ Process

PtySpec == PtyInit /\ [][PtyNext]_ptyVars

-----------------------------------------------------------------------------
(* Properties.                                                             *)

\* Once the handle has reported an exit, its exit code and the amount of
\* output it handed out are final: a late terminate(), read() or poll_exit()
\* changes nothing (the exited checks at the top of the methods).
ExitIsFinal ==
  [][pty.exited => /\ pty'.exited
                   /\ pty'.code = pty.code
                   /\ pty'.taken = pty.taken]_ptyVars

\* A process is reported as exited only if it has ended, was terminated
\* through the handle, or the reader thread told so.
ExitHasCause ==
  pty.exited => child.life = "dead" \/ pty.code = Killed \/ chan.eof

\* An exit found through the channel loses nothing: when the handle was not
\* terminated and its exit code did not come from the child, every chunk the
\* child wrote has been handed to the caller. It does not hold after a read
\* error, which the reader thread reports as an Eof as well.
EofComesLast ==
  (~chan.cut /\ pty.exited /\ pty.code \notin {Killed, child.code})
    => pty.taken = child.out

\* The handle never hands out output the reader has not sent, and the reader
\* never sends what the child has not written.
ChunksInOrder == pty.taken <= chan.sent /\ chan.sent <= child.out

\* conpty.rs:8: "Exit detection uses the child process handle (try_wait), NOT
\* the reader channel": the exit code of a process that ended by itself is
\* the child's.
ExitCodeIsChilds ==
  pty.exited /\ pty.code # Killed => pty.code = child.code
=============================================================================
