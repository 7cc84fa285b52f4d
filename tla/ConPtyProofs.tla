---------------------------- MODULE ConPtyProofs ----------------------------
(***************************************************************************)
(* Proofs about the pseudo-console handle, for every child, every bound    *)
(* and any order of calls: an exit is final, has a cause, and found at the *)
(* end of the pipe it loses no output.                                     *)
(***************************************************************************)
EXTENDS ConPty, TLAPS

\* Where the handle and the child can be together; the part about Eof holds
\* as long as the reader thread met no error.
PtyLifecycle ==
  /\ pty.open => pty.started
  /\ child.life = "none" <=> ~pty.started
  /\ child.life = "dead" <=> child.code # NoCode
  /\ pty.exited => pty.code # NoCode

EofAtEnd ==
  ~chan.cut =>
    /\ chan.eof => child.life = "dead" /\ chan.sent = child.out
    /\ pty.exited /\ pty.code # Killed => child.life = "dead"
    /\ EofComesLast

PtyInv == PtyTypeOK /\ ChunksInOrder /\ PtyLifecycle /\ ExitHasCause /\ EofAtEnd

USE DEF NoCode, Killed

\* The invariant holds at the start.
LEMMA PtyInitInv == PtyInit => PtyInv
  BY PtyAssumption
     DEF PtyInit, PtyInv, PtyTypeOK, Handles, ChunksInOrder, PtyLifecycle, ExitHasCause,
         EofAtEnd, EofComesLast

\* One step of the handle, the child or the reader thread keeps the invariant.
LEMMA PtyStepInv == PtyInv /\ [PtyNext]_ptyVars => PtyInv'
<1> SUFFICES ASSUME PtyInv, [PtyNext]_ptyVars PROVE PtyInv'
  OBVIOUS
<1> USE PtyAssumption
    DEF PtyInv, PtyTypeOK, Handles, ChunksInOrder, PtyLifecycle, ExitHasCause, EofAtEnd,
        EofComesLast
<1>1. CASE Start
  <2>1. PICK n \in {0, 1} : child' = [child EXCEPT !.life = "running", !.stdin = n]
    BY <1>1 DEF Start
  <2>2. /\ ~pty.started /\ UNCHANGED chan
        /\ pty' = [pty EXCEPT !.started = TRUE, !.open = TRUE]
    BY <1>1 DEF Start, CanStart
  <2>3. n \in 0 .. StdinCap
    OBVIOUS
  <2>4. PtyTypeOK'     BY <2>1, <2>2, <2>3
  <2>5. ChunksInOrder' BY <2>1, <2>2
  <2>6. PtyLifecycle'  BY <2>1, <2>2
  <2>7. ExitHasCause'  BY <2>1, <2>2
  <2>8. EofAtEnd'      BY <2>1, <2>2
  <2>9. QED BY <2>4, <2>5, <2>6, <2>7, <2>8
<1>2. CASE Write
  BY <1>2 DEF Write, WriteReturns, StdinRoom, PutStdin
<1>3. CASE Read
  <2>1. CASE ~Readable(pty)
    BY <1>3, <2>1 DEF Read, AfterRead
  <2>2. CASE Readable(pty)
    <3>1. /\ pty' = [pty EXCEPT !.taken = chan.sent, !.exited = chan.eof,
                               !.code = IF chan.eof THEN 0 ELSE @]
          /\ UNCHANGED <<child, chan>>
      BY <1>3, <2>2 DEF Read, AfterRead
    <3>2. PtyTypeOK'     BY <3>1
    <3>3. ChunksInOrder' BY <3>1
    <3>4. PtyLifecycle'  BY <3>1, <2>2 DEF Readable
    <3>5. ExitHasCause'  BY <3>1, <2>2 DEF Readable
    <3>6. EofAtEnd'      BY <3>1, <2>2 DEF Readable
    <3>7. QED BY <3>2, <3>3, <3>4, <3>5, <3>6
  <2>3. QED BY <2>1, <2>2
<1>4. CASE PollExit
  <2>1. CASE pty.exited \/ ~pty.open \/ child.life # "dead"
    BY <1>4, <2>1 DEF PollExit, AfterPollExit
  <2>2. CASE ~(pty.exited \/ ~pty.open \/ child.life # "dead")
    <3>1. /\ pty' = [pty EXCEPT !.exited = TRUE, !.code = child.code]
          /\ UNCHANGED <<child, chan>>
      BY <1>4, <2>2 DEF PollExit, AfterPollExit
    <3>2. QED BY <2>2, <3>1
  <2>3. QED BY <2>1, <2>2
<1>5. CASE Terminate
  <2>1. CASE pty.exited
    BY <1>5, <2>1 DEF Terminate, AfterTerminate
  <2>2. CASE ~pty.exited
    <3>1. /\ pty' = [pty EXCEPT !.open = FALSE, !.exited = TRUE, !.code = Killed]
          /\ UNCHANGED <<child, chan>>
      BY <1>5, <2>2 DEF Terminate, AfterTerminate
    <3>2. PtyTypeOK'     BY <3>1
    <3>3. ChunksInOrder' BY <3>1
    <3>4. PtyLifecycle'  BY <3>1
    <3>5. ExitHasCause'  BY <3>1
    <3>6. EofAtEnd'      BY <3>1
    <3>7. QED BY <3>2, <3>3, <3>4, <3>5, <3>6
  <2>3. QED BY <2>1, <2>2
<1>6. CASE Resize
  BY <1>6 DEF Resize, AfterResize
<1>7. CASE Process
  <2>1. CASE ChildWrites BY <2>1 DEF ChildWrites
  <2>2. CASE ChildReads  BY <2>2 DEF ChildReads
  <2>3. CASE ChildExits
    <3>1. PICK k \in ExitCodes :
            child' = [child EXCEPT !.life = "dead", !.code = k]
      BY <2>3 DEF ChildExits
    <3>2. child.life = "running" /\ UNCHANGED <<pty, chan>>
      BY <2>3 DEF ChildExits
    <3>3. PtyTypeOK'     BY <3>1, <3>2
    <3>4. ChunksInOrder' BY <3>1, <3>2
    <3>5. PtyLifecycle'  BY <3>1, <3>2
    <3>6. ExitHasCause'  BY <3>1, <3>2
    <3>7. EofAtEnd'      BY <3>1, <3>2
    <3>8. QED BY <3>3, <3>4, <3>5, <3>6, <3>7
  <2>4. CASE ReaderData  BY <2>4 DEF ReaderData
  <2>5. CASE ReaderEof   BY <2>5 DEF ReaderEof
  <2>6. CASE ReaderError BY <2>6 DEF ReaderError
  <2>7. QED BY <1>7, <2>1, <2>2, <2>3, <2>4, <2>5, <2>6 DEF Process
<1>8. CASE UNCHANGED ptyVars
  BY <1>8 DEF ptyVars
<1>9. QED
  BY <1>1, <1>2, <1>3, <1>4, <1>5, <1>6, <1>7, <1>8 DEF PtyNext

\* The invariant holds throughout.
THEOREM PtyInvariant == PtySpec => []PtyInv
  BY PtyInitInv, PtyStepInv, PTL DEF PtySpec

\* A reported exit has a cause: the child ended, someone terminated the
\* session, or the reader thread reported the end of the output.
THEOREM PtyExitHasCause == PtySpec => []ExitHasCause
  BY PtyInvariant, PTL DEF PtyInv

\* Finding the exit at the end of the pipe loses no output.
THEOREM PtyEofComesLast == PtySpec => []EofComesLast
<1>1. PtyInv => EofComesLast
  BY DEF PtyInv, EofAtEnd, EofComesLast
<1>2. QED BY <1>1, PtyInvariant, PTL

\* An exit, once reported, is final: exit code and consumed output are frozen.
THEOREM PtyExitIsFinal == PtySpec => ExitIsFinal
<1>1. PtyInv /\ [PtyNext]_ptyVars =>
        [pty.exited => /\ pty'.exited
                       /\ pty'.code = pty.code
                       /\ pty'.taken = pty.taken]_ptyVars
  BY DEF PtyInv, PtyTypeOK, Handles, PtyNext, ptyVars, Start, Write, Read, AfterRead,
         Readable, PollExit, AfterPollExit, Terminate, AfterTerminate, Resize,
         AfterResize, Process, ChildWrites, ChildReads, ChildExits, ReaderData,
         ReaderEof, ReaderError
<1>2. QED BY <1>1, PtyInvariant, PTL DEF PtySpec, ExitIsFinal
=============================================================================
