------------------------------ MODULE PosixPty ------------------------------
(***************************************************************************)
(* The handle of session/posix_pty.rs as operators on two records: what    *)
(* PosixPtyProcess keeps (is there a master_fd, is there a pid) and the    *)
(* child behind it. The module that uses them makes them actions.          *)
(*                                                                         *)
(* unread counts output that waits in the terminal; its content, the child *)
(* process's input and the window size are left out.                       *)
(***************************************************************************)
EXTENDS Integers

CONSTANT TtyCap  \* bound: chunks that fit into the terminal's buffer
ASSUME PosixAssumption == TtyCap \in Nat \ {0}

Handles  == [fd : BOOLEAN, pid : BOOLEAN]
Children == [life : {"none", "running", "zombie", "reaped"}, clean : BOOLEAN,
             tty : {"open", "closed"}, unread : 0 .. TtyCap]

NoHandle == [fd |-> FALSE, pid |-> FALSE]
NoChild  == [life |-> "none", clean |-> FALSE, tty |-> "closed", unread |-> 0]

\* start, when fork and exec succeed; otherwise it leaves no child behind.
Opened  == [fd |-> TRUE, pid |-> TRUE]
Spawned == [life |-> "running", clean |-> FALSE, tty |-> "open", unread |-> 0]

\* What read() may find: data, the end (EIO once every holder of the terminal
\* is gone and the data is read), or nothing (timeout, or select or read
\* interrupted).
\* (mutant) the end counts before the data
ReadFindsHup(h, c) ==
  IF ~h.fd THEN {"closed"}
  ELSE IF c.tty = "closed" THEN {"nothing", "closed"}
  ELSE {"nothing"} \cup (IF c.unread > 0 THEN {"data"} ELSE {})
\* (mutant) a read of nothing counts as data
ReadFindsAny(h, c) == IF ~h.fd THEN {"closed"} ELSE {"nothing", "data"}
ReadFinds(h, c) ==
  IF ~h.fd THEN {"closed"}
  ELSE {"nothing"} \cup (IF c.unread > 0 THEN {"data"}
                         ELSE IF c.tty = "closed" THEN {"closed"} ELSE {})

Taken(c) == [c EXCEPT !.unread = @ - 1]

\* poll_exit finds an exit when waitpid(WNOHANG) reaps the child; it closes
\* the master then.
ExitFound(h, c) == h.pid /\ c.life = "zombie"
Reaped(c) == [c EXCEPT !.life = "reaped"]

\* SIGKILL.
Killed(c) == IF c.life = "running" THEN [c EXCEPT !.life = "zombie"] ELSE c

\* What the child may have become when it exits; its terminal may stay open
\* in a descendant.
Exits(c) ==
  {e \in Children : /\ e.life = "zombie" /\ e.unread = c.unread
                    /\ e.tty \in {c.tty, "closed"}}
=============================================================================
