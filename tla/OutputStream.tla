---------------------------- MODULE OutputStream ----------------------------
(***************************************************************************)
(* What the bridge promises about the output of one session, without its   *)
(* handle, locks, pumps or frames: the child's output is a queue that      *)
(* several clients work off, each piece going to whoever takes it first.   *)
(* Output is lost only when the session ends, or between a client that     *)
(* left and the server that does not know it yet.                          *)
(***************************************************************************)
EXTENDS Integers

CONSTANT Clients

VARIABLES
  written,  \* chunks produced so far
  taken,    \* chunks that left the queue
  hand,     \* chunks on their way to a client
  client,   \* chunks a client has
  gone,     \* clients that left
  over      \* the session has ended

streamVars == <<written, taken, hand, client, gone, over>>

Init ==
  /\ written = 0 /\ taken = 0
  /\ hand = [c \in Clients |-> {}]
  /\ client = [c \in Clients |-> {}]
  /\ gone = {}
  /\ over = FALSE

Produce ==
  /\ written' = written + 1
  /\ UNCHANGED <<taken, hand, client, gone, over>>

\* A client with empty hands takes the next run of chunks.
Take(c) ==
  /\ ~over /\ hand[c] = {}
  /\ taken' \in (taken + 1) .. written
  /\ hand' = [hand EXCEPT ![c] = (taken + 1) .. taken']
  /\ UNCHANGED <<written, client, gone, over>>

Deliver(c) ==
  /\ c \notin gone /\ hand[c] # {}
  /\ client' = [client EXCEPT ![c] = @ \cup hand[c]]
  /\ hand' = [hand EXCEPT ![c] = {}]
  /\ UNCHANGED <<written, taken, gone, over>>

Lose(c) ==
  /\ c \in gone
  /\ hand' = [hand EXCEPT ![c] = {}]
  /\ UNCHANGED <<written, taken, client, gone, over>>

Leave(c) ==
  /\ gone' = gone \cup {c}
  /\ UNCHANGED <<written, taken, hand, client, over>>

\* The session ends, once; a last stretch of output may be dropped with it.
End ==
  /\ ~over /\ over' = TRUE
  /\ taken' \in taken .. written
  /\ UNCHANGED <<written, hand, client, gone>>

Next ==
  \/ Produce \/ End
  \/ \E c \in Clients : Take(c) \/ Deliver(c) \/ Lose(c) \/ Leave(c)

Spec == Init /\ [][Next]_streamVars
=============================================================================
