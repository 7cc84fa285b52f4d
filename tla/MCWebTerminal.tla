--------------------------- MODULE MCWebTerminal ---------------------------
(* A page that may start two sessions and have two sockets alive.            *)
EXTENDS WebTerminal
=============================================================================
