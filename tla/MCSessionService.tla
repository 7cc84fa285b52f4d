-------------------------- MODULE MCSessionService --------------------------
(* Two sessions of one manager; one chunk fits into a terminal.              *)
EXTENDS SessionService
=============================================================================
