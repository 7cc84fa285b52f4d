------------------------------ MODULE MCConPty ------------------------------
(* ConPty on its own, driven by a caller that uses the handle's methods in   *)
(* any order, against a small child process.                                 *)
EXTENDS ConPty

MCSizes == {80, 120}
MCDefaultSize == 80
MCExitCodes == {0, 3}
=============================================================================
