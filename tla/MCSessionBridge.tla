-------------------------- MODULE MCSessionBridge --------------------------
(* Small instances of SessionBridge: a session shared by up to two           *)
(* connections and one HTTP request at a time.                               *)
EXTENDS SessionBridge, TLC

MCSizes == {"80x24"}
TwoSizes == {"80x24", "120x40"}
MCDefaultSize == "80x24"
MCExitCodes == {0, 3}
ConnSymmetry == Permutations(Conns)
=============================================================================
