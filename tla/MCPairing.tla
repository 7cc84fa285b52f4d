----------------------------- MODULE MCPairing -----------------------------
(* Two requests, which may get the same code, two tokens, and a request that *)
(* expires while the clock still runs.                                       *)
EXTENDS Pairing, TLC

Symmetry == Permutations(Ids) \cup Permutations(Devices) \cup Permutations(Codes)
=============================================================================
