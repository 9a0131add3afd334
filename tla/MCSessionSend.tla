--------------------------- MODULE MCSessionSend ---------------------------
(* Instances of SessionSend for TLC.                                       *)
EXTENDS SessionSend, TLC

Symmetry == Permutations(Threads) \cup Permutations(Packets)
=============================================================================
