---------------------------- MODULE MCServerSubs ----------------------------
(* Instances of ServerSubs for TLC.                                        *)
EXTENDS ServerSubs, TLC

Symmetry == Permutations(Sessions) \cup Permutations(Publishers)
=============================================================================
