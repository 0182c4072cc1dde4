---------------------------- MODULE MCSettlement ----------------------------
(* Settlement on small instances.                                           *)
EXTENDS Settlement, TLC

MCSymmetry == Permutations(Workers) \cup Permutations(Requests)
=============================================================================
