---------------------------- MODULE MCSellQueue ----------------------------
(* SellQueue on small instances.                                            *)
EXTENDS SellQueue, TLC

MCSymmetry == Permutations(Requests) \cup Permutations(Workers)
=============================================================================
