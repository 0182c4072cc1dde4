---------------------------- MODULE MCLifecycle ----------------------------
(* Lifecycle on small instances.                                            *)
EXTENDS Lifecycle, TLC

MCSenders == Gateways \X Lanes

MCSymmetry == Permutations(Gateways) \cup Permutations(Requests)
=============================================================================
