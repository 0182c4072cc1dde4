---------------------------- MODULE MCAllowance ----------------------------
(* Instances of Allowance: requests are interchangeable, and so are sign-ins. *)
EXTENDS Allowance, TLC

MCSymmetry == Permutations(Calls) \cup Permutations(Logins)
=============================================================================
