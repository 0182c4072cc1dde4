------------------------------ MODULE MCRedeem ------------------------------
(* Redeem on small instances: requests for one code, to one destination.    *)
EXTENDS Redeem, TLC

MCTx == Requests \cup Legacy
MCCodeOf == [t \in Requests \cup Legacy |-> CHOOSE c \in Codes : TRUE]
MCDestOf == [r \in Requests |-> "wallet"]
MCSymmetry == Permutations(Requests)
=============================================================================
