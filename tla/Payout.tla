------------------------------- MODULE Payout -------------------------------
(***************************************************************************)
(* What `pay fanout` promises about one CSV: every row is paid by at most   *)
(* one payment, a row is recorded as paid only once it is, and the payout   *)
(* is reported finished only when every row is recorded.                    *)
(***************************************************************************)
CONSTANTS Rows, Payments

VARIABLES
  paid,       \* the payments that credited each row
  recorded,   \* the rows recorded as paid
  finished    \* the payout was reported finished

payoutVars == <<paid, recorded, finished>>

Init ==
  /\ paid = [r \in Rows |-> {}]
  /\ recorded = {}
  /\ finished = FALSE

(* Rows not paid so far are credited, each by one payment.                  *)
Pay ==
  /\ paid' \in [Rows -> SUBSET Payments]
  /\ \A r \in Rows : paid'[r] = paid[r] \/ (paid[r] = {} /\ \E m \in Payments : paid'[r] = {m})
  /\ UNCHANGED <<recorded, finished>>

Record ==
  /\ recorded \subseteq recorded'
  /\ \A r \in recorded' : r \in Rows /\ paid[r] # {}
  /\ UNCHANGED <<paid, finished>>

Finish ==
  /\ recorded = Rows
  /\ finished' = TRUE
  /\ UNCHANGED <<paid, recorded>>

Next == Pay \/ Record \/ Finish

Spec == Init /\ [][Next]_payoutVars
=============================================================================
