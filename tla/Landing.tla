------------------------------ MODULE Landing -------------------------------
(***************************************************************************)
(* types/src/landing.rs: may a signed transaction still land?               *)
(*                                                                          *)
(* confirm_not_landed makes two RPC calls, the finalized tip and then the   *)
(* signature statuses.  Other processes and the cluster run between them,   *)
(* so a caller takes two steps: it keeps a tip out of FinalizedTips, and    *)
(* later evaluates ConfirmNotLanded with a node out of StatusNodes.         *)
(***************************************************************************)
EXTENDS Ledger

NoExpiry == -1   \* last_valid_block_height: None (legacy claims)

Landings == {"Confirmed", "MayLand", "Unknown", "Failed", "Expired"}

(* Landing::Replaceable, with either reason.                                *)
Replaceable(landing) == landing \in {"Failed", "Expired"}

(* finalized_tip(): the node that answers may be behind the cluster.        *)
FinalizedTips == 0..final

(* signature_statuses(): answered by a node whose newest block is v.        *)
StatusNodes == 0..height

SignatureStatusFromRpc(entry) ==
  CASE ~entry.found -> "Absent"
    [] entry.found /\ entry.err ->
         IF entry.commitment = "finalized" THEN "FailedFinalized" ELSE "Failed"
    [] entry.found /\ ~entry.err ->
         IF entry.commitment \in {"confirmed", "finalized"} THEN "Confirmed"
                                                            ELSE "Processed"

(* A bug: absence alone is taken as proof, whatever the expiry.             *)
ClassifyAbsentAsExpired(tip, lastValid, status) ==
  CASE status = "Confirmed" -> "Confirmed"
    [] status \in {"Failed", "FailedFinalized"} -> "Failed"
    [] status = "Absent" -> "Expired"
    [] OTHER -> "MayLand"

(* A bug: a claim without an expiry is taken for an expired one.            *)
ClassifyNoExpiryAsExpired(tip, lastValid, status) ==
  CASE status = "Confirmed" -> "Confirmed"
    [] status = "FailedFinalized" \/ (status = "Failed" /\ tip > lastValid) -> "Failed"
    [] status = "Absent" /\ tip > lastValid -> "Expired"
    [] OTHER -> "MayLand"

Classify(tip, lastValid, status) ==
  LET expired == lastValid # NoExpiry /\ tip > lastValid
  IN  CASE status = "Confirmed" -> "Confirmed"
        [] status = "FailedFinalized" \/ (status = "Failed" /\ expired) -> "Failed"
        [] status = "Absent" /\ expired -> "Expired"
        [] OTHER -> "MayLand"

(* The landing of t, given the tip read first and the node v read second.   *)
ConfirmNotLanded(t, lastValid, tip, v) ==
  IF v < tip THEN "Unknown"
             ELSE Classify(tip, lastValid, SignatureStatusFromRpc(RpcEntry(t, v)))
=============================================================================
