------------------------------- MODULE Redeem -------------------------------
(***************************************************************************)
(* POST /v1/redeem (pay-api/src/endpoints/redeem.rs): a redemption code is  *)
(* paid out once, to the destination the request names.                     *)
(*                                                                          *)
(* Requests run concurrently, on any number of API replicas.  They share    *)
(* the chain and one Redis value per code, the claim; every Redis call may  *)
(* fail, and one that fails may have been applied.  A request signs at most *)
(* one payout, which is named after the request.                            *)
(***************************************************************************)
EXTENDS Landing

CONSTANTS
  Requests,   \* the requests there may ever be
  Codes,      \* redemption codes
  CodeOf,     \* the code a request or a legacy payout is for
  DestOf,     \* the destination a request names
  Legacy,     \* payouts recorded by `broadcast:` claims, without an expiry
  Blind       \* which RPC lookup may miss a payout that landed

ASSUME RedeemAssumption ==
  /\ Tx = Requests \cup Legacy
  /\ Requests \cap Legacy = {}
  /\ CodeOf \in [Tx -> Codes]
  /\ \A t, u \in Legacy : CodeOf[t] = CodeOf[u] => t = u
  /\ Blind \in {"none", "status", "history"}

VARIABLES
  claim,       \* the Redis value of each code
  burned,      \* codes redeemed before the claim store existed
  pc,          \* where each request is
  reconciled,  \* requests that have used their one reconciliation
  raw,         \* the claim value a request last read or wrote
  tip,         \* the finalized tip a request read
  reply        \* what a finished request answered

reqVars == <<pc, reconciled, raw, tip, reply>>
vars == <<ledgerVars, claim, burned, reqVars>>

-----------------------------------------------------------------------------
(* ClaimState.  encode and decode are inverse to each other on these, and a *)
(* claim is compared by its encoding.                                       *)

NoClaim == [kind |-> "none"]
Claimed(dest) == [kind |-> "claimed", dest |-> dest]
Pending(t, lastValid) == [kind |-> "pending", tx |-> t, lastValid |-> lastValid]
Confirmed(t) == [kind |-> "confirmed", tx |-> t]

ClaimState ==
  [kind : {"none"}]
  \cup [kind : {"claimed"}, dest : {DestOf[r] : r \in Requests}]
  \cup [kind : {"pending"}, tx : Tx, lastValid : Nat \cup {NoExpiry}]
  \cup [kind : {"confirmed"}, tx : Tx]

Holds(c, t) == claim[c].kind \in {"pending", "confirmed"} /\ claim[c].tx = t

TypeOK ==
  /\ LedgerTypeOK
  /\ claim \in [Codes -> ClaimState]
  /\ burned \subseteq Codes
  /\ pc \in [Requests -> {"scan", "claim", "read", "tip", "status", "finality", "history",
                          "release", "sign", "record", "unclaim", "send", "rejected", "await",
                          "redeem", "paid", "done"}]
  /\ reconciled \subseteq Requests
  /\ raw \in [Requests -> ClaimState]
  /\ tip \in [Requests -> Nat]
  /\ reply \in [Requests -> {"none", "ok", "redeemed", "pending", "error"}]

(* A code may have been redeemed before the claim store existed, and a      *)
(* legacy claim may name a payout that was sent before the server started.  *)
Init ==
  /\ height = 0 /\ confirmed = 0 /\ final = 0 /\ forks = 0
  /\ expiry = [t \in Tx |-> IF t \in Legacy THEN Window ELSE 0]
  /\ block = [t \in Tx |-> 0]
  /\ pool \in SUBSET Legacy /\ failed = {}
  /\ claim = [c \in Codes |->
       IF \E t \in pool : CodeOf[t] = c
       THEN Pending(CHOOSE t \in pool : CodeOf[t] = c, NoExpiry)
       ELSE NoClaim]
  /\ burned \in SUBSET (Codes \ {CodeOf[t] : t \in pool})
  /\ pc = [r \in Requests |-> "scan"]
  /\ reconciled = {}
  /\ raw = [r \in Requests |-> NoClaim]
  /\ tip = [r \in Requests |-> 0]
  /\ reply = [r \in Requests |-> "none"]

-----------------------------------------------------------------------------
Goto(r, label) == pc' = [pc EXCEPT ![r] = label] /\ UNCHANGED reply
Answer(r, answer) ==
  /\ pc' = [pc EXCEPT ![r] = "done"]
  /\ reply' = [reply EXCEPT ![r] = answer]

Set(c, value) == claim' = [claim EXCEPT ![c] = value]

(* A bug: the claim is replaced whatever it is now.                         *)
TransitionClaimBlindly(c, expected, new) == Set(c, new)

(* transition_claim: replace the claim when it still equals `expected`.     *)
TransitionClaim(c, expected, new) ==
  IF claim[c] = expected THEN Set(c, new) ELSE UNCHANGED claim

(* A Redis call that returned an error: its effect may have happened.       *)
MaybeTransition(c, expected, new) ==
  UNCHANGED claim \/ TransitionClaim(c, expected, new)

-----------------------------------------------------------------------------
(* find_prior_burn walks the whole frozen legacy history, or fails.         *)
FindPriorBurn(c) == {"error"} \cup IF c \in burned THEN {"found"} ELSE {"none"}

Scan(r) ==
  /\ pc[r] = "scan"
  /\ \E burn \in FindPriorBurn(CodeOf[r]) :
       \/ burn = "none" /\ Goto(r, "claim")
       \/ burn = "found" /\ Answer(r, "redeemed")
       \/ burn = "error" /\ Answer(r, "error")
  /\ UNCHANGED <<ledgerVars, claim, burned, reconciled, raw, tip>>

(* acquire_redemption_claim (SET NX); an existing claim is reconciled once. *)
Acquire(r) ==
  /\ pc[r] = "claim"
  /\ LET c == CodeOf[r]
     IN  \/ /\ claim[c] = NoClaim
            /\ Set(c, Claimed(DestOf[r]))
            /\ Goto(r, "sign")
            /\ UNCHANGED reconciled
         \/ /\ claim[c] # NoClaim /\ r \notin reconciled
            /\ reconciled' = reconciled \cup {r}
            /\ Goto(r, "read")
            /\ UNCHANGED claim
         \/ /\ claim[c] # NoClaim /\ r \in reconciled
            /\ Answer(r, "error")
            /\ UNCHANGED <<claim, reconciled>>
         \/ /\ MaybeTransition(c, NoClaim, Claimed(DestOf[r]))
            /\ Answer(r, "error")
            /\ UNCHANGED reconciled
  /\ UNCHANGED <<ledgerVars, burned, raw, tip>>

-----------------------------------------------------------------------------
(* reconcile_existing_claim.  A request that found the payout it sent       *)
(* failed answers afterwards; any other claims again.                       *)
AfterRelease(r) == IF r \in pool THEN Answer(r, "error") ELSE Goto(r, "claim")

ReadClaim(r) ==
  /\ pc[r] = "read"
  /\ LET now == claim[CodeOf[r]]
     IN  \/ now.kind = "none" /\ AfterRelease(r) /\ UNCHANGED raw
         \/ now.kind = "confirmed" /\ Answer(r, "redeemed") /\ UNCHANGED raw
         \/ now.kind = "claimed" /\ Answer(r, "error") /\ UNCHANGED raw
         \/ now.kind = "pending" /\ Goto(r, "tip") /\ raw' = [raw EXCEPT ![r] = now]
         \/ Answer(r, "error") /\ UNCHANGED raw
  /\ UNCHANGED <<ledgerVars, claim, burned, reconciled, tip>>

ReadTip(r) ==
  /\ pc[r] = "tip"
  /\ \/ \E f \in FinalizedTips : tip' = [tip EXCEPT ![r] = f] /\ Goto(r, "status")
     \/ Answer(r, "error") /\ UNCHANGED tip
  /\ UNCHANGED <<ledgerVars, claim, burned, reconciled, raw>>

(* A node without the history may answer null for a payout that landed.     *)
LandingOf(t, lastValid, f, v) ==
  {ConfirmNotLanded(t, lastValid, f, v)}
  \cup IF Blind = "status" /\ v >= f THEN {Classify(f, lastValid, "Absent")} ELSE {}

ReadStatus(r) ==
  /\ pc[r] = "status"
  /\ \/ \E v \in StatusNodes : \E landing \in LandingOf(raw[r].tx, raw[r].lastValid, tip[r], v) :
          \/ landing = "Confirmed" /\ Goto(r, "finality")
          \/ landing = "Failed" /\ Goto(r, "release")
          \/ landing = "Expired" /\ Goto(r, "history")
          \/ landing \in {"MayLand", "Unknown"} /\ Answer(r, "pending")
     \/ Answer(r, "error")
  /\ UNCHANGED <<ledgerVars, claim, burned, reconciled, raw, tip>>

(* A bug: a confirmed payout counts as final.                               *)
ClassifyConfirmedAsFinal(entry) ==
  CASE ~entry.found -> "Pending"
    [] entry.found /\ entry.err -> "Failed"
    [] OTHER -> IF entry.commitment \in {"confirmed", "finalized"} THEN "Finalized" ELSE "Pending"

(* classify_signature_status: only finality counts.                         *)
ClassifySignatureStatus(entry) ==
  CASE ~entry.found -> "Pending"
    [] entry.found /\ entry.err -> "Failed"
    [] OTHER -> IF entry.commitment = "finalized" THEN "Finalized" ELSE "Pending"

(* The payout landed; the claim becomes terminal only if it is final.       *)
ReadFinality(r) ==
  /\ pc[r] = "finality"
  /\ \E v \in StatusNodes :
       IF ClassifySignatureStatus(RpcEntry(raw[r].tx, v)) = "Finalized"
       THEN Goto(r, "redeem")
       ELSE Answer(r, "pending")
  /\ UNCHANGED <<ledgerVars, claim, burned, reconciled, raw, tip>>

(* ReleaseProof::cannot_land: an expiry also needs getTransaction to find   *)
(* nothing.                                                                 *)
HistoryFinds(t) == block[t] # 0

ReadHistory(r) ==
  /\ pc[r] = "history"
  /\ \/ /\ HistoryFinds(raw[r].tx) => Blind = "history"
        /\ Goto(r, "release")
     \/ Answer(r, "pending")
  /\ UNCHANGED <<ledgerVars, claim, burned, reconciled, raw, tip>>

(* release_signed_claim, with a proof that the payout cannot land.          *)
ReleaseSigned(r) ==
  /\ pc[r] = "release"
  /\ \/ TransitionClaim(CodeOf[r], raw[r], NoClaim) /\ AfterRelease(r)
     \/ MaybeTransition(CodeOf[r], raw[r], NoClaim) /\ Answer(r, "error")
  /\ UNCHANGED <<ledgerVars, burned, reconciled, raw, tip>>

(* mark_claim_redeemed, then the answer: "already redeemed" out of          *)
(* reconciliation, 200 for the payout this request saw finalize.  A store   *)
(* error changes nothing of that.                                           *)
MarkRedeemed(r) ==
  /\ pc[r] \in {"redeem", "paid"}
  /\ MaybeTransition(CodeOf[r], raw[r], Confirmed(raw[r].tx))
  /\ Answer(r, IF pc[r] = "paid" THEN "ok" ELSE "redeemed")
  /\ UNCHANGED <<ledgerVars, burned, reconciled, raw, tip>>

-----------------------------------------------------------------------------
(* Blockhash, build and sign; a failure gives the unsigned claim back.      *)
Sign(r) ==
  /\ pc[r] = "sign"
  /\ \/ \E lastValid \in RecentExpiries :
          /\ SignTx(r, lastValid)
          /\ raw' = [raw EXCEPT ![r] = Pending(r, lastValid)]
          /\ Goto(r, "record")
     \/ Goto(r, "unclaim") /\ UNCHANGED <<ledgerVars, raw>>
  /\ UNCHANGED <<claim, burned, reconciled, tip>>

(* The signature is recorded before anything is sent.                       *)
RecordPending(r) ==
  /\ pc[r] = "record"
  /\ LET c == CodeOf[r]  mine == Claimed(DestOf[r])
     IN  \/ claim[c] = mine /\ Set(c, raw[r]) /\ Goto(r, "send")
         \/ claim[c] # mine /\ UNCHANGED claim /\ Answer(r, "error")
         \/ MaybeTransition(c, mine, raw[r]) /\ Goto(r, "unclaim")
  /\ UNCHANGED <<ledgerVars, burned, reconciled, raw, tip>>

(* A bug: whatever the claim is, it is deleted.                             *)
ReleaseUnsignedAny(r) ==
  /\ pc[r] = "unclaim"
  /\ Set(CodeOf[r], NoClaim)
  /\ Answer(r, "error")
  /\ UNCHANGED <<ledgerVars, burned, reconciled, raw, tip>>

(* release_redemption_claim_best_effort matches an unsigned claim only.     *)
ReleaseUnsigned(r) ==
  /\ pc[r] = "unclaim"
  /\ MaybeTransition(CodeOf[r], Claimed(DestOf[r]), NoClaim)
  /\ Answer(r, "error")
  /\ UNCHANGED <<ledgerVars, burned, reconciled, raw, tip>>

(* A bug: an error that may have forwarded the payout is taken for a        *)
(* preflight rejection.                                                     *)
BroadcastAnyErrorRejects(r) ==
  /\ pc[r] = "send"
  /\ \/ SendTx(r, TRUE) /\ Goto(r, "await")
     \/ \E forwarded \in BOOLEAN : SendTx(r, forwarded) /\ Goto(r, "rejected")
  /\ UNCHANGED <<claim, burned, reconciled, raw, tip>>

(* A preflight rejection never forwards the payout; any other error may.    *)
Broadcast(r) ==
  /\ pc[r] = "send"
  /\ \/ SendTx(r, TRUE) /\ Goto(r, "await")
     \/ SendTx(r, FALSE) /\ Goto(r, "rejected")
     \/ \E forwarded \in BOOLEAN : SendTx(r, forwarded) /\ Answer(r, "pending")
  /\ UNCHANGED <<claim, burned, reconciled, raw, tip>>

ReleaseRejected(r) ==
  /\ pc[r] = "rejected"
  /\ MaybeTransition(CodeOf[r], raw[r], NoClaim)
  /\ Answer(r, "error")
  /\ UNCHANGED <<ledgerVars, burned, reconciled, raw, tip>>

(* await_signature until finality, failure, or the timeout.                 *)
Await(r) ==
  /\ pc[r] = "await"
  /\ \/ \E v \in StatusNodes :
          LET status == ClassifySignatureStatus(RpcEntry(r, v))
          IN  \/ status = "Finalized" /\ Goto(r, "paid")
              \/ status = "Failed" /\ Goto(r, "read")
     \/ Answer(r, "pending")
  /\ UNCHANGED <<ledgerVars, claim, burned, reconciled, raw, tip>>

(* The replica dies, or the client goes away and the handler is dropped.    *)
Drop(r) ==
  /\ pc[r] \notin {"scan", "done"}
  /\ pc' = [pc EXCEPT ![r] = "done"]
  /\ UNCHANGED <<ledgerVars, claim, burned, reconciled, raw, tip, reply>>

RequestStep(r) ==
  \/ Scan(r) \/ Acquire(r)
  \/ ReadClaim(r) \/ ReadTip(r) \/ ReadStatus(r) \/ ReadFinality(r) \/ ReadHistory(r)
  \/ ReleaseSigned(r) \/ MarkRedeemed(r)
  \/ Sign(r) \/ RecordPending(r) \/ ReleaseUnsigned(r)
  \/ Broadcast(r) \/ ReleaseRejected(r) \/ Await(r)
  \/ Drop(r)

Next ==
  \/ \E r \in Requests : RequestStep(r)
  \/ LedgerNext /\ UNCHANGED <<claim, burned, reqVars>>

Spec == Init /\ [][Next]_vars

-----------------------------------------------------------------------------
(* Properties.                                                              *)

(* A code is paid at most once, counting the payouts of legacy claims and   *)
(* of the time before the claim store, whatever replicas die, Redis calls   *)
(* fail and forks happen.                                                   *)
CodePaidOnce ==
  \A t, u \in Tx : CodeOf[t] = CodeOf[u] /\ Landed(t) =>
    CodeOf[t] \notin burned /\ (Landed(u) => t = u)

(* As long as a payout on the network may still land, or has landed, its    *)
(* code's claim names it (a claim is released only with a ReleaseProof).    *)
LivePayoutHoldsClaim ==
  \A t \in pool : ~Dead(t) => Holds(CodeOf[t], t)

(* A code is redeemed for good only by a finalized payout: a confirmed one  *)
(* could still be dropped, and the code would be spent for nothing.         *)
RedeemedIsFinal ==
  \A c \in Codes : claim[c].kind = "confirmed" =>
    Landed(claim[c].tx) /\ block[claim[c].tx] <= final

AnswerIsTrue(r) ==
  /\ reply[r] = "ok" => Landed(r) /\ block[r] <= final
  /\ reply[r] = "redeemed" =>
       \/ CodeOf[r] \in burned
       \/ \E t \in Tx : CodeOf[t] = CodeOf[r] /\ Landed(t) /\ block[t] <= final

(* The two definite answers are true: 200 means that this request's payout  *)
(* is final, "already redeemed" that some payout of the code is.            *)
AnswersAreTrue == \A r \in Requests : AnswerIsTrue(r)

(* A redeemed claim is terminal.                                            *)
RedeemedForever ==
  [][\A c \in Codes : claim[c].kind = "confirmed" => claim'[c] = claim[c]]_vars

Abstract == INSTANCE Payout WITH
  Rows <- Codes,
  Payments <- Tx,
  paid <- [c \in Codes |-> {t \in Tx : CodeOf[t] = c /\ Landed(t) /\ block[t] <= final}],
  recorded <- {c \in Codes : claim[c].kind = "confirmed"},
  finished <- FALSE

(* Redemption implements the abstract payout, with codes for rows: a code   *)
(* is credited by one final payout, and recorded as redeemed after that.    *)
ImplementsPayout == Abstract!Spec
=============================================================================
