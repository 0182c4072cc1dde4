---------------------------- MODULE RedeemProofs -----------------------------
(***************************************************************************)
(* A redemption code is paid once: for any number of requests, codes and    *)
(* legacy claims, any number of forks, and with either RPC lookup blind.    *)
(***************************************************************************)
EXTENDS Redeem, LandingProofs

(* Most steps are logic without arithmetic; the others name the SMT backend. *)
USE Zenon

-----------------------------------------------------------------------------
(* The inductive invariant.                                                 *)

Signed(value) == value.kind \in {"pending", "confirmed"}

(* A claim records a payout of its own code, with that payout's expiry.     *)
Faithful(value, c) ==
  /\ Signed(value) => value.tx \in Tx /\ CodeOf[value.tx] = c
  /\ value.kind = "pending" => value.lastValid \in {expiry[value.tx], NoExpiry}

(* r has not signed its payout, and still may.                              *)
Fresh(r) ==
  r \notin pool /\ pc[r] \notin {"record", "unclaim", "send", "rejected", "await", "done"}

(* What a request knows, by where it is.                                    *)
Knows(r) ==
  /\ tip[r] <= final
  /\ pc[r] \in {"record", "send", "rejected"} => raw[r] = Pending(r, expiry[r])
  /\ pc[r] = "await" => raw[r].kind = "pending" /\ raw[r].tx = r /\ r \in pool
  /\ pc[r] \in {"tip", "status", "finality", "history", "release", "redeem", "paid"} =>
       raw[r].kind = "pending"
  /\ pc[r] = "history" =>
       final > expiry[raw[r].tx] /\ (Blind = "history" => Dead(raw[r].tx))
  /\ pc[r] = "release" => Dead(raw[r].tx)
  /\ pc[r] \in {"redeem", "paid"} => LandedForGood(raw[r].tx)
  /\ pc[r] = "paid" => raw[r].tx = r
  /\ pc[r] \in {"scan", "claim", "sign", "record", "unclaim", "send", "rejected"} => r \notin pool
  /\ pc[r] = "send" => Dead(r) \/ Holds(CodeOf[r], r)
  /\ pc[r] \notin {"scan", "done"} => CodeOf[r] \notin burned

IInv ==
  /\ TypeOK
  /\ LedgerInv
  /\ \A c \in Codes : Faithful(claim[c], c)
  /\ \A r \in Requests : Faithful(raw[r], CodeOf[r])
  /\ \A r \in Requests : Fresh(r) =>
       /\ \A c \in Codes : Signed(claim[c]) => claim[c].tx # r
       /\ \A q \in Requests : Signed(raw[q]) => raw[q].tx # r
  /\ \A r \in Requests : Knows(r)
  /\ \A t \in pool : CodeOf[t] \notin burned
  /\ LivePayoutHoldsClaim
  /\ RedeemedIsFinal
  /\ AnswersAreTrue

-----------------------------------------------------------------------------
(* Claim values and the store's compare-and-set.                            *)

(* The values a claim can take, told apart by their kinds.                  *)
LEMMA ClaimValues ==
  /\ NoClaim \in ClaimState /\ NoClaim.kind = "none"
  /\ \A r \in Requests : Claimed(DestOf[r]) \in ClaimState /\ Claimed(DestOf[r]).kind = "claimed"
  /\ \A t \in Tx, n \in Nat \cup {NoExpiry} :
       /\ Pending(t, n) \in ClaimState /\ Pending(t, n).kind = "pending"
       /\ Pending(t, n).tx = t /\ Pending(t, n).lastValid = n
  /\ \A t \in Tx :
       /\ Confirmed(t) \in ClaimState /\ Confirmed(t).kind = "confirmed" /\ Confirmed(t).tx = t
BY DEF ClaimState, NoClaim, Claimed, Pending, Confirmed

(* The claim of a legacy payout, which has no expiry.                       *)
LEMMA LegacyClaim ==
  ASSUME NEW t \in Tx
  PROVE  LET value == Pending(t, NoExpiry)
         IN  /\ value \in ClaimState /\ value.kind = "pending"
             /\ value.tx = t /\ value.lastValid = NoExpiry
BY DEF ClaimState, Pending

(* The claim a request signs for.                                           *)
LEMMA OwnClaim ==
  ASSUME TypeOK, NEW r \in Requests, raw[r] = Pending(r, expiry[r])
  PROVE  raw[r].kind = "pending" /\ raw[r].tx = r
<1>1. r \in Tx /\ expiry[r] \in Nat \cup {NoExpiry}
  BY RedeemAssumption DEF TypeOK, LedgerTypeOK
<1> QED BY SMT, <1>1 DEF Pending

(* A claim that names a payout names one of Tx.                             *)
LEMMA SignedClaims ==
  ASSUME NEW value \in ClaimState
  PROVE  /\ Signed(value) => value.tx \in Tx
         /\ value.kind = "pending" => value.lastValid \in Nat \cup {NoExpiry}
BY DEF ClaimState, Signed

(* A Redis call changes one claim, and only if it held the expected value.  *)
LEMMA TransitionEffect ==
  ASSUME NEW c, NEW expected, NEW new,
         MaybeTransition(c, expected, new) \/ TransitionClaim(c, expected, new)
  PROVE  \/ claim' = claim
         \/ claim[c] = expected /\ claim' = [claim EXCEPT ![c] = new]
BY DEF MaybeTransition, TransitionClaim, Set

(* Its result is a claim again.                                             *)
LEMMA TransitionType ==
  ASSUME claim \in [Codes -> ClaimState], NEW c \in Codes, NEW expected, NEW new \in ClaimState,
         MaybeTransition(c, expected, new) \/ TransitionClaim(c, expected, new)
  PROVE  claim' \in [Codes -> ClaimState]
BY DEF MaybeTransition, TransitionClaim, Set

-----------------------------------------------------------------------------
(* The types are right.                                                     *)

(* Every step of a request keeps the types.                                 *)
LEMMA RequestTypes ==
  ASSUME IInv, NEW r \in Requests, RequestStep(r)
  PROVE  TypeOK'
<1> USE RedeemAssumption, LedgerAssumption DEF TypeOK
<1> TypeOK
  BY DEF IInv
<1>1. r \in Tx /\ CodeOf[r] \in Codes
  OBVIOUS
<1>2. CASE Scan(r)
  BY SMT, <1>2 DEF Scan, Goto, Answer, ledgerVars, LedgerTypeOK
<1>3. CASE Acquire(r)
  <2>1. NoClaim \in ClaimState /\ Claimed(DestOf[r]) \in ClaimState
    BY ClaimValues
  <2>2. claim' \in [Codes -> ClaimState]
    BY SMT, <1>1, <1>3, <2>1, TransitionType DEF Acquire, Set
  <2> QED BY SMT, <1>3, <2>2 DEF Acquire, Goto, Answer, ledgerVars, LedgerTypeOK
<1>4. CASE ReadClaim(r)
  BY SMT, <1>1, <1>4 DEF ReadClaim, AfterRelease, Goto, Answer, ledgerVars, LedgerTypeOK
<1>5. CASE ReadTip(r)
  BY SMT, <1>5 DEF ReadTip, FinalizedTips, Goto, Answer, ledgerVars, LedgerTypeOK
<1>6. CASE ReadStatus(r)
  BY SMT, <1>6 DEF ReadStatus, Goto, Answer, ledgerVars, LedgerTypeOK
<1>7. CASE ReadFinality(r)
  BY SMT, <1>7 DEF ReadFinality, Goto, Answer, ledgerVars, LedgerTypeOK
<1>8. CASE ReadHistory(r)
  BY SMT, <1>8 DEF ReadHistory, Goto, Answer, ledgerVars, LedgerTypeOK
<1>9. CASE ReleaseSigned(r)
  <2>1. claim' \in [Codes -> ClaimState]
    BY <1>1, <1>9, ClaimValues, TransitionType DEF ReleaseSigned
  <2> QED BY SMT, <1>9, <2>1 DEF ReleaseSigned, AfterRelease, Goto, Answer, ledgerVars, LedgerTypeOK
<1>10. CASE MarkRedeemed(r)
  <2>1. Confirmed(raw[r].tx) \in ClaimState
    BY SMT, <1>10, ClaimValues, SignedClaims DEF MarkRedeemed, Signed, IInv, Knows
  <2>2. claim' \in [Codes -> ClaimState]
    BY <1>1, <1>10, <2>1, TransitionType DEF MarkRedeemed
  <2> QED BY <1>10, <2>2 DEF MarkRedeemed, Answer, ledgerVars, LedgerTypeOK
<1>11. CASE Sign(r)
  <2>1. \A n \in RecentExpiries : n \in Nat /\ Pending(r, n) \in ClaimState
    BY SMT, <1>1, ClaimValues DEF RecentExpiries
  <2> QED BY SMT, <1>1, <1>11, <2>1 DEF Sign, SignTx, Goto, ledgerVars, LedgerTypeOK
<1>12. CASE RecordPending(r)
  <2>1. claim' \in [Codes -> ClaimState]
    BY <1>1, <1>12, TransitionType DEF RecordPending, Set
  <2> QED BY SMT, <1>12, <2>1 DEF RecordPending, Goto, Answer, ledgerVars, LedgerTypeOK
<1>13. CASE ReleaseUnsigned(r)
  <2>1. claim' \in [Codes -> ClaimState]
    BY <1>1, <1>13, ClaimValues, TransitionType DEF ReleaseUnsigned
  <2> QED BY <1>13, <2>1 DEF ReleaseUnsigned, Answer, ledgerVars, LedgerTypeOK
<1>14. CASE Broadcast(r)
  BY SMT, <1>1, <1>14 DEF Broadcast, SendTx, Goto, Answer, LedgerTypeOK
<1>15. CASE ReleaseRejected(r)
  <2>1. claim' \in [Codes -> ClaimState]
    BY <1>1, <1>15, ClaimValues, TransitionType DEF ReleaseRejected
  <2> QED BY <1>15, <2>1 DEF ReleaseRejected, Answer, ledgerVars, LedgerTypeOK
<1>16. CASE Await(r)
  BY SMT, <1>16 DEF Await, Goto, Answer, ledgerVars, LedgerTypeOK
<1>17. CASE Drop(r)
  BY <1>17 DEF Drop, ledgerVars, LedgerTypeOK
<1> QED BY <1>2, <1>3, <1>4, <1>5, <1>6, <1>7, <1>8, <1>9, <1>10, <1>11, <1>12, <1>13, <1>14,
           <1>15, <1>16, <1>17 DEF RequestStep

-----------------------------------------------------------------------------
(* Steps of one request that leave the ledger alone.                        *)

(* r's step changes nothing of another request.                             *)
OthersKeep(r) ==
  \A q \in Requests \ {r} :
    pc'[q] = pc[q] /\ raw'[q] = raw[q] /\ tip'[q] = tip[q] /\ reply'[q] = reply[q]

(* Writing `new` over the claim of c loses no payout that may still land.   *)
LosesNothing(c, new) ==
  \A t \in Tx : Holds(c, t) /\ (t \in pool \/ (t \in Requests /\ pc[t] = "send")) =>
    Dead(t) \/ (Signed(new) /\ new.tx = t)

(* What such a step must ensure, for the whole invariant to survive it.     *)
LEMMA LocalStep ==
  ASSUME IInv, TypeOK', NEW r \in Requests, NEW new,
         UNCHANGED <<ledgerVars, burned>>,
         OthersKeep(r),
         \/ claim' = claim
         \/ /\ claim' = [claim EXCEPT ![CodeOf[r]] = new]
            /\ Faithful(new, CodeOf[r])
            /\ LosesNothing(CodeOf[r], new)
            /\ new.kind = "confirmed" => LandedForGood(new.tx)
            /\ \A q \in Requests : Fresh(q)' => ~(Signed(new) /\ new.tx = q),
         Faithful(raw'[r], CodeOf[r]),
         \A q \in Requests : Fresh(q)' => ~(Signed(raw'[r]) /\ raw'[r].tx = q),
         Fresh(r)' => Fresh(r),
         Knows(r)',
         AnswerIsTrue(r)'
  PROVE  IInv'
<1> USE RedeemAssumption
<1>1. TypeOK /\ LedgerInv /\ CodeOf[r] \in Codes
  BY DEF IInv, TypeOK
<1>2. LedgerInv'
  BY <1>1 DEF LedgerInv, LedgerTypeOK, ledgerVars
<1>3. \A t \in Tx : /\ Dead(t)' <=> Dead(t)
                    /\ Landed(t)' <=> Landed(t)
                    /\ LandedForGood(t)' <=> LandedForGood(t)
  BY DEF Dead, Landed, LandedForGood, ledgerVars
<1>4. \A c \in Codes : Faithful(claim'[c], c)
  BY <1>1 DEF IInv, TypeOK
<1>5. \A c \in Codes : Faithful(claim[c], c)'
  BY <1>4 DEF Faithful, Signed, ledgerVars
<1>6. \A q \in Requests : Faithful(raw[q], CodeOf[q])'
  <2>1. ASSUME NEW q \in Requests PROVE Faithful(raw'[q], CodeOf[q])
    <3>1. CASE q # r
      <4>1. raw'[q] = raw[q]
        BY <3>1 DEF OthersKeep
      <4>2. Faithful(raw[q], CodeOf[q])
        BY DEF IInv
      <4> QED BY <4>1, <4>2
    <3> QED BY <3>1
  <2> QED BY <2>1 DEF Faithful, Signed, ledgerVars
<1>7. \A q \in Requests : Fresh(q)' => Fresh(q)
  BY DEF OthersKeep, Fresh, ledgerVars
<1>8. (\A q \in Requests : Fresh(q) =>
         /\ \A c \in Codes : Signed(claim[c]) => claim[c].tx # q
         /\ \A s \in Requests : Signed(raw[s]) => raw[s].tx # q)'
  <2> SUFFICES ASSUME NEW q \in Requests, Fresh(q)'
               PROVE  /\ \A c \in Codes : Signed(claim'[c]) => claim'[c].tx # q
                      /\ \A s \in Requests : Signed(raw'[s]) => raw'[s].tx # q
    BY DEF Signed
  <2>1. /\ \A c \in Codes : Signed(claim[c]) => claim[c].tx # q
        /\ \A s \in Requests : Signed(raw[s]) => raw[s].tx # q
    BY <1>7 DEF IInv
  <2>2. \A c \in Codes : Signed(claim'[c]) => claim'[c].tx # q
    BY SMTT(30), <1>1, <2>1 DEF TypeOK
  <2>3. \A s \in Requests : Signed(raw'[s]) => raw'[s].tx # q
    BY <2>1 DEF OthersKeep
  <2> QED BY <2>2, <2>3
<1>9. \A t \in Tx : (t \in pool \/ (t \in Requests /\ pc[t] = "send")) /\ ~Dead(t) /\ Holds(CodeOf[t], t)
                    => Holds(CodeOf[t], t)'
  BY SMT, <1>1 DEF LosesNothing, Holds, Signed, TypeOK
<1>10. \A q \in Requests : Knows(q)'
  <2> SUFFICES ASSUME NEW q \in Requests, q # r PROVE Knows(q)'
    OBVIOUS
  <2>1. Knows(q)
    BY DEF IInv
  <2>2. pc'[q] = pc[q] /\ raw'[q] = raw[q] /\ tip'[q] = tip[q]
    BY DEF OthersKeep
  <2>3. q \in Tx /\ (Signed(raw[q]) => raw[q].tx \in Tx)
    BY DEF IInv, Faithful
  <2>4. pc[q] = "send" => Dead(q) \/ Holds(CodeOf[q], q)'
    BY <1>9, <2>1, <2>3 DEF Knows
  <2> QED BY <1>3, <2>1, <2>2, <2>3, <2>4 DEF Knows, Signed, ledgerVars
<1>11. (\A t \in pool : CodeOf[t] \notin burned)'
  BY DEF IInv, ledgerVars
<1>12. LivePayoutHoldsClaim'
  BY <1>1, <1>3, <1>9 DEF IInv, LivePayoutHoldsClaim, TypeOK, LedgerTypeOK, ledgerVars
<1>13. RedeemedIsFinal'
  <2> SUFFICES ASSUME NEW c \in Codes, claim'[c].kind = "confirmed"
               PROVE  LandedForGood(claim'[c].tx)
    BY DEF RedeemedIsFinal, LandedForGood, Landed, ledgerVars
  <2> QED BY <1>1 DEF IInv, RedeemedIsFinal, LandedForGood, TypeOK
<1>14. AnswersAreTrue'
  <2> SUFFICES ASSUME NEW q \in Requests, q # r PROVE AnswerIsTrue(q)'
    BY DEF AnswersAreTrue
  <2>1. AnswerIsTrue(q) /\ reply'[q] = reply[q]
    BY DEF IInv, AnswersAreTrue, OthersKeep
  <2> QED BY <1>3, <2>1 DEF AnswerIsTrue, ledgerVars
<1> QED BY <1>2, <1>5, <1>6, <1>8, <1>10, <1>11, <1>12, <1>13, <1>14 DEF IInv

(* A step of r changes nothing of other requests and makes nobody fresh.    *)
LEMMA RequestFootprint ==
  ASSUME IInv, NEW r \in Requests, RequestStep(r)
  PROVE  OthersKeep(r) /\ \A q \in Requests : Fresh(q)' => Fresh(q)
<1> USE DEF OthersKeep, Fresh, Goto, Answer, TypeOK, ledgerVars
<1> TypeOK
  BY DEF IInv
<1>1. CASE Scan(r)
  BY <1>1 DEF Scan
<1>2. CASE Acquire(r)
  BY <1>2 DEF Acquire
<1>3. CASE ReadClaim(r)
  BY <1>3 DEF AfterRelease, ReadClaim
<1>4. CASE ReadTip(r)
  BY <1>4 DEF ReadTip
<1>5. CASE ReadStatus(r)
  BY <1>5 DEF ReadStatus
<1>6. CASE ReadFinality(r)
  BY <1>6 DEF ReadFinality
<1>7. CASE ReadHistory(r)
  BY <1>7 DEF ReadHistory
<1>8. CASE ReleaseSigned(r)
  BY <1>8 DEF AfterRelease, ReleaseSigned
<1>9. CASE MarkRedeemed(r)
  BY <1>9 DEF MarkRedeemed
<1>10. CASE Sign(r)
  BY <1>10 DEF SignTx, Sign
<1>11. CASE RecordPending(r)
  BY <1>11 DEF RecordPending
<1>12. CASE ReleaseUnsigned(r)
  BY <1>12 DEF ReleaseUnsigned
<1>13. CASE Broadcast(r)
  BY <1>13 DEF SendTx, Broadcast
<1>14. CASE ReleaseRejected(r)
  BY <1>14 DEF ReleaseRejected
<1>15. CASE Await(r)
  <2>1. pc[r] = "await" /\ Knows(r)
    BY <1>15 DEF IInv, Await
  <2>2. r \in pool /\ UNCHANGED <<ledgerVars, claim, burned, raw, tip, reconciled>>
    BY <1>15, <2>1 DEF Knows, Await
  <2> QED BY <1>15, <2>1, <2>2 DEF Await
<1>16. CASE Drop(r)
  BY <1>16 DEF Drop
<1> QED BY <1>1, <1>2, <1>3, <1>4, <1>5, <1>6, <1>7, <1>8, <1>9,
           <1>10, <1>11, <1>12, <1>13, <1>14, <1>15, <1>16 DEF RequestStep

-----------------------------------------------------------------------------
(* What a request learns from the RPC.                                      *)

(* An expiry is only seen when the tip read is past the recorded height.    *)
LEMMA ExpiredIsPastTip ==
  ASSUME NEW f, NEW lastValid, NEW status, Classify(f, lastValid, status) = "Expired"
  PROVE  lastValid # NoExpiry /\ f > lastValid
BY DEF Classify

(* The status read: `Failed` is proof, and `Expired` says that the payout   *)
(* is out of time, which is proof too if the status node was not blind.     *)
LEMMA StatusRead ==
  ASSUME LedgerInv, NEW t \in Tx, NEW lastValid, NEW f \in Nat, NEW v \in StatusNodes, f <= final,
         lastValid \in {expiry[t], NoExpiry}, NEW landing \in LandingOf(t, lastValid, f, v)
  PROVE  /\ landing = "Failed" => Dead(t)
         /\ landing = "Expired" => final > expiry[t] /\ (Blind = "history" => Dead(t))
<1>1. \/ landing = ConfirmNotLanded(t, lastValid, f, v)
      \/ landing = Classify(f, lastValid, "Absent") /\ Blind = "status"
  BY DEF LandingOf
<1>2. landing = "Expired" => lastValid # NoExpiry /\ f > lastValid
  BY <1>1, ExpiredIsPastTip DEF ConfirmNotLanded
<1>3. landing = "Expired" => final > expiry[t]
  BY SMT, <1>2 DEF LedgerInv, LedgerTypeOK
<1>4. CASE landing = ConfirmNotLanded(t, lastValid, f, v)
  BY <1>3, <1>4, ReplaceableIsDead DEF Replaceable
<1>5. CASE landing = Classify(f, lastValid, "Absent") /\ Blind = "status"
  BY <1>3, <1>5 DEF Classify
<1> QED BY <1>1, <1>4, <1>5

(* A status that classify_signature_status calls final is final.            *)
LEMMA FinalityRead ==
  ASSUME LedgerInv, NEW t \in Tx, NEW v \in StatusNodes,
         ClassifySignatureStatus(RpcEntry(t, v)) = "Finalized"
  PROVE  LandedForGood(t)
BY DEF ClassifySignatureStatus, RpcEntry, LandedForGood, Landed

-----------------------------------------------------------------------------
(* Each action keeps the invariant.                                         *)

(* Signing: nobody knows of r's payout yet, so no record names it.          *)
LEMMA SignKeepsIInv ==
  ASSUME IInv, NEW r \in Requests, NEW lastValid \in Nat,
         pc[r] = "sign", RequestStep(r),
         SignTx(r, lastValid), raw' = [raw EXCEPT ![r] = Pending(r, lastValid)],
         pc' = [pc EXCEPT ![r] = "record"], UNCHANGED <<claim, burned, reconciled, tip, reply>>
  PROVE  IInv'
<1> USE RedeemAssumption
<1>1. TypeOK /\ TypeOK' /\ LedgerInv /\ r \in Tx /\ Knows(r)
  BY RequestTypes DEF IInv
<1>2. r \notin pool /\ Fresh(r) /\ block[r] = 0
  BY <1>1, UnsentHasNoBlock DEF Knows, Fresh
<1>3. /\ \A c \in Codes : Signed(claim[c]) => claim[c].tx # r
      /\ \A q \in Requests : Signed(raw[q]) => raw[q].tx # r
  BY <1>2 DEF IInv
<1>4. LedgerInv'
  BY <1>1, <1>2 DEF SignTx, LedgerInv, LedgerTypeOK
<1>5. \A t \in Tx \ {r} : (Dead(t)' <=> Dead(t)) /\ expiry'[t] = expiry[t]
  BY <1>1 DEF SignTx, Dead, Landed, TypeOK, LedgerTypeOK
<1>6. \A t \in Tx : (LandedForGood(t)' <=> LandedForGood(t)) /\ (Landed(t)' <=> Landed(t))
  BY DEF SignTx, LandedForGood, Landed
<1>7. /\ raw'[r].kind = "pending" /\ raw'[r].tx = r /\ raw'[r].lastValid = lastValid
      /\ expiry'[r] = lastValid /\ raw'[r] = Pending(r, lastValid)
  BY SMT, <1>1, ClaimValues DEF SignTx, TypeOK, LedgerTypeOK
<1>8. \A c \in Codes : Faithful(claim[c], c)'
  BY SMT, <1>3, <1>5 DEF IInv, Faithful, Signed
<1>9. \A q \in Requests : Faithful(raw[q], CodeOf[q])'
  <2>1. Faithful(raw[r], CodeOf[r])'
    BY <1>1, <1>7 DEF Faithful, Signed
  <2>2. ASSUME NEW q \in Requests, q # r PROVE Faithful(raw[q], CodeOf[q])'
    <3>1. raw'[q] = raw[q] /\ Faithful(raw[q], CodeOf[q])
      BY <1>1, <2>2 DEF IInv, TypeOK
    <3>2. Signed(raw[q]) => raw[q].tx \in Tx \ {r}
      BY <1>3, <3>1 DEF Faithful
    <3>3. Signed(raw[q]) => expiry'[raw[q].tx] = expiry[raw[q].tx]
      BY <1>5, <3>2
    <3> QED BY <3>1, <3>2, <3>3 DEF Faithful, Signed
  <2> QED BY <2>1, <2>2
<1>10. (\A q \in Requests : Fresh(q) =>
          /\ \A c \in Codes : Signed(claim[c]) => claim[c].tx # q
          /\ \A s \in Requests : Signed(raw[s]) => raw[s].tx # q)'
  <2> SUFFICES ASSUME NEW q \in Requests, Fresh(q)'
               PROVE  /\ \A c \in Codes : Signed(claim[c]) => claim[c].tx # q
                      /\ \A s \in Requests : Signed(raw'[s]) => raw'[s].tx # q
    BY DEF Signed
  <2>1. q # r /\ Fresh(q)
    BY <1>1, RequestFootprint DEF Fresh, TypeOK
  <2>2. /\ \A c \in Codes : Signed(claim[c]) => claim[c].tx # q
        /\ \A s \in Requests : Signed(raw[s]) => raw[s].tx # q
    BY <2>1 DEF IInv
  <2>3. \A s \in Requests : s # r => raw'[s] = raw[s]
    BY <1>1 DEF TypeOK
  <2> QED BY <1>7, <2>1, <2>2, <2>3
<1>11. \A q \in Requests : Knows(q)'
  <2>1. Knows(r)'
    BY <1>1, <1>7 DEF Knows, SignTx, TypeOK
  <2>2. ASSUME NEW q \in Requests, q # r PROVE Knows(q)'
    <3>1. /\ Knows(q) /\ pc'[q] = pc[q] /\ raw'[q] = raw[q] /\ q \in Tx
          /\ Signed(raw[q]) => raw[q].tx \in Tx \ {r}
      <4>1. pc'[q] = pc[q] /\ raw'[q] = raw[q]
        BY <1>1, <2>2 DEF TypeOK
      <4>2. Knows(q) /\ Faithful(raw[q], CodeOf[q]) /\ q \in Tx
        BY DEF IInv
      <4> QED BY <1>3, <4>1, <4>2 DEF Faithful
    <3> QED BY SMT, <1>5, <1>6, <2>2, <3>1 DEF Knows, Signed, Holds, SignTx
  <2> QED BY <2>1, <2>2
<1>12. LivePayoutHoldsClaim' /\ (\A t \in pool : CodeOf[t] \notin burned)'
  BY SMT, <1>1, <1>2, <1>5 DEF IInv, LivePayoutHoldsClaim, Holds, SignTx, TypeOK, LedgerTypeOK
<1>13. RedeemedIsFinal' /\ AnswersAreTrue'
  BY DEF IInv, RedeemedIsFinal, AnswersAreTrue, AnswerIsTrue, Landed, SignTx
<1> QED BY <1>1, <1>4, <1>8, <1>9, <1>10, <1>11, <1>12, <1>13 DEF IInv

(* Sending: the claim already names the payout, or it can no longer land.   *)
LEMMA BroadcastKeepsIInv ==
  ASSUME IInv, NEW r \in Requests, Broadcast(r)
  PROVE  IInv'
<1> USE RedeemAssumption
<1>1. TypeOK /\ TypeOK' /\ LedgerInv /\ r \in Tx /\ Knows(r) /\ RequestStep(r)
  BY RequestTypes DEF IInv, RequestStep
<1>2. /\ pool' = pool \/ pool' = pool \cup {r}
      /\ pc'[r] = "await" => pool' = pool \cup {r}
      /\ pc'[r] = "rejected" => pool' = pool
      /\ pc'[r] \in {"await", "rejected", "done"} /\ pc[r] = "send"
      /\ UNCHANGED <<height, confirmed, final, expiry, block, failed, forks,
                     claim, burned, reconciled, raw, tip>>
      /\ reply'[r] \in {reply[r], "pending"}
  BY <1>1 DEF Broadcast, SendTx, Goto, Answer, TypeOK
<1>3. LedgerInv'
  BY <1>1, <1>2 DEF LedgerInv, LedgerTypeOK
<1>4. \A t \in Tx : /\ Dead(t)' <=> Dead(t)
                    /\ Landed(t)' <=> Landed(t)
                    /\ LandedForGood(t)' <=> LandedForGood(t)
  BY <1>2 DEF Dead, Landed, LandedForGood
<1>5. /\ \A c \in Codes : Faithful(claim[c], c)'
      /\ \A q \in Requests : Faithful(raw[q], CodeOf[q])'
  BY <1>2 DEF IInv, Faithful, Signed
<1>6. (\A q \in Requests : Fresh(q) =>
         /\ \A c \in Codes : Signed(claim[c]) => claim[c].tx # q
         /\ \A s \in Requests : Signed(raw[s]) => raw[s].tx # q)'
  BY <1>1, <1>2, RequestFootprint DEF IInv, Signed
<1>7. \A q \in Requests : Knows(q)'
  <2>1. Knows(r)'
    <3>1. raw[r].kind = "pending" /\ raw[r].tx = r /\ raw[r] = Pending(r, expiry[r])
      <4>1. raw[r] = Pending(r, expiry[r])
        BY <1>1 DEF Broadcast, Knows
      <4> QED BY <1>1, <4>1, OwnClaim
    <3> QED BY <1>1, <1>2, <3>1 DEF Knows, Pending
  <2>2. ASSUME NEW q \in Requests, q # r PROVE Knows(q)'
    <3>1. /\ Knows(q) /\ pc'[q] = pc[q] /\ q \in Tx
          /\ Signed(raw[q]) => raw[q].tx \in Tx
      <4>1. pc'[q] = pc[q]
        BY <1>1, <2>2, RequestFootprint DEF OthersKeep
      <4>2. Knows(q) /\ Faithful(raw[q], CodeOf[q]) /\ q \in Tx
        BY DEF IInv
      <4> QED BY <4>1, <4>2 DEF Faithful
    <3> QED BY SMT, <1>2, <1>4, <2>2, <3>1 DEF Knows, Signed, Holds
  <2> QED BY <2>1, <2>2
<1>8. LivePayoutHoldsClaim'
  BY SMT, <1>1, <1>2, <1>4 DEF IInv, LivePayoutHoldsClaim, Holds, Knows, TypeOK, LedgerTypeOK
<1>9. (\A t \in pool : CodeOf[t] \notin burned)'
  BY SMT, <1>1, <1>2 DEF IInv, Knows
<1>10. RedeemedIsFinal'
  BY <1>2 DEF IInv, RedeemedIsFinal, Landed
<1>11. AnswersAreTrue'
  <2> SUFFICES ASSUME NEW q \in Requests PROVE AnswerIsTrue(q)'
    BY DEF AnswersAreTrue
  <2>1. AnswerIsTrue(q) /\ (reply'[q] = reply[q] \/ reply'[q] = "pending")
    BY <1>1, <1>2, RequestFootprint DEF IInv, AnswersAreTrue, OthersKeep
  <2> QED BY <1>2, <2>1 DEF AnswerIsTrue, Landed
<1> QED BY <1>1, <1>3, <1>5, <1>6, <1>7, <1>8, <1>9, <1>10, <1>11 DEF IInv

(* Every step of a request keeps the invariant.                             *)
LEMMA RequestStepKeepsIInv ==
  ASSUME IInv, NEW r \in Requests, RequestStep(r)
  PROVE  IInv'
<1> USE RedeemAssumption
<1> DEFINE c == CodeOf[r]
<1>0. OthersKeep(r) /\ \A q \in Requests : Fresh(q)' => Fresh(q)
  BY RequestFootprint
<1>1. TypeOK /\ TypeOK' /\ LedgerInv /\ Knows(r) /\ AnswerIsTrue(r) /\ Faithful(raw[r], c)
  BY RequestTypes DEF IInv, AnswersAreTrue
<1>2. r \in Tx /\ c \in Codes /\ Faithful(claim[c], c)
  BY DEF IInv
<1>3. \A q \in Requests : Fresh(q) =>
        ~(Signed(claim[c]) /\ claim[c].tx = q) /\ ~(Signed(raw[r]) /\ raw[r].tx = q)
  BY <1>2 DEF IInv
<1>4. CASE Scan(r)
  <2>0. \/ c \notin burned /\ Goto(r, "claim")
        \/ c \in burned /\ Answer(r, "redeemed")
        \/ Answer(r, "error")
    BY <1>4 DEF Scan, FindPriorBurn
  <2>1. Knows(r)'
    BY SMT, <1>1, <1>4, <2>0 DEF Scan, Goto, Answer, Knows, TypeOK, ledgerVars
  <2>2. AnswerIsTrue(r)'
    BY <1>1, <1>4, <2>0 DEF Scan, Goto, Answer, AnswerIsTrue, Landed, TypeOK, ledgerVars
  <2> QED BY <1>1, <1>2, <1>3, <1>4, <2>1, <2>2, LocalStep, <1>0 DEF Scan
<1>5. CASE ReadClaim(r)
  <2>1. raw'[r] = raw[r] \/ (raw'[r] = claim[c] /\ claim[c].kind = "pending")
    BY <1>1, <1>5 DEF ReadClaim, TypeOK
  <2>2. Knows(r)'
    <3>1. /\ pc'[r] \in {"claim", "tip", "done"} /\ pc[r] = "read"
          /\ pc'[r] = "claim" => r \notin pool
          /\ pc'[r] = "tip" => raw'[r].kind = "pending"
          /\ UNCHANGED <<ledgerVars, burned, tip>>
      BY <1>1, <1>5 DEF ReadClaim, AfterRelease, Goto, Answer, TypeOK
    <3> QED BY <1>1, <3>1 DEF Knows, ledgerVars
  <2>3. claim[c].kind = "confirmed" => LandedForGood(claim[c].tx)
    BY <1>2 DEF IInv, RedeemedIsFinal, LandedForGood
  <2>4. AnswerIsTrue(r)'
    BY SMT, <1>1, <1>2, <1>5, <2>3
       DEF ReadClaim, AfterRelease, Goto, Answer, AnswerIsTrue, Faithful, Signed, LandedForGood,
           Landed, TypeOK, ledgerVars
  <2> QED BY <1>1, <1>2, <1>3, <1>5, <2>1, <2>2, <2>4, LocalStep, <1>0 DEF ReadClaim
<1>6. CASE ReadTip(r)
  <2>1. Knows(r)'
    <3>1. /\ pc'[r] \in {"status", "done"} /\ tip'[r] <= final /\ raw[r].kind = "pending"
          /\ UNCHANGED <<ledgerVars, burned, raw>> /\ CodeOf[r] \notin burned
      BY SMT, <1>1, <1>6 DEF ReadTip, FinalizedTips, Goto, Answer, Knows, TypeOK, LedgerTypeOK
    <3> QED BY <3>1 DEF Knows, ledgerVars
  <2>2. AnswerIsTrue(r)'
    BY <1>1, <1>6 DEF ReadTip, Goto, Answer, AnswerIsTrue, Landed, TypeOK, ledgerVars
  <2> QED BY <1>1, <1>2, <1>3, <1>6, <2>1, <2>2, LocalStep, <1>0 DEF ReadTip
<1>7. CASE ReadStatus(r)
  <2>1. raw[r].kind = "pending" /\ raw[r].tx \in Tx
    BY <1>1, <1>7 DEF ReadStatus, Knows, Faithful, Signed
  <2>2. /\ pc'[r] = "release" => Dead(raw[r].tx)
        /\ pc'[r] = "history" =>
             final > expiry[raw[r].tx] /\ (Blind = "history" => Dead(raw[r].tx))
    <3> SUFFICES ASSUME pc'[r] \in {"release", "history"}
                 PROVE  /\ pc'[r] = "release" => Dead(raw[r].tx)
                        /\ pc'[r] = "history" =>
                             final > expiry[raw[r].tx] /\ (Blind = "history" => Dead(raw[r].tx))
      OBVIOUS
    <3>1. PICK v \in StatusNodes :
            \E landing \in LandingOf(raw[r].tx, raw[r].lastValid, tip[r], v) :
              /\ pc'[r] = "release" => landing = "Failed"
              /\ pc'[r] = "history" => landing = "Expired"
      BY <1>1, <1>7 DEF ReadStatus, Goto, Answer, TypeOK
    <3>2. /\ tip[r] \in Nat /\ tip[r] <= final
          /\ raw[r].lastValid \in {expiry[raw[r].tx], NoExpiry}
      BY <1>1, <2>1 DEF Knows, Faithful, TypeOK
    <3> QED BY <1>1, <2>1, <3>1, <3>2, StatusRead
  <2>3. Knows(r)'
    <3>1. /\ pc'[r] \in {"finality", "release", "history", "done"}
          /\ UNCHANGED <<ledgerVars, burned, raw, tip>> /\ CodeOf[r] \notin burned
      BY <1>1, <1>7 DEF ReadStatus, Goto, Answer, Knows, TypeOK
    <3> QED BY <1>1, <2>1, <2>2, <3>1 DEF Knows, Dead, Landed, ledgerVars
  <2>4. AnswerIsTrue(r)'
    BY <1>1, <1>7 DEF ReadStatus, Goto, Answer, AnswerIsTrue, Landed, TypeOK, ledgerVars
  <2> QED BY <1>1, <1>2, <1>3, <1>7, <2>3, <2>4, LocalStep, <1>0 DEF ReadStatus
<1>8. CASE ReadFinality(r)
  <2>1. raw[r].kind = "pending" /\ raw[r].tx \in Tx
    BY <1>1, <1>8 DEF ReadFinality, Knows, Faithful, Signed
  <2>2. pc'[r] = "redeem" => LandedForGood(raw[r].tx)
    <3>1. PICK v \in StatusNodes :
            pc'[r] = "redeem" => ClassifySignatureStatus(RpcEntry(raw[r].tx, v)) = "Finalized"
      BY SMT, <1>1, <1>8 DEF ReadFinality, Goto, Answer, TypeOK
    <3> QED BY <1>1, <2>1, <3>1, FinalityRead
  <2>3. Knows(r)'
    <3>1. /\ pc'[r] \in {"redeem", "done"} /\ UNCHANGED <<ledgerVars, burned, raw, tip>>
          /\ CodeOf[r] \notin burned
      BY SMT, <1>1, <1>8 DEF ReadFinality, Goto, Answer, Knows, TypeOK
    <3> QED BY <1>1, <2>1, <2>2, <3>1 DEF Knows, LandedForGood, Landed, ledgerVars
  <2>4. AnswerIsTrue(r)'
    BY <1>1, <1>8 DEF ReadFinality, Goto, Answer, AnswerIsTrue, Landed, TypeOK, ledgerVars
  <2> QED BY <1>1, <1>2, <1>3, <1>8, <2>3, <2>4, LocalStep, <1>0 DEF ReadFinality
<1>9. CASE ReadHistory(r)
  <2>1. raw[r].kind = "pending" /\ raw[r].tx \in Tx
    BY <1>1, <1>9 DEF ReadHistory, Knows, Faithful, Signed
  <2>2. pc'[r] = "release" => Dead(raw[r].tx)
    BY <1>1, <1>9, <2>1
       DEF ReadHistory, HistoryFinds, Goto, Answer, Knows, Dead, Landed, TypeOK
  <2>3. Knows(r)'
    BY SMT, <1>1, <1>9, <2>1, <2>2 DEF ReadHistory, Goto, Answer, Knows, Dead, Landed, TypeOK, ledgerVars
  <2>4. AnswerIsTrue(r)'
    BY <1>1, <1>9 DEF ReadHistory, Goto, Answer, AnswerIsTrue, Landed, TypeOK, ledgerVars
  <2> QED BY <1>1, <1>2, <1>3, <1>9, <2>3, <2>4, LocalStep, <1>0 DEF ReadHistory
<1>10. CASE Await(r)
  <2>1. raw[r].kind = "pending" /\ raw[r].tx = r
    BY <1>1, <1>10 DEF Await, Knows
  <2>2. pc'[r] = "paid" => LandedForGood(r)
    BY <1>1, <1>2, <1>10, FinalityRead DEF Await, Goto, Answer, TypeOK
  <2>3. Knows(r)'
    BY SMT, <1>1, <1>10, <2>1, <2>2
       DEF Await, Goto, Answer, Knows, LandedForGood, Landed, TypeOK, ledgerVars
  <2>4. AnswerIsTrue(r)'
    BY <1>1, <1>10 DEF Await, Goto, Answer, AnswerIsTrue, Landed, TypeOK, ledgerVars
  <2> QED BY <1>1, <1>2, <1>3, <1>10, <2>3, <2>4, LocalStep, <1>0 DEF Await
<1>11. CASE Drop(r)
  <2>1. Knows(r)'
    BY <1>1, <1>11 DEF Drop, Knows, TypeOK, ledgerVars
  <2>2. AnswerIsTrue(r)'
    BY <1>1, <1>11 DEF Drop, AnswerIsTrue, Landed, TypeOK, ledgerVars
  <2> QED BY <1>1, <1>2, <1>3, <1>11, <2>1, <2>2, LocalStep, <1>0 DEF Drop
<1>12. CASE Acquire(r)
  <2> DEFINE new == Claimed(DestOf[r])
  <2>1. new.kind = "claimed" /\ NoClaim.kind = "none"
    BY ClaimValues
  <2>2. claim' = claim \/ (claim[c] = NoClaim /\ claim' = [claim EXCEPT ![c] = new])
    BY <1>12, TransitionEffect DEF Acquire, Set
  <2>3. Faithful(new, c) /\ (claim[c] = NoClaim => LosesNothing(c, new))
    BY <2>1 DEF Faithful, Signed, LosesNothing, Holds
  <2>4. Knows(r)'
    BY SMT, <1>1, <1>12 DEF Acquire, Goto, Answer, Knows, TypeOK, ledgerVars
  <2>5. AnswerIsTrue(r)'
    BY <1>1, <1>12 DEF Acquire, Goto, Answer, AnswerIsTrue, Landed, TypeOK, ledgerVars
  <2> HIDE DEF new
  <2> QED BY <1>1, <1>3, <1>12, <2>1, <2>2, <2>3, <2>4, <2>5, LocalStep, <1>0
          DEF Acquire, Signed
<1>13. CASE ReleaseSigned(r)
  <2>1. raw[r].kind = "pending" /\ Dead(raw[r].tx) /\ NoClaim.kind = "none"
    BY <1>1, <1>13, ClaimValues DEF ReleaseSigned, Knows
  <2>2. claim' = claim \/ (claim[c] = raw[r] /\ claim' = [claim EXCEPT ![c] = NoClaim])
    BY <1>13, TransitionEffect DEF ReleaseSigned
  <2>3. Faithful(NoClaim, c) /\ (claim[c] = raw[r] => LosesNothing(c, NoClaim))
    BY <2>1 DEF Faithful, Signed, LosesNothing, Holds
  <2>4. Knows(r)'
    BY SMT, <1>1, <1>13 DEF ReleaseSigned, AfterRelease, Goto, Answer, Knows, TypeOK, ledgerVars
  <2>5. AnswerIsTrue(r)'
    BY <1>1, <1>13
       DEF ReleaseSigned, AfterRelease, Goto, Answer, AnswerIsTrue, Landed, TypeOK, ledgerVars
  <2> QED BY <1>1, <1>3, <1>13, <2>1, <2>2, <2>3, <2>4, <2>5, LocalStep, <1>0
          DEF ReleaseSigned, Signed
<1>14. CASE MarkRedeemed(r)
  <2> DEFINE t == raw[r].tx
             new == Confirmed(t)
  <2>1. /\ raw[r].kind = "pending" /\ t \in Tx /\ CodeOf[t] = c /\ LandedForGood(t)
        /\ pc[r] = "paid" => t = r
    BY <1>1, <1>14 DEF MarkRedeemed, Knows, Faithful, Signed
  <2>2. new.kind = "confirmed" /\ new.tx = t
    BY <2>1, ClaimValues
  <2>3. claim' = claim \/ (claim[c] = raw[r] /\ claim' = [claim EXCEPT ![c] = new])
    <3>1. MaybeTransition(c, raw[r], new)
      BY <1>14 DEF MarkRedeemed
    <3> QED BY <3>1 DEF MaybeTransition, TransitionClaim, Set
  <2>4. Faithful(new, c) /\ (claim[c] = raw[r] => LosesNothing(c, new))
    BY <2>1, <2>2 DEF Faithful, Signed, LosesNothing, Holds
  <2>5. Knows(r)'
    BY <1>1, <1>14 DEF MarkRedeemed, Answer, Knows, TypeOK, ledgerVars
  <2>6. AnswerIsTrue(r)'
    BY SMT, <1>1, <1>2, <1>14, <2>1
       DEF MarkRedeemed, Answer, AnswerIsTrue, LandedForGood, Landed, TypeOK, ledgerVars
  <2>7. \A q \in Requests : Fresh(q)' => new.tx # q
    BY <1>3, <2>1, <2>2, <1>0 DEF Signed
  <2> HIDE DEF new
  <2> QED BY SMT, <1>1, <1>3, <1>14, <2>1, <2>2, <2>3, <2>4, <2>5, <2>6, <2>7, LocalStep,
             <1>0 DEF MarkRedeemed, Signed
<1>15. CASE RecordPending(r)
  <2> DEFINE mine == Claimed(DestOf[r])
  <2>1. mine.kind = "claimed" /\ raw[r] = Pending(r, expiry[r]) /\ r \notin pool
    BY <1>1, <1>15, ClaimValues DEF RecordPending, Knows
  <2>2. raw[r].kind = "pending" /\ raw[r].tx = r
    BY <1>1, <2>1, OwnClaim
  <2>3. claim' = claim \/ (claim[c] = mine /\ claim' = [claim EXCEPT ![c] = raw[r]])
    BY <1>15, TransitionEffect DEF RecordPending, Set
  <2>4. claim[c] = mine => LosesNothing(c, raw[r])
    BY <2>1 DEF LosesNothing, Holds
  <2>5. pc'[r] = "send" => claim'[c] = raw[r]
    BY <1>1, <1>2, <1>15 DEF RecordPending, Goto, Answer, Set, TypeOK
  <2>6. Knows(r)'
    BY SMT, <1>1, <1>2, <1>15, <2>1, <2>2, <2>5
       DEF RecordPending, Goto, Answer, Knows, Holds, Pending, TypeOK, ledgerVars
  <2>7. AnswerIsTrue(r)'
    BY <1>1, <1>15 DEF RecordPending, Goto, Answer, AnswerIsTrue, Landed, TypeOK, ledgerVars
  <2> QED BY SMT, <1>1, <1>3, <1>15, <2>1, <2>2, <2>3, <2>4, <2>6, <2>7, LocalStep, <1>0
          DEF RecordPending
<1>16. CASE ReleaseUnsigned(r)
  <2>1. Claimed(DestOf[r]).kind = "claimed" /\ NoClaim.kind = "none"
    BY ClaimValues
  <2>2. \/ claim' = claim
        \/ claim[c] = Claimed(DestOf[r]) /\ claim' = [claim EXCEPT ![c] = NoClaim]
    BY <1>16, TransitionEffect DEF ReleaseUnsigned
  <2>3. Faithful(NoClaim, c) /\ (claim[c] = Claimed(DestOf[r]) => LosesNothing(c, NoClaim))
    BY <2>1 DEF Faithful, Signed, LosesNothing, Holds
  <2>4. Knows(r)'
    BY <1>1, <1>16 DEF ReleaseUnsigned, Answer, Knows, TypeOK, ledgerVars
  <2>5. AnswerIsTrue(r)'
    BY <1>1, <1>16 DEF ReleaseUnsigned, Answer, AnswerIsTrue, Landed, TypeOK, ledgerVars
  <2> QED BY <1>1, <1>3, <1>16, <2>1, <2>2, <2>3, <2>4, <2>5, LocalStep, <1>0
          DEF ReleaseUnsigned, Signed
<1>17. CASE ReleaseRejected(r)
  <2>1. raw[r] = Pending(r, expiry[r]) /\ r \notin pool /\ NoClaim.kind = "none"
    BY <1>1, <1>17, ClaimValues DEF ReleaseRejected, Knows
  <2>2. raw[r].kind = "pending" /\ raw[r].tx = r
    BY <1>1, <2>1, OwnClaim
  <2>3. claim' = claim \/ (claim[c] = raw[r] /\ claim' = [claim EXCEPT ![c] = NoClaim])
    BY <1>17, TransitionEffect DEF ReleaseRejected
  <2>4. Faithful(NoClaim, c) /\ (claim[c] = raw[r] => LosesNothing(c, NoClaim))
    BY <1>17, <2>1, <2>2 DEF ReleaseRejected, Faithful, Signed, LosesNothing, Holds
  <2>5. Knows(r)'
    BY <1>1, <1>17 DEF ReleaseRejected, Answer, Knows, TypeOK, ledgerVars
  <2>6. AnswerIsTrue(r)'
    BY <1>1, <1>17 DEF ReleaseRejected, Answer, AnswerIsTrue, Landed, TypeOK, ledgerVars
  <2> QED BY <1>1, <1>3, <1>17, <2>1, <2>3, <2>4, <2>5, <2>6, LocalStep, <1>0
          DEF ReleaseRejected, Signed
<1>18. CASE Sign(r)
  <2>1. ASSUME NEW lastValid \in RecentExpiries, SignTx(r, lastValid),
               raw' = [raw EXCEPT ![r] = Pending(r, lastValid)], Goto(r, "record")
        PROVE  IInv'
    <3>1. lastValid \in Nat
      BY SMT, LedgerAssumption DEF RecentExpiries
    <3>2. pc[r] = "sign" /\ UNCHANGED <<claim, burned, reconciled, tip>>
      BY <1>18 DEF Sign
    <3> QED BY <2>1, <3>1, <3>2, SignKeepsIInv DEF Goto
  <2>2. CASE Goto(r, "unclaim") /\ UNCHANGED <<ledgerVars, raw>>
    <3>1. Knows(r)'
      BY <1>1, <1>18, <2>2 DEF Sign, Goto, Knows, TypeOK, ledgerVars
    <3>2. AnswerIsTrue(r)'
      BY <1>1, <1>18, <2>2 DEF Sign, Goto, AnswerIsTrue, Landed, TypeOK, ledgerVars
    <3> QED BY <1>1, <1>2, <1>3, <1>18, <2>2, <3>1, <3>2, LocalStep, <1>0 DEF Sign
  <2> QED BY <1>18, <2>1, <2>2 DEF Sign
<1>19. CASE Broadcast(r)
  BY <1>19, BroadcastKeepsIInv
<1> QED BY <1>4, <1>5, <1>6, <1>7, <1>8, <1>9, <1>10, <1>11, <1>12, <1>13, <1>14, <1>15, <1>16,
           <1>17, <1>18, <1>19 DEF RequestStep

(* The cluster's steps keep the invariant, and so does stuttering.          *)
LEMMA LedgerStepKeepsIInv ==
  ASSUME IInv, LedgerNext \/ UNCHANGED ledgerVars, UNCHANGED <<claim, burned, reqVars>>
  PROVE  IInv'
<1> USE RedeemAssumption
<1>1. LedgerInv' /\ expiry' = expiry /\ pool' = pool /\ final <= final' /\ final' \in Nat
  <2>1. CASE LedgerNext
    <3>1. LedgerInv
      BY DEF IInv
    <3> QED BY <2>1, <3>1, LedgerStep, LedgerKeeps
  <2>2. CASE UNCHANGED ledgerVars
    BY SMT, <2>2 DEF IInv, LedgerInv, LedgerTypeOK, ledgerVars
  <2> QED BY <2>1, <2>2
<1>2. TypeOK /\ LedgerInv
  BY DEF IInv
<1>3. TypeOK'
  BY <1>1, <1>2 DEF TypeOK, LedgerInv, reqVars
<1>4. \A t \in Tx : (Dead(t) => Dead(t)') /\ (LandedForGood(t) => LandedForGood(t)')
  <2>1. CASE LedgerNext
    BY <1>2, <2>1, DeadStaysDead, LandedStays
  <2>2. CASE UNCHANGED ledgerVars
    BY <2>2 DEF Dead, Landed, LandedForGood, ledgerVars
  <2> QED BY <2>1, <2>2
<1>5. /\ \A c \in Codes : Faithful(claim[c], c)'
      /\ \A q \in Requests : Faithful(raw[q], CodeOf[q])'
  BY <1>1 DEF IInv, Faithful, Signed, reqVars
<1>6. (\A q \in Requests : Fresh(q) =>
         /\ \A c \in Codes : Signed(claim[c]) => claim[c].tx # q
         /\ \A s \in Requests : Signed(raw[s]) => raw[s].tx # q)'
  BY <1>1 DEF IInv, Fresh, Signed, reqVars
<1>7. \A q \in Requests : Knows(q)'
  <2> SUFFICES ASSUME NEW q \in Requests PROVE Knows(q)'
    OBVIOUS
  <2>1. Knows(q) /\ q \in Tx /\ (Signed(raw[q]) => raw[q].tx \in Tx)
    BY DEF IInv, Faithful
  <2>2. tip[q] <= final'
    <3>1. tip[q] \in Nat /\ tip[q] <= final /\ final \in Nat
      BY <1>2, <2>1 DEF Knows, TypeOK, LedgerTypeOK
    <3> QED BY SMTT(30), <1>1, <3>1
  <2>3. \A t \in Tx : final > expiry[t] => final' > expiry'[t]
    BY SMT, <1>1, <1>2 DEF TypeOK, LedgerTypeOK
  <2> QED BY <1>1, <1>4, <2>1, <2>2, <2>3 DEF Knows, Signed, Holds, reqVars
<1>8. LivePayoutHoldsClaim' /\ (\A t \in pool : CodeOf[t] \notin burned)'
  BY <1>1, <1>2, <1>4 DEF IInv, LivePayoutHoldsClaim, Holds, TypeOK, LedgerTypeOK
<1>9. RedeemedIsFinal'
  BY <1>4 DEF IInv, RedeemedIsFinal, LandedForGood, Faithful, Signed
<1>10. AnswersAreTrue'
  <2> SUFFICES ASSUME NEW q \in Requests PROVE AnswerIsTrue(q)'
    BY DEF AnswersAreTrue
  <2>1. AnswerIsTrue(q) /\ q \in Tx
    BY DEF IInv, AnswersAreTrue
  <2> QED BY <1>4, <2>1 DEF AnswerIsTrue, LandedForGood, reqVars
<1> QED BY <1>1, <1>3, <1>5, <1>6, <1>7, <1>8, <1>9, <1>10 DEF IInv

(* The initial states satisfy the invariant.                                *)
LEMMA InitIInv == ASSUME Init PROVE IInv
<1> USE RedeemAssumption, LedgerAssumption
<1> DEFINE LegacyOf(c) == CHOOSE t \in pool : CodeOf[t] = c
<1>0. pool \subseteq Legacy
  BY DEF Init
<1>1. \A t \in pool : LegacyOf(CodeOf[t]) = t
  BY <1>0
<1>2. \A c \in Codes :
        \/ claim[c] = NoClaim /\ claim[c].kind = "none" /\ (\A t \in pool : CodeOf[t] # c)
        \/ \E t \in pool : /\ CodeOf[t] = c /\ claim[c] = Pending(t, NoExpiry)
                             /\ claim[c].kind = "pending" /\ claim[c].tx = t
                             /\ claim[c].lastValid = NoExpiry
  <2> SUFFICES ASSUME NEW c \in Codes
               PROVE  \/ claim[c] = NoClaim /\ (\A t \in pool : CodeOf[t] # c)
                      \/ \E t \in pool : CodeOf[t] = c /\ claim[c] = Pending(t, NoExpiry)
    <3>1. NoClaim.kind = "none"
      BY ClaimValues
    <3>2. \A t \in pool : LET p == Pending(t, NoExpiry)
                           IN  p.kind = "pending" /\ p.tx = t /\ p.lastValid = NoExpiry
      BY <1>0, LegacyClaim
    <3> QED BY SMT, <3>1, <3>2
  <2>1. CASE \E t \in pool : CodeOf[t] = c
    <3>1. PICK t \in pool : CodeOf[t] = c
      BY <2>1
    <3>2. claim[c] = Pending(LegacyOf(c), NoExpiry)
      BY <2>1 DEF Init
    <3> QED BY <1>1, <3>1, <3>2
  <2>2. CASE ~\E t \in pool : CodeOf[t] = c
    BY <2>2 DEF Init
  <2> QED BY <2>1, <2>2
<1>3. \A c \in Codes : claim[c] \in ClaimState /\ Faithful(claim[c], c)
  <2> SUFFICES ASSUME NEW c \in Codes PROVE claim[c] \in ClaimState /\ Faithful(claim[c], c)
    OBVIOUS
  <2>1. CASE claim[c] = NoClaim /\ claim[c].kind = "none"
    BY <2>1, ClaimValues DEF Faithful, Signed
  <2>2. ASSUME NEW t \in pool, CodeOf[t] = c, claim[c] = Pending(t, NoExpiry),
               claim[c].kind = "pending", claim[c].tx = t, claim[c].lastValid = NoExpiry
        PROVE  claim[c] \in ClaimState /\ Faithful(claim[c], c)
    BY SMT, <1>0, <2>2, LegacyClaim DEF Faithful, Signed
  <2> QED BY <1>2, <2>1, <2>2
<1>4. LedgerInv
  BY SMT, <1>0 DEF Init, LedgerInv, LedgerTypeOK
<1>5. TypeOK
  BY <1>3, <1>4, ClaimValues DEF Init, TypeOK, LedgerInv
<1>6. \A r \in Requests : raw[r].kind = "none" /\ pc[r] = "scan" /\ tip[r] = 0
  BY ClaimValues DEF Init
<1>7. \A r \in Requests : Faithful(raw[r], CodeOf[r]) /\ Knows(r)
  BY SMT, <1>0, <1>6 DEF Init, Faithful, Signed, Knows
<1>8. \A r \in Requests :
        /\ \A c \in Codes : Signed(claim[c]) => claim[c].tx # r
        /\ \A q \in Requests : Signed(raw[q]) => raw[q].tx # r
  BY SMT, <1>0, <1>2, <1>6 DEF Signed
<1>9. LivePayoutHoldsClaim /\ \A t \in pool : CodeOf[t] \notin burned
  BY SMT, <1>0, <1>2 DEF Init, LivePayoutHoldsClaim, Holds
<1>10. RedeemedIsFinal /\ AnswersAreTrue
  BY <1>2 DEF Init, RedeemedIsFinal, AnswersAreTrue, AnswerIsTrue
<1> QED BY <1>3, <1>4, <1>5, <1>7, <1>8, <1>9, <1>10 DEF IInv

-----------------------------------------------------------------------------
(* The theorems.                                                            *)

(* The inductive invariant holds in every reachable state.                  *)
THEOREM IInvHolds == Spec => []IInv
<1>1. Init => IInv
  BY InitIInv
<1>2. IInv /\ [Next]_vars => IInv'
  <2> SUFFICES ASSUME IInv, [Next]_vars PROVE IInv'
    OBVIOUS
  <2>1. CASE Next
    BY <2>1, RequestStepKeepsIInv, LedgerStepKeepsIInv DEF Next
  <2>2. CASE UNCHANGED vars
    BY <2>2, LedgerStepKeepsIInv DEF vars
  <2> QED BY <2>1, <2>2
<1> QED BY <1>1, <1>2, PTL DEF Spec

(* Every variable keeps its type.                                           *)
THEOREM TypeCorrect == Spec => []TypeOK
BY IInvHolds, PTL DEF IInv

(* A payout that may still land, or has, is named by its code's claim       *)
(* (release_signed_claim only runs with a ReleaseProof).                    *)
THEOREM ClaimsAreHeld == Spec => []LivePayoutHoldsClaim
BY IInvHolds, PTL DEF IInv

(* The invariant implies that no code is paid twice.                        *)
LEMMA IInvPaysOnce == ASSUME IInv PROVE CodePaidOnce
<1> SUFFICES ASSUME NEW t \in Tx, NEW u \in Tx, CodeOf[t] = CodeOf[u], Landed(t)
             PROVE  CodeOf[t] \notin burned /\ (Landed(u) => t = u)
  BY DEF CodePaidOnce
<1>1. \A x \in Tx : Landed(x) => x \in pool /\ Holds(CodeOf[x], x)
  BY LandedIsLive DEF IInv, LivePayoutHoldsClaim
<1>2. CodeOf[t] \notin burned
  BY <1>1 DEF IInv
<1> QED BY <1>1, <1>2 DEF Holds

(* No code is paid twice, whatever number of requests, replicas, failing    *)
(* Redis calls and forks there are (redeem).                                *)
THEOREM PaidOnce == Spec => []CodePaidOnce
BY IInvPaysOnce, IInvHolds, PTL

(* A code is marked redeemed only by a finalized payout                     *)
(* (mark_claim_redeemed takes a FinalizedPayout).                           *)
THEOREM RedeemedByFinal == Spec => []RedeemedIsFinal
BY IInvHolds, PTL DEF IInv

(* The definite answers of the endpoint are true.                           *)
THEOREM TrueAnswers == Spec => []AnswersAreTrue
BY IInvHolds, PTL DEF IInv

(* A step of a request leaves a redeemed claim as it is.                    *)
LEMMA RequestKeepsRedeemed ==
  ASSUME IInv, NEW r \in Requests, RequestStep(r), NEW c \in Codes, claim[c].kind = "confirmed"
  PROVE  claim'[c] = claim[c]
<1> USE RedeemAssumption
<1>1. /\ NoClaim.kind # "confirmed" /\ Claimed(DestOf[r]).kind # "confirmed"
      /\ pc[r] \in {"release", "redeem", "paid", "rejected"} => raw[r].kind # "confirmed"
      /\ TypeOK
  <2>1. Knows(r) /\ TypeOK /\ r \in Tx
    BY DEF IInv
  <2>2. pc[r] = "rejected" => raw[r].kind = "pending"
    BY <2>1, OwnClaim DEF Knows
  <2> QED BY <2>1, <2>2, ClaimValues DEF Knows
<1> DEFINE Changes(expected) ==
      claim[CodeOf[r]] = expected /\ \E new : claim' = [claim EXCEPT ![CodeOf[r]] = new]
<1>2. CASE Acquire(r)
  <2>1. claim' = claim \/ Changes(NoClaim)
    BY <1>2, TransitionEffect DEF Acquire, Set
  <2> QED BY <1>1, <2>1 DEF TypeOK
<1>3. CASE ReleaseSigned(r) \/ ReleaseRejected(r)
  <2>1. claim' = claim \/ Changes(raw[r])
    BY <1>3, TransitionEffect DEF ReleaseSigned, ReleaseRejected
  <2> QED BY <1>1, <1>3, <2>1 DEF TypeOK, ReleaseSigned, ReleaseRejected
<1>4. CASE MarkRedeemed(r)
  <2>1. claim' = claim \/ Changes(raw[r])
    <3>1. MaybeTransition(CodeOf[r], raw[r], Confirmed(raw[r].tx))
      BY <1>4 DEF MarkRedeemed
    <3> QED BY <3>1 DEF MaybeTransition, TransitionClaim, Set
  <2> QED BY <1>1, <1>4, <2>1 DEF TypeOK, MarkRedeemed
<1>5. CASE RecordPending(r) \/ ReleaseUnsigned(r)
  <2>1. claim' = claim \/ Changes(Claimed(DestOf[r]))
    BY <1>5, TransitionEffect DEF RecordPending, ReleaseUnsigned, Set
  <2> QED BY <1>1, <2>1 DEF TypeOK
<1>6. CASE \/ Scan(r) \/ ReadClaim(r) \/ ReadTip(r) \/ ReadStatus(r) \/ ReadFinality(r)
           \/ ReadHistory(r) \/ Sign(r) \/ Broadcast(r) \/ Await(r) \/ Drop(r)
  BY <1>6 DEF Scan, ReadClaim, ReadTip, ReadStatus, ReadFinality, ReadHistory, Sign, Broadcast,
              Await, Drop
<1> QED BY <1>2, <1>3, <1>4, <1>5, <1>6 DEF RequestStep

(* A redeemed claim never changes again (transition_claim compares).        *)
THEOREM RedeemedStays == Spec => RedeemedForever
<1> DEFINE Keeps == \A c \in Codes : claim[c].kind = "confirmed" => claim'[c] = claim[c]
<1>1. IInv /\ [Next]_vars => [Keeps]_vars
  <2> SUFFICES ASSUME IInv, Next, NEW c \in Codes, claim[c].kind = "confirmed"
               PROVE  claim'[c] = claim[c]
    OBVIOUS
  <2> QED BY RequestKeepsRedeemed DEF Next
<1> QED BY <1>1, IInvHolds, PTL DEF Spec, RedeemedForever

-----------------------------------------------------------------------------
(* The refinement of Payout.                                                *)

Credits(c) == {t \in Tx : CodeOf[t] = c /\ LandedForGood(t)}

(* A step of the cluster credits codes, each by one payout.                 *)
LEMMA LedgerStepPays ==
  ASSUME IInv, CodePaidOnce', LedgerNext, UNCHANGED <<claim, burned, reqVars>>
  PROVE  [Abstract!Next]_(Abstract!payoutVars)
<1>1. \A c \in Codes : Credits(c) \subseteq Credits(c)'
  BY LandedStays DEF Credits, IInv
<1>2. \A c \in Codes : \A t, u \in Credits(c)' : t = u
  BY DEF Credits, CodePaidOnce, LandedForGood
<1>3. \A c \in Codes :
        \/ Credits(c)' = Credits(c)
        \/ Credits(c) = {} /\ \E t \in Tx : Credits(c)' = {t}
  <2> SUFFICES ASSUME NEW c \in Codes, Credits(c)' # Credits(c)
               PROVE  Credits(c) = {} /\ \E t \in Tx : Credits(c)' = {t}
    OBVIOUS
  <2>1. PICK t \in Credits(c)' : t \notin Credits(c)
    BY <1>1
  <2>2. Credits(c)' = {t} /\ t \in Tx
    BY SMT, <1>2, <2>1 DEF Credits
  <2> QED BY <1>1, <2>1, <2>2
<1>4. Abstract!Pay
  <2> DEFINE paid == [c \in Codes |-> {t \in Tx : CodeOf[t] = c /\ Landed(t) /\ block[t] <= final}]
  <2>1. paid = [c \in Codes |-> Credits(c)] /\ paid' = [c \in Codes |-> Credits(c)']
    BY DEF Credits, LandedForGood
  <2>2. \A c \in Codes : Credits(c)' \in SUBSET Tx
    BY DEF Credits
  <2>3. paid' \in [Codes -> SUBSET Tx]
    BY <2>1, <2>2
  <2>4. \A c \in Codes : paid'[c] = paid[c] \/ (paid[c] = {} /\ \E t \in Tx : paid'[c] = {t})
    BY <1>3, <2>1
  <2> QED BY <2>3, <2>4 DEF Abstract!Pay
<1> QED BY <1>4 DEF Abstract!Next

(* A step of a request records codes that are credited, and drops none.     *)
LEMMA RequestStepRecords ==
  ASSUME IInv, IInv', NEW r \in Requests, RequestStep(r)
  PROVE  [Abstract!Next]_(Abstract!payoutVars)
<1>1. block' = block /\ failed' = failed /\ final' = final
  BY DEF RequestStep, Scan, Acquire, ReadClaim, ReadTip, ReadStatus, ReadFinality, ReadHistory,
     ReleaseSigned, MarkRedeemed, Sign, RecordPending, ReleaseUnsigned, Broadcast, ReleaseRejected,
     Await, Drop, SignTx, SendTx, ledgerVars
<1>2. \A c \in Codes : claim[c].kind = "confirmed" => claim'[c].kind = "confirmed"
  BY RequestKeepsRedeemed
<1>3. \A t \in Tx : LandedForGood(t)' <=> LandedForGood(t)
  BY <1>1 DEF LandedForGood, Landed
<1>4. \A c \in Codes : claim'[c].kind = "confirmed" =>
        \E t \in Tx : CodeOf[t] = c /\ LandedForGood(t)
  <2> SUFFICES ASSUME NEW c \in Codes, claim'[c].kind = "confirmed"
               PROVE  \E t \in Tx : CodeOf[t] = c /\ LandedForGood(t)
    OBVIOUS
  <2>1. claim'[c].tx \in Tx /\ CodeOf[claim'[c].tx] = c
    BY DEF IInv, Faithful, Signed
  <2>2. LandedForGood(claim[c].tx)'
    BY DEF IInv, RedeemedIsFinal, LandedForGood
  <2>3. LandedForGood(claim'[c].tx)
    BY <1>1, <2>2 DEF LandedForGood, Landed
  <2> QED BY <2>1, <2>3
<1>5. Abstract!Record
  BY <1>1, <1>2, <1>4 DEF Abstract!Record, LandedForGood, Landed
<1> QED BY <1>5 DEF Abstract!Next

(* The redemption endpoint implements the abstract payout: a code is        *)
(* credited by one final payout, and recorded as redeemed after that.       *)
THEOREM RedeemImplementsPayout == Spec => ImplementsPayout
<1>1. Init => Abstract!Init
  <2> SUFFICES ASSUME Init PROVE Abstract!Init
    OBVIOUS
  <2>1. \A t \in Tx : ~Landed(t)
    BY DEF Init, LedgerInit, Landed
  <2>2. \A c \in Codes : claim[c].kind # "confirmed"
    BY <2>1, InitIInv DEF IInv, RedeemedIsFinal, Faithful, Signed
  <2> QED BY <2>1, <2>2 DEF Abstract!Init
<1>2. IInv /\ IInv' /\ CodePaidOnce' /\ [Next]_vars => [Abstract!Next]_(Abstract!payoutVars)
  <2> SUFFICES ASSUME IInv, IInv', CodePaidOnce', [Next]_vars
               PROVE  [Abstract!Next]_(Abstract!payoutVars)
    OBVIOUS
  <2>1. CASE UNCHANGED vars
    BY <2>1 DEF vars, ledgerVars, Abstract!payoutVars, Landed
  <2> QED BY <2>1, LedgerStepPays, RequestStepRecords DEF Next
<1> QED BY <1>1, <1>2, IInvHolds, PaidOnce, PTL DEF Spec, ImplementsPayout, Abstract!Spec
=============================================================================
