---------------------------- MODULE LandingProofs ----------------------------
(***************************************************************************)
(* What the payout proofs need of the ledger and of landing.rs: an          *)
(* invariant of the cluster, that a transaction which can no longer land    *)
(* stays that way, and that confirm_not_landed is right to call a           *)
(* transaction replaceable.                                                 *)
(***************************************************************************)
EXTENDS Landing, TLAPS

(* Commitment levels are ordered, and a transaction executed only after it  *)
(* was sent and no later than its expiry.                                   *)
LedgerInv ==
  /\ LedgerTypeOK
  /\ final <= confirmed /\ confirmed <= height
  /\ \A t \in Tx : block[t] # 0 => t \in pool /\ block[t] <= expiry[t] /\ block[t] <= height
  /\ \A t \in failed : block[t] # 0

(* t executed successfully in a finalized block.                            *)
LandedForGood(t) == Landed(t) /\ block[t] <= final

(* The cluster's own steps keep the ledger's invariant.                     *)
LEMMA LedgerStep == ASSUME LedgerInv, LedgerNext PROVE LedgerInv'
<1> USE LedgerAssumption DEF LedgerInv, LedgerTypeOK
<1>1. CASE NewBlock
  BY <1>1 DEF NewBlock
<1>2. CASE Confirm
  BY <1>2 DEF Confirm
<1>3. CASE Finalize
  BY <1>3 DEF Finalize
<1>4. ASSUME NEW t \in Tx, NEW succeeds \in BOOLEAN, Include(t, succeeds)
      PROVE  LedgerInv'
  BY <1>4 DEF Include
<1>5. ASSUME NEW h \in 0..MaxHeight, Fork(h)
      PROVE  LedgerInv'
  BY <1>5 DEF Fork
<1> QED BY <1>1, <1>2, <1>3, <1>4, <1>5 DEF LedgerNext

(* A transaction that cannot land is never made to land by the cluster.     *)
LEMMA DeadStaysDead ==
  ASSUME LedgerInv, LedgerNext, NEW t \in Tx, Dead(t)
  PROVE  Dead(t)'
<1> USE LedgerAssumption DEF LedgerInv, LedgerTypeOK, Dead, Landed
<1>1. CASE NewBlock
  BY <1>1 DEF NewBlock
<1>2. CASE Confirm
  BY <1>2 DEF Confirm
<1>3. CASE Finalize
  BY <1>3 DEF Finalize
<1>4. ASSUME NEW u \in Tx, NEW succeeds \in BOOLEAN, Include(u, succeeds)
      PROVE  Dead(t)'
  BY <1>4 DEF Include
<1>5. ASSUME NEW h \in 0..MaxHeight, Fork(h)
      PROVE  Dead(t)'
  BY <1>5 DEF Fork
<1> QED BY <1>1, <1>2, <1>3, <1>4, <1>5 DEF LedgerNext

(* The cluster never takes back a successful finalized transaction.         *)
LEMMA LandedStays ==
  ASSUME LedgerInv, LedgerNext, NEW t \in Tx, LandedForGood(t)
  PROVE  LandedForGood(t)'
<1> USE LedgerAssumption DEF LedgerInv, LedgerTypeOK, LandedForGood, Landed
<1>1. CASE NewBlock
  BY <1>1 DEF NewBlock
<1>2. CASE Confirm
  BY <1>2 DEF Confirm
<1>3. CASE Finalize
  BY <1>3 DEF Finalize
<1>4. ASSUME NEW u \in Tx, NEW succeeds \in BOOLEAN, Include(u, succeeds)
      PROVE  LandedForGood(t)'
  BY <1>4 DEF Include
<1>5. ASSUME NEW h \in 0..MaxHeight, Fork(h)
      PROVE  LandedForGood(t)'
  BY <1>5 DEF Fork
<1> QED BY <1>1, <1>2, <1>3, <1>4, <1>5 DEF LedgerNext

(* The cluster's steps change neither what was signed nor what was sent,    *)
(* and the finalized tip only grows.                                        *)
LEMMA LedgerKeeps ==
  ASSUME LedgerInv, LedgerNext
  PROVE  expiry' = expiry /\ pool' = pool /\ final' \in Nat /\ final <= final'
BY DEF LedgerInv, LedgerTypeOK, LedgerNext, NewBlock, Confirm, Finalize, Include, Fork

(* A transaction that was never sent has no block.                          *)
LEMMA UnsentHasNoBlock ==
  ASSUME LedgerInv, NEW t \in Tx, t \notin pool
  PROVE  block[t] = 0 /\ ~Landed(t)
BY DEF LedgerInv, Landed

(* A landed transaction was sent and is not dead.                           *)
LEMMA LandedIsLive ==
  ASSUME LedgerInv, NEW t \in Tx, Landed(t)
  PROVE  t \in pool /\ ~Dead(t)
BY DEF LedgerInv, Landed, Dead

(* landing.rs's classify calls a transaction replaceable only when it can   *)
(* never land, although the tip and the statuses come from two calls, and   *)
(* from nodes that may lag: the tip read is at most the finalized tip of    *)
(* now, and a status node behind that tip is not believed.                  *)
THEOREM ReplaceableIsDead ==
  ASSUME LedgerInv, NEW t \in Tx, NEW lastValid, NEW readTip \in Nat, NEW v \in StatusNodes,
         readTip <= final,
         lastValid = expiry[t] \/ lastValid = NoExpiry,
         Replaceable(ConfirmNotLanded(t, lastValid, readTip, v))
  PROVE  Dead(t)
<1> DEFINE entry == RpcEntry(t, v)
           status == SignatureStatusFromRpc(entry)
           expired == lastValid # NoExpiry /\ readTip > lastValid
<1>1. v \in Nat /\ v >= readTip
  BY DEF Replaceable, ConfirmNotLanded, StatusNodes, LedgerInv, LedgerTypeOK
<1>2. \/ status = "FailedFinalized"
      \/ status = "Failed" /\ expired
      \/ status = "Absent" /\ expired
  BY <1>1 DEF Replaceable, ConfirmNotLanded, Classify
<1>3. CASE status = "FailedFinalized"
  BY Zenon, <1>3 DEF SignatureStatusFromRpc, RpcEntry, Dead
<1>4. CASE status = "Failed" /\ expired
  <2>1. t \in failed
    BY Zenon, <1>4 DEF SignatureStatusFromRpc, RpcEntry
  <2> QED BY <2>1, <1>4 DEF Dead, Landed, LedgerInv, LedgerTypeOK
<1>5. CASE status = "Absent" /\ expired
  <2>1. block[t] = 0 \/ block[t] > v
    BY <1>5 DEF SignatureStatusFromRpc, RpcEntry
  <2>2. final > expiry[t] /\ block[t] = 0
    BY <2>1, <1>1, <1>5 DEF LedgerInv, LedgerTypeOK
  <2> QED BY <2>2 DEF Dead, Landed
<1> QED BY <1>2, <1>3, <1>4, <1>5
=============================================================================
