---------------------------- MODULE BatchWorker ----------------------------
(* run_batch: a pass of the settle-sessions worker over an x402 batch       *)
(* channel. Unlike a session, a batch channel is closed only by its payer.  *)
(* A record is due for reconciliation whenever its snapshot grew old        *)
(* (batch_reconciliation_due), so a pass may look at it at any moment.      *)
EXTENDS SettlementPass

CONSTANT Threshold  \* undistributed amount that is paid out of an open channel

ASSUME BatchAssumption == Threshold \in Nat \ {0}

(* What the pass keeps of a record, and the account it read.                *)
BatchCopies == [cum : 0..Deposit, frozen : BOOLEAN, busy : BOOLEAN, read : Accounts]

BatchCopy(r, c) == [cum |-> r.cum, frozen |-> r.frozen, busy |-> InFlight(r), read |-> c]

(* What the rest of a pass uses of what it listed: the amount to claim of   *)
(* an open channel, and whether the record of an absent one is in use. The  *)
(* record of a closing channel is read again when it is fenced; of a sealed *)
(* or distributed account only the status counts.                           *)
Listed(r, c) ==
  [cum |-> IF c.status = "open" THEN r.cum ELSE 0,
   frozen |-> FALSE,
   busy |-> c.status = "gone" /\ InFlight(r),
   read |-> IF c.status \in {"open", "closing"} THEN c ELSE [NewAccount EXCEPT !.status = c.status]]

----------------------------------------------------------------------------
(* Fences                                                                   *)

Larger(a, b) == IF a < b THEN b ELSE a

FreezeAt(r, c, freeze) ==
  [r EXCEPT !.asked = TRUE,
            !.frozen = @ \/ freeze,
            !.cum = IF freeze THEN Larger(@, c.settled) ELSE @]

CloseTransitionHasty(r, c) ==
  FreezeAt(r, c, ~r.frozen /\ (~c.lapsed \/ r.cum <= c.settled))

(* batch_close_transition: record the payer's close seen in c and, unless a *)
(* live reservation must finish first, freeze the amount. Past the grace    *)
(* period it is frozen only if all of it is settled.                        *)
BatchCloseTransition(r, c) ==
  FreezeAt(r, c, ~r.frozen /\ ~Blocking(r) /\ (~c.lapsed \/ r.cum <= c.settled))

(* fence_batch_close of a channel read closing, on the current record.      *)
Fenced(c) == IF c.status = "closing" THEN BatchCloseTransition(rec, c) ELSE rec

(* record_onchain_observation: the fences a read carries.                   *)
Observe(r, c) ==
  [r EXCEPT !.asked = @ \/ c.status # "open",
            !.sealed = @ \/ c.status \in {"sealed", "distributed"}]

----------------------------------------------------------------------------
(* What a pass plans for a channel                                          *)

DistributionThresholdReached(settled, paid) == settled - paid >= Threshold

(* The claim of an open channel, paid out at once past the threshold.       *)
Claim(r, c, pays) ==
  LET t == [op |-> IF r.cum > c.settled THEN "settle" ELSE "none",
            amount |-> CloseAmount(r, c),
            distribute |-> pays /\ DistributionThresholdReached(Larger(r.cum, c.settled), c.paid)] IN
  IF t = NoTx THEN Nothing ELSE [kind |-> "claim", tx |-> t, store |-> "keep"]

(* sealed_close: with its distribution the close is terminal.               *)
SealedClose(op, amount, pays) ==
  [kind |-> "close", tx |-> [op |-> op, amount |-> amount, distribute |-> pays],
   store |-> IF pays THEN "expire" ELSE "keep"]

CoversAnything(r, c) == TRUE

(* require_settled_covers_accepted                                          *)
SettledCoversAccepted(r, c) == r.cum <= c.settled

(* Past the grace period a close below what was accepted is refused.        *)
BatchFails(r, c) == Lapsed(c) /\ ~SettledCoversAccepted(r, c)

(* reconcile_batch_channel of the record copy r with the account c just     *)
(* read; old: the open-slot window has passed.                              *)
ReconcileBatchChannel(r, c, pays, old) ==
  CASE c.status = "open" -> Claim(r, c, pays)
    [] InGrace(c) /\ r.frozen -> SealedClose("settleAndSeal", CloseAmount(r, c), pays)
    [] Lapsed(c) /\ r.frozen -> SealedClose("seal", 0, pays)
    [] c.status = "sealed" /\ pays -> SealedClose("none", 0, TRUE)
    [] c.status = "distributed" /\ old ->
         [kind |-> "reclaim", tx |-> [NoTx EXCEPT !.op = "reclaim"], store |-> "delete"]
    [] OTHER -> Nothing

----------------------------------------------------------------------------
(* One pass                                                                 *)

(* list_channels, then fetch_channels_each_at.                              *)
ScanBatch(w) ==
  /\ pc[w] = "idle" /\ batch
  /\ rec # NoRecord
  /\ \E c \in Reads : snap' = [snap EXCEPT ![w] = Listed(rec, c)]
  /\ Goto(w, "reconcile")
  /\ UNCHANGED <<channelVars, storeVars, plan>>

(* Fence, plan, and record the observation. A refused close keeps only the  *)
(* fence.                                                                   *)
ReconcileBatch(w, pays) ==
  LET c == snap[w].read
      r == IF c.status = "closing" THEN BatchCopy(Fenced(c), c) ELSE snap[w] IN
  /\ pc[w] = "reconcile" /\ batch
  /\ rec # NoRecord
  /\ c.status # "gone"
  /\ rec' = IF BatchFails(r, c) THEN Fenced(c) ELSE Observe(Fenced(c), c)
  /\ \E old \in BOOLEAN :
       LET p == ReconcileBatchChannel(r, c, pays, old) IN
       IF BatchFails(r, c) \/ p = Nothing
       THEN EndPass(w)
       ELSE /\ plan' = [plan EXCEPT ![w] = p]
            /\ Forget(w)
            /\ Goto(w, "send")
            /\ UNCHANGED channelVars
  /\ UNCHANGED <<mode, gatewayVars>>

(* The account was not found: its record goes once absence is proven.       *)
ReconcileAbsent(w) ==
  /\ pc[w] = "reconcile" /\ batch
  /\ snap[w].read.status = "gone"
  /\ rec' = IF ~snap[w].busy /\ ChannelAbsenceProven THEN DeleteFencedChannel(rec) ELSE rec
  /\ EndPass(w)
  /\ UNCHANGED <<mode, gatewayVars>>

(* defer_oversized_distribution may send the close or claim alone.          *)
SendBatch(w) ==
  /\ pc[w] = "send" /\ batch
  /\ \/ Broadcast(w, plan[w].tx) /\ plan' = plan
     \/ /\ plan[w].tx.distribute /\ plan[w].tx.op # "none"
        /\ Broadcast(w, [plan[w].tx EXCEPT !.distribute = FALSE])
        /\ plan' = [plan EXCEPT ![w].store = "keep"]
  /\ Goto(w, "confirm")
  /\ UNCHANGED <<storeVars, snap>>

(* A transaction that leaves the channel sealed, once confirmed, seals the  *)
(* record.                                                                  *)
ConfirmBatch(w) ==
  /\ pc[w] = "confirm" /\ batch
  /\ landing[w] \in {"confirmed", "finalized"}
  /\ rec' = IF plan[w].kind # "claim" THEN RetainSealed(rec) ELSE rec
  /\ IF plan[w].store = "keep"
     THEN EndPass(w)
     ELSE Goto(w, "finalize") /\ UNCHANGED <<channelVars, snap, plan>>
  /\ UNCHANGED <<mode, gatewayVars>>

(* The terminal store action waits for finality.                            *)
TerminalFinal(w) == landing[w] = "finalized"

FinishBatch(w) ==
  /\ pc[w] = "finalize"
  /\ TerminalFinal(w)
  /\ rec' = IF plan[w].store = "expire" THEN MarkFinalized(rec) ELSE DeleteFencedChannel(rec)
  /\ EndPass(w)
  /\ UNCHANGED <<mode, gatewayVars>>

BatchStep(w) ==
  \/ ScanBatch(w) \/ ReconcileAbsent(w) \/ SendBatch(w) \/ ConfirmBatch(w) \/ FinishBatch(w)
  \/ \E pays \in Refunds : ReconcileBatch(w, pays)
=============================================================================
