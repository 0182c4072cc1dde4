--------------------------- MODULE SessionWorker ---------------------------
(* run_session: a pass of the settle-sessions worker over a session         *)
(* channel, bound or legacy.                                                *)
EXTENDS SettlementPass

(* What the pass keeps of a record it read.                                 *)
SessionCopies == [cum : 0..Deposit, asked : BOOLEAN, due : BOOLEAN, sealed : BOOLEAN]

Copy(r) == [cum |-> r.cum, asked |-> r.asked, due |-> r.due, sealed |-> r.sealed]

----------------------------------------------------------------------------
(* What a pass plans for a channel                                          *)

(* close_settlement_instructions: the close step for an account c.          *)
CloseOp(c) ==
  CASE c.status = "open" \/ InGrace(c) -> "settleAndSeal"
    [] Lapsed(c) -> "seal"
    [] OTHER -> "none"

(* build_idle_close_candidate: without a payable refund account the close   *)
(* goes out alone, as a watermark.                                          *)
IdleCloseCandidate(r, c, pays) ==
  LET op == CloseOp(c)
      close == [op |-> op, distribute |-> pays,
                amount |-> IF op = "settleAndSeal" THEN CloseAmount(r, c) ELSE 0] IN
  IF ~pays /\ op = "none" THEN Nothing
  ELSE [kind |-> IF pays THEN "idleClose" ELSE "watermark", tx |-> close, store |-> "keep"]

WatermarkCandidate(r, c) ==
  IF c.status = "open" /\ r.cum > c.settled
  THEN [kind |-> "watermark", store |-> "keep",
        tx |-> [op |-> "settle", amount |-> r.cum, distribute |-> FALSE]]
  ELSE Nothing

AbsentDisposition ==
  IF ~bound /\ ChannelAbsenceProven THEN [Nothing EXCEPT !.store = "delete"] ELSE Nothing

(* A record is finished only on a finalized distribution. A bound record is *)
(* retained, a legacy one expires.                                          *)
DistributedDisposition(r) ==
  IF ~(r.sealed \/ FinalizedDistributed) THEN Nothing
  ELSE IF ~bound THEN [Nothing EXCEPT !.store = "expire"]
  ELSE IF r.sealed THEN Nothing ELSE [Nothing EXCEPT !.store = "seal"]

CloseActionableOnChain(r, c) == c.status \in {"closing", "sealed"}

(* The close is due in the record, or under way on chain.                   *)
CloseActionable(r, c) == ChannelCloseDue(r) \/ c.status \in {"closing", "sealed"}

(* A bound close without the durable claim is an error.                     *)
CloseUnclaimed(r, c) == bound /\ ~r.sealed /\ CloseActionable(r, c) /\ ~r.asked

(* reconcile_channel of the record copy r with the account c just read.     *)
ReconcileChannel(r, c, pays) ==
  CASE c.status = "gone" -> AbsentDisposition
    [] c.status = "distributed" -> DistributedDisposition(r)
    [] c.status \in {"open", "closing", "sealed"} ->
         IF r.sealed \/ CloseUnclaimed(r, c) THEN Nothing
         ELSE IF CloseActionable(r, c) THEN IdleCloseCandidate(r, c, pays)
         ELSE WatermarkCandidate(r, c)

----------------------------------------------------------------------------
(* One pass                                                                 *)

(* list_channels, then observe_bound_close: a close seen on chain is        *)
(* recorded, even while a reservation keeps the lease out of reach.         *)
Scan(w) ==
  /\ pc[w] = "idle" /\ ~batch
  /\ rec # NoRecord
  /\ \E c \in Views :
       rec' = IF bound /\ c.status \in {"closing", "sealed"}
              THEN [rec EXCEPT !.asked = TRUE] ELSE rec
  /\ snap' = [snap EXCEPT ![w] = Copy(rec')]
  /\ Goto(w, "reconcile")
  /\ UNCHANGED <<channelVars, mode, gatewayVars, plan>>

(* A channel due in the scan is claimed against its current record. Then    *)
(* the account is read and the channel reconciled.                          *)
Reconcile(w, pays) ==
  /\ pc[w] = "reconcile" /\ ~batch
  /\ IF ChannelCloseDue(snap[w]) THEN ClaimDueClose(w) ELSE rec' = rec
  /\ LET r == IF ChannelCloseDue(snap[w]) THEN Copy(rec') ELSE snap[w] IN
     \E c \in Reads :
       plan' = [plan EXCEPT ![w] = ReconcileChannel(r, c, pays)]
  /\ plan'[w] # Nothing
  /\ Forget(w)
  /\ Goto(w, "submit")
  /\ UNCHANGED <<channelVars, mode, gatewayVars>>

(* The store side of a plan. Deletion also waits for leased resources to be *)
(* released.                                                                *)
AfterStore(w) ==
  CASE plan[w].store = "keep" -> {rec}
    [] plan[w].store = "seal" -> {RetainSealed(rec)}
    [] plan[w].store = "expire" -> {MarkFinalized(rec)}
    [] plan[w].store = "delete" -> {rec, DeleteFencedChannel(rec)}

(* A plan without a transaction ends here. A bound idle close takes the     *)
(* guarded path; everything else goes to the batching settlement handle,    *)
(* which leaves out a distribution that does not fit.                       *)
Submit(w) ==
  /\ pc[w] = "submit" /\ ~batch
  /\ rec' \in AfterStore(w)
  /\ \/ plan[w].kind = "none" /\ EndPass(w)
     \/ /\ bound /\ plan[w].kind = "idleClose"
        /\ Goto(w, "refresh")
        /\ UNCHANGED <<channelVars, snap, plan>>
     \/ /\ plan[w].kind = "watermark" \/ (~bound /\ plan[w].kind = "idleClose")
        /\ Broadcast(w, plan[w].tx)
        /\ Goto(w, "confirm")
        /\ UNCHANGED <<snap, plan>>
     \/ /\ ~bound /\ plan[w].kind = "idleClose" /\ plan[w].tx.op # "none"
        /\ Broadcast(w, [plan[w].tx EXCEPT !.distribute = FALSE])
        /\ plan' = [plan EXCEPT ![w].kind = "watermark"]
        /\ Goto(w, "confirm")
        /\ UNCHANGED snap
  /\ UNCHANGED <<mode, gatewayVars>>

(* Renew the close lease and plan again from the renewed record. The guard  *)
(* that follows does the same and accepts only the same instructions.       *)
Refresh(w, pays) ==
  /\ pc[w] = "refresh"
  /\ ClaimDueClose(w)
  /\ \E c \in Reads :
       plan' = [plan EXCEPT ![w] = ReconcileChannel(Copy(rec'), c, pays)]
  /\ plan'[w].kind # "none"
  /\ Goto(w, "guard")
  /\ UNCHANGED <<channelVars, mode, gatewayVars, snap>>

(* The guard's last check: still the owner after those reads.               *)
Guard(w) ==
  /\ pc[w] = "guard"
  /\ ClaimDueClose(w)
  /\ Goto(w, "send")
  /\ UNCHANGED <<channelVars, mode, gatewayVars, snap, plan>>

Send(w) ==
  /\ pc[w] = "send" /\ ~batch
  /\ Broadcast(w, plan[w].tx)
  /\ Goto(w, "confirm")
  /\ UNCHANGED <<storeVars, snap, plan>>

(* A close ends the record only once it is final.                           *)
CloseFinal(w) == plan[w].kind = "idleClose" /\ landing[w] = "finalized"

Confirm(w) ==
  /\ pc[w] = "confirm" /\ ~batch
  /\ CloseFinal(w)
  /\ rec' = IF bound THEN RetainSealed(rec) ELSE MarkFinalized(rec)
  /\ EndPass(w)
  /\ UNCHANGED <<mode, gatewayVars>>

(* While a pass works on a close it claimed, a heartbeat claims it again.   *)
(* When that fails the pass gives up at its next check.                     *)
Heartbeat(w) ==
  /\ bound
  /\ pc[w] \notin {"idle", "reconcile"}
  /\ rec # NoRecord
  /\ rec.owner = w
  /\ ClaimDueClose(w)
  /\ UNCHANGED <<channelVars, mode, gatewayVars, passVars>>

SessionStep(w) ==
  \/ Scan(w) \/ Submit(w) \/ Guard(w) \/ Send(w) \/ Confirm(w) \/ Heartbeat(w)
  \/ \E pays \in Refunds : Reconcile(w, pays) \/ Refresh(w, pays)
=============================================================================
