-------------------------- MODULE SettlementPass --------------------------
(* What the session and the batch pass of the settle-sessions worker have   *)
(* in common. The settlement lock keeps passes apart only while its lease   *)
(* is renewed in time, and a pass does not notice losing it, so the passes  *)
(* of two workers overlap freely.                                           *)
EXTENDS ChannelStore

CONSTANT Refunds   \* whether the payer's refund account may take, or refuse, a refund

ASSUME PassAssumption == Refunds \subseteq BOOLEAN

VARIABLES
  pc,      \* where each worker is
  snap,    \* what it keeps of the record it read
  plan     \* what it is about to do to the channel

passVars == <<pc, snap, plan>>
vars == <<channelVars, storeVars, passVars>>

(* The kinds of SettlementCandidate and of BatchCandidate ("claim" for all  *)
(* three that leave the channel open), the transaction, and what becomes of *)
(* the record.                                                              *)
Plans ==
  [kind : {"none", "watermark", "idleClose", "claim", "close", "reclaim"},
   tx : Txs, store : {"keep", "seal", "expire", "delete"}]

Nothing == [kind |-> "none", tx |-> NoTx, store |-> "keep"]

PassInit ==
  /\ pc = [w \in Workers |-> "idle"]
  /\ snap = [w \in Workers |-> NoRecord]
  /\ plan = [w \in Workers |-> Nothing]

Goto(w, label) == pc' = [pc EXCEPT ![w] = label]

Forget(w) == snap' = [snap EXCEPT ![w] = NoRecord]

(* The channel is done with, for this pass.                                 *)
EndPass(w) ==
  /\ Goto(w, "idle")
  /\ Forget(w)
  /\ plan' = [plan EXCEPT ![w] = Nothing]
  /\ Abandon(w)

(* The pass leaves the channel to a later one: an RPC or Redis call failed, *)
(* a claim or a guard refused, there is nothing to do, a confirmation timed *)
(* out, or the worker was killed.                                           *)
GiveUp(w) ==
  /\ pc[w] # "idle"
  /\ EndPass(w)
  /\ UNCHANGED storeVars

(* The voucher a close carries: none if the watermark is settled.           *)
CloseAmount(r, c) == IF r.cum > c.settled THEN r.cum ELSE 0

(* What a worker may read: a lagging node, or nothing at all.               *)
Reads == Views \cup {[chain EXCEPT !.status = "gone"]}
=============================================================================
