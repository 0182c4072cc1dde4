----------------------------- MODULE Lifecycle -----------------------------
(* The embedded session lifecycle of the gateway: every replica runs a      *)
(* runloop that leases channels, closes the idle ones, retries deferred     *)
(* payouts and pushes watermarks, while requests draw on the channel. One   *)
(* channel, its record in the store the replicas share, automatic close on. *)
(*                                                                          *)
(* The runloop is one task: it handles a touch only between two passes. The *)
(* capacity slot of a channel is memory of one replica. Deadlines and       *)
(* leases carry no time; they pass at a moment nobody controls. The gateway *)
(* reads and trusts the channel at confirmed commitment, so blocks that are *)
(* dropped are out of scope here, and so are a payer's closes on chain.     *)
EXTENDS Channel

CONSTANTS
  Gateways,    \* replicas of the gateway
  Requests,
  MaxRestarts, \* bound: how often a replica is restarted
  Departed     \* the owner id of a runloop that is no more

(* A replica broadcasts from its runloop, from a request that closes, and   *)
(* watermarks, which it does not wait for.                                  *)
Lanes == {"runloop", "client", "push"}

ASSUME LifecycleAssumption ==
  /\ Senders = Gateways \X Lanes /\ MaxRestarts \in Nat /\ Departed \notin Gateways
  /\ Requests \cap {"free", "runloop"} = {}

VARIABLES
  rec,        \* the record of the channel
  current,    \* the replicas whose scan still shows the lifecycle on record
  slot,       \* who holds the capacity slot in each replica
  req,        \* where each request is
  at,         \* the replica that serves it
  pc,         \* where each closing task is
  pending,    \* the replicas that look for deferred payouts
  known,      \* the replicas that accepted a voucher (committed_watermarks)
  restarts

recordVars == <<rec, current>>
replicaVars == <<slot, pc, pending, known, restarts>>
requestVars == <<req, at>>
vars == <<channelVars, recordVars, replicaVars, requestVars>>

(* asked: close_requested_at is set. deferred: the close sealed the channel *)
(* without paying it out. owner, live: the lifecycle lease. due: the idle   *)
(* deadline passed.                                                         *)
Records ==
  [cum : 0..Deposit, asked : BOOLEAN, sealed : BOOLEAN, deferred : BOOLEAN,
   owner : Gateways \cup {Departed}, live : BOOLEAN, due : BOOLEAN]

Closers == Gateways \X {"runloop", "client"}

Runloop(g) == <<g, "runloop">>

TypeOK ==
  /\ ChannelTypeOK
  /\ rec \in Records
  /\ current \subseteq Gateways
  /\ slot \in [Gateways -> Requests \cup {"free", "runloop"}]
  /\ req \in [Requests -> {"new", "vouched", "touched", "held", "charged", "closing", "done"}]
  /\ at \in [Requests -> Gateways]
  /\ pc \in [Closers -> {"idle", "payouts", "paying", "paid", "scan", "claim", "settle",
                         "closing"}]
  /\ pending \subseteq Gateways
  /\ known \subseteq Gateways
  /\ restarts \in 0..MaxRestarts

Init ==
  /\ ChannelInit
  /\ \E g \in Gateways :
       rec = [cum |-> 0, asked |-> FALSE, sealed |-> FALSE, deferred |-> FALSE,
              owner |-> g, live |-> TRUE, due |-> FALSE]
  /\ current = {}
  /\ slot = [g \in Gateways |-> "free"]
  /\ req = [q \in Requests |-> "new"]
  /\ at \in [Requests -> Gateways]
  /\ pc = [s \in Closers |-> "idle"]
  /\ pending = Gateways
  /\ known = {}
  /\ restarts = 0

Goto(s, label) == pc' = [pc EXCEPT ![s] = label]

Ended == {"distributed", "gone"}

Ending(r) == r.asked \/ r.sealed

Sealed(r) == [r EXCEPT !.sealed = TRUE]

(* A bug: the lease names the task, which owns_lifecycle does not know.     *)
LeasedByTask(r, g) == [r EXCEPT !.owner = Runloop(g), !.live = TRUE]

(* leased_owner                                                             *)
Leased(r, g) == [r EXCEPT !.owner = g, !.live = TRUE]

(* A lease may be renewed, or taken over once it expired.                   *)
Claimable(g, r) == r.owner = g \/ ~r.live

(* persist_touch: a pending close cannot be woken.                          *)
PersistTouch(g) ==
  /\ rec' = IF Ending(rec) THEN rec ELSE [Leased(rec, g) EXCEPT !.due = FALSE]
  /\ current' = IF Ending(rec) THEN current ELSE {}

----------------------------------------------------------------------------
(* Requests                                                                 *)

(* touch_channel: answered by the runloop.                                  *)
Touch(q) ==
  /\ req[q] \in {"new", "vouched"}
  /\ pc[Runloop(at[q])] = "idle"
  /\ PersistTouch(at[q])
  /\ req' = [req EXCEPT ![q] = IF Ending(rec) \/ @ = "vouched" THEN "done" ELSE "touched"]
  /\ UNCHANGED <<channelVars, replicaVars, at>>

(* reserve_delegated_capacity: one request at a time, or "busy".            *)
ReserveCapacity(q) ==
  /\ req[q] = "touched"
  /\ IF slot[at[q]] = "free"
     THEN /\ slot' = [slot EXCEPT ![at[q]] = q]
          /\ req' = [req EXCEPT ![q] = "held"]
     ELSE /\ req' = [req EXCEPT ![q] = "done"]
          /\ slot' = slot
  /\ UNCHANGED <<channelVars, recordVars, pc, pending, known, restarts, at>>

(* The store accepts a voucher, which re-arms the idle deadline, unless a   *)
(* close is on record.                                                      *)
AcceptVoucher(q) ==
  /\ ~Ending(rec)
  /\ rec.cum < Deposit
  /\ rec' = [rec EXCEPT !.cum = @ + 1, !.due = FALSE]
  /\ current' = {}
  /\ known' = known \cup {at[q]}
  /\ UNCHANGED <<channelVars, slot, pc, pending, restarts, at>>

(* commit_reserved_usage, of a request that holds the slot.                 *)
Charge(q) ==
  /\ req[q] = "held"
  /\ req' = [req EXCEPT ![q] = "charged"]
  /\ AcceptVoucher(q)

(* A voucher the client signed needs no slot; it touches the channel after. *)
Voucher(q) ==
  /\ req[q] = "new"
  /\ req' = [req EXCEPT ![q] = "vouched"]
  /\ AcceptVoucher(q)

(* The lease of a request at work touches the channel from time to time.    *)
Heartbeat(q) ==
  /\ req[q] \in {"held", "charged"}
  /\ pc[Runloop(at[q])] = "idle"
  /\ PersistTouch(at[q])
  /\ UNCHANGED <<channelVars, replicaVars, requestVars>>

(* Dropping the lease frees the slot.                                       *)
EndRequest(q) ==
  /\ req[q] \in {"held", "charged"}
  /\ req' = [req EXCEPT ![q] = "done"]
  /\ slot' = [slot EXCEPT ![at[q]] = "free"]
  /\ UNCHANGED <<channelVars, recordVars, pc, pending, known, restarts, at>>

(* A close action takes the slot like any other request.                    *)
ClientCloses(q) ==
  /\ req[q] = "held"
  /\ req' = [req EXCEPT ![q] = "closing"]
  /\ Goto(<<at[q], "client">>, "claim")
  /\ UNCHANGED <<channelVars, recordVars, slot, pending, known, restarts, at>>

----------------------------------------------------------------------------
(* Closing a channel, by the runloop or on behalf of a client               *)

(* The task is over and gives the slot back.                                *)
Done(s) ==
  LET g == s[1] IN
  /\ slot' = [slot EXCEPT ![g] = "free"]
  /\ req' = IF s[2] = "client" THEN [req EXCEPT ![slot[g]] = "done"] ELSE req
  /\ Goto(s, "idle")

(* A bug: what changed since the scan is not looked at.                     *)
RearmedIgnored(s) == FALSE

(* The runloop claims only the lifecycle its scan saw.                      *)
Rearmed(s) == s[2] = "runloop" /\ s[1] \notin current

(* request_server_close of the runloop, process_close of a client. A close  *)
(* already on record is carried on with. The runloop first looks for a      *)
(* channel that is no more.                                                 *)
RequestServerClose(s) ==
  /\ pc[s] = "claim"
  /\ \/ /\ s[2] = "runloop" /\ chain.status = "gone"
        /\ rec' = Sealed(rec)
        /\ Done(s)
     \/ /\ ~Ending(rec) /\ Rearmed(s)
        /\ rec' = rec
        /\ Done(s)
     \/ /\ Ending(rec) \/ ~Rearmed(s)
        /\ rec' = IF Ending(rec) THEN rec ELSE [rec EXCEPT !.asked = TRUE]
        /\ Goto(s, "settle")
        /\ UNCHANGED <<slot, req>>
  /\ current' = current \ {s[1]}
  /\ UNCHANGED <<channelVars, pending, known, restarts, at>>

(* A bug: off by one, the last unit is not settled.                         *)
CloseVoucherOffByOne(settled, accepted) == settled + 1 < accepted

CloseVoucherRequired(settled, accepted) == settled < accepted

(* submit_payment_channel_settlement: settle and seal at the watermark on   *)
(* record; pays: past the open-slot window with a payable refund account,   *)
(* so that the same transaction distributes.                                *)
SubmitSettlement(s, pays) ==
  /\ pc[s] = "settle"
  /\ chain.status # "gone"
  /\ Broadcast(s, [op |-> "settleAndSeal", distribute |-> pays,
                   amount |-> IF CloseVoucherRequired(chain.settled, rec.cum)
                              THEN rec.cum ELSE 0])
  /\ Goto(s, "closing")
  /\ known' = known \cup {s[1]}
  /\ UNCHANGED <<recordVars, slot, pending, restarts, requestVars>>

HasLanded(s) == landing[s] = "confirmed"

(* A bug: the deferred payout is forgotten.                                 *)
SealedUnpaid(t, r) == Sealed(r)

(* The record of a close that t made: sealed, or waiting for its payout.    *)
AfterClose(t, r) == IF t.distribute THEN Sealed(r) ELSE [r EXCEPT !.deferred = TRUE]

(* finish_close: a deferred payout wakes the runloop.                       *)
FinishClose(s) ==
  /\ pc[s] = "closing"
  /\ HasLanded(s)
  /\ rec' = AfterClose(tx[s], rec)
  /\ pending' = IF tx[s].distribute THEN pending ELSE pending \cup {s[1]}
  /\ Done(s)
  /\ Abandon(s)
  /\ UNCHANGED <<current, known, restarts, at>>

(* Any step failed, or the confirmation timed out, in which case the        *)
(* transaction may still land. A channel that is no more ends the record;   *)
(* otherwise the runloop reschedules the close.                             *)
CloseFails(s) ==
  /\ pc[s] \in {"claim", "settle", "closing"}
  /\ IF pc[s] # "claim" /\ chain.status = "gone"
     THEN rec' = Sealed(rec) /\ current' = current \ {s[1]}
     ELSE IF s[2] = "runloop" THEN PersistTouch(s[1])
     ELSE UNCHANGED recordVars
  /\ Done(s)
  /\ UNCHANGED <<channelVars, pending, known, restarts, at>>

----------------------------------------------------------------------------
(* The runloop of replica g: one pass of run_due_work                       *)

(* reconcile_persisted_ownership                                            *)
ReconcileOwnership(g) ==
  /\ pc[Runloop(g)] = "idle"
  /\ IF ~Ending(rec) /\ Claimable(g, rec)
     THEN rec' = Leased(rec, g) /\ current' = {}
     ELSE UNCHANGED recordVars
  /\ Goto(Runloop(g), IF g \in pending THEN "payouts" ELSE "scan")
  /\ UNCHANGED <<channelVars, slot, pending, known, restarts, requestVars>>

(* retry_deferred_payouts, with claim_deferred_payout.                      *)
RetryDeferredPayouts(g) ==
  /\ pc[Runloop(g)] = "payouts"
  /\ IF rec.sealed \/ ~rec.deferred
     THEN /\ pending' = pending \ {g}
          /\ Goto(Runloop(g), "scan")
          /\ UNCHANGED recordVars
     ELSE IF Claimable(g, rec)
     THEN /\ rec' = Leased(rec, g)
          /\ current' = {}
          /\ Goto(Runloop(g), "paying")
          /\ UNCHANGED pending
     ELSE /\ Goto(Runloop(g), "scan")
          /\ UNCHANGED <<recordVars, pending>>
  /\ UNCHANGED <<channelVars, slot, known, restarts, requestVars>>

(* distribute_deferred and reclaim_distributed. Rent someone else paid is   *)
(* left to them.                                                            *)
DistributeDeferred(g, pays) ==
  /\ pc[Runloop(g)] = "paying"
  /\ \/ /\ chain.status \in Ended
        /\ rec' = Sealed(rec)
        /\ Goto(Runloop(g), "scan")
        /\ UNCHANGED channelVars
     \/ /\ chain.status \in {"sealed", "distributed"} /\ pays
        /\ Broadcast(Runloop(g),
             IF chain.status = "sealed" THEN [NoTx EXCEPT !.distribute = TRUE]
             ELSE [NoTx EXCEPT !.op = "reclaim"])
        /\ rec' = rec
        /\ Goto(Runloop(g), "paid")
  /\ UNCHANGED <<current, slot, pending, known, restarts, requestVars>>

PayoutConfirmed(g) ==
  /\ pc[Runloop(g)] = "paid"
  /\ HasLanded(Runloop(g))
  /\ rec' = Sealed(rec)
  /\ Goto(Runloop(g), "scan")
  /\ Abandon(Runloop(g))
  /\ UNCHANGED <<current, slot, pending, known, restarts, requestVars>>

(* Not now, not yet, or not confirmed: the next pass tries again.           *)
PayoutWaits(g) ==
  /\ pc[Runloop(g)] \in {"paying", "paid"}
  /\ Goto(Runloop(g), "scan")
  /\ UNCHANGED <<channelVars, recordVars, slot, pending, known, restarts, requestVars>>

(* A close on record is retried, by the replica that owns the channel.      *)
CloseDue(g, r) ==
  /\ ~r.sealed /\ ~r.deferred
  /\ r.owner = g
  /\ r.asked \/ r.due

(* close_due_channels: a busy channel is touched instead.                   *)
CloseDueChannels(g) ==
  /\ pc[Runloop(g)] = "scan"
  /\ CloseDue(g, rec)
  /\ IF slot[g] = "free"
     THEN /\ slot' = [slot EXCEPT ![g] = "runloop"]
          /\ current' = current \cup {g}
          /\ rec' = rec
          /\ Goto(Runloop(g), "claim")
     ELSE /\ PersistTouch(g)
          /\ Goto(Runloop(g), "idle")
          /\ slot' = slot
  /\ UNCHANGED <<channelVars, pending, known, restarts, requestVars>>

(* Nothing to close, or a failed close still backs off.                     *)
NothingDue(g) ==
  /\ pc[Runloop(g)] = "scan"
  /\ ~CloseDue(g, rec) \/ rec.asked
  /\ Goto(Runloop(g), "idle")
  /\ UNCHANGED <<channelVars, recordVars, slot, pending, known, restarts, requestVars>>

(* operator_push_watermark finds something to settle.                       *)
WatermarkDue == chain.status = "open" /\ rec.cum > chain.settled

(* push_due_watermarks, at the end of a pass or on its own timer.           *)
PushWatermark(g) ==
  /\ pc[Runloop(g)] = "idle"
  /\ g \in known
  /\ slot[g] = "free"
  /\ WatermarkDue
  /\ Broadcast(<<g, "push">>, [op |-> "settle", amount |-> rec.cum, distribute |-> FALSE])
  /\ UNCHANGED <<recordVars, replicaVars, requestVars>>

(* The replica is restarted: its memory and its owner id are lost, what it  *)
(* broadcast is not. It starts by looking for deferred payouts.             *)
Restart(g) ==
  /\ restarts < MaxRestarts
  /\ restarts' = restarts + 1
  /\ rec' = IF rec.owner = g THEN [rec EXCEPT !.owner = Departed] ELSE rec
  /\ current' = current \ {g}
  /\ slot' = [slot EXCEPT ![g] = "free"]
  /\ pc' = [s \in Closers |-> IF s[1] = g THEN "idle" ELSE pc[s]]
  /\ pending' = pending \cup {g}
  /\ known' = known \ {g}
  /\ req' = [q \in Requests |-> IF at[q] = g THEN "done" ELSE req[q]]
  /\ UNCHANGED <<channelVars, at>>

LeaseExpires ==
  /\ rec.live
  /\ rec' = [rec EXCEPT !.live = FALSE]
  /\ UNCHANGED <<channelVars, current, replicaVars, requestVars>>

IdleDeadline ==
  /\ ~Ending(rec) /\ ~rec.due
  /\ rec' = [rec EXCEPT !.due = TRUE]
  /\ UNCHANGED <<channelVars, current, replicaVars, requestVars>>

----------------------------------------------------------------------------
RequestStep(q) ==
  \/ Touch(q) \/ ReserveCapacity(q) \/ Charge(q) \/ Voucher(q) \/ Heartbeat(q)
  \/ EndRequest(q) \/ ClientCloses(q)

CloseStep(s) ==
  \/ RequestServerClose(s) \/ FinishClose(s) \/ CloseFails(s)
  \/ \E pays \in BOOLEAN : SubmitSettlement(s, pays)

RunloopStep(g) ==
  \/ ReconcileOwnership(g) \/ RetryDeferredPayouts(g)
  \/ \E pays \in BOOLEAN : DistributeDeferred(g, pays)
  \/ PayoutConfirmed(g) \/ PayoutWaits(g)
  \/ CloseDueChannels(g) \/ NothingDue(g) \/ PushWatermark(g)

(* Replicas distribute only past the open-slot window of the channel, where *)
(* that frees its account; anyone else may do so earlier.                   *)
Freed(c) == IF c.status = "distributed" THEN [c EXCEPT !.status = "gone"] ELSE c

CloseLands(s) ==
  /\ landing[s] = "pending"
  /\ Accepted(tx[s], chain)
  /\ chain' = Freed(After(tx[s], chain))
  /\ landing' = [landing EXCEPT ![s] = "confirmed"]
  /\ UNCHANGED <<fin, tx, forks, payerClosed>>

(* Nobody waits for a watermark: it is forgotten as it lands.               *)
WatermarkLands(g) ==
  LET s == <<g, "push">> IN
  /\ landing[s] = "pending"
  /\ Accepted(tx[s], chain)
  /\ chain' = After(tx[s], chain)
  /\ tx' = [tx EXCEPT ![s] = NoTx]
  /\ landing' = [landing EXCEPT ![s] = "none"]
  /\ UNCHANGED <<fin, forks, payerClosed>>

ChainStep ==
  /\ \/ \E s \in Closers : CloseLands(s)
     \/ \E g \in Gateways : WatermarkLands(g)
     \/ \E t \in PermissionlessTxs : Permissionless(t)
  /\ UNCHANGED <<recordVars, replicaVars, requestVars>>

Next ==
  \/ \E q \in Requests : RequestStep(q)
  \/ \E s \in Closers : CloseStep(s)
  \/ \E g \in Gateways : RunloopStep(g) \/ Restart(g)
  \/ LeaseExpires
  \/ IdleDeadline
  \/ ChainStep

Spec == Init /\ [][Next]_vars

(* Every task keeps running; the back-off of a close on record passes as    *)
(* often as it is waited for. Requests end, deadlines and leases pass.      *)
Fairness ==
  /\ WF_vars(IdleDeadline)
  /\ WF_vars(LeaseExpires)
  /\ \A q \in Requests : WF_vars(EndRequest(q))
  /\ \A s \in Closers : WF_vars(CloseStep(s))
  /\ \A g \in Gateways :
       /\ WF_vars(ReconcileOwnership(g) \/ RetryDeferredPayouts(g) \/ PayoutWaits(g)
                    \/ NothingDue(g))
       /\ SF_vars(CloseDueChannels(g))

FairSpec == Spec /\ Fairness

----------------------------------------------------------------------------
(* The channel is sealed at exactly what the replicas accepted: no voucher  *)
(* accepted while a close was under way is forfeited, and none is charged   *)
(* that the record does not hold, whatever watermark pushes and close       *)
(* retries of several replicas land in between.                             *)
SealedAtAccepted ==
  chain.status \in {"sealed"} \cup Ended => chain.settled = rec.cum

(* The record says sealed only of a channel that was paid out, and deferred *)
(* only of one that is sealed: nothing of a close is left to do on chain    *)
(* that the store has written off (finish_close, distribute_deferred).      *)
RecordFollowsChannel ==
  /\ rec.sealed => chain.status \in Ended
  /\ rec.deferred => chain.status \in {"sealed"} \cup Ended

Serving(q) ==
  req[q] \in {"held", "charged"} /\ at[q] = rec.owner /\ rec.live

(* No idle close begins while a replica that holds the lease of the channel *)
(* serves a request on it, not even one whose scan found the channel due    *)
(* before the request touched it (close_due_channels, request_server_close).*)
IdleCloseSparesRequests ==
  [][(rec'.asked /\ ~rec.asked /\ \A q \in Requests : req[q] # "closing")
       => \A q \in Requests : ~Serving(q)]_vars

CloseUnfinished == rec.asked /\ ~rec.sealed /\ ~rec.deferred

(* A close on record that stays unfinished is attempted again and again,    *)
(* whichever replica is restarted (close_due_channels).                     *)
CloseIsRetried ==
  <>[]CloseUnfinished => []<>(\E g \in Gateways : pc[Runloop(g)] = "claim")
=============================================================================
