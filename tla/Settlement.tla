----------------------------- MODULE Settlement -----------------------------
(* The settle-sessions workers, the gateway, the payer and the cluster      *)
(* around one payment channel.                                              *)
EXTENDS SessionWorker, BatchWorker

TypeOK ==
  /\ ChannelTypeOK
  /\ StoreTypeOK
  /\ pc \in [Workers -> {"idle", "reconcile", "submit", "refresh", "guard", "send",
                         "confirm", "finalize"}]
  /\ snap \in [Workers -> SessionCopies \cup BatchCopies \cup {NoRecord}]
  /\ plan \in [Workers -> Plans]

Init == ChannelInit /\ StoreInit /\ PassInit

WorkerStep(w) == SessionStep(w) \/ BatchStep(w) \/ GiveUp(w)

GatewayStep ==
  /\ \/ \E q \in Requests : Reserve(q) \/ Commit(q) \/ Drop(q) \/ ReservationExpires(q)
     \/ IdleDeadline
     \/ CloseLeaseExpires
     \/ RecordExpires
  /\ UNCHANGED <<channelVars, passVars>>

ChainStep ==
  /\ \/ \E w \in Workers : Confirmed(w)
     \/ RequestClose
     \/ \E t \in PermissionlessTxs : Permissionless(t)
     \/ GraceLapses
     \/ Finalize
     \/ Fork
  /\ UNCHANGED <<storeVars, passVars>>

Next ==
  \/ \E w \in Workers : WorkerStep(w)
  \/ GatewayStep
  \/ ChainStep

Spec == Init /\ [][Next]_vars

(* Requests end, leases run out and blocks become final. A pass may be cut  *)
(* short anywhere, so its steps need strong fairness: the scheduled job     *)
(* runs again and again, and not every attempt fails at the same place,     *)
(* reads a lagging node or finds the refund account unusable.               *)
Fairness ==
  /\ \A q \in Requests :
       WF_vars(GatewayStep /\ Drop(q)) /\ WF_vars(GatewayStep /\ ReservationExpires(q))
  /\ WF_vars(GatewayStep /\ IdleDeadline)
  /\ WF_vars(GatewayStep /\ CloseLeaseExpires)
  /\ WF_vars(ChainStep /\ Finalize)
  /\ \A w \in Workers :
       /\ SF_vars(Scan(w) \/ (ScanBatch(w) /\ snap'[w] = Listed(rec, chain)))
       /\ SF_vars(Reconcile(w, TRUE) \/ ReconcileBatch(w, TRUE))
       /\ SF_vars(Submit(w)) /\ SF_vars(Refresh(w, TRUE)) /\ SF_vars(Guard(w))
       /\ SF_vars(Send(w) \/ SendBatch(w))
       /\ SF_vars(Confirm(w) \/ ConfirmBatch(w))
       /\ SF_vars(FinishBatch(w))
       /\ SF_vars(ChainStep /\ Confirmed(w))
       /\ WF_vars(GiveUp(w))

FairSpec == Spec /\ Fairness

----------------------------------------------------------------------------
Ended == {"distributed", "gone"}

(* A session channel sealed before the grace period of a payer's close ran  *)
(* out was settled at everything the gateway accepted, and nothing is       *)
(* accepted afterwards: for a bound channel whoever closed it, for a legacy *)
(* channel unless the payer did.                                            *)
SealCoversAccepted ==
  /\ bound \/ (mode = "legacy" /\ ~payerClosed)
  /\ rec # NoRecord /\ forks = 0
  /\ chain.status \in {"sealed", "distributed"} /\ ~chain.lapsed
  => chain.settled = rec.cum

(* No transaction a worker sent can seal a batch channel below what the     *)
(* gateway accepted: the amount is frozen before the close is planned, and  *)
(* past the grace period a close that would forfeit anything is refused.    *)
NoForfeit ==
  \A w \in Workers :
    /\ batch /\ rec # NoRecord /\ forks = 0
    /\ tx[w].op \in {"settleAndSeal", "seal"} /\ Accepted(tx[w], chain)
    => After(tx[w], chain).settled >= rec.cum

(* No worker takes a channel away from a request at work: while its         *)
(* reservation lives its charge is accepted. Only the payer's own close of  *)
(* a session may get in between.                                            *)
LiveReservationHonoured ==
  \A q \in Requests :
    /\ rec # NoRecord
    /\ req[q] = "held" /\ charged[q] = 0 /\ rec.res[q] = "live"
    => IF bound THEN payerClosed \/ (RequireReservation(q, rec) /\ rec.cum = base[q])
                ELSE ~rec.frozen

(* A request is charged at most once, though a bound reservation outlives   *)
(* its charge.                                                              *)
ChargedOnce == \A q \in Requests : charged[q] <= 1

(* A record is finished for the worker.                                     *)
Finished(r) == IF r = NoRecord THEN TRUE ELSE IF batch THEN r.expiring ELSE r.sealed

(* A record is finished, or gone, only when the distribution of its channel *)
(* is final: no lagging, failed or unfinalized read can end it early.       *)
RecordOutlivesChannel == forks = 0 /\ Finished(rec) => fin.status \in Ended

(* Once a close is claimed its amount is fixed, whatever becomes of the     *)
(* lease and of requests still at work.                                     *)
ClaimFixesAmount ==
  [][rec # NoRecord /\ rec' # NoRecord /\ rec.frozen => rec'.frozen /\ rec'.cum = rec.cum]_vars

(* What is settled for good is everything the gateway accepted.             *)
SettledInFull == rec = NoRecord \/ fin.settled >= rec.cum

(* Though passes fail anywhere and transactions are abandoned, a session is *)
(* in the end distributed and its record finished. A batch channel its      *)
(* payer does not close is settled in full; one the payer closes is         *)
(* distributed, or held for an operator when the grace period ran out on    *)
(* unsettled usage.                                                         *)
ChannelIsFinished ==
  <>[](\/ forks > 0
       \/ fin.status \in Ended /\ (batch \/ Finished(rec))
       \/ batch /\ ~payerClosed /\ SettledInFull
       \/ batch /\ fin.lapsed /\ ~SettledInFull)
=============================================================================
