---------------------------- MODULE ChannelStore ----------------------------
(* The Redis record of one payment channel, the gateway requests that draw  *)
(* on it, and the updates by which a close is claimed against them. A       *)
(* session channel is bound to a policy, and then guarded by the            *)
(* reservation and the close lease kept in its record, or it is a legacy    *)
(* one; a batch channel is a legacy record of the x402 batch scheme.        *)
(*                                                                          *)
(* Leases and deadlines carry no time: "live" becomes "expired" at a moment *)
(* nobody controls. Every price is one unit. Each update is one atomic      *)
(* update_channel of the store, which is external.                          *)
EXTENDS Channel, FiniteSets

CONSTANTS
  Requests,     \* gateway requests, each charging at most once
  Modes,        \* the kinds of channel considered
  NoRecord, NoOwner

Workers == Senders

ASSUME StoreAssumption ==
  /\ Modes \subseteq {"bound", "legacy", "batch"}
  /\ NoOwner \notin Workers
  /\ IsFiniteSet(Requests)

VARIABLES
  mode,         \* how this channel was opened
  rec,          \* its record
  req,          \* where each gateway request is
  base,         \* the watermark each request saw when it reserved
  charged       \* how often each request was charged

gatewayVars == <<req, base, charged>>
storeVars == <<mode, rec, gatewayVars>>

bound == mode = "bound"
batch == mode = "batch"

(* asked: close_requested_at is set. frozen: final_cumulative is set.       *)
(* expiring: mark_finalized gave the record its retention time. due: the    *)
(* idle deadline passed. res: the reservations. owner, live: the close      *)
(* lease of a bound channel.                                                *)
Records ==
  [cum : 0..Deposit, asked : BOOLEAN, frozen : BOOLEAN, sealed : BOOLEAN,
   expiring : BOOLEAN, due : BOOLEAN, res : [Requests -> {"none", "live", "expired"}],
   owner : Workers \cup {NoOwner}, live : BOOLEAN]

ASSUME RecordAssumption == NoRecord \notin Records

NoReservations == [q \in Requests |-> "none"]

StoreInit ==
  /\ mode \in Modes
  /\ rec = [cum |-> 0, asked |-> FALSE, frozen |-> FALSE, sealed |-> FALSE,
            expiring |-> FALSE, due |-> FALSE, res |-> NoReservations,
            owner |-> NoOwner, live |-> FALSE]
  /\ req = [q \in Requests |-> "new"]
  /\ base = [q \in Requests |-> 0]
  /\ charged = [q \in Requests |-> 0]

StoreTypeOK ==
  /\ mode \in Modes
  /\ rec \in Records \cup {NoRecord}
  /\ req \in [Requests -> {"new", "held", "done"}]
  /\ base \in [Requests -> 0..Deposit]
  /\ charged \in [Requests -> Nat]

(* has_blocking_authorization, and has_in_flight_authorization, which also  *)
(* counts expired reservations.                                             *)
Blocking(r) == \E q \in Requests : r.res[q] = "live"

InFlight(r) == r.res # NoReservations

ChannelCloseDue(r) == ~r.sealed /\ (r.asked \/ r.due)

----------------------------------------------------------------------------
(* The gateway                                                              *)

(* reserve of a bound channel.                                              *)
ReserveBound(q) ==
  /\ ~rec.sealed /\ ~rec.asked
  /\ rec.owner = NoOwner
  /\ ~Blocking(rec)
  /\ 1 <= Deposit - rec.cum
  /\ rec' = [rec EXCEPT !.res = [NoReservations EXCEPT ![q] = "live"]]

(* Any other channel: refused once a close or a seal is on record. For a    *)
(* session touch_channel follows.                                           *)
ReserveLegacy(q) ==
  /\ ~rec.sealed /\ ~rec.asked
  /\ Cardinality({p \in Requests : rec.res[p] # "none"}) < Deposit - rec.cum
  /\ rec' = [rec EXCEPT !.res[q] = "live", !.due = FALSE]

Reserve(q) ==
  /\ req[q] = "new"
  /\ rec # NoRecord
  /\ IF bound THEN ReserveBound(q) ELSE ReserveLegacy(q)
  /\ req' = [req EXCEPT ![q] = "held"]
  /\ base' = [base EXCEPT ![q] = rec.cum]
  /\ UNCHANGED <<mode, charged>>

(* require_reservation, evaluated in the update that charges.               *)
RequireReservation(q, r) ==
  /\ ~r.sealed /\ ~r.asked
  /\ r.owner = NoOwner
  /\ r.res[q] = "live"

CommitBoundAgain(q) ==
  /\ RequireReservation(q, rec)
  /\ rec' = [rec EXCEPT !.cum = @ + 1, !.due = FALSE]

(* commit_reserved_usage: the charge of a bound request is refused unless   *)
(* the watermark is still the one it reserved at.                           *)
CommitBound(q) ==
  /\ rec.cum = base[q]
  /\ RequireReservation(q, rec)
  /\ rec' = [rec EXCEPT !.cum = @ + 1, !.due = FALSE]

CommitLegacyLate(q) ==
  /\ ~rec.sealed
  /\ rec.res[q] # "none"
  /\ rec' = [rec EXCEPT !.cum = @ + 1, !.due = FALSE, !.res[q] = "none"]

CommitLegacyKept(q) ==
  /\ ~rec.sealed /\ ~rec.frozen
  /\ rec.res[q] # "none"
  /\ rec' = [rec EXCEPT !.cum = @ + 1, !.due = FALSE]

(* Any other delivery is charged, its reservation expired or not, even      *)
(* after a close was recorded, until the watermark is frozen.               *)
CommitLegacy(q) ==
  /\ ~rec.sealed /\ ~rec.frozen
  /\ rec.res[q] # "none"
  /\ rec' = [rec EXCEPT !.cum = @ + 1, !.due = FALSE, !.res[q] = "none"]

Commit(q) ==
  /\ req[q] = "held"
  /\ rec # NoRecord
  /\ IF bound THEN CommitBound(q) ELSE CommitLegacy(q)
  /\ charged' = [charged EXCEPT ![q] = @ + 1]
  /\ UNCHANGED <<mode, req, base>>

(* The request ends. Its reservation is released, unless that is lost or,   *)
(* for a legacy session, left to expire.                                    *)
Drop(q) ==
  /\ req[q] = "held"
  /\ req' = [req EXCEPT ![q] = "done"]
  /\ base' = [base EXCEPT ![q] = 0]
  /\ \/ rec' = rec
     \/ /\ bound \/ batch
        /\ rec # NoRecord
        /\ rec' = [rec EXCEPT !.res[q] = "none"]
  /\ UNCHANGED <<mode, charged>>

(* To a bound channel an expired reservation is none.                       *)
ReservationExpires(q) ==
  /\ rec # NoRecord
  /\ rec.res[q] = "live"
  /\ rec' = [rec EXCEPT !.res[q] = IF bound THEN "none" ELSE "expired"]
  /\ UNCHANGED <<mode, gatewayVars>>

IdleDeadline ==
  /\ rec # NoRecord
  /\ ~batch /\ ~rec.sealed /\ ~ChannelCloseDue(rec)
  /\ rec' = [rec EXCEPT !.due = TRUE]
  /\ UNCHANGED <<mode, gatewayVars>>

(* Redis drops a record past its retention time.                            *)
RecordExpires ==
  /\ rec # NoRecord
  /\ rec.expiring
  /\ rec' = NoRecord
  /\ UNCHANGED <<mode, gatewayVars>>

----------------------------------------------------------------------------
(* Claiming a close                                                         *)

(* claim_close: whether w takes, renews or takes over the close lease.      *)
ClaimCloseAllowed(w, r) ==
  /\ ~r.sealed
  /\ ~Blocking(r)
  /\ r.owner \in {NoOwner, w} \/ ~r.live
  /\ r.asked \/ r.due

(* claim_channel_close: a live reservation defers the close of a channel    *)
(* that is due; otherwise the amount is frozen as the close is recorded.    *)
ClaimChannelCloseAllowed(r) == ChannelCloseDue(r) /\ ~r.frozen => ~Blocking(r)

ClaimChannelClose(r) ==
  IF ChannelCloseDue(r) THEN [r EXCEPT !.asked = TRUE, !.frozen = TRUE] ELSE r

TransitionAllowed(w, r) ==
  IF bound THEN ClaimCloseAllowed(w, r) ELSE ClaimChannelCloseAllowed(r)

TransitionDueClose(w, r) ==
  IF bound
  THEN [r EXCEPT !.res = NoReservations, !.owner = w, !.live = TRUE,
                 !.asked = TRUE, !.frozen = TRUE]
  ELSE ClaimChannelClose(r)

(* claim_due_close by w succeeds.                                           *)
ClaimDueClose(w) ==
  /\ rec # NoRecord
  /\ TransitionAllowed(w, rec)
  /\ rec' = TransitionDueClose(w, rec)

CloseLeaseExpires ==
  /\ rec # NoRecord
  /\ rec.live /\ ~rec.sealed
  /\ rec' = [rec EXCEPT !.live = FALSE]
  /\ UNCHANGED <<mode, gatewayVars>>

(* delete_fenced_channel finds nothing in flight in the record it deletes.  *)
DeleteFencedChannel(r) ==
  IF r = NoRecord THEN r ELSE IF InFlight(r) THEN r ELSE NoRecord

(* retain_sealed_record, and mark_finalized, which also lets the record     *)
(* expire.                                                                  *)
RetainSealed(r) == IF r = NoRecord THEN r ELSE [r EXCEPT !.sealed = TRUE]

MarkFinalized(r) ==
  IF r = NoRecord THEN r ELSE [r EXCEPT !.sealed = TRUE, !.expiring = TRUE]

(* channel_absence_proven and finalized_distributed, both at finalized      *)
(* commitment.                                                              *)
ChannelAbsenceProven == fin.status = "gone"

ConfirmedDistributed == chain.status \in {"distributed", "gone"}

FinalizedDistributed == fin.status \in {"distributed", "gone"}
=============================================================================
