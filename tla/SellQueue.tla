----------------------------- MODULE SellQueue -----------------------------
(* One inference endpoint of a seller: buyers reserve a share of the earn   *)
(* cap, pay, and park their requests in a queue that the seller's workers   *)
(* poll. A reservation ends once, by whoever holds it at that time: the     *)
(* buyer's handler, the queue, a worker's call, or the task that settles    *)
(* the payment of a stream.                                                 *)
(*                                                                          *)
(* Requests are buffered, streamed at a flat price, or streamed and metered *)
(* by the token. Chunks matter only where they are charged for.             *)
EXTENDS Integers, FiniteSets

CONSTANTS
  Requests,
  Workers,    \* concurrent polls of the seller's workers
  Expected,   \* the most one request can earn
  Caps,       \* earn caps an endpoint may be created with
  Limits      \* values of MAX_WAITING to look at

ASSUME SellAssumption ==
  /\ IsFiniteSet(Requests) /\ IsFiniteSet(Workers)
  /\ Expected \in Nat \ {0}
  /\ Caps \subseteq Nat \ {0} /\ Limits \subseteq Nat \ {0}

VARIABLES
  reserved, earned, closed, \* Earnings
  cap,        \* the earn cap of the endpoint
  limit,      \* MAX_WAITING
  kind,       \* how each request is answered and paid
  stage,      \* where its buyer is
  open,       \* the requests whose event channel has a receiver
  waiting,    \* requests parked,
  arrival,    \* in this order
  claimed,    \* requests a worker took
  completed,  \* requests whose Complete event is in their channel
  due,        \* what whoever ended a request still has to do to its reservation
  wpc,        \* where each poll is
  wakes,      \* notifications not yet consumed, stored permit included
  charging,   \* the charge in flight of a metered stream
  recorded,   \* what its observer was told
  paid,       \* what each stream really paid
  unconfirmed, \* streams with a payment whose outcome is not known
  credited    \* what the endpoint earned with it

earnVars == <<reserved, earned, closed, credited>>
queueVars == <<waiting, arrival, claimed, completed, due>>
pollVars == <<wpc, wakes>>
meterVars == <<charging, recorded, paid, unconfirmed>>
givenVars == <<cap, limit, kind>>
vars == <<earnVars, queueVars, pollVars, meterVars, givenVars, stage, open>>

Kinds == {"buffered", "flat", "metered"}

TypeOK ==
  /\ reserved \in Nat /\ earned \in Nat /\ closed \in BOOLEAN
  /\ cap \in Caps /\ limit \in Limits
  /\ kind \in [Requests -> Kinds]
  /\ stage \in [Requests -> {"new", "gate", "parking", "parked", "answer", "leaving",
                             "cut", "committing", "draining", "closing", "done"}]
  /\ open \subseteq Requests
  /\ waiting \subseteq Requests
  /\ arrival \in [Requests -> Nat]
  /\ claimed \subseteq Requests
  /\ completed \subseteq Requests
  /\ due \in [Requests -> {"none", "release", "settle"}]
  /\ wpc \in [Workers -> {"idle", "take", "checked", "asleep"}]
  /\ wakes \in Nat
  /\ charging \in [Requests -> {"none", "running", "landed", "failed"}]
  /\ recorded \in [Requests -> 0..Expected]
  /\ paid \in [Requests -> 0..Expected]
  /\ unconfirmed \subseteq Requests
  /\ credited \in [Requests -> Nat]

Init ==
  /\ reserved = 0 /\ earned = 0 /\ closed = FALSE
  /\ cap \in Caps /\ limit \in Limits
  /\ \E stream \in {"flat", "metered"} : kind \in [Requests -> {"buffered", stream}]
  /\ stage = [q \in Requests |-> "new"]
  /\ open = {} /\ waiting = {} /\ claimed = {} /\ completed = {} /\ unconfirmed = {}
  /\ arrival = [q \in Requests |-> 0]
  /\ due = [q \in Requests |-> "none"]
  /\ wpc = [w \in Workers |-> "idle"]
  /\ wakes = 0
  /\ charging = [q \in Requests |-> "none"]
  /\ recorded = [q \in Requests |-> 0]
  /\ paid = [q \in Requests |-> 0]
  /\ credited = [q \in Requests |-> 0]

At(q, label) == stage' = [stage EXCEPT ![q] = label]

----------------------------------------------------------------------------
(* Earnings, under one lock                                                 *)

SaturatingSub(a, b) == IF a < b THEN 0 ELSE a - b

(* A bug: what is already reserved is left out.                             *)
UnreservedOfEarned == ~closed /\ earned < cap

(* try_reserve                                                              *)
Unreserved == ~closed /\ earned + reserved < cap

TryReserve ==
  /\ reserved' = reserved + Expected
  /\ UNCHANGED <<earned, closed, credited>>

Release ==
  /\ reserved' = SaturatingSub(reserved, Expected)
  /\ UNCHANGED <<earned, closed, credited>>

(* settle: q earned amount.                                                 *)
Settle(q, amount) ==
  /\ reserved' = SaturatingSub(reserved, Expected)
  /\ earned' = earned + amount
  /\ closed' = (closed \/ earned' >= cap)
  /\ credited' = [credited EXCEPT ![q] = @ + amount]

----------------------------------------------------------------------------
(* Buyers                                                                   *)

(* dispatch: a share of the cap is reserved before the payment gate.        *)
Dispatch(q) ==
  /\ stage[q] = "new"
  /\ IF Unreserved
     THEN TryReserve /\ At(q, "gate")
     ELSE At(q, "done") /\ UNCHANGED earnVars
  /\ UNCHANGED <<queueVars, pollVars, meterVars, givenVars, open>>

(* The gate rejects the payment, or the buyer leaves: ReservationGuard.     *)
GateRejects(q) ==
  /\ stage[q] = "gate"
  /\ Release
  /\ At(q, "done")
  /\ UNCHANGED <<queueVars, pollVars, meterVars, givenVars, open>>

Due(q, what) == due' = [due EXCEPT ![q] = what]

Arrived == {q \in Requests : arrival[q] > 0}

(* chat_completions of a paid request, with park up to its notification.    *)
Park(q) ==
  /\ stage[q] = "gate"
  /\ IF Cardinality(waiting) >= limit
     THEN /\ Due(q, "release")
          /\ At(q, "done")
          /\ UNCHANGED <<waiting, arrival, open>>
     ELSE /\ waiting' = waiting \cup {q}
          /\ arrival' = [arrival EXCEPT ![q] = 1 + Cardinality(Arrived)]
          /\ open' = open \cup {q}
          /\ At(q, "parking")
          /\ UNCHANGED due
  /\ UNCHANGED <<earnVars, claimed, completed, pollVars, meterVars, givenVars>>

Asleep == {w \in Workers : wpc[w] = "asleep"}

(* A bug: the polls asleep are woken, and nothing is stored.                *)
WokenNoPermit == Cardinality(Asleep)

(* One more sleeper is woken, or one permit is stored.                      *)
Woken == IF wakes <= Cardinality(Asleep) THEN wakes + 1 ELSE wakes

NotifyOne(q) ==
  /\ stage[q] = "parking"
  /\ wakes' = Woken
  /\ At(q, "parked")
  /\ UNCHANGED <<earnVars, queueVars, wpc, meterVars, givenVars, open>>

(* The Claimed event is read.                                               *)
ReadClaimed(q) ==
  /\ stage[q] = "parked"
  /\ q \notin waiting
  /\ At(q, "answer")
  /\ UNCHANGED <<earnVars, queueVars, pollVars, meterVars, givenVars, open>>

(* The receiver of a response goes, and what is in its channel with it.     *)
Hangup(q) == open' = open \ {q} /\ completed' = completed \ {q}

(* The receiver of a dropped response may go before its guard.              *)
CloseReceiver(q) ==
  /\ stage[q] \in {"parked", "answer"}
  /\ Hangup(q)
  /\ At(q, IF stage[q] = "parked" THEN "leaving" ELSE "cut")
  /\ UNCHANGED <<earnVars, waiting, arrival, claimed, due, pollVars, meterVars, givenVars>>

(* A bug: the handler releases what a worker's call releases as well.       *)
GuardReleasesAlways(q) == TRUE

(* ClaimedRequestGuard: a reservation with the queue is released by whoever *)
(* takes the request out of it.                                             *)
GuardReleases(q) == kind[q] # "buffered" \/ q \in waiting \cup claimed

(* A bug: a request that a worker took is not abandoned.                    *)
AbandonWaiting(q) == waiting' = waiting \ {q} /\ claimed' = claimed

(* EndpointQueue::abandon                                                   *)
Abandon(q) == waiting' = waiting \ {q} /\ claimed' = claimed \ {q}

(* The response ends: it was answered, it failed or timed out, or the buyer *)
(* left. The guard abandons the request, and the observer of a stream is    *)
(* dropped, by the meter of a stream that was read after its last charge.   *)
DropGuard(q) ==
  /\ stage[q] \in {"parked", "answer", "leaving", "cut"}
  /\ Abandon(q)
  /\ Hangup(q)
  /\ IF kind[q] = "metered" /\ stage[q] \in {"answer", "cut"}
     THEN At(q, "draining") /\ UNCHANGED due
     ELSE At(q, "done") /\ (IF GuardReleases(q) THEN Due(q, "release") ELSE UNCHANGED due)
  /\ UNCHANGED <<earnVars, arrival, pollVars, meterVars, givenVars>>

(* A flat stream is paid for at its explicit completion, by a task that     *)
(* outlives the response.                                                   *)
ReadComplete(q) ==
  /\ stage[q] = "answer" /\ kind[q] = "flat"
  /\ q \in completed
  /\ At(q, "committing")
  /\ Hangup(q)
  /\ UNCHANGED <<earnVars, waiting, arrival, claimed, due, pollVars, meterVars, givenVars>>

(* StreamCompletion::settled                                                *)
Settled(q, ok) == IF ok THEN Settle(q, Expected) ELSE Release

(* DeliveryTask: a commit that is not confirmed may have been made.         *)
Commit(q, ok) ==
  /\ stage[q] = "committing"
  /\ \/ /\ paid' = [paid EXCEPT ![q] = Expected]
        /\ unconfirmed' = IF ok THEN unconfirmed ELSE unconfirmed \cup {q}
     \/ ~ok /\ UNCHANGED <<paid, unconfirmed>>
  /\ Settled(q, ok)
  /\ At(q, "done")
  /\ UNCHANGED <<queueVars, pollVars, charging, recorded, givenVars, open>>

----------------------------------------------------------------------------
(* Metered streams: every charge is a task of its own, which outlives the   *)
(* response                                                                 *)

UnderAuthorization(q) == recorded[q] < Expected

(* settle of the meter, for a chunk or for the usage a stream that ended    *)
(* implies; nothing is charged after that.                                  *)
Charge(q) ==
  /\ kind[q] = "metered" /\ stage[q] \in {"answer", "draining"}
  /\ charging[q] = "none" /\ UnderAuthorization(q)
  /\ charging' = [charging EXCEPT ![q] = "running"]
  /\ IF stage[q] = "draining" THEN At(q, "closing") ELSE UNCHANGED stage
  /\ UNCHANGED <<earnVars, queueVars, pollVars, recorded, paid, unconfirmed, givenVars, open>>

(* A charge names the total of its request: one that was made but not       *)
(* confirmed is not made twice.                                             *)
ChargeLands(q, ok) ==
  /\ charging[q] = "running"
  /\ charging' = [charging EXCEPT ![q] = IF ok THEN "landed" ELSE "failed"]
  /\ \/ /\ paid' = [paid EXCEPT ![q] = recorded[q] + 1]
        /\ unconfirmed' = IF ok THEN unconfirmed \ {q} ELSE unconfirmed \cup {q}
     \/ ~ok /\ UNCHANGED <<paid, unconfirmed>>
  /\ UNCHANGED <<earnVars, queueVars, pollVars, recorded, givenVars, stage, open>>

(* resolve_in_flight: a charge that failed cuts the stream, and ends the    *)
(* charges of one that was cut.                                             *)
ResolveInFlight(q) ==
  /\ stage[q] \in {"answer", "draining", "closing"}
  /\ charging[q] \in {"landed", "failed"}
  /\ recorded' = [recorded EXCEPT ![q] = IF charging[q] = "landed" THEN @ + 1 ELSE @]
  /\ charging' = [charging EXCEPT ![q] = "none"]
  /\ IF charging[q] = "landed" THEN UNCHANGED <<stage, open, completed>>
     ELSE /\ At(q, IF stage[q] = "answer" THEN "cut" ELSE "closing")
          /\ Hangup(q)
  /\ UNCHANGED <<earnVars, waiting, arrival, claimed, due, pollVars, paid, unconfirmed, givenVars>>

(* A bug: the charge in flight is not waited for.                           *)
ResolvedAnyhow(q) == TRUE

Resolved(q) == charging[q] = "none"

(* abort_stream or finish_stream is over: the observer reports.             *)
Drained(q) ==
  /\ stage[q] \in {"draining", "closing"}
  /\ Resolved(q)
  /\ Settle(q, recorded[q])
  /\ At(q, "done")
  /\ UNCHANGED <<queueVars, pollVars, meterVars, givenVars, open>>

----------------------------------------------------------------------------
(* Workers                                                                  *)

(* next_request: a closed endpoint is drained first.                        *)
Poll(w) ==
  /\ wpc[w] = "idle"
  /\ ~closed \/ waiting # {} \/ claimed # {}
  /\ wpc' = [wpc EXCEPT ![w] = "take"]
  /\ UNCHANGED <<earnVars, queueVars, wakes, meterVars, givenVars, stage, open>>

Before(q) == {r \in waiting : arrival[r] < arrival[q]}

(* Requests whose buyer left; the reservation of a stream is not the call's.*)
Abandoned(gone) ==
  due' = [r \in Requests |->
            IF r \in gone /\ kind[r] = "buffered" THEN "release" ELSE due[r]]

(* EndpointQueue::next, under its lock: the oldest request whose buyer is   *)
(* there, skipping the others.                                              *)
Take(w, q) ==
  /\ wpc[w] = "take"
  /\ q \in waiting \cap open
  /\ Before(q) \cap open = {}
  /\ waiting' = waiting \ (Before(q) \cup {q})
  /\ claimed' = claimed \cup {q}
  /\ Abandoned(Before(q))
  /\ wpc' = [wpc EXCEPT ![w] = "idle"]
  /\ UNCHANGED <<earnVars, arrival, completed, wakes, meterVars, givenVars, stage, open>>

TakeNothing(w) ==
  /\ wpc[w] = "take"
  /\ waiting \cap open = {}
  /\ waiting' = {}
  /\ Abandoned(waiting)
  /\ wpc' = [wpc EXCEPT ![w] = IF waiting = {} THEN "checked" ELSE "idle"]
  /\ UNCHANGED <<earnVars, arrival, claimed, completed, wakes, meterVars, givenVars, stage, open>>

(* notified: a stored permit is consumed at once.                           *)
Notified(w) ==
  /\ wpc[w] = "checked"
  /\ IF wakes > Cardinality(Asleep)
     THEN wpc' = [wpc EXCEPT ![w] = "take"] /\ wakes' = wakes - 1
     ELSE wpc' = [wpc EXCEPT ![w] = "asleep"] /\ wakes' = wakes
  /\ UNCHANGED <<earnVars, queueVars, meterVars, givenVars, stage, open>>

Wake(w) ==
  /\ wpc[w] = "asleep" /\ wakes > 0
  /\ wpc' = [wpc EXCEPT ![w] = "take"]
  /\ wakes' = wakes - 1
  /\ UNCHANGED <<earnVars, queueVars, meterVars, givenVars, stage, open>>

(* A notification to a poll that timed out goes to another one.             *)
PollTimeout(w) ==
  /\ wpc[w] \in {"checked", "asleep"}
  /\ wpc' = [wpc EXCEPT ![w] = "idle"]
  /\ wakes' = IF wakes > Cardinality(Asleep \ {w}) + 1 THEN wakes - 1 ELSE wakes
  /\ UNCHANGED <<earnVars, queueVars, meterVars, givenVars, stage, open>>

(* finish: complete and fail. A buffered answer the buyer did not wait for  *)
(* earns nothing; a stream is accounted for by its response.                *)
Finish(q, ok) ==
  /\ q \in claimed
  /\ claimed' = claimed \ {q}
  /\ completed' = IF ok /\ q \in open THEN completed \cup {q} ELSE completed
  /\ due' = IF kind[q] # "buffered" THEN due
            ELSE [due EXCEPT ![q] = IF ok /\ q \in open THEN "settle" ELSE "release"]
  /\ UNCHANGED <<earnVars, waiting, arrival, pollVars, meterVars, givenVars, stage, open>>

(* What was taken out of the queue is accounted for. request_earnings: the  *)
(* flat price, or the reported usage at most the ceiling.                   *)
Account(q) ==
  /\ due[q] # "none"
  /\ IF due[q] = "release" THEN Release
     ELSE \E amount \in 0..Expected : Settle(q, amount)
  /\ Due(q, "none")
  /\ UNCHANGED <<waiting, arrival, claimed, completed, pollVars, meterVars, givenVars, stage, open>>

----------------------------------------------------------------------------
BuyerStep(q) ==
  \/ Dispatch(q) \/ GateRejects(q) \/ Park(q) \/ NotifyOne(q) \/ ReadClaimed(q)
  \/ CloseReceiver(q) \/ DropGuard(q) \/ ReadComplete(q)

PaymentStep(q) ==
  \/ \E ok \in BOOLEAN : Commit(q, ok) \/ ChargeLands(q, ok)
  \/ Charge(q) \/ ResolveInFlight(q) \/ Drained(q)

CallStep(q) == (\E ok \in BOOLEAN : Finish(q, ok)) \/ Account(q)

PollStep(w) ==
  \/ Poll(w) \/ (\E q \in Requests : Take(w, q)) \/ TakeNothing(w)
  \/ Notified(w) \/ Wake(w) \/ PollTimeout(w)

Next ==
  \/ \E q \in Requests : BuyerStep(q) \/ PaymentStep(q) \/ CallStep(q)
  \/ \E w \in Workers : PollStep(w)

Spec == Init /\ [][Next]_vars

----------------------------------------------------------------------------
(* Who answers for the reservation of q: the handler before the queue, the  *)
(* queue and the calls on it, or the settlement of a stream.                *)
Held(q) ==
  \/ stage[q] = "gate" \/ due[q] # "none"
  \/ kind[q] = "buffered" /\ q \in waiting \cup claimed
  \/ kind[q] # "buffered" /\ stage[q] \notin {"new", "done"}

Holding == {q \in Requests : Held(q)}

(* Every reservation is given back exactly once, however buyers that leave, *)
(* time-outs, polls and answers interleave: what is reserved is what the    *)
(* requests still held amount to, and no subtraction saturates.             *)
ReservationsAddUp == reserved = Expected * Cardinality(Holding)

(* The endpoint earns at most one request more than its cap allows, all     *)
(* that is still reserved included.                                         *)
CapHolds == earned + reserved < cap + Expected

(* The endpoint earns with a stream what its buyer paid, and no less unless *)
(* the outcome of a payment was never known: a buyer who leaves while a     *)
(* charge or a commit is under way loses neither side any of it.            *)
StreamEarnsWhatWasPaid ==
  \A q \in Requests :
    kind[q] # "buffered" /\ stage[q] = "done" =>
      IF q \in unconfirmed THEN credited[q] <= paid[q] ELSE credited[q] = paid[q]

(* While a request waits that was announced, the polls are not all asleep   *)
(* with no notification on its way.                                         *)
NoLostWakeup ==
  (\E q \in waiting : stage[q] = "parked") /\ Workers # {} /\ Asleep = Workers => wakes > 0

(* The steps of q nobody has to be waited for: a wait of a buyer has a      *)
(* timeout, and tasks and calls run to their end.                           *)
Advance(q) ==
  \/ GateRejects(q) \/ Park(q) \/ NotifyOne(q) \/ DropGuard(q)
  \/ \E ok \in BOOLEAN : Commit(q, ok) \/ ChargeLands(q, ok)
  \/ ResolveInFlight(q) \/ Drained(q) \/ Account(q)

(* No reservation is stranded: what is held of the cap can be given back    *)
(* without a worker's help, as the workers may be gone.                     *)
NoReservationStranded == \A q \in Holding : ENABLED Advance(q)

=============================================================================
