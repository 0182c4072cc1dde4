----------------------------- MODULE SellProofs ------------------------------
(***************************************************************************)
(* The reservations of an endpoint add up, its cap holds and its streams    *)
(* earn what was paid: for any number of requests and workers, any price,   *)
(* cap and queue length.                                                    *)
(***************************************************************************)
EXTENDS SellQueue, FiniteSetTheorems, TLAPS

(* Most steps are logic without arithmetic; the others name the SMT backend. *)
USE Zenon

-----------------------------------------------------------------------------
(* The inductive invariant.                                                 *)

Answering == {"answer", "cut", "draining", "closing"}

(* A reservation has one owner at a time: the handler, the queue, a call    *)
(* that took it out of the queue, or the settlement of a stream.            *)
OwnerInv(q) ==
  /\ stage[q] \in {"new", "gate", "committing", "draining", "closing", "done"} =>
       q \notin waiting \cup claimed
  /\ q \in completed => q \notin waiting \cup claimed /\ stage[q] \notin {"new", "gate"}
  /\ stage[q] \in {"new", "gate"} => due[q] = "none"
  /\ q \in waiting => q \notin claimed
  /\ q \in waiting \cup claimed => due[q] = "none"
  /\ kind[q] # "buffered" /\ stage[q] # "done" => due[q] = "none"
  /\ kind[q] = "buffered" => stage[q] \notin {"committing", "draining", "closing"}
  /\ due[q] = "settle" => kind[q] = "buffered"

(* What a stream paid is what its observer knows of, but for the charge in  *)
(* flight and one that was not confirmed.                                   *)
StreamInv(q) ==
  /\ charging[q] # "none" =>
       kind[q] = "metered" /\ stage[q] \in Answering /\ recorded[q] < Expected
  /\ stage[q] = "committing" => kind[q] = "flat"
  /\ kind[q] = "flat" => recorded[q] = 0 /\ (stage[q] # "done" => paid[q] = 0)
  /\ kind[q] = "metered" =>
       /\ charging[q] = "landed" => paid[q] = recorded[q] + 1 /\ q \notin unconfirmed
       /\ charging[q] # "landed" =>
            IF q \in unconfirmed THEN recorded[q] <= paid[q] ELSE paid[q] = recorded[q]
       /\ stage[q] \notin Answering \cup {"done"} => recorded[q] = 0 /\ paid[q] = 0
  /\ kind[q] # "buffered" /\ stage[q] # "done" => credited[q] = 0
  /\ kind[q] = "flat" /\ stage[q] # "done" => q \notin unconfirmed

IInv ==
  /\ TypeOK
  /\ \A q \in Requests : OwnerInv(q) /\ StreamInv(q)
  /\ ReservationsAddUp
  /\ CapHolds
  /\ StreamEarnsWhatWasPaid

-----------------------------------------------------------------------------
(* Counting reservations.                                                   *)

(* What is held is counted by a number.                                     *)
LEMMA HoldingFinite ==
  IsFiniteSet(Holding) /\ Cardinality(Holding) \in Nat
BY SellAssumption, FS_Subset, FS_CardinalityType DEF Holding

(* The polls asleep and the requests that arrived are counted by numbers.   *)
LEMMA CountsAreNat ==
  /\ Cardinality(Arrived) \in Nat
  /\ \A w : Cardinality(Asleep) \in Nat /\ Cardinality(Asleep \ {w}) \in Nat
<1>1. \A S \in SUBSET Requests : Cardinality(S) \in Nat
  BY SellAssumption, FS_Subset, FS_CardinalityType
<1>2. \A S \in SUBSET Workers : Cardinality(S) \in Nat
  BY SellAssumption, FS_Subset, FS_CardinalityType
<1>3. Arrived \in SUBSET Requests
  BY DEF Arrived
<1>4. Asleep \in SUBSET Workers /\ \A w : Asleep \ {w} \in SUBSET Workers
  BY DEF Asleep
<1> QED BY <1>1, <1>2, <1>3, <1>4

(* Steps that leave the reservations where they are.                        *)
LEMMA KeepsAccounts ==
  ASSUME IInv, Holding' = Holding, UNCHANGED <<reserved, earned, cap>>
  PROVE  ReservationsAddUp' /\ CapHolds'
BY DEF IInv, ReservationsAddUp, CapHolds

(* try_reserve adds one reservation, below the cap.                         *)
LEMMA ReservesOne ==
  ASSUME IInv, NEW q \in Requests, q \notin Holding, Holding' = Holding \cup {q},
         Unreserved, TryReserve, UNCHANGED cap
  PROVE  ReservationsAddUp' /\ CapHolds'
<1> DEFINE n == Cardinality(Holding)
<1>1. n \in Nat /\ Cardinality(Holding') = n + 1
  BY HoldingFinite, FS_AddElement
<1>2. Expected \in Nat /\ reserved = Expected * n /\ reserved \in Nat /\ earned \in Nat /\ cap \in Nat
  BY SellAssumption DEF IInv, TypeOK, ReservationsAddUp
<1>3. Expected * (n + 1) = Expected * n + Expected
  BY SMT, <1>1, <1>2
<1>4. reserved' = reserved + Expected /\ earned' = earned /\ earned + reserved < cap /\ cap' = cap
  BY DEF TryReserve, Unreserved
<1>5. CapHolds'
  BY SMT, <1>2, <1>4, SellAssumption DEF CapHolds
<1> QED BY <1>1, <1>2, <1>3, <1>4, <1>5 DEF ReservationsAddUp

(* release and settle end one reservation, and the subtraction is exact.    *)
LEMMA GivesBack ==
  ASSUME IInv, NEW q \in Requests, q \in Holding, Holding' = Holding \ {q},
         NEW amount \in 0..Expected,
         reserved' = SaturatingSub(reserved, Expected), earned' = earned + amount, UNCHANGED cap
  PROVE  ReservationsAddUp' /\ CapHolds'
<1> DEFINE n == Cardinality(Holding)
<1>1. n \in Nat /\ Cardinality(Holding') = n - 1 /\ n # 0
  BY HoldingFinite, FS_RemoveElement, FS_EmptySet
<1>2. Expected \in Nat /\ reserved = Expected * n /\ reserved \in Nat /\ earned \in Nat /\ cap \in Nat
  BY SellAssumption DEF IInv, TypeOK, ReservationsAddUp
<1>3. n - 1 \in Nat /\ Expected * n = Expected * (n - 1) + Expected /\ Expected * (n - 1) \in Nat
  BY SMT, <1>1, <1>2
<1>4. reserved' = reserved - Expected
  BY SMT, <1>2, <1>3 DEF SaturatingSub
<1>5. CapHolds'
  BY SMT, <1>2, <1>3, <1>4 DEF IInv, CapHolds
<1> QED BY SMT, <1>1, <1>2, <1>3, <1>4, <1>5 DEF ReservationsAddUp

-----------------------------------------------------------------------------
(* Steps.                                                                   *)

(* The steps of polls that do not reach the queue.                          *)
PollOnly(w) == Poll(w) \/ Notified(w) \/ Wake(w) \/ PollTimeout(w)

(* Every step keeps the types: a charge stays within the authorization.     *)
LEMMA TypesKept ==
  ASSUME IInv, [Next]_vars
  PROVE  TypeOK'
<1> USE SellAssumption
<1>1. TypeOK /\ \A q \in Requests : StreamInv(q)
  BY DEF IInv
<1>2. CASE UNCHANGED vars
  BY <1>1, <1>2 DEF TypeOK, vars, earnVars, queueVars, pollVars, meterVars, givenVars
<1>3. ASSUME NEW q \in Requests, BuyerStep(q) PROVE TypeOK'
  <2>1. CASE Dispatch(q)
    BY SMT, <1>1, <2>1 DEF TypeOK, Dispatch, TryReserve, At, earnVars, queueVars, pollVars, meterVars, givenVars
  <2>2. CASE GateRejects(q)
    BY SMT, <1>1, <2>2 DEF TypeOK, GateRejects, Release, SaturatingSub, At, earnVars, queueVars, pollVars, meterVars, givenVars
  <2>3. CASE Park(q)
    BY SMT, <1>1, <2>3, CountsAreNat DEF TypeOK, Park, Due, At, earnVars, pollVars, meterVars, givenVars
  <2>4. CASE NotifyOne(q)
    BY SMT, <1>1, <2>4 DEF TypeOK, NotifyOne, Woken, At, earnVars, queueVars, meterVars, givenVars
  <2>5. CASE ReadClaimed(q) \/ CloseReceiver(q) \/ ReadComplete(q)
    BY <1>1, <2>5 DEF TypeOK, ReadClaimed, CloseReceiver, ReadComplete, At,
       earnVars, queueVars, pollVars, meterVars, givenVars, Hangup
  <2>6. CASE DropGuard(q)
    BY SMT, <1>1, <2>6 DEF TypeOK, DropGuard, Abandon, Due, At, earnVars, pollVars, meterVars, givenVars, Hangup
  <2> QED BY <1>3, <2>1, <2>2, <2>3, <2>4, <2>5, <2>6 DEF BuyerStep
<1>4. ASSUME NEW q \in Requests, PaymentStep(q) PROVE TypeOK'
  <2>1. ASSUME NEW ok \in BOOLEAN, Commit(q, ok) PROVE TypeOK'
    BY SMT, <1>1, <2>1 DEF TypeOK, Commit, Settled, Settle, Release, SaturatingSub, At,
       queueVars, pollVars, givenVars
  <2>2. ASSUME NEW ok \in BOOLEAN, ChargeLands(q, ok) PROVE TypeOK'
    BY SMT, <1>1, <2>2 DEF TypeOK, StreamInv, ChargeLands, earnVars, queueVars, pollVars, givenVars
  <2>3. CASE Charge(q)
    BY <1>1, <2>3 DEF TypeOK, Charge, At, earnVars, queueVars, pollVars, givenVars
  <2>4. CASE ResolveInFlight(q)
    BY SMT, <1>1, <2>4 DEF TypeOK, StreamInv, ResolveInFlight, At, earnVars, queueVars, pollVars, givenVars, Hangup
  <2>5. CASE Drained(q)
    BY SMT, <1>1, <2>5 DEF TypeOK, Drained, Settle, SaturatingSub, At, queueVars, pollVars, meterVars, givenVars
  <2> QED BY <1>4, <2>1, <2>2, <2>3, <2>4, <2>5 DEF PaymentStep
<1>5. ASSUME NEW q \in Requests, CallStep(q) PROVE TypeOK'
  <2>1. ASSUME NEW ok \in BOOLEAN, Finish(q, ok) PROVE TypeOK'
    BY <1>1, <2>1 DEF TypeOK, Finish, earnVars, pollVars, meterVars, givenVars
  <2>2. CASE Account(q)
    <3>1. due' \in [Requests -> {"none", "release", "settle"}]
      BY <1>1, <2>2 DEF TypeOK, Account, Due
    <3>2. reserved' \in Nat /\ earned' \in Nat /\ closed' \in BOOLEAN /\ credited' \in [Requests -> Nat]
      <4>1. CASE Release
        BY SMT, <1>1, <4>1 DEF TypeOK, Release, SaturatingSub
      <4>2. ASSUME NEW amount \in 0..Expected, Settle(q, amount)
            PROVE  reserved' \in Nat /\ earned' \in Nat /\ closed' \in BOOLEAN /\ credited' \in [Requests -> Nat]
        BY SMT, <1>1, <4>2 DEF TypeOK, Settle, SaturatingSub
      <4> QED BY <2>2, <4>1, <4>2 DEF Account
    <3> QED BY <1>1, <2>2, <3>1, <3>2 DEF TypeOK, Account, pollVars, meterVars, givenVars
  <2> QED BY <1>5, <2>1, <2>2 DEF CallStep
<1>6. ASSUME NEW w \in Workers, PollStep(w) PROVE TypeOK'
  <2>1. CASE PollOnly(w)
    <3>1. wakes' \in Nat
      <4>1. Cardinality(Asleep) \in Nat /\ Cardinality(Asleep \ {w}) \in Nat /\ wakes \in Nat
        BY <1>1, CountsAreNat DEF TypeOK
      <4>2. CASE Notified(w)
        BY SMT, <4>1, <4>2 DEF Notified
      <4>3. CASE PollTimeout(w)
        BY SMT, <4>1, <4>3 DEF PollTimeout
      <4> QED BY SMT, <2>1, <4>1, <4>2, <4>3 DEF PollOnly, Poll, Wake
    <3>2. wpc' \in [Workers -> {"idle", "take", "checked", "asleep"}]
      BY SMT, <1>1, <2>1 DEF TypeOK, PollOnly, Poll, Notified, Wake, PollTimeout
    <3>3. UNCHANGED <<earnVars, queueVars, meterVars, givenVars, stage, open>>
      BY <2>1 DEF PollOnly, Poll, Notified, Wake, PollTimeout
    <3> QED BY <1>1, <3>1, <3>2, <3>3 DEF TypeOK, earnVars, queueVars, meterVars, givenVars
  <2>2. ASSUME NEW q \in Requests, Take(w, q) PROVE TypeOK'
    BY <1>1, <2>2 DEF TypeOK, Take, Abandoned, earnVars, meterVars, givenVars
  <2>3. CASE TakeNothing(w)
    BY <1>1, <2>3 DEF TypeOK, TakeNothing, Abandoned, earnVars, meterVars, givenVars
  <2> QED BY <1>6, <2>1, <2>2, <2>3 DEF PollStep, PollOnly
<1> QED BY <1>2, <1>3, <1>4, <1>5, <1>6 DEF Next

(* No step gives a reservation a second owner.                              *)
LEMMA OwnersKept ==
  ASSUME IInv, [Next]_vars, NEW r \in Requests
  PROVE  OwnerInv(r)'
<1>1. TypeOK /\ OwnerInv(r) /\ StreamInv(r)
  BY DEF IInv
<1>2. CASE UNCHANGED vars
  BY <1>1, <1>2 DEF OwnerInv, vars, queueVars, givenVars
<1>3. ASSUME NEW q \in Requests, BuyerStep(q) PROVE OwnerInv(r)'
  <2>1. CASE Dispatch(q) \/ GateRejects(q)
    BY SMT, <1>1, <2>1 DEF TypeOK, OwnerInv, Dispatch, GateRejects, At, queueVars, givenVars
  <2>2. CASE Park(q)
    BY SMT, <1>1, <2>2 DEF TypeOK, OwnerInv, Park, Due, At, givenVars
  <2>3. CASE NotifyOne(q) \/ ReadClaimed(q) \/ CloseReceiver(q) \/ ReadComplete(q)
    BY SMT, <1>1, <2>3 DEF TypeOK, OwnerInv, NotifyOne, ReadClaimed, CloseReceiver, ReadComplete, At,
       queueVars, givenVars, Hangup
  <2>4. CASE DropGuard(q)
    BY SMT, <1>1, <2>4 DEF TypeOK, OwnerInv, DropGuard, Abandon, Due, At, givenVars, Hangup
  <2> QED BY <1>3, <2>1, <2>2, <2>3, <2>4 DEF BuyerStep
<1>4. ASSUME NEW q \in Requests, PaymentStep(q) PROVE OwnerInv(r)'
  <2>1. ASSUME NEW ok \in BOOLEAN, Commit(q, ok) \/ ChargeLands(q, ok) PROVE OwnerInv(r)'
    BY <1>1, <2>1 DEF TypeOK, OwnerInv, StreamInv, Commit, ChargeLands, At, queueVars, givenVars
  <2>2. CASE Charge(q) \/ ResolveInFlight(q) \/ Drained(q)
    BY SMT, <1>1, <2>2 DEF TypeOK, OwnerInv, StreamInv, Charge, ResolveInFlight, Drained, At, queueVars, givenVars, Hangup
  <2> QED BY <1>4, <2>1, <2>2 DEF PaymentStep
<1>5. ASSUME NEW q \in Requests, CallStep(q) PROVE OwnerInv(r)'
  BY SMT, <1>1, <1>5 DEF TypeOK, OwnerInv, CallStep, Finish, Account, Due, givenVars
<1>6. ASSUME NEW w \in Workers, PollStep(w) PROVE OwnerInv(r)'
  <2>1. CASE PollOnly(w)
    BY <1>1, <2>1 DEF OwnerInv, PollOnly, Poll, Notified, Wake, PollTimeout, queueVars, givenVars
  <2>2. ASSUME NEW q \in Requests, Take(w, q) PROVE OwnerInv(r)'
    BY <1>1, <2>2 DEF TypeOK, OwnerInv, Take, Abandoned, Before, givenVars
  <2>3. CASE TakeNothing(w)
    BY <1>1, <2>3 DEF TypeOK, OwnerInv, TakeNothing, Abandoned, givenVars
  <2> QED BY <1>6, <2>1, <2>2, <2>3 DEF PollStep, PollOnly
<1> QED BY <1>2, <1>3, <1>4, <1>5, <1>6 DEF Next

(* The observer of a stream is told of every charge that is known to be     *)
(* made.                                                                    *)
LEMMA StreamsKept ==
  ASSUME IInv, [Next]_vars, NEW r \in Requests
  PROVE  StreamInv(r)'
<1> USE SellAssumption DEF Answering
<1>1. TypeOK /\ OwnerInv(r) /\ StreamInv(r)
  BY DEF IInv
<1>2. CASE UNCHANGED vars
  BY <1>1, <1>2 DEF StreamInv, vars, earnVars, meterVars, givenVars
<1>3. ASSUME NEW q \in Requests, BuyerStep(q) PROVE StreamInv(r)'
  <2>1. CASE Dispatch(q) \/ GateRejects(q)
    BY SMT, <1>1, <2>1 DEF TypeOK, StreamInv, Dispatch, GateRejects, TryReserve, Release, At,
       earnVars, meterVars, givenVars
  <2>2. CASE Park(q)
    BY SMT, <1>1, <2>2 DEF TypeOK, StreamInv, Park, At, earnVars, meterVars, givenVars
  <2>3. CASE NotifyOne(q) \/ ReadClaimed(q) \/ CloseReceiver(q) \/ ReadComplete(q)
    BY SMT, <1>1, <2>3 DEF TypeOK, StreamInv, NotifyOne, ReadClaimed, CloseReceiver, ReadComplete, At,
       earnVars, meterVars, givenVars
  <2>4. CASE DropGuard(q)
    BY SMT, <1>1, <2>4 DEF TypeOK, StreamInv, DropGuard, At, earnVars, meterVars, givenVars
  <2> QED BY <1>3, <2>1, <2>2, <2>3, <2>4 DEF BuyerStep
<1>4. ASSUME NEW q \in Requests, PaymentStep(q) PROVE StreamInv(r)'
  <2>1. ASSUME NEW ok \in BOOLEAN, Commit(q, ok) PROVE StreamInv(r)'
    BY SMT, <1>1, <2>1 DEF TypeOK, StreamInv, Commit, Settled, Settle, Release, At, givenVars
  <2>2. ASSUME NEW ok \in BOOLEAN, ChargeLands(q, ok) PROVE StreamInv(r)'
    BY SMT, <1>1, <2>2 DEF TypeOK, StreamInv, ChargeLands, earnVars, givenVars
  <2>3. CASE Charge(q)
    BY SMT, <1>1, <2>3 DEF TypeOK, StreamInv, Charge, UnderAuthorization, At, earnVars, givenVars
  <2>4. CASE ResolveInFlight(q)
    BY SMT, <1>1, <2>4 DEF TypeOK, StreamInv, ResolveInFlight, At, earnVars, givenVars
  <2>5. CASE Drained(q)
    BY <1>1, <2>5 DEF TypeOK, OwnerInv, StreamInv, Drained, Resolved, Settle, At, meterVars, givenVars
  <2> QED BY <1>4, <2>1, <2>2, <2>3, <2>4, <2>5 DEF PaymentStep
<1>5. ASSUME NEW q \in Requests, CallStep(q) PROVE StreamInv(r)'
  <2>1. ASSUME NEW ok \in BOOLEAN, Finish(q, ok) PROVE StreamInv(r)'
    BY <1>1, <2>1 DEF StreamInv, Finish, earnVars, meterVars, givenVars
  <2>2. CASE Account(q)
    <3>1. OwnerInv(q) /\ due[q] # "none" /\ UNCHANGED <<meterVars, givenVars, stage>>
      BY <2>2 DEF IInv, Account
    <3>2. kind[r] # "buffered" => credited'[r] = credited[r]
      BY <1>1, <2>2, <3>1 DEF TypeOK, OwnerInv, Account, Settle, Release
    <3> QED BY <1>1, <3>1, <3>2 DEF StreamInv, meterVars, givenVars
  <2> QED BY <1>5, <2>1, <2>2 DEF CallStep
<1>6. ASSUME NEW w \in Workers, PollStep(w) PROVE StreamInv(r)'
  <2>1. UNCHANGED <<earnVars, meterVars, givenVars, stage>>
    BY <1>6 DEF PollStep, Poll, Notified, Wake, PollTimeout, Take, TakeNothing
  <2> QED BY <1>1, <2>1 DEF StreamInv, earnVars, meterVars, givenVars
<1> QED BY <1>2, <1>3, <1>4, <1>5, <1>6 DEF Next

-----------------------------------------------------------------------------
(* What streams earn.                                                       *)

EarnsWhatWasPaid(q) ==
  kind[q] # "buffered" /\ stage[q] = "done" =>
    IF q \in unconfirmed THEN credited[q] <= paid[q] ELSE credited[q] = paid[q]

(* Every step that ends a stream credits what it paid, and none after it    *)
(* changes either.                                                          *)
LEMMA EarningsKept ==
  ASSUME IInv, [Next]_vars, NEW r \in Requests
  PROVE  EarnsWhatWasPaid(r)'
<1> USE SellAssumption DEF Answering
<1>1. TypeOK /\ OwnerInv(r) /\ StreamInv(r) /\ EarnsWhatWasPaid(r)
  BY DEF IInv, StreamEarnsWhatWasPaid, EarnsWhatWasPaid
<1>2. CASE UNCHANGED vars
  BY <1>1, <1>2 DEF EarnsWhatWasPaid, vars, earnVars, meterVars, givenVars
<1>3. ASSUME NEW q \in Requests, BuyerStep(q) PROVE EarnsWhatWasPaid(r)'
  <2>1. UNCHANGED <<credited, meterVars, givenVars>>
    BY <1>3 DEF BuyerStep, Dispatch, GateRejects, Park, NotifyOne, ReadClaimed, CloseReceiver,
       DropGuard, ReadComplete, TryReserve, Release, earnVars
  <2>2. \/ stage'[r] = stage[r] \/ stage'[r] # "done"
        \/ stage[r] \notin Answering \cup {"done"}
        \/ kind[r] # "metered" /\ stage[r] # "done"
    BY SMT, <1>1, <1>3 DEF TypeOK, BuyerStep, Dispatch, GateRejects, Park, NotifyOne, ReadClaimed, CloseReceiver,
       DropGuard, ReadComplete, At
  <2>3. kind[r] \in Kinds
    BY <1>1 DEF TypeOK
  <2> QED BY <1>1, <2>1, <2>2, <2>3 DEF EarnsWhatWasPaid, StreamInv, Kinds, meterVars,
                                                  givenVars
<1>4. ASSUME NEW q \in Requests, PaymentStep(q) PROVE EarnsWhatWasPaid(r)'
  <2>1. ASSUME NEW ok \in BOOLEAN, Commit(q, ok) PROVE EarnsWhatWasPaid(r)'
    BY SMT, <1>1, <2>1 DEF TypeOK, EarnsWhatWasPaid, StreamInv, Commit, Settled, Settle, Release, At, givenVars
  <2>2. ASSUME NEW ok \in BOOLEAN, ChargeLands(q, ok) PROVE EarnsWhatWasPaid(r)'
    BY <1>1, <2>2 DEF TypeOK, EarnsWhatWasPaid, StreamInv, ChargeLands, earnVars, givenVars
  <2>3. CASE Charge(q) \/ ResolveInFlight(q)
    BY SMT, <1>1, <2>3 DEF TypeOK, EarnsWhatWasPaid, Charge, ResolveInFlight, At, earnVars, givenVars
  <2>4. CASE Drained(q)
    <3>1. CASE r = q
      <4>1. /\ charging[r] = "none" /\ kind[r] # "buffered" /\ credited[r] = 0
            /\ kind[r] = "metered" \/ kind[r] = "flat"
        BY <1>1, <2>4, <3>1 DEF TypeOK, Kinds, OwnerInv, StreamInv, Drained, Resolved
      <4>2. credited'[r] = recorded[r] /\ UNCHANGED <<paid, unconfirmed, kind>>
        BY SMT, <1>1, <2>4, <3>1, <4>1 DEF TypeOK, Drained, Settle, meterVars, givenVars
      <4>3. IF r \in unconfirmed THEN recorded[r] <= paid[r] ELSE paid[r] = recorded[r]
        BY <1>1, <2>4, <3>1, <4>1 DEF StreamInv, Drained
      <4> QED BY <4>2, <4>3 DEF EarnsWhatWasPaid
    <3>2. CASE r # q
      BY <1>1, <2>4, <3>2 DEF TypeOK, EarnsWhatWasPaid, Drained, Settle, At, meterVars, givenVars
    <3> QED BY <3>1, <3>2
  <2> QED BY <1>4, <2>1, <2>2, <2>3, <2>4 DEF PaymentStep
<1>5. ASSUME NEW q \in Requests, CallStep(q) PROVE EarnsWhatWasPaid(r)'
  <2>1. ASSUME NEW ok \in BOOLEAN, Finish(q, ok) PROVE EarnsWhatWasPaid(r)'
    BY <1>1, <2>1 DEF EarnsWhatWasPaid, Finish, earnVars, meterVars, givenVars
  <2>2. CASE Account(q)
    <3>1. OwnerInv(q) /\ due[q] # "none" /\ UNCHANGED <<meterVars, givenVars, stage>>
      BY <2>2 DEF IInv, Account
    <3>2. kind[r] # "buffered" => credited'[r] = credited[r]
      BY <1>1, <2>2, <3>1 DEF TypeOK, OwnerInv, Account, Settle, Release
    <3> QED BY <1>1, <3>1, <3>2 DEF EarnsWhatWasPaid, meterVars, givenVars
  <2> QED BY <1>5, <2>1, <2>2 DEF CallStep
<1>6. ASSUME NEW w \in Workers, PollStep(w) PROVE EarnsWhatWasPaid(r)'
  <2>1. UNCHANGED <<earnVars, meterVars, givenVars, stage>>
    BY <1>6 DEF PollStep, Poll, Notified, Wake, PollTimeout, Take, TakeNothing
  <2> QED BY <1>1, <2>1 DEF EarnsWhatWasPaid, earnVars, meterVars, givenVars
<1> QED BY <1>2, <1>3, <1>4, <1>5, <1>6 DEF Next

-----------------------------------------------------------------------------
(* What is reserved.                                                        *)

(* Every step reserves once, gives back once, or leaves every reservation   *)
(* with some owner.                                                         *)
LEMMA AccountsKept ==
  ASSUME IInv, [Next]_vars
  PROVE  ReservationsAddUp' /\ CapHolds'
<1> USE SellAssumption
<1>1. TypeOK /\ \A r \in Requests : OwnerInv(r) /\ StreamInv(r)
  BY DEF IInv
<1>2. CASE UNCHANGED vars
  <2>1. Holding' = Holding /\ UNCHANGED <<reserved, earned, cap>>
    BY <1>2 DEF Holding, Held, vars, earnVars, queueVars, givenVars
  <2> QED BY <2>1, KeepsAccounts
<1>3. ASSUME NEW q \in Requests, BuyerStep(q) PROVE ReservationsAddUp' /\ CapHolds'
  <2>1. CASE Dispatch(q)
    <3>1. CASE Unreserved
      <4>1. q \notin Holding /\ Holding' = Holding \cup {q} /\ TryReserve /\ UNCHANGED cap
        BY SMT, <1>1, <2>1, <3>1 DEF TypeOK, OwnerInv, Holding, Held, Dispatch, At, queueVars, givenVars
      <4> QED BY <3>1, <4>1, ReservesOne
    <3>2. CASE ~Unreserved
      <4>1. Holding' = Holding /\ UNCHANGED <<reserved, earned, cap>>
        BY SMT, <1>1, <2>1, <3>2 DEF TypeOK, OwnerInv, Holding, Held, Dispatch, At, earnVars, queueVars, givenVars
      <4> QED BY <4>1, KeepsAccounts
    <3> QED BY <3>1, <3>2
  <2>2. CASE GateRejects(q)
    <3>1. q \in Holding /\ Holding' = Holding \ {q} /\ UNCHANGED cap
      BY SMT, <1>1, <2>2 DEF TypeOK, OwnerInv, Holding, Held, GateRejects, At, queueVars, givenVars
    <3>2. reserved' = SaturatingSub(reserved, Expected) /\ earned' = earned + 0
      BY SMT, <1>1, <2>2 DEF TypeOK, GateRejects, Release
    <3> QED BY SMT, <3>1, <3>2, GivesBack
  <2>3. CASE Park(q)
    <3>1. Holding' = Holding /\ UNCHANGED <<reserved, earned, cap>>
      BY SMT, <1>1, <2>3 DEF TypeOK, OwnerInv, Holding, Held, Park, Due, At, earnVars, givenVars
    <3> QED BY <3>1, KeepsAccounts
  <2>4. CASE NotifyOne(q) \/ ReadClaimed(q) \/ CloseReceiver(q) \/ ReadComplete(q)
    <3>1. Holding' = Holding /\ UNCHANGED <<reserved, earned, cap>>
      BY SMT, <1>1, <2>4 DEF TypeOK, Holding, Held, NotifyOne, ReadClaimed, CloseReceiver, ReadComplete, At,
         earnVars, queueVars, givenVars
    <3> QED BY <3>1, KeepsAccounts
  <2>5. CASE DropGuard(q)
    <3>1. UNCHANGED <<reserved, earned, cap, kind>>
      BY <2>5 DEF DropGuard, earnVars, givenVars
    <3>2. Held(q)' <=> Held(q)
      BY SMT, <1>1, <2>5 DEF TypeOK, OwnerInv, Held, DropGuard, Abandon, GuardReleases, Due, At, givenVars
    <3>3. ASSUME NEW r \in Requests, r # q PROVE Held(r)' <=> Held(r)
      BY <1>1, <2>5, <3>3 DEF TypeOK, Held, DropGuard, Abandon, Due, At, givenVars
    <3>4. Holding' = Holding
      BY <3>2, <3>3 DEF Holding
    <3> QED BY <3>1, <3>4, KeepsAccounts
  <2> QED BY <1>3, <2>1, <2>2, <2>3, <2>4, <2>5 DEF BuyerStep
<1>4. ASSUME NEW q \in Requests, PaymentStep(q) PROVE ReservationsAddUp' /\ CapHolds'
  <2>1. ASSUME NEW ok \in BOOLEAN, Commit(q, ok) PROVE ReservationsAddUp' /\ CapHolds'
    <3>1. q \in Holding /\ Holding' = Holding \ {q} /\ UNCHANGED cap
      BY SMT, <1>1, <2>1 DEF TypeOK, OwnerInv, Holding, Held, Commit, At, queueVars, givenVars
    <3>2. reserved' = SaturatingSub(reserved, Expected)
      BY <2>1 DEF Commit, Settled, Settle, Release
    <3>3. earned' = earned + Expected \/ earned' = earned + 0
      BY SMT, <1>1, <2>1 DEF TypeOK, Commit, Settled, Settle, Release
    <3>4. Expected \in 0..Expected /\ 0 \in 0..Expected
      BY SMT
    <3> QED BY <3>1, <3>2, <3>3, <3>4, GivesBack
  <2>2. ASSUME NEW ok \in BOOLEAN, ChargeLands(q, ok) PROVE ReservationsAddUp' /\ CapHolds'
    <3>1. Holding' = Holding /\ UNCHANGED <<reserved, earned, cap>>
      BY <2>2 DEF Holding, Held, ChargeLands, earnVars, queueVars, givenVars
    <3> QED BY <3>1, KeepsAccounts
  <2>3. CASE Charge(q) \/ ResolveInFlight(q)
    <3>1. UNCHANGED <<reserved, earned, cap, kind, waiting, claimed, due>>
      BY <2>3 DEF Charge, ResolveInFlight, earnVars, queueVars, givenVars
    <3>2. \/ UNCHANGED stage
          \/ /\ stage[q] \in {"answer", "draining", "closing"}
             /\ \E label \in {"cut", "closing"} : stage' = [stage EXCEPT ![q] = label]
             /\ stage[q] = "answer" => kind[q] # "buffered"
      BY <1>1, <2>3 DEF TypeOK, StreamInv, Charge, ResolveInFlight, At
    <3>3. kind[q] = "buffered" => stage[q] \notin {"draining", "closing"}
      BY <1>1 DEF OwnerInv
    <3>4. Holding' = Holding
      BY <1>1, <3>1, <3>2, <3>3 DEF TypeOK, Holding, Held
    <3> QED BY <3>1, <3>4, KeepsAccounts
  <2>4. CASE Drained(q)
    <3>1. q \in Holding /\ Holding' = Holding \ {q} /\ UNCHANGED cap
      BY SMT, <1>1, <2>4 DEF TypeOK, OwnerInv, Holding, Held, Drained, At, queueVars, givenVars
    <3>2. /\ reserved' = SaturatingSub(reserved, Expected) /\ earned' = earned + recorded[q]
          /\ recorded[q] \in 0..Expected
      BY <1>1, <2>4 DEF TypeOK, Drained, Settle
    <3> QED BY <3>1, <3>2, GivesBack
  <2> QED BY <1>4, <2>1, <2>2, <2>3, <2>4 DEF PaymentStep
<1>5. ASSUME NEW q \in Requests, CallStep(q) PROVE ReservationsAddUp' /\ CapHolds'
  <2>1. ASSUME NEW ok \in BOOLEAN, Finish(q, ok) PROVE ReservationsAddUp' /\ CapHolds'
    <3>1. Holding' = Holding /\ UNCHANGED <<reserved, earned, cap>>
      BY SMT, <1>1, <2>1 DEF TypeOK, OwnerInv, Holding, Held, Finish, earnVars, givenVars
    <3> QED BY <3>1, KeepsAccounts
  <2>2. CASE Account(q)
    <3>1. q \in Holding /\ Holding' = Holding \ {q} /\ UNCHANGED cap
      BY SMT, <1>1, <2>2 DEF TypeOK, OwnerInv, Holding, Held, Account, Due, givenVars
    <3>2. CASE Release
      <4>1. reserved' = SaturatingSub(reserved, Expected) /\ earned' = earned + 0
        BY SMT, <1>1, <3>2 DEF TypeOK, Release
      <4> QED BY SMT, <3>1, <4>1, GivesBack
    <3>3. ASSUME NEW amount \in 0..Expected, Settle(q, amount) PROVE ReservationsAddUp' /\ CapHolds'
      <4>1. reserved' = SaturatingSub(reserved, Expected) /\ earned' = earned + amount
        BY <3>3 DEF Settle
      <4> QED BY <3>1, <4>1, GivesBack
    <3> QED BY <2>2, <3>2, <3>3 DEF Account
  <2> QED BY <1>5, <2>1, <2>2 DEF CallStep
<1>6. ASSUME NEW w \in Workers, PollStep(w) PROVE ReservationsAddUp' /\ CapHolds'
  <2>1. UNCHANGED <<reserved, earned, cap>>
    BY <1>6 DEF PollStep, Poll, Notified, Wake, PollTimeout, Take, TakeNothing, earnVars, givenVars
  <2>2. CASE PollOnly(w)
    <3>1. UNCHANGED <<queueVars, givenVars, stage>>
      BY <2>2 DEF PollOnly, Poll, Notified, Wake, PollTimeout
    <3>2. Holding' = Holding
      BY <3>1 DEF Holding, Held, queueVars, givenVars
    <3> QED BY <2>1, <3>2, KeepsAccounts
  <2>3. ASSUME NEW q \in Requests, Take(w, q) PROVE ReservationsAddUp' /\ CapHolds'
    <3>1. Holding' = Holding
      BY SMT, <1>1, <2>3 DEF TypeOK, OwnerInv, Holding, Held, Take, Before, Abandoned, givenVars
    <3> QED BY <2>1, <3>1, KeepsAccounts
  <2>4. CASE TakeNothing(w)
    <3>1. Holding' = Holding
      BY <1>1, <2>4 DEF TypeOK, OwnerInv, Holding, Held, TakeNothing, Abandoned, givenVars
    <3> QED BY <2>1, <3>1, KeepsAccounts
  <2> QED BY <1>6, <2>2, <2>3, <2>4 DEF PollStep, PollOnly
<1> QED BY <1>2, <1>3, <1>4, <1>5, <1>6 DEF Next

-----------------------------------------------------------------------------
(* An endpoint starts with nothing reserved.                                *)
LEMMA InitIInv == Init => IInv
<1> SUFFICES ASSUME Init PROVE IInv
  OBVIOUS
<1> USE SellAssumption
<1>1. TypeOK
  <2>1. kind \in [Requests -> Kinds]
    <3>1. PICK stream \in {"flat", "metered"} : kind \in [Requests -> {"buffered", stream}]
      BY DEF Init
    <3> QED BY <3>1 DEF Kinds
  <2>2. 0 \in 0..Expected
    BY SMT
  <2> QED BY <2>1, <2>2 DEF Init, TypeOK
<1>2. \A q \in Requests : OwnerInv(q) /\ StreamInv(q)
  BY DEF Init, OwnerInv, StreamInv, Answering
<1>3. Holding = {}
  BY DEF Init, Holding, Held
<1>4. ReservationsAddUp /\ CapHolds
  <2>1. Cardinality(Holding) = 0 /\ reserved = 0 /\ earned = 0 /\ cap \in Nat \ {0} /\ Expected \in Nat \ {0}
    BY <1>3, FS_EmptySet DEF Init
  <2> QED BY SMT, <2>1 DEF ReservationsAddUp, CapHolds
<1>5. StreamEarnsWhatWasPaid
  BY DEF Init, StreamEarnsWhatWasPaid
<1> QED BY <1>1, <1>2, <1>4, <1>5 DEF IInv

(* The invariant is inductive.                                              *)
LEMMA Inductive == Spec => []IInv
<1>1. IInv /\ [Next]_vars => IInv'
  <2> SUFFICES ASSUME IInv, [Next]_vars PROVE IInv'
    OBVIOUS
  <2>1. TypeOK' /\ ReservationsAddUp' /\ CapHolds'
    BY TypesKept, AccountsKept
  <2>2. \A r \in Requests : OwnerInv(r)' /\ StreamInv(r)' /\ EarnsWhatWasPaid(r)'
    BY OwnersKept, StreamsKept, EarningsKept
  <2> QED BY <2>1, <2>2 DEF IInv, StreamEarnsWhatWasPaid, EarnsWhatWasPaid
<1> QED BY <1>1, InitIInv, PTL DEF Spec

(* Every reservation try_reserve makes is given back exactly once, by       *)
(* release or by settle.                                                    *)
THEOREM ReservationsAlwaysAddUp == Spec => []ReservationsAddUp
<1>1. IInv => ReservationsAddUp
  BY DEF IInv
<1> QED BY <1>1, Inductive, PTL

(* try_reserve keeps an endpoint within one request of its earn cap.        *)
THEOREM CapAlwaysHolds == Spec => []CapHolds
<1>1. IInv => CapHolds
  BY DEF IInv
<1> QED BY <1>1, Inductive, PTL

(* The endpoint earns with a stream what the meter or the completion task   *)
(* made its buyer pay.                                                      *)
THEOREM StreamsEarnWhatWasPaid == Spec => []StreamEarnsWhatWasPaid
<1>1. IInv => StreamEarnsWhatWasPaid
  BY DEF IInv
<1> QED BY <1>1, Inductive, PTL
-----------------------------------------------------------------------------
(* Wake-ups.                                                                *)

(* A request that waits and was announced has a notification on its way, or *)
(* a poll that is about to look at the queue.                               *)
Announced == {q \in waiting : stage[q] = "parked"}
WakeInv == Announced # {} => wakes > 0 \/ \E w \in Workers : wpc[w] \in {"idle", "take"}

(* A poll that looked goes to sleep only over a notification it missed.     *)
LEMMA StepKeepsWakes ==
  ASSUME TypeOK, WakeInv, [Next]_vars
  PROVE  WakeInv'
<1>1. /\ stage \in [Requests -> {"new", "gate", "parking", "parked", "answer", "leaving",
                                  "cut", "committing", "draining", "closing", "done"}]
      /\ waiting \subseteq Requests /\ wpc \in [Workers -> {"idle", "take", "checked", "asleep"}]
      /\ wakes \in Nat
  BY DEF TypeOK
<1>2. ASSUME UNCHANGED pollVars, Announced' \subseteq Announced PROVE WakeInv'
  BY <1>2 DEF WakeInv, pollVars
<1>3. ASSUME NEW w \in Workers, wpc'[w] \in {"idle", "take"} PROVE WakeInv'
  BY <1>3 DEF WakeInv
<1>4. CASE UNCHANGED vars
  BY <1>2, <1>4 DEF vars, pollVars, queueVars, Announced
<1>5. ASSUME NEW q \in Requests, BuyerStep(q) PROVE WakeInv'
  <2>1. CASE NotifyOne(q)
    <3>1. wakes' > 0
      <4>1. Cardinality(Asleep) \in Nat
        BY CountsAreNat
      <4> QED BY SMT, <1>1, <2>1, <4>1 DEF NotifyOne, Woken
    <3> QED BY <3>1 DEF WakeInv
  <2>2. CASE ~NotifyOne(q)
    <3>1. UNCHANGED pollVars
      BY <1>5, <2>2 DEF BuyerStep, Dispatch, GateRejects, Park, ReadClaimed, CloseReceiver,
                        DropGuard, ReadComplete, Hangup
    <3>2. \A r \in waiting' : r \in waiting \/ (r = q /\ stage'[q] = "parking")
      BY <1>1, <1>5, <2>2 DEF BuyerStep, Dispatch, GateRejects, Park, ReadClaimed,
                              CloseReceiver, DropGuard, ReadComplete, Abandon, At, queueVars, Hangup
    <3>3. \A r \in Requests : stage'[r] = "parked" => stage[r] = "parked"
      BY <1>1, <1>5, <2>2 DEF BuyerStep, Dispatch, GateRejects, Park, ReadClaimed, CloseReceiver,
                              DropGuard, ReadComplete, At
    <3> QED BY <1>1, <1>2, <3>1, <3>2, <3>3 DEF Announced
  <2> QED BY <2>1, <2>2
<1>6. ASSUME NEW q \in Requests, PaymentStep(q) PROVE WakeInv'
  <2>1. UNCHANGED pollVars /\ waiting' = waiting
    BY <1>6 DEF PaymentStep, Commit, ChargeLands, Charge, ResolveInFlight, Drained, queueVars, Hangup
  <2>2. \A r \in Requests : stage'[r] = "parked" => stage[r] = "parked"
    BY <1>1, <1>6 DEF PaymentStep, Commit, ChargeLands, Charge, ResolveInFlight, Drained, At
  <2> QED BY <1>1, <1>2, <2>1, <2>2 DEF Announced
<1>7. ASSUME NEW q \in Requests, CallStep(q) PROVE WakeInv'
  <2>1. UNCHANGED pollVars /\ waiting' = waiting /\ stage' = stage
    BY <1>7 DEF CallStep, Finish, Account
  <2> QED BY <1>2, <2>1 DEF Announced
<1>8. ASSUME NEW w \in Workers, PollStep(w) PROVE WakeInv'
  <2>1. CASE Poll(w) \/ Wake(w) \/ PollTimeout(w) \/ \E q \in Requests : Take(w, q)
    BY <1>1, <1>3, <2>1 DEF Poll, Wake, PollTimeout, Take
  <2>2. CASE TakeNothing(w)
    BY <2>2 DEF TakeNothing, WakeInv, Announced
  <2>3. CASE Notified(w)
    <3>1. CASE wpc'[w] = "take"
      BY <1>3, <3>1
    <3>2. CASE wpc'[w] # "take"
      <4>1. wpc' = [wpc EXCEPT ![w] = "asleep"] /\ wakes' = wakes /\ wpc[w] = "checked"
        BY <1>1, <2>3, <3>2 DEF Notified
      <4>2. Announced' = Announced
        BY <2>3 DEF Notified, queueVars, Announced
      <4> QED BY <1>1, <4>1, <4>2 DEF WakeInv
    <3> QED BY <3>1, <3>2
  <2> QED BY <1>8, <2>1, <2>2, <2>3 DEF PollStep
<1> QED BY <1>4, <1>5, <1>6, <1>7, <1>8 DEF Next

(* No wake-up is lost: a request that waits and was announced never finds   *)
(* every poll asleep with nothing to wake one (EndpointQueue::next and its  *)
(* Notify).                                                                 *)
THEOREM WakesAreKept == Spec => []NoLostWakeup
<1>1. Init => WakeInv
  BY DEF Init, WakeInv, Announced
<1>2. IInv /\ WakeInv /\ [Next]_vars => WakeInv'
  BY StepKeepsWakes DEF IInv
<1>3. WakeInv => NoLostWakeup
  BY DEF WakeInv, Announced, NoLostWakeup, Asleep
<1> QED BY <1>1, <1>2, <1>3, Inductive, PTL DEF Spec

-----------------------------------------------------------------------------
(* Nobody is needed to give a reservation back.                             *)

(* The guards of the steps in Advance(q).                                   *)
AdvanceGuard(q) ==
  \/ stage[q] \in {"gate", "parking", "parked", "answer", "leaving", "cut", "committing"}
  \/ charging[q] = "running"
  \/ stage[q] \in {"answer", "draining", "closing"} /\ charging[q] \in {"landed", "failed"}
  \/ stage[q] \in {"draining", "closing"} /\ Resolved(q)
  \/ due[q] # "none"

(* Whatever is held of the cap, a step that needs no worker and no buyer is *)
(* not ruled out by its guard: a timeout, a task or a call that runs to its *)
(* end gives it back.                                                       *)
THEOREM HolderMayAdvance == Spec => [](\A q \in Holding : AdvanceGuard(q))
<1>1. IInv => \A q \in Holding : AdvanceGuard(q)
  <2> SUFFICES ASSUME IInv, NEW q \in Holding PROVE AdvanceGuard(q)
    OBVIOUS
  <2>1. q \in Requests /\ Held(q) /\ OwnerInv(q)
    BY DEF Holding, IInv
  <2>2. /\ stage[q] \in {"new", "gate", "parking", "parked", "answer", "leaving",
                         "cut", "committing", "draining", "closing", "done"}
        /\ charging[q] \in {"none", "running", "landed", "failed"}
    BY <2>1 DEF IInv, TypeOK
  <2> QED BY <2>1, <2>2 DEF Held, OwnerInv, AdvanceGuard, Resolved
<1> QED BY <1>1, Inductive, PTL
=============================================================================
