----------------------------- MODULE Allowance -----------------------------
(***************************************************************************)
(* The daily allowance of one hosted wallet: the in-memory spend ledger,   *)
(* the signing requests that reserve from it, the sign-ins that count what *)
(* the wallet spent before this process started, midnight, and restarts.   *)
(* Amounts are in the ledger's unit, days are counted from 1.              *)
(***************************************************************************)
EXTENDS Integers, FiniteSets

CONSTANTS
  Calls,        \* signing requests, each of one payment
  Logins,       \* sign-ins of the wallet's owner
  NoLogin,
  Amounts,      \* amounts a payment may have
  Ceiling,      \* policy.per_call_ceiling
  Cap,          \* policy.daily_cap
  MaxDay,       \* bound on the days that pass
  MaxRestarts   \* bound on the restarts of the process

ASSUME AllowanceAssumption ==
  /\ Cap \in Nat /\ Ceiling \in Nat /\ MaxDay \in Nat \ {0} /\ MaxRestarts \in Nat
  /\ Amounts \subseteq Nat /\ IsFiniteSet(Calls)
  /\ NoLogin \notin Logins

Days == 1..MaxDay
NoDay == 0

VARIABLES
  today,         \* the UTC day
  book,          \* the ledger's entry of the wallet, and whether it is held
  seeded,        \* the registry's record of how earlier spend is accounted for
  seeding,       \* the sign-in holding the lock of `seeded'
  bound,         \* whether the wallet is bound to its owner's subject
  provisioning,  \* the sign-in that claimed the binding
  login,         \* the sign-ins
  call,          \* the signing requests and the payments they became
  outflow,       \* what left the wallet on chain since the start of each day
  restarts,
  \* The rest is history, which no step depends on:
  authorised,    \* what was reserved for each day and not released
  missed,        \* the most by which a counted history fell short of it
  blind,         \* payments that a counted history did not show
  seed,          \* what this process counted, and for which day
  past,          \* requests of earlier processes
  turnedBack     \* a step found the book open at a later day than its own

process == <<seeded, seeding, bound, provisioning>>
history == <<authorised, missed, blind, seed, past, turnedBack>>
vars == <<today, book, login, call, outflow, restarts, process, history>>

NoBook == [day |-> NoDay, total |-> 0, held |-> FALSE]
NoSeed == [day |-> NoDay, spent |-> 0]
NewCall == [st |-> "idle", amount |-> 0, clock |-> NoDay, day |-> NoDay]
Refused == [NewCall EXCEPT !.st = "ended"]
NewLogin == [st |-> "idle", bind |-> FALSE, clock |-> NoDay, ok |-> FALSE, spent |-> 0, saw |-> {}]

LoginRecord == [st : {"idle", "seed", "read", "apply", "count", "confirm"}, bind : BOOLEAN,
                clock : Days \cup {NoDay}, ok : BOOLEAN, spent : Nat, saw : SUBSET Calls]
CallRecord == [st : {"idle", "asked", "locking", "reserved", "signed", "landed", "ended", "lost"},
               amount : Nat, clock : Days \cup {NoDay}, day : Days \cup {NoDay}]

TypeOK ==
  /\ today \in Days
  /\ book \in [day : Days \cup {NoDay}, total : Nat, held : BOOLEAN]
  /\ seeded \in {"none", "Held", "Counted"}
  /\ seeding \in Logins \cup {NoLogin} /\ provisioning \in Logins \cup {NoLogin}
  /\ bound \in BOOLEAN
  /\ login \in [Logins -> LoginRecord]
  /\ call \in [Calls -> CallRecord]
  /\ outflow \in [Days -> Nat]
  /\ restarts \in 0..MaxRestarts
  /\ authorised \in [Days -> Int] /\ missed \in [Days -> Nat]
  /\ blind \subseteq Calls /\ past \subseteq Calls
  /\ seed \in [day : Days \cup {NoDay}, spent : Nat]
  /\ turnedBack \in BOOLEAN

Init ==
  /\ today = 1
  /\ book = NoBook
  /\ seeded = "none" /\ seeding = NoLogin /\ bound = FALSE /\ provisioning = NoLogin
  /\ login = [l \in Logins |-> NewLogin]
  /\ call = [c \in Calls |-> NewCall]
  /\ outflow = [d \in Days |-> 0]
  /\ restarts = 0
  /\ authorised = [d \in Days |-> 0] /\ missed = [d \in Days |-> 0]
  /\ blind = {} /\ seed = NoSeed /\ past = {} /\ turnedBack = FALSE

-----------------------------------------------------------------------------
(* The ledger.  `day' is the clock as it was read before the lock was taken. *)

\* The total of the wallet's entry, which is opened anew when its day differs.
EntryAt(day) == IF book.day = day THEN book.total ELSE 0

\* A step whose clock is behind the book reopens an earlier day.
TurnsBack(day) == turnedBack \/ day < book.day

\* A request with a reservation charged to the day its clock showed.
Reserved(k) == [k EXCEPT !.st = "reserved", !.day = k.clock, !.clock = NoDay]

\* Slip: the cap is compared with what was spent before.
FitsBefore(day, amount) == EntryAt(day) <= Cap

Fits(day, amount) == EntryAt(day) + amount <= Cap

Saturating(total, amount) == IF amount > total THEN 0 ELSE total - amount

\* MemoryLedger::release: a reservation of another day is left alone.
Unreserved(day, amount) ==
  IF book.day = day THEN [book EXCEPT !.total = Saturating(@, amount)] ELSE book

-----------------------------------------------------------------------------
(* Signing requests: PolicyGate::reserve, then the wallet provider. *)

\* A request of a bound wallet; the policy checks its ceiling.
AskFor(c, amount) ==
  /\ call[c].st = "idle"
  /\ bound
  /\ call' = [call EXCEPT ![c] = IF amount > Ceiling THEN Refused
                                 ELSE [@ EXCEPT !.st = "asked", !.amount = amount]]
  /\ UNCHANGED <<today, book, login, outflow, restarts, process, history>>

\* check_and_record reads the clock before it takes the lock.
ReadClock(c) ==
  /\ call[c].st = "asked"
  /\ call' = [call EXCEPT ![c].st = "locking", ![c].clock = today]
  /\ UNCHANGED <<today, book, login, outflow, restarts, process, history>>

\* MemoryLedger::check_and_record, under the lock of the book.
CheckAndRecord(c) ==
  LET k == call[c]
      next == EntryAt(k.clock) + k.amount
      fits == Fits(k.clock, k.amount)
  IN /\ k.st = "locking"
     /\ IF book.held
        THEN /\ call' = [call EXCEPT ![c] = Refused]
             /\ UNCHANGED <<book, authorised, turnedBack>>
        ELSE /\ book' = [book EXCEPT !.day = k.clock, !.total = IF fits THEN next ELSE EntryAt(k.clock)]
             /\ turnedBack' = TurnsBack(k.clock)
             /\ call' = [call EXCEPT ![c] = IF fits THEN Reserved(k) ELSE Refused]
             /\ authorised' = IF fits THEN [authorised EXCEPT ![k.clock] = @ + k.amount] ELSE authorised
     /\ UNCHANGED <<today, login, outflow, restarts, process, missed, blind, seed, past>>

\* The provider returned a signature: the reservation is kept, the caller has the transaction.
Commit(c) ==
  /\ call[c].st = "reserved"
  /\ call' = [call EXCEPT ![c].st = "signed"]
  /\ UNCHANGED <<today, book, login, outflow, restarts, process, history>>

\* No signature came back, the prompt was declined, or the request was dropped.
Release(c) ==
  LET k == call[c]
  IN /\ k.st = "reserved"
     /\ call' = [call EXCEPT ![c] = Refused]
     /\ book' = Unreserved(k.day, k.amount)
     /\ authorised' = [authorised EXCEPT ![k.day] = @ - k.amount]
     /\ UNCHANGED <<today, login, outflow, restarts, process, missed, blind, seed, past, turnedBack>>

\* The caller's transaction lands on chain (external); it may never do so.
Land(c) ==
  /\ call[c].st = "signed"
  /\ call' = [call EXCEPT ![c].st = "landed"]
  /\ outflow' = [d \in Days |-> IF d <= today THEN outflow[d] + call[c].amount ELSE outflow[d]]
  /\ UNCHANGED <<today, book, login, restarts, process, history>>

-----------------------------------------------------------------------------
(* Sign-ins: approve_with_privy and seed_spend. *)

Ended == NewLogin

\* Slip: the wallet is bound when it is claimed, before its history was counted.
BindEarly(l, unchanged) ==
  /\ login[l].st = "idle"
  /\ IF bound /\ unchanged
     THEN /\ login' = [login EXCEPT ![l].st = "seed", ![l].bind = FALSE]
          /\ UNCHANGED <<bound, provisioning>>
     ELSE /\ bound' = TRUE
          /\ IF provisioning = NoLogin
             THEN /\ provisioning' = l
                  /\ login' = [login EXCEPT ![l].st = "seed", ![l].bind = TRUE]
             ELSE UNCHANGED <<provisioning, login>>
  /\ UNCHANGED <<today, book, call, outflow, restarts, seeded, seeding, history>>

\* The provider says whether a bound wallet is unchanged.  A changed one is
\* unbound, and an unbound one is claimed, or the sign-in ends with a conflict.
SignIn(l, unchanged) ==
  /\ login[l].st = "idle"
  /\ IF bound /\ unchanged
     THEN /\ login' = [login EXCEPT ![l].st = "seed", ![l].bind = FALSE]
          /\ UNCHANGED <<bound, provisioning>>
     ELSE /\ bound' = FALSE
          /\ IF provisioning = NoLogin
             THEN /\ provisioning' = l
                  /\ login' = [login EXCEPT ![l].st = "seed", ![l].bind = TRUE]
             ELSE UNCHANGED <<provisioning, login>>
  /\ UNCHANGED <<today, book, call, outflow, restarts, seeded, seeding, history>>

\* After seed_spend: a sign-in that claimed the binding goes on to confirm it.
Seeded(l) == login' = [login EXCEPT ![l] = IF @.bind THEN [Ended EXCEPT !.st = "confirm", !.bind = TRUE]
                                                     ELSE Ended]

\* seed_spend: nothing to do when counted, otherwise the history read begins.
StartSeed(l) ==
  /\ login[l].st = "seed"
  /\ seeding = NoLogin
  /\ IF seeded = "Counted"
     THEN Seeded(l)
     ELSE login' = [login EXCEPT ![l].st = "read", ![l].clock = today]
  /\ UNCHANGED <<today, book, call, outflow, restarts, process, history>>

\* The payments an answer shows, all of them landed.
Landed == {c \in Calls : call[c].st = "landed"}

\* Slip: the sum starts a day late.
ReadHistoryShort(l) ==
  /\ login[l].st = "read"
  /\ \/ login' = [login EXCEPT ![l].st = "apply", ![l].ok = TRUE, ![l].saw = Landed,
                               ![l].spent = IF login[l].clock < MaxDay
                                              THEN outflow[login[l].clock + 1] ELSE 0]
     \/ login' = [login EXCEPT ![l].st = "apply", ![l].ok = TRUE, ![l].spent = Cap]
     \/ login' = [login EXCEPT ![l].st = "apply", ![l].ok = FALSE]
  /\ UNCHANGED <<today, book, call, outflow, restarts, process, history>>

\* OnChainSpendHistory::spent_today: what left the wallet since the start of the
\* day at which the read began; the cap when there is too much to count; or an error.
ReadHistory(l) ==
  /\ login[l].st = "read"
  /\ \/ login' = [login EXCEPT ![l].st = "apply", ![l].ok = TRUE, ![l].saw = Landed,
                               ![l].spent = outflow[login[l].clock]]
     \/ login' = [login EXCEPT ![l].st = "apply", ![l].ok = TRUE, ![l].spent = Cap]
     \/ login' = [login EXCEPT ![l].st = "apply", ![l].ok = FALSE]
  /\ UNCHANGED <<today, book, call, outflow, restarts, process, history>>

\* Slip: an answer is counted without another look at what was counted meanwhile.
ApplyBlindly(l) ==
  /\ login[l].st = "apply"
  /\ seeding = NoLogin
  /\ \/ /\ login[l].ok
        /\ seeding' = l
        /\ login' = [login EXCEPT ![l].st = "count", ![l].clock = today]
        /\ UNCHANGED <<book, seeded>>
     \/ /\ ~login[l].ok
        /\ book' = [book EXCEPT !.held = TRUE]
        /\ seeded' = "Held"
        /\ Seeded(l)
        /\ UNCHANGED seeding
  /\ UNCHANGED <<today, call, outflow, restarts, bound, provisioning, history>>

\* Under the lock of `seeded', with the answer: another sign-in may have counted,
\* a failed read holds the wallet, a good one is counted.
Apply(l) ==
  /\ login[l].st = "apply"
  /\ seeding = NoLogin
  /\ \/ /\ seeded = "Counted"
        /\ Seeded(l)
        /\ UNCHANGED <<book, seeded, seeding>>
     \/ /\ seeded # "Counted" /\ ~login[l].ok
        /\ book' = [book EXCEPT !.held = TRUE]
        /\ seeded' = "Held"
        /\ Seeded(l)
        /\ UNCHANGED seeding
     \/ /\ seeded # "Counted" /\ login[l].ok
        /\ seeding' = l
        /\ login' = [login EXCEPT ![l].st = "count", ![l].clock = today]
        /\ UNCHANGED <<book, seeded>>
  /\ UNCHANGED <<today, call, outflow, restarts, bound, provisioning, history>>

\* MemoryLedger::count: lift the hold and charge the answer to the clock's day.
Count(l) ==
  LET k == login[l]
      total == EntryAt(k.clock) + k.spent
  IN /\ k.st = "count"
     /\ book' = [day |-> k.clock, total |-> total, held |-> FALSE]
     /\ turnedBack' = TurnsBack(k.clock)
     /\ seeded' = "Counted"
     /\ seeding' = NoLogin
     /\ seed' = [day |-> k.clock, spent |-> k.spent]
     /\ missed' = [missed EXCEPT ![k.clock] = IF authorised[k.clock] > total + @
                                              THEN authorised[k.clock] - total
                                              ELSE @]
     /\ blind' = blind \cup {c \in past : call[c].day = k.clock /\ c \notin k.saw}
     /\ Seeded(l)
     /\ UNCHANGED <<today, call, outflow, restarts, bound, provisioning, authorised, past>>

Unclaim(l) == provisioning' = IF provisioning = l THEN NoLogin ELSE provisioning

\* The provider still confirms the wallet: it is bound and the claim dropped.
Bind(l) ==
  /\ login[l].st = "confirm"
  /\ bound' = TRUE
  /\ login' = [login EXCEPT ![l] = Ended]
  /\ Unclaim(l)
  /\ UNCHANGED <<today, book, call, outflow, restarts, seeded, seeding, history>>

\* The provider fails, the wallet changed or cannot be signed for, or the request
\* is dropped while it waits.
SignInFails(l) ==
  /\ \/ login[l].st \in {"read", "confirm"}
     \/ login[l].st = "seed" /\ login[l].bind
  /\ login' = [login EXCEPT ![l] = Ended]
  /\ Unclaim(l)
  /\ UNCHANGED <<today, book, call, outflow, restarts, seeded, seeding, bound, history>>

-----------------------------------------------------------------------------
Midnight ==
  /\ today < MaxDay
  /\ today' = today + 1
  /\ UNCHANGED <<book, login, call, outflow, restarts, process, history>>

\* The process is replaced: its memory and the requests it served are gone.
Restart ==
  /\ restarts < MaxRestarts
  /\ restarts' = restarts + 1
  /\ book' = NoBook
  /\ seeded' = "none" /\ seeding' = NoLogin /\ bound' = FALSE /\ provisioning' = NoLogin
  /\ login' = [l \in Logins |-> NewLogin]
  /\ call' = [c \in Calls |-> IF call[c].st \in {"asked", "locking"} THEN Refused
                              ELSE IF call[c].st = "reserved" THEN [call[c] EXCEPT !.st = "lost"]
                              ELSE call[c]]
  /\ past' = {c \in Calls : call[c].st # "idle"}
  /\ seed' = NoSeed
  /\ UNCHANGED <<today, outflow, authorised, missed, blind, turnedBack>>

Next ==
  \/ \E c \in Calls : \/ \E amount \in Amounts : AskFor(c, amount)
                      \/ ReadClock(c) \/ CheckAndRecord(c) \/ Commit(c) \/ Release(c) \/ Land(c)
  \/ \E l \in Logins : \/ \E unchanged \in BOOLEAN : SignIn(l, unchanged)
                       \/ StartSeed(l) \/ ReadHistory(l) \/ Apply(l) \/ Count(l)
                       \/ Bind(l) \/ SignInFails(l)
  \/ Midnight
  \/ Restart

Spec == Init /\ [][Next]_vars

-----------------------------------------------------------------------------
\* The sum of amounts, as the number of the units they consist of.
Units(calls, S) == UNION {{c} \X (1..calls[c].amount) : c \in S}
Worth(calls, S) == Cardinality(Units(calls, S))
Sum(S) == Worth(call, S)

\* What is reserved or signed for a day never exceeds the daily cap, whatever
\* sign-ins, failures, midnights and restarts come between; except by what a
\* history read after a restart did not show, and unless a step that read the
\* clock before midnight took the lock after the book was opened for the new day.
DailyCapHolds ==
  ~turnedBack => \A d \in Days : authorised[d] <= Cap + missed[d]

\* A counted history falls short only of payments that had not landed when it
\* was read: a restart forgets nothing that is on chain.
MissedWasInFlight ==
  \A d \in Days : missed[d] <= Sum({c \in blind : call[c].day = d})

\* The entry of the book's day is exactly what was counted for the day plus what
\* this process reserved and did not release: no failed signing leaves a residue,
\* no reservation is forgotten, and the history is counted once.
BookIsExact ==
  ~turnedBack /\ book.day # NoDay =>
    book.total = (IF seed.day = book.day THEN seed.spent ELSE 0)
                 + Sum({c \in Calls \ past : /\ call[c].day = book.day
                                             /\ call[c].st \in {"reserved", "signed", "landed"}})

\* A process hands out no allowance of a wallet whose earlier spend it has not
\* counted, although a sign-in succeeds when the history cannot be read.
SpendsOnlyCounted ==
  (\E c \in Calls : call[c].st = "reserved") => seeded = "Counted"
=============================================================================
