-------------------------- MODULE AllowanceProofs --------------------------
(***************************************************************************)
(* The daily cap holds, no allowance is handed out uncounted, the book is   *)
(* exact and a restart forgets nothing that is on chain: for any number of  *)
(* requests and sign-ins, any amounts and limits, and any number of         *)
(* midnights and restarts.                                                  *)
(***************************************************************************)
EXTENDS Allowance, TLAPS

(* Most steps are logic without arithmetic; the others name the SMT backend. *)
USE Zenon

-----------------------------------------------------------------------------
(* The inductive invariant.                                                 *)

(* Clocks that were read are not ahead, and nothing is charged to a day to  *)
(* come.                                                                    *)
ClockInv ==
  /\ book.day <= today
  /\ \A d \in Days : d > today => authorised[d] = 0
  /\ \A c \in Calls : /\ call[c].st = "locking" => call[c].clock \in Days /\ call[c].clock <= today
                      /\ call[c].st = "reserved" => call[c].day \in Days /\ call[c].day <= today
  /\ \A l \in Logins : login[l].st \in {"read", "count"} =>
                         login[l].clock \in Days /\ login[l].clock <= today

(* The ledger and the registry agree on whether the history was counted,    *)
(* and a wallet is bound and asked of only once that is settled.            *)
SeedInv ==
  /\ seeded # "Counted" => book.day = NoDay /\ \A c \in Calls : call[c].st # "reserved"
  /\ seeded = "Counted" => book.day # NoDay
  /\ seeded = "Held" => book.held
  /\ bound => seeded # "none"
  /\ \A c \in Calls : call[c].st \in {"asked", "locking"} => seeded # "none"
  /\ \A l \in Logins : login[l].st = "confirm" => seeded # "none"

(* While a sign-in counts, nothing is charged: it holds the lock of the     *)
(* registry, and its clock is not behind what earlier processes charged.    *)
CountInv ==
  \A l \in Logins : login[l].st = "count" =>
    /\ seeding = l
    /\ seeded # "Counted"
    /\ \A d \in Days : d > login[l].clock => authorised[d] = 0

(* The book covers what is charged to its day, but for what a history did   *)
(* not show, and later days are untouched.                                  *)
BookInv ==
  /\ \A d \in Days : authorised[d] <= Cap + missed[d]
  /\ book.day # NoDay =>
       /\ authorised[book.day] <= book.total + missed[book.day]
       /\ \A d \in Days : d > book.day => authorised[d] = 0
  /\ \A c \in Calls : call[c].st = "reserved" => call[c].day <= book.day

IInv == TypeOK /\ ClockInv /\ SeedInv /\ CountInv /\ (~turnedBack => BookInv)

-----------------------------------------------------------------------------
(* Steps that change no account.                                            *)

(* The records a request or a sign-in starts with and ends as.              *)
LEMMA Records ==
  /\ NewCall \in CallRecord /\ NewCall.st = "idle"
  /\ Refused \in CallRecord /\ Refused.st = "ended"
  /\ NewLogin \in LoginRecord /\ NewLogin.st = "idle" /\ NewLogin.bind = FALSE
BY DEF NewCall, Refused, NewLogin, CallRecord, LoginRecord, NoDay

(* The first process has charged nothing and counted nothing.               *)
LEMMA InitIInv == Init => IInv
<1> SUFFICES ASSUME Init PROVE IInv
  OBVIOUS
<1>1. /\ \A c \in Calls : call[c] \in CallRecord /\ call[c].st = "idle"
      /\ \A l \in Logins : login[l] \in LoginRecord /\ login[l].st = "idle"
  BY Records DEF Init
<1>2. book.day = 0 /\ book \in [day : Days \cup {NoDay}, total : Nat, held : BOOLEAN]
  BY DEF Init, NoBook, NoDay
<1>3. seed \in [day : Days \cup {NoDay}, spent : Nat]
  BY DEF Init, NoSeed
<1>4. TypeOK
  <2>1. /\ call \in [Calls -> CallRecord] /\ login \in [Logins -> LoginRecord]
        /\ today \in Days /\ restarts \in 0..MaxRestarts
        /\ outflow \in [Days -> Nat] /\ authorised \in [Days -> Int] /\ missed \in [Days -> Nat]
    BY SMT, Records, AllowanceAssumption DEF Init, Days
  <2>. QED  BY <2>1, <1>2, <1>3, Zenon DEF Init, TypeOK
<1>5. ClockInv /\ SeedInv /\ CountInv
  BY SMT, <1>1, <1>2 DEF Init, ClockInv, SeedInv, CountInv, Days, NoDay
<1>6. BookInv
  BY SMT, <1>1, <1>2, AllowanceAssumption DEF Init, BookInv, Days, NoDay
<1>. QED  BY <1>4, <1>5, <1>6 DEF IInv

(* A request moves on without a reservation: asking, reading the clock,     *)
(* being refused, and what happens to a payment after it was signed.        *)
LEMMA QuietCall ==
  ASSUME IInv, NEW c \in Calls, NEW k \in CallRecord, call' = [call EXCEPT ![c] = k],
         UNCHANGED <<today, book, login, restarts, process, history>>,
         outflow' \in [Days -> Nat],
         k.st # "reserved",
         k.st = "locking" => k.clock \in Days /\ k.clock <= today,
         k.st \in {"asked", "locking"} => seeded # "none"
  PROVE  IInv'
<1>1. call' \in [Calls -> CallRecord] /\ call'[c] = k /\ \A x \in Calls : x # c => call'[x] = call[x]
  BY DEF IInv, TypeOK
<1>2. TypeOK'
  BY <1>1 DEF IInv, TypeOK, process, history
<1>3. ClockInv' /\ SeedInv' /\ CountInv'
  BY <1>1 DEF IInv, ClockInv, SeedInv, CountInv, process, history
<1>4. ~turnedBack' => BookInv'
  BY <1>1 DEF IInv, BookInv, process, history
<1>. QED  BY <1>2, <1>3, <1>4 DEF IInv

(* A sign-in moves on without touching the ledger.                          *)
LEMMA QuietLogin ==
  ASSUME IInv, NEW l \in Logins, NEW k \in LoginRecord, login' = [login EXCEPT ![l] = k],
         UNCHANGED <<today, book, call, outflow, restarts, seeded, history>>,
         seeding' \in Logins \cup {NoLogin}, provisioning' \in Logins \cup {NoLogin},
         bound' \in BOOLEAN,
         bound' => seeded # "none",
         k.st = "confirm" => seeded # "none",
         k.st = "read" => k.clock \in Days /\ k.clock <= today,
         k.st = "count" => seeding' = l /\ seeded # "Counted" /\ k.clock = today,
         seeding' = seeding \/ seeding = NoLogin
  PROVE  IInv'
<1>1. /\ login' \in [Logins -> LoginRecord]
      /\ login'[l] = k
      /\ \A x \in Logins : x # l => login'[x] = login[x]
  BY DEF IInv, TypeOK
<1>2. TypeOK'
  <2>1. /\ today' = today /\ book' = book /\ call' = call /\ outflow' = outflow /\ restarts' = restarts
        /\ seeded' = seeded /\ authorised' = authorised /\ missed' = missed /\ blind' = blind
        /\ seed' = seed /\ past' = past /\ turnedBack' = turnedBack
    BY DEF history
  <2>. QED  BY <1>1, <2>1, Zenon DEF IInv, TypeOK
<1>3. ClockInv'
  <2>1. today \in Days /\ today <= today
    BY SMT DEF IInv, TypeOK, Days
  <2>2. ASSUME NEW x \in Logins, login'[x].st \in {"read", "count"}
        PROVE  login'[x].clock \in Days /\ login'[x].clock <= today
    BY <1>1, <2>1, <2>2 DEF IInv, ClockInv
  <2>. QED  BY <2>2 DEF IInv, ClockInv, history
<1>4. SeedInv'
  BY <1>1 DEF IInv, SeedInv, history
<1>5. CountInv'
  <2>1. \A x \in Logins : login[x].st = "count" => seeding' = x
    BY AllowanceAssumption DEF IInv, CountInv
  <2>. QED  BY <1>1, <2>1 DEF IInv, CountInv, ClockInv, history
<1>6. ~turnedBack' => BookInv'
  BY DEF IInv, BookInv, history
<1>. QED  BY <1>2, <1>3, <1>4, <1>5, <1>6 DEF IInv
-----------------------------------------------------------------------------
(* Requests.                                                                *)

(* A request reserves nothing yet.                                          *)
LEMMA AskForKeeps ==
  ASSUME IInv, NEW c \in Calls, NEW amount \in Amounts, AskFor(c, amount)
  PROVE  IInv'
<1> DEFINE k == IF amount > Ceiling THEN Refused
                ELSE [call[c] EXCEPT !.st = "asked", !.amount = amount]
<1>1. k \in CallRecord /\ k.st \in {"asked", "ended"}
  BY Records, AllowanceAssumption DEF IInv, TypeOK, CallRecord
<1>2. call' = [call EXCEPT ![c] = k] /\ bound
  BY DEF AskFor
<1>3. seeded # "none"
  BY <1>2 DEF IInv, SeedInv
<1>4. outflow' \in [Days -> Nat] /\ UNCHANGED <<today, book, login, restarts, process, history>>
  BY DEF AskFor, IInv, TypeOK
<1> HIDE DEF k
<1>. QED  BY <1>1, <1>2, <1>3, <1>4, QuietCall

(* The clock that is read is today's.                                       *)
LEMMA ReadClockKeeps ==
  ASSUME IInv, NEW c \in Calls, ReadClock(c)
  PROVE  IInv'
<1> DEFINE k == [call[c] EXCEPT !.st = "locking", !.clock = today]
<1>1. k \in CallRecord /\ k.st = "locking" /\ k.clock \in Days /\ k.clock <= today
  <2>1. call[c] \in CallRecord /\ today \in Days
    BY DEF IInv, TypeOK
  <2>2. k \in CallRecord /\ k.st = "locking" /\ k.clock = today
    BY <2>1 DEF CallRecord
  <2>3. today <= today
    BY SMT, <2>1 DEF Days
  <2>. QED  BY <2>1, <2>2, <2>3
<1>2. call' = [call EXCEPT ![c] = k] /\ call[c].st = "asked"
  BY DEF ReadClock, IInv, TypeOK, CallRecord
<1>3. seeded # "none"
  BY <1>2 DEF IInv, SeedInv
<1>4. outflow' \in [Days -> Nat] /\ UNCHANGED <<today, book, login, restarts, process, history>>
  BY DEF ReadClock, IInv, TypeOK
<1> HIDE DEF k
<1>. QED  BY <1>1, <1>2, <1>3, <1>4, QuietCall

(* A signature keeps what was reserved.                                     *)
LEMMA CommitKeeps ==
  ASSUME IInv, NEW c \in Calls, Commit(c)
  PROVE  IInv'
<1> DEFINE k == [call[c] EXCEPT !.st = "signed"]
<1>1. k \in CallRecord /\ k.st = "signed"
  BY ZenonT(30) DEF IInv, TypeOK, CallRecord
<1>2. call' = [call EXCEPT ![c] = k]
  BY DEF Commit
<1>3. outflow' \in [Days -> Nat] /\ UNCHANGED <<today, book, login, restarts, process, history>>
  BY DEF Commit, IInv, TypeOK
<1> HIDE DEF k
<1>. QED  BY <1>1, <1>2, <1>3, QuietCall

(* The chain is no part of the accounts.                                    *)
LEMMA LandKeeps ==
  ASSUME IInv, NEW c \in Calls, Land(c)
  PROVE  IInv'
<1> DEFINE k == [call[c] EXCEPT !.st = "landed"]
<1>1. k \in CallRecord /\ k.st = "landed"
  BY ZenonT(30) DEF IInv, TypeOK, CallRecord
<1>2. call' = [call EXCEPT ![c] = k]
  BY DEF Land
<1>3. call[c].amount \in Nat
  BY DEF IInv, TypeOK, CallRecord
<1>4. outflow' \in [Days -> Nat]
  BY SMT, <1>3 DEF Land, IInv, TypeOK
<1>5. UNCHANGED <<today, book, login, restarts, process, history>>
  BY DEF Land
<1> HIDE DEF k
<1>. QED  BY <1>1, <1>2, <1>4, <1>5, QuietCall

(* A reservation fits under the cap on top of a book that covers the day,   *)
(* or opens the book of a day nothing is charged to.                        *)
LEMMA CheckAndRecordKeeps ==
  ASSUME IInv, NEW c \in Calls, CheckAndRecord(c)
  PROVE  IInv'
<1> DEFINE k == call[c]
           next == EntryAt(k.clock) + k.amount
           fits == next <= Cap
<1>1. /\ k \in CallRecord /\ k.st = "locking" /\ k.amount \in Nat
      /\ k.clock \in Days /\ k.clock \in Nat /\ k.clock # 0 /\ k.clock <= today
  BY SMT DEF CheckAndRecord, IInv, TypeOK, ClockInv, CallRecord, Days
<1>2. CASE book.held
  <2>1. call' = [call EXCEPT ![c] = Refused] /\ UNCHANGED <<book, authorised, turnedBack>>
    BY <1>2 DEF CheckAndRecord
  <2>2. outflow' \in [Days -> Nat] /\ UNCHANGED <<today, book, login, restarts, process, history>>
    BY <2>1 DEF CheckAndRecord, IInv, TypeOK, history
  <2>. QED  BY <2>1, <2>2, Records, QuietCall
<1>3. CASE ~book.held
  <2> DEFINE r == IF fits THEN Reserved(k) ELSE Refused
  <2>1. /\ call' = [call EXCEPT ![c] = r]
        /\ book' = [book EXCEPT !.day = k.clock, !.total = IF fits THEN next ELSE EntryAt(k.clock)]
        /\ turnedBack' = (turnedBack \/ k.clock < book.day)
        /\ authorised' = IF fits THEN [authorised EXCEPT ![k.clock] = @ + k.amount] ELSE authorised
        /\ UNCHANGED <<today, login, outflow, restarts, process, missed, blind, seed, past>>
    BY <1>3 DEF CheckAndRecord, TurnsBack, Fits
  <2>2. EntryAt(k.clock) \in Nat /\ next \in Nat
    BY SMT, <1>1 DEF IInv, TypeOK, EntryAt
  <2>3. /\ r \in CallRecord /\ r.st \in {"reserved", "ended"}
        /\ r.st = "reserved" => fits /\ r.day = k.clock
    <3>1. /\ Reserved(k) \in CallRecord
          /\ Reserved(k).st = "reserved" /\ Reserved(k).day = k.clock
      BY <1>1 DEF Reserved, CallRecord
    <3>. QED  BY <3>1, Records
  <2>4. seeded = "Counted" /\ book.day \in Days
    BY <1>1, <1>3 DEF IInv, SeedInv, TypeOK, NoDay
  <2>5. /\ call' \in [Calls -> CallRecord] /\ call'[c] = r
        /\ \A x \in Calls : x # c => call'[x] = call[x]
    <3> HIDE DEF r
    <3>. QED  BY <2>1, <2>3 DEF IInv, TypeOK
  <2>6. /\ book' \in [day : Days \cup {NoDay}, total : Nat, held : BOOLEAN]
        /\ book'.day = k.clock
        /\ book'.total = IF fits THEN next ELSE EntryAt(k.clock)
        /\ book'.held = book.held
    BY <1>1, <2>1, <2>2 DEF IInv, TypeOK
  <2>7. /\ authorised' \in [Days -> Int]
        /\ authorised'[k.clock] = IF fits THEN authorised[k.clock] + k.amount ELSE authorised[k.clock]
        /\ \A d \in Days : d # k.clock => authorised'[d] = authorised[d]
    BY SMT, <1>1, <2>1 DEF IInv, TypeOK
  <2> HIDE DEF r, k, next, fits
  <2>8. TypeOK'
    <3>1. turnedBack' \in BOOLEAN
      BY <2>1
    <3>. QED  BY <3>1, <2>1, <2>5, <2>6, <2>7 DEF IInv, TypeOK, process
  <2>9. ClockInv'
    <3>1. today' = today /\ login' = login
      BY <2>1
    <3>2. book'.day <= today
      BY <1>1, <2>6
    <3>3. \A d \in Days : d > today => authorised'[d] = 0
      BY SMT, <1>1, <2>7 DEF IInv, ClockInv, Days, TypeOK
    <3>4. \A x \in Calls : /\ call'[x].st = "locking" => call'[x].clock \in Days /\ call'[x].clock <= today
                           /\ call'[x].st = "reserved" => call'[x].day \in Days /\ call'[x].day <= today
      BY <1>1, <2>3, <2>5 DEF IInv, ClockInv
    <3>. QED  BY <3>1, <3>2, <3>3, <3>4 DEF IInv, ClockInv
  <2>10. SeedInv' /\ CountInv'
    BY <1>1, <2>1, <2>3, <2>4, <2>5, <2>6 DEF IInv, SeedInv, CountInv, process, NoDay
  <2>11. ASSUME ~turnedBack' PROVE BookInv'
    <3>1. BookInv /\ book.day <= k.clock
      <4>1. ~turnedBack /\ ~(k.clock < book.day)
        BY <2>1, <2>11, Zenon
      <4>. QED  BY SMT, <1>1, <2>4, <4>1 DEF IInv, Days
    <3>2. authorised[k.clock] <= EntryAt(k.clock) + missed[k.clock]
      <4>1. /\ authorised \in [Days -> Int] /\ missed \in [Days -> Nat]
            /\ book.day \in Nat /\ book.day # NoDay
        BY SMT, <2>4 DEF IInv, TypeOK, Days, NoDay
      <4>2. CASE book.day = k.clock
        BY <1>1, <3>1, <4>1, <4>2 DEF BookInv, EntryAt
      <4>3. CASE book.day # k.clock
        <5>1. book.day < k.clock
          BY SMT, <1>1, <3>1, <4>1, <4>3
        <5>2. authorised[k.clock] = 0
          BY <1>1, <3>1, <4>1, <5>1 DEF BookInv
        <5>. QED  BY SMT, <1>1, <4>1, <4>3, <5>2 DEF EntryAt
      <4>. QED  BY <4>2, <4>3
    <3>3. authorised'[k.clock] <= book'.total + missed[k.clock]
      BY SMT, <1>1, <2>2, <2>6, <2>7, <3>2 DEF IInv, TypeOK, next
    <3>4. authorised'[k.clock] <= Cap + missed[k.clock]
      BY SMT, <1>1, <2>2, <2>7, <3>1, <3>2, AllowanceAssumption DEF BookInv, IInv, TypeOK, next, fits
    <3>5. \A d \in Days : d > k.clock => authorised'[d] = 0
      BY SMT, <1>1, <2>4, <2>7, <3>1 DEF BookInv, Days, NoDay
    <3>6. \A x \in Calls : call'[x].st = "reserved" => call'[x].day <= k.clock
      <4>1. \A x \in Calls : call[x].st = "reserved" => call[x].day \in Days
        BY DEF IInv, ClockInv
      <4>. QED  BY SMT, <1>1, <2>3, <2>4, <2>5, <3>1, <4>1 DEF BookInv, Days
    <3>. QED  BY <2>1, <2>6, <2>7, <3>1, <3>3, <3>4, <3>5, <3>6 DEF BookInv
  <2>. QED  BY <2>8, <2>9, <2>10, <2>11 DEF IInv
<1>. QED  BY <1>2, <1>3

(* A release takes the same from the book and from what is authorised.      *)
LEMMA ReleaseKeeps ==
  ASSUME IInv, NEW c \in Calls, Release(c)
  PROVE  IInv'
<1> DEFINE k == call[c]
<1>1. /\ k.st = "reserved" /\ k.amount \in Nat /\ k.day \in Days /\ k.day <= today
      /\ seeded = "Counted" /\ book.day \in Days /\ book.total \in Nat
  BY DEF Release, IInv, TypeOK, ClockInv, SeedInv, CallRecord, NoDay
<1>2. /\ call' = [call EXCEPT ![c] = Refused]
      /\ authorised' = [authorised EXCEPT ![k.day] = @ - k.amount]
      /\ UNCHANGED <<today, login, outflow, restarts, process, missed, blind, seed, past, turnedBack>>
  BY DEF Release
<1>3. /\ call' \in [Calls -> CallRecord] /\ call'[c].st = "ended"
      /\ \A x \in Calls : x # c => call'[x] = call[x]
  BY <1>2, Records DEF IInv, TypeOK
<1>4. /\ book' \in [day : Days \cup {NoDay}, total : Nat, held : BOOLEAN]
      /\ book'.day = book.day /\ book'.held = book.held
      /\ book.day = k.day => book'.total >= book.total - k.amount
      /\ book.day # k.day => book'.total = book.total
  BY SMT, <1>1 DEF Release, Unreserved, Saturating, IInv, TypeOK
<1>5. /\ authorised' \in [Days -> Int]
      /\ authorised'[k.day] = authorised[k.day] - k.amount
      /\ \A d \in Days : d # k.day => authorised'[d] = authorised[d]
  BY SMT, <1>1, <1>2 DEF IInv, TypeOK
<1> HIDE DEF k
<1>6. TypeOK'
  BY <1>2, <1>3, <1>4, <1>5 DEF IInv, TypeOK, process
<1>7. ClockInv'
  <2>1. today' = today /\ login' = login /\ book'.day = book.day
    BY <1>2, <1>4
  <2>2. \A d \in Days : d > today => authorised'[d] = 0
    BY SMT, <1>1, <1>5 DEF IInv, ClockInv, Days, TypeOK
  <2>3. \A x \in Calls : /\ call'[x].st = "locking" => call'[x].clock \in Days /\ call'[x].clock <= today
                         /\ call'[x].st = "reserved" => call'[x].day \in Days /\ call'[x].day <= today
    BY <1>3 DEF IInv, ClockInv
  <2>. QED  BY <2>1, <2>2, <2>3 DEF IInv, ClockInv
<1>8. SeedInv' /\ CountInv'
  BY <1>1, <1>2, <1>3, <1>4 DEF IInv, SeedInv, CountInv, process
<1>9. ASSUME ~turnedBack' PROVE BookInv'
  <2>1. BookInv /\ k.day <= book.day
    BY <1>1, <1>2, <1>9 DEF IInv, BookInv, k
  <2>2. \A d \in Days : authorised'[d] <= authorised[d]
    BY SMT, <1>1, <1>5 DEF IInv, TypeOK
  <2>3. \A d \in Days : authorised'[d] <= Cap + missed[d]
    BY SMT, <1>5, <2>1, <2>2, AllowanceAssumption DEF BookInv, IInv, TypeOK
  <2>4. authorised'[book.day] <= book'.total + missed[book.day]
    <3>1. authorised \in [Days -> Int] /\ missed \in [Days -> Nat] /\ book'.total \in Nat
      BY <1>4 DEF IInv, TypeOK
    <3>2. authorised[book.day] <= book.total + missed[book.day]
      BY SMT, <1>1, <2>1 DEF BookInv, Days, NoDay
    <3>3. CASE book.day = k.day
      BY SMT, <1>1, <1>4, <1>5, <3>1, <3>2, <3>3
    <3>4. CASE book.day # k.day
      BY <1>1, <1>4, <1>5, <3>1, <3>2, <3>4
    <3>. QED  BY <3>3, <3>4
  <2>5. \A d \in Days : d > book.day => authorised'[d] = 0
    BY SMT, <1>1, <1>5, <2>1 DEF BookInv, Days, NoDay
  <2>. QED  BY <1>2, <1>3, <1>4, <2>1, <2>3, <2>4, <2>5 DEF BookInv
<1>. QED  BY <1>6, <1>7, <1>8, <1>9 DEF IInv
-----------------------------------------------------------------------------
(* Sign-ins.                                                                *)

(* The record a sign-in has after seed_spend.                               *)
SeededRecord(l) == IF login[l].bind THEN [Ended EXCEPT !.st = "confirm", !.bind = TRUE] ELSE Ended

(* A sign-in leaves seed_spend to confirm a binding, or is over.            *)
LEMMA SeededShape ==
  ASSUME IInv, NEW l \in Logins, Seeded(l)
  PROVE  /\ SeededRecord(l) \in LoginRecord /\ SeededRecord(l).st \in {"idle", "confirm"}
         /\ login' = [login EXCEPT ![l] = SeededRecord(l)]
<1>1. login' = [login EXCEPT ![l] = SeededRecord(l)]
  BY DEF Seeded, SeededRecord, IInv, TypeOK
<1>2. /\ [Ended EXCEPT !.st = "confirm", !.bind = TRUE] \in LoginRecord
      /\ [Ended EXCEPT !.st = "confirm", !.bind = TRUE].st = "confirm"
      /\ Ended \in LoginRecord /\ Ended.st = "idle"
  BY Records DEF Ended, LoginRecord
<1>. QED  BY <1>1, <1>2 DEF SeededRecord

(* A sign-in may unbind a wallet, and never binds one.                      *)
LEMMA SignInKeeps ==
  ASSUME IInv, NEW l \in Logins, NEW unchanged \in BOOLEAN, SignIn(l, unchanged)
  PROVE  IInv'
<1>1. /\ login[l] \in LoginRecord /\ login \in [Logins -> LoginRecord]
      /\ login[l].st = "idle"
      /\ bound \in BOOLEAN /\ provisioning \in Logins \cup {NoLogin} /\ seeding \in Logins \cup {NoLogin}
  BY DEF SignIn, IInv, TypeOK
<1>2. UNCHANGED <<today, book, call, outflow, restarts, seeded, seeding, history>>
  BY DEF SignIn
<1>3. /\ bound' \in BOOLEAN /\ (bound' => bound)
      /\ provisioning' \in Logins \cup {NoLogin}
  BY <1>1 DEF SignIn
<1>4. bound' => seeded # "none"
  BY <1>3 DEF IInv, SeedInv
<1>5. \E k \in LoginRecord : k.st \in {"idle", "seed"} /\ login' = [login EXCEPT ![l] = k]
  <2>1. \A b \in BOOLEAN : /\ [login[l] EXCEPT !.st = "seed", !.bind = b] \in LoginRecord
                           /\ [login[l] EXCEPT !.st = "seed", !.bind = b].st = "seed"
    BY <1>1 DEF LoginRecord
  <2>2. \/ \E b \in BOOLEAN : login' = [login EXCEPT ![l] = [login[l] EXCEPT !.st = "seed", !.bind = b]]
        \/ login' = login
    BY <1>1 DEF SignIn
  <2>3. login = [login EXCEPT ![l] = login[l]]
    BY <1>1
  <2>. QED  BY <1>1, <2>1, <2>2, <2>3
<1>6. PICK k \in LoginRecord : k.st \in {"idle", "seed"} /\ login' = [login EXCEPT ![l] = k]
  BY <1>5
<1>. QED  BY <1>1, <1>2, <1>3, <1>4, <1>6, QuietLogin

(* A history read starts with the day's clock.                              *)
LEMMA StartSeedKeeps ==
  ASSUME IInv, NEW l \in Logins, StartSeed(l)
  PROVE  IInv'
<1>1. /\ login[l] \in LoginRecord /\ today \in Days /\ today <= today
      /\ bound \in BOOLEAN /\ provisioning \in Logins \cup {NoLogin} /\ seeding \in Logins \cup {NoLogin}
      /\ bound => seeded # "none"
  BY SMT DEF IInv, TypeOK, SeedInv, Days
<1>2. /\ UNCHANGED <<today, book, call, outflow, restarts, seeded, history>>
      /\ seeding' = seeding /\ bound' = bound /\ provisioning' = provisioning
  BY DEF StartSeed, process
<1>3. CASE seeded = "Counted"
  <2>1. Seeded(l)
    BY <1>3 DEF StartSeed
  <2>. QED  BY <1>1, <1>2, <1>3, <2>1, SeededShape, QuietLogin
<1>4. CASE seeded # "Counted"
  <2> DEFINE k == [login[l] EXCEPT !.st = "read", !.clock = today]
  <2>1. k \in LoginRecord /\ k.st = "read" /\ k.clock = today
    BY <1>1 DEF LoginRecord
  <2>2. login' = [login EXCEPT ![l] = k]
    BY <1>4 DEF StartSeed, IInv, TypeOK
  <2> HIDE DEF k
  <2>. QED  BY <1>1, <1>2, <2>1, <2>2, QuietLogin
<1>. QED  BY <1>3, <1>4

(* An answer changes nothing until it is applied.                           *)
LEMMA ReadHistoryKeeps ==
  ASSUME IInv, NEW l \in Logins, ReadHistory(l)
  PROVE  IInv'
<1>1. /\ login[l] \in LoginRecord /\ login[l].st = "read" /\ login[l].clock \in Days
      /\ bound \in BOOLEAN /\ provisioning \in Logins \cup {NoLogin} /\ seeding \in Logins \cup {NoLogin}
      /\ bound => seeded # "none"
  BY DEF ReadHistory, IInv, TypeOK, SeedInv, ClockInv
<1>2. /\ UNCHANGED <<today, book, call, outflow, restarts, seeded, history>>
      /\ seeding' = seeding /\ bound' = bound /\ provisioning' = provisioning
  BY DEF ReadHistory, process
<1>3. outflow[login[l].clock] \in Nat /\ Landed \in SUBSET Calls /\ Cap \in Nat
  BY <1>1, AllowanceAssumption DEF IInv, TypeOK, Landed
<1>4. \E k \in LoginRecord : k.st = "apply" /\ login' = [login EXCEPT ![l] = k]
  <2> DEFINE k1 == [login[l] EXCEPT !.st = "apply", !.ok = TRUE, !.saw = Landed,
                                    !.spent = outflow[login[l].clock]]
             k2 == [login[l] EXCEPT !.st = "apply", !.ok = TRUE, !.spent = Cap]
             k3 == [login[l] EXCEPT !.st = "apply", !.ok = FALSE]
  <2>1. k1 \in LoginRecord /\ k1.st = "apply"
    BY <1>1, <1>3 DEF LoginRecord
  <2>2. k2 \in LoginRecord /\ k2.st = "apply"
    BY <1>1, <1>3 DEF LoginRecord
  <2>3. k3 \in LoginRecord /\ k3.st = "apply"
    BY <1>1 DEF LoginRecord
  <2>4. \E k \in {k1, k2, k3} : login' = [login EXCEPT ![l] = k]
    BY DEF ReadHistory, IInv, TypeOK
  <2> HIDE DEF k1, k2, k3
  <2>. QED  BY <2>1, <2>2, <2>3, <2>4
<1>5. PICK k \in LoginRecord : k.st = "apply" /\ login' = [login EXCEPT ![l] = k]
  BY <1>4
<1>. QED  BY <1>1, <1>2, <1>5, QuietLogin

(* An answer is dropped, holds the wallet, or is about to be counted with   *)
(* the lock of the registry taken.                                          *)
LEMMA ApplyKeeps ==
  ASSUME IInv, NEW l \in Logins, Apply(l)
  PROVE  IInv'
<1>1. /\ login[l] \in LoginRecord /\ today \in Days /\ seeding = NoLogin
      /\ bound \in BOOLEAN /\ provisioning \in Logins \cup {NoLogin}
      /\ bound => seeded # "none"
  BY DEF Apply, IInv, TypeOK, SeedInv
<1>2. /\ UNCHANGED <<today, call, outflow, restarts, history>>
      /\ bound' = bound /\ provisioning' = provisioning
  BY DEF Apply
<1>3. CASE seeded = "Counted"
  <2>1. Seeded(l) /\ UNCHANGED <<book, seeded, seeding>>
    BY <1>3 DEF Apply
  <2>. QED  BY <1>1, <1>2, <1>3, <2>1, SeededShape, QuietLogin
<1>4. CASE seeded # "Counted" /\ login[l].ok
  <2> DEFINE k == [login[l] EXCEPT !.st = "count", !.clock = today]
  <2>1. k \in LoginRecord /\ k.st = "count" /\ k.clock = today
    BY <1>1 DEF LoginRecord
  <2>2. login' = [login EXCEPT ![l] = k] /\ seeding' = l /\ UNCHANGED <<book, seeded>>
    BY <1>4 DEF Apply, IInv, TypeOK
  <2> HIDE DEF k
  <2>. QED  BY <1>1, <1>2, <1>4, <2>1, <2>2, QuietLogin
<1>5. CASE seeded # "Counted" /\ ~login[l].ok
  <2>1. Seeded(l) /\ seeded' = "Held" /\ seeding' = seeding /\ book' = [book EXCEPT !.held = TRUE]
    BY <1>5 DEF Apply
  <2>2. /\ book' \in [day : Days \cup {NoDay}, total : Nat, held : BOOLEAN]
        /\ book'.day = book.day /\ book'.total = book.total /\ book'.held = TRUE
    BY <2>1 DEF IInv, TypeOK
  <2>3. /\ login' \in [Logins -> LoginRecord] /\ login'[l].st \in {"idle", "confirm"}
        /\ \A x \in Logins : x # l => login'[x] = login[x]
    BY SMT, <2>1, SeededShape DEF IInv, TypeOK
  <2>4. /\ today' = today /\ call' = call /\ outflow' = outflow /\ restarts' = restarts
        /\ authorised' = authorised /\ missed' = missed /\ blind' = blind
        /\ seed' = seed /\ past' = past /\ turnedBack' = turnedBack
    BY <1>2 DEF history
  <2>5. TypeOK'
    BY <1>2, <2>1, <2>2, <2>3, <2>4, Zenon DEF IInv, TypeOK
  <2>6. ClockInv'
    BY <2>2, <2>3, <2>4 DEF IInv, ClockInv
  <2>7. SeedInv'
    BY <1>2, <1>5, <2>1, <2>2, <2>3, <2>4 DEF IInv, SeedInv
  <2>8. CountInv'
    BY <2>1, <2>3, <2>4 DEF IInv, CountInv
  <2>9. ASSUME ~turnedBack' PROVE BookInv'
    <3>1. BookInv
      BY <2>4, <2>9 DEF IInv
    <3>. QED  BY <3>1, <2>2, <2>4 DEF BookInv
  <2>. QED  BY <2>5, <2>6, <2>7, <2>8, <2>9 DEF IInv
<1>. QED  BY <1>3, <1>4, <1>5

(* Counting opens the book of a day no later day than which is charged, and *)
(* records what the history did not show.                                   *)
LEMMA CountKeeps ==
  ASSUME IInv, NEW l \in Logins, Count(l)
  PROVE  IInv'
<1> DEFINE k == login[l]
           total == EntryAt(k.clock) + k.spent
<1>1. /\ k.st = "count" /\ k.clock \in Days /\ k.clock \in Nat /\ k.clock # 0
      /\ k.clock <= today /\ k.spent \in Nat
      /\ seeding = l /\ seeded # "Counted" /\ book.day = NoDay
      /\ \A d \in Days : d > k.clock => authorised[d] = 0
      /\ \A c \in Calls : call[c].st # "reserved"
  BY SMT DEF Count, IInv, TypeOK, ClockInv, SeedInv, CountInv, LoginRecord, Days
<1>2. total \in Nat
  BY SMT, <1>1 DEF IInv, TypeOK, EntryAt
<1>3. /\ book' = [day |-> k.clock, total |-> total, held |-> FALSE]
      /\ turnedBack' = (turnedBack \/ k.clock < book.day)
      /\ seeded' = "Counted" /\ seeding' = NoLogin
      /\ seed' = [day |-> k.clock, spent |-> k.spent]
      /\ missed' = [missed EXCEPT ![k.clock] = IF authorised[k.clock] > total + @
                                               THEN authorised[k.clock] - total ELSE @]
      /\ blind' = blind \cup {c \in past : call[c].day = k.clock /\ c \notin k.saw}
      /\ Seeded(l)
      /\ today' = today /\ call' = call /\ outflow' = outflow /\ restarts' = restarts
      /\ bound' = bound /\ provisioning' = provisioning /\ authorised' = authorised /\ past' = past
  BY DEF Count, TurnsBack
<1>4. /\ book' \in [day : Days \cup {NoDay}, total : Nat, held : BOOLEAN]
      /\ book'.day = k.clock /\ book'.total = total
  BY <1>1, <1>2, <1>3
<1>5. /\ login' \in [Logins -> LoginRecord] /\ login'[l].st \in {"idle", "confirm"}
      /\ \A x \in Logins : x # l => login'[x] = login[x]
  <2>1. login \in [Logins -> LoginRecord]
    BY DEF IInv, TypeOK
  <2> QED BY <1>3, <2>1, SeededShape
<1>6. /\ missed' \in [Days -> Nat]
      /\ authorised[k.clock] <= total + missed'[k.clock]
      /\ \A d \in Days : missed[d] <= missed'[d]
  <2>1. missed \in [Days -> Nat] /\ authorised \in [Days -> Int] /\ k.clock \in Days
    BY <1>1 DEF IInv, TypeOK
  <2> QED BY SMT, <1>2, <1>3, <2>1
<1> HIDE DEF k, total
<1>7. TypeOK'
  <2>1. turnedBack' \in BOOLEAN
    BY <1>3
  <2>2. seed' \in [day : Days \cup {NoDay}, spent : Nat] /\ blind' \subseteq Calls
    BY <1>1, <1>3 DEF IInv, TypeOK
  <2>. QED  BY <1>3, <1>4, <1>5, <1>6, <2>1, <2>2, Zenon DEF IInv, TypeOK
<1>8. ClockInv'
  BY <1>1, <1>3, <1>4, <1>5 DEF IInv, ClockInv
<1>9. SeedInv'
  BY <1>1, <1>3, <1>4 DEF IInv, SeedInv, NoDay
<1>10. CountInv'
  BY <1>1, <1>5 DEF IInv, CountInv
<1>11. ASSUME ~turnedBack' PROVE BookInv'
  <2>1. BookInv
    BY <1>3, <1>11, Zenon DEF IInv
  <2>2. \A d \in Days : authorised[d] <= Cap + missed'[d]
    BY SMT, <1>6, <2>1, AllowanceAssumption DEF BookInv, IInv, TypeOK
  <2>. QED  BY <1>1, <1>3, <1>4, <1>6, <2>2 DEF BookInv
<1>. QED  BY <1>7, <1>8, <1>9, <1>10, <1>11 DEF IInv

(* A wallet is bound after seed_spend.                                      *)
LEMMA BindKeeps ==
  ASSUME IInv, NEW l \in Logins, Bind(l)
  PROVE  IInv'
<1>1. /\ seeded # "none"
      /\ seeding \in Logins \cup {NoLogin} /\ provisioning \in Logins \cup {NoLogin}
  BY DEF Bind, IInv, SeedInv, TypeOK
<1>2. /\ UNCHANGED <<today, book, call, outflow, restarts, seeded, history>>
      /\ seeding' = seeding /\ bound' \in BOOLEAN
      /\ login' = [login EXCEPT ![l] = Ended]
      /\ provisioning' \in Logins \cup {NoLogin}
  BY <1>1 DEF Bind, Unclaim
<1>. QED  BY <1>1, <1>2, Records, QuietLogin DEF Ended

(* A sign-in that fails leaves the wallet as it was.                        *)
LEMMA SignInFailsKeeps ==
  ASSUME IInv, NEW l \in Logins, SignInFails(l)
  PROVE  IInv'
<1>1. /\ bound => seeded # "none"
      /\ bound \in BOOLEAN
      /\ seeding \in Logins \cup {NoLogin} /\ provisioning \in Logins \cup {NoLogin}
  BY DEF IInv, SeedInv, TypeOK
<1>2. /\ UNCHANGED <<today, book, call, outflow, restarts, seeded, history>>
      /\ seeding' = seeding /\ bound' = bound
      /\ login' = [login EXCEPT ![l] = Ended]
      /\ provisioning' \in Logins \cup {NoLogin}
  BY <1>1 DEF SignInFails, Unclaim
<1>. QED  BY <1>1, <1>2, Records, QuietLogin DEF Ended

-----------------------------------------------------------------------------
(* Midnight and restarts.                                                   *)

(* A new day has nothing charged to it.                                     *)
LEMMA MidnightKeeps ==
  ASSUME IInv, Midnight
  PROVE  IInv'
<1>1. /\ today \in Nat /\ today' = today + 1 /\ today' \in Days
  BY SMT, AllowanceAssumption DEF Midnight, IInv, TypeOK, Days
<1>2. /\ book' = book /\ login' = login /\ call' = call /\ outflow' = outflow /\ restarts' = restarts
      /\ seeded' = seeded /\ seeding' = seeding /\ bound' = bound /\ provisioning' = provisioning
      /\ authorised' = authorised /\ missed' = missed /\ blind' = blind
      /\ seed' = seed /\ past' = past /\ turnedBack' = turnedBack
  BY DEF Midnight, process, history
<1>3. TypeOK'
  BY <1>1, <1>2, Zenon DEF IInv, TypeOK
<1>4. ClockInv'
  <2>1. book.day \in Nat
    BY SMT DEF IInv, TypeOK, Days, NoDay
  <2>2. \A x \in Days : x <= today => x <= today'
    BY SMT, <1>1 DEF Days
  <2>3. \A x \in Days : x > today' => x > today
    BY SMT, <1>1 DEF Days
  <2>4. book.day <= today'
    BY SMT, <1>1, <2>1 DEF IInv, ClockInv
  <2>. QED  BY <1>2, <2>2, <2>3, <2>4 DEF IInv, ClockInv
<1>5. SeedInv' /\ CountInv'
  BY <1>2 DEF IInv, SeedInv, CountInv
<1>6. ASSUME ~turnedBack' PROVE BookInv'
  <2>1. BookInv
    BY <1>2, <1>6 DEF IInv
  <2>. QED  BY <1>2, <2>1 DEF BookInv
<1>. QED  BY <1>3, <1>4, <1>5, <1>6 DEF IInv

(* A new process starts with an empty book and holds no reservation.        *)
LEMMA RestartKeeps ==
  ASSUME IInv, Restart
  PROVE  IInv'
<1>1. /\ book' = NoBook /\ seeded' = "none" /\ seeding' = NoLogin /\ bound' = FALSE
      /\ provisioning' = NoLogin /\ login' = [l \in Logins |-> NewLogin]
      /\ today' = today /\ outflow' = outflow /\ authorised' = authorised
      /\ missed' = missed /\ blind' = blind /\ turnedBack' = turnedBack
      /\ past' \subseteq Calls /\ seed' = NoSeed
  BY DEF Restart
<1>2. /\ login' \in [Logins -> LoginRecord]
      /\ \A l \in Logins : login'[l].st = "idle"
  BY <1>1, Records
<1>3. /\ call' \in [Calls -> CallRecord]
      /\ \A c \in Calls : call'[c].st \notin {"asked", "locking", "reserved"}
  <2>1. \A c \in Calls : call[c] \in CallRecord
    BY DEF IInv, TypeOK
  <2>2. \A c \in Calls : /\ [call[c] EXCEPT !.st = "lost"] \in CallRecord
                         /\ [call[c] EXCEPT !.st = "lost"].st = "lost"
    BY <2>1 DEF CallRecord
  <2>. QED  BY <2>1, <2>2, Records DEF Restart
<1>4. /\ book' \in [day : Days \cup {NoDay}, total : Nat, held : BOOLEAN]
      /\ book'.day = NoDay
  BY <1>1 DEF NoBook
<1>5. seed' \in [day : Days \cup {NoDay}, spent : Nat]
  BY <1>1 DEF NoSeed
<1>6. restarts' \in 0..MaxRestarts
  BY SMT, AllowanceAssumption DEF Restart, IInv, TypeOK
<1>7. TypeOK'
  BY <1>1, <1>2, <1>3, <1>4, <1>5, <1>6, Zenon DEF IInv, TypeOK
<1>8. ClockInv'
  <2>1. NoDay <= today
    BY SMT DEF IInv, TypeOK, Days, NoDay
  <2>. QED  BY <1>1, <1>2, <1>3, <1>4, <2>1 DEF IInv, ClockInv
<1>9. SeedInv' /\ CountInv'
  BY <1>1, <1>2, <1>3, <1>4 DEF SeedInv, CountInv
<1>10. ASSUME ~turnedBack' PROVE BookInv'
  <2>1. BookInv
    BY <1>1, <1>10 DEF IInv
  <2>. QED  BY <1>1, <1>3, <1>4, <2>1 DEF BookInv
<1>. QED  BY <1>7, <1>8, <1>9, <1>10 DEF IInv

(* Every step preserves the invariant.                                      *)
LEMMA Inductive == IInv /\ [Next]_vars => IInv'
<1>1. IInv /\ Next => IInv'
  BY AskForKeeps, ReadClockKeeps, CheckAndRecordKeeps, CommitKeeps, ReleaseKeeps, LandKeeps,
     SignInKeeps, StartSeedKeeps, ReadHistoryKeeps, ApplyKeeps, CountKeeps, BindKeeps,
     SignInFailsKeeps, MidnightKeeps, RestartKeeps
  DEF Next
<1>2. IInv /\ UNCHANGED vars => IInv'
  BY SMT DEF IInv, TypeOK, ClockInv, SeedInv, CountInv, BookInv, vars, process, history
<1>. QED  BY <1>1, <1>2

-----------------------------------------------------------------------------
(* The invariant holds in every behaviour.                                  *)
LEMMA Invariance == Spec => []IInv
BY InitIInv, Inductive, PTL DEF Spec

(* The ledger never authorises more than the daily cap for a day, but for   *)
(* what a history read after a restart did not show, and unless a clock     *)
(* read before midnight is used after the book was opened for the next day  *)
(* (MemoryLedger in policy.rs, seed_spend in tenants.rs).                   *)
THEOREM CapHoldsEveryDay == Spec => []DailyCapHolds
<1>1. IInv => DailyCapHolds
  BY DEF IInv, BookInv, DailyCapHolds
<1>. QED  BY <1>1, Invariance, PTL

(* A process reserves nothing for a wallet before it counted what earlier   *)
(* processes let it spend (seed_spend before bind_owner, and the hold).     *)
THEOREM NothingUncounted == Spec => []SpendsOnlyCounted
<1>1. IInv => SpendsOnlyCounted
  BY DEF IInv, SeedInv, SpendsOnlyCounted
<1>. QED  BY <1>1, Invariance, PTL

-----------------------------------------------------------------------------
(* Sums of amounts.                                                         *)
INSTANCE FiniteSetTheorems

(* The units of one request.                                                *)
UnitsOf(calls, c) == {c} \X (1..calls[c].amount)

(* There are as many of them as its amount.                                 *)
LEMMA UnitsOfCall ==
  ASSUME NEW calls \in [Calls -> CallRecord], NEW c \in Calls
  PROVE  /\ IsFiniteSet(UnitsOf(calls, c))
         /\ Cardinality(UnitsOf(calls, c)) = calls[c].amount
         /\ calls[c].amount \in Nat
<1>1. calls[c].amount \in Nat
  BY DEF CallRecord
<1>2. IsFiniteSet({c}) /\ Cardinality({c}) = 1
  BY FS_Singleton
<1>3. 1 \in Int /\ calls[c].amount \in Int
  BY SMT, <1>1
<1>4. /\ IsFiniteSet(1..calls[c].amount)
      /\ Cardinality(1..calls[c].amount) =
           IF 1 > calls[c].amount THEN 0 ELSE calls[c].amount - 1 + 1
  BY <1>3, FS_Interval
<1>5. Cardinality(1..calls[c].amount) = calls[c].amount
  BY SMT, <1>1, <1>4
<1>6. /\ IsFiniteSet({c} \X (1..calls[c].amount))
      /\ Cardinality({c} \X (1..calls[c].amount)) = Cardinality({c}) * Cardinality(1..calls[c].amount)
  BY <1>2, <1>4, FS_Product
<1>7. Cardinality(UnitsOf(calls, c)) = 1 * calls[c].amount
  BY <1>2, <1>5, <1>6 DEF UnitsOf
<1>8. IsFiniteSet(UnitsOf(calls, c))
  BY <1>6 DEF UnitsOf
<1>9. Cardinality(UnitsOf(calls, c)) = calls[c].amount
  BY SMT, <1>1, <1>7
<1>. QED  BY <1>1, <1>8, <1>9

(* The units of finitely many requests are finitely many.                   *)
LEMMA UnitsFinite ==
  ASSUME NEW calls \in [Calls -> CallRecord], NEW S \in SUBSET Calls
  PROVE  IsFiniteSet(Units(calls, S))
<1> DEFINE T == {UnitsOf(calls, c) : c \in S}
           f == [c \in S |-> UnitsOf(calls, c)]
<1>1. IsFiniteSet(S)
  BY FS_Subset, AllowanceAssumption
<1>2. f \in Surjection(S, T)
  BY DEF Surjection
<1>3. IsFiniteSet(T)
  <2> HIDE DEF T, f
  <2>. QED  BY <1>1, <1>2, FS_Surjection
<1>4. \A U \in T : IsFiniteSet(U)
  BY UnitsOfCall
<1>5. IsFiniteSet(UNION T)
  <2> HIDE DEF T
  <2>. QED  BY <1>3, <1>4, FS_UNION
<1>6. Units(calls, S) = UNION T
  BY DEF Units, UnitsOf
<1>. QED  BY <1>5, <1>6

(* So their worth is a number.                                              *)
LEMMA WorthType ==
  ASSUME NEW calls \in [Calls -> CallRecord], NEW S \in SUBSET Calls
  PROVE  Worth(calls, S) \in Nat
BY UnitsFinite, FS_CardinalityType DEF Worth

(* Nothing is worth nothing.                                                *)
LEMMA WorthEmpty == \A calls : Worth(calls, {}) = 0
<1>1. \A calls : Units(calls, {}) = {}
  BY DEF Units
<1>. QED  BY <1>1, FS_EmptySet DEF Worth

(* More requests are worth no less.                                         *)
LEMMA WorthMonotone ==
  ASSUME NEW calls \in [Calls -> CallRecord], NEW S \in SUBSET Calls, NEW T \in SUBSET S
  PROVE  Worth(calls, T) <= Worth(calls, S)
<1>1. Units(calls, T) \in SUBSET Units(calls, S)
  BY DEF Units
<1>. QED  BY <1>1, UnitsFinite, FS_Subset DEF Worth

(* Two sets together are worth no more than both.                           *)
LEMMA WorthUnion ==
  ASSUME NEW calls \in [Calls -> CallRecord], NEW S \in SUBSET Calls, NEW T \in SUBSET Calls
  PROVE  Worth(calls, S \cup T) <= Worth(calls, S) + Worth(calls, T)
<1> DEFINE A == Units(calls, S)
           B == Units(calls, T)
<1>1. Units(calls, S \cup T) = A \cup B
  BY DEF Units
<1>2. IsFiniteSet(A) /\ IsFiniteSet(B)
  BY UnitsFinite
<1> HIDE DEF A, B
<1>3. Cardinality(A \cup B) = Cardinality(A) + Cardinality(B) - Cardinality(A \cap B)
  BY <1>2, FS_Union
<1>4. Cardinality(A) \in Nat /\ Cardinality(B) \in Nat /\ Cardinality(A \cap B) \in Nat
  <2>1. IsFiniteSet(A \cap B)
    BY <1>2, FS_Intersection
  <2>. QED  BY <1>2, <2>1, FS_CardinalityType
<1>5. Cardinality(A \cup B) <= Cardinality(A) + Cardinality(B)
  BY SMT, <1>3, <1>4
<1>. QED  BY <1>1, <1>5 DEF Worth, A, B

(* One more request adds its amount.                                        *)
LEMMA WorthAdd ==
  ASSUME NEW calls \in [Calls -> CallRecord], NEW S \in SUBSET Calls, NEW c \in Calls, c \notin S
  PROVE  Worth(calls, S \cup {c}) = Worth(calls, S) + calls[c].amount
<1> DEFINE A == Units(calls, S)
           B == UnitsOf(calls, c)
<1>1. Units(calls, S \cup {c}) = A \cup B
  BY DEF Units, UnitsOf
<1>2. A \cap B = {}
  <2>1. \A u \in A : u[1] \in S
    BY SMT DEF Units
  <2>2. \A u \in B : u[1] = c
    BY DEF UnitsOf
  <2> HIDE DEF A, B
  <2>. QED  BY <2>1, <2>2
<1>3. IsFiniteSet(A) /\ IsFiniteSet(B) /\ Cardinality(B) = calls[c].amount /\ calls[c].amount \in Nat
  BY UnitsFinite, UnitsOfCall
<1> HIDE DEF A, B
<1>4. Cardinality(A \cup B) = Cardinality(A) + Cardinality(B) - Cardinality(A \cap B)
  BY <1>3, FS_Union
<1>5. Cardinality(A) \in Nat /\ Cardinality(A \cap B) = 0
  BY <1>2, <1>3, FS_CardinalityType, FS_EmptySet
<1>6. Cardinality(A \cup B) = Cardinality(A) + calls[c].amount
  BY SMT, <1>3, <1>4, <1>5
<1>. QED  BY <1>1, <1>6 DEF Worth, A

(* A sum depends on the amounts only.                                       *)
LEMMA WorthSame ==
  ASSUME NEW calls, NEW calls2, NEW S, \A c \in S : calls2[c].amount = calls[c].amount
  PROVE  Worth(calls2, S) = Worth(calls, S)
<1>1. Units(calls2, S) = Units(calls, S)
  BY DEF Units
<1>. QED  BY <1>1 DEF Worth

(* A request that joins those summed adds its amount.                       *)
LEMMA Joins ==
  ASSUME NEW calls \in [Calls -> CallRecord], NEW calls2 \in [Calls -> CallRecord],
         NEW S \in SUBSET Calls, \A x \in S : calls2[x].amount = calls[x].amount,
         NEW c \in Calls, c \notin S
  PROVE  Worth(calls2, S \cup {c}) = Worth(calls, S) + calls2[c].amount
<1>1. Worth(calls2, S) = Worth(calls, S)
  BY SMT, WorthSame
<1>2. Worth(calls2, S \cup {c}) = Worth(calls2, S) + calls2[c].amount
  BY WorthAdd
<1>. QED  BY <1>1, <1>2

-----------------------------------------------------------------------------
(* The accounts.                                                            *)

OfDay(calls, d) == {c \in Calls : calls[c].day = d}
LandedSince(calls, d) == {c \in Calls : calls[c].st = "landed" /\ calls[c].day >= d}
Seen(calls, k) == {c \in k.saw : calls[c].day >= k.clock}

(* A request is charged to a day from its reservation on, until released.   *)
Charged(k, t) ==
  IF k.st \in {"reserved", "signed", "landed", "lost"} THEN k.day \in Days /\ k.day <= t
  ELSE k.day = NoDay

(* What earlier processes left behind is settled, and before a process has  *)
(* counted the history it has charged nothing itself.                       *)
CallInv ==
  /\ \A c \in Calls : Charged(call[c], today)
  /\ \A c \in Calls : call[c].st = "lost" => c \in past
  /\ \A c \in past : call[c].st \notin {"idle", "asked", "locking", "reserved"}
  /\ blind \subseteq past
  /\ seeded # "Counted" => \A c \in Calls \ past : call[c].day = NoDay

(* What is authorised for a day is the worth of the requests charged to it, *)
(* and what landed of them left the wallet no earlier than on its day.      *)
OutInv ==
  /\ \A d \in Days : authorised[d] = Worth(call, OfDay(call, d))
  /\ \A d \in Days : Worth(call, LandedSince(call, d)) <= outflow[d]

(* An answer is worth no less than the payments it shows of its day and     *)
(* later.                                                                   *)
Reads(calls, k, t) ==
  IF k.st \in {"apply", "count"}
  THEN /\ k.clock \in Days /\ k.clock <= t
       /\ \A c \in k.saw : calls[c].st = "landed"
       /\ Worth(calls, Seen(calls, k)) <= k.spent
  ELSE k.saw = {}

ReadInv == \A l \in Logins : Reads(call, login[l], today)

(* The entry of the book.                                                   *)
OpenInv ==
  /\ seed.day <= book.day
  /\ \A c \in Calls \ past : call[c].day <= book.day
  /\ book.day # NoDay => book.total = (IF seed.day = book.day THEN seed.spent ELSE 0)
                                      + Worth(call, OfDay(call, book.day) \ past)

AccInv == CallInv /\ OutInv /\ ReadInv /\ (~turnedBack => OpenInv) /\ MissedWasInFlight

(* An answer stays good while landed payments stay landed.                  *)
LEMMA ReadsStay ==
  ASSUME NEW calls \in [Calls -> CallRecord], NEW calls2 \in [Calls -> CallRecord],
         NEW k \in LoginRecord, NEW t \in Days, NEW t2 \in Days, t <= t2, Reads(calls, k, t),
         \A c \in Calls : calls[c].st = "landed" =>
           calls2[c].st = "landed" /\ calls2[c].day = calls[c].day /\ calls2[c].amount = calls[c].amount
  PROVE  Reads(calls2, k, t2)
<1>1. CASE k.st \in {"apply", "count"}
  <2>1. /\ k.clock \in Days /\ k.clock <= t
        /\ \A c \in k.saw : calls[c].st = "landed"
        /\ Worth(calls, Seen(calls, k)) <= k.spent
    BY <1>1 DEF Reads
  <2>2. k.saw \subseteq Calls
    BY DEF LoginRecord
  <2>3. Seen(calls2, k) = Seen(calls, k) /\ \A c \in Seen(calls, k) : calls2[c].amount = calls[c].amount
    BY <2>1, <2>2 DEF Seen
  <2>4. Worth(calls2, Seen(calls2, k)) = Worth(calls, Seen(calls, k))
    BY SMT, <2>3, WorthSame
  <2>5. k.clock <= t2
    BY SMT, <2>1 DEF Days
  <2>. QED  BY <1>1, <2>1, <2>2, <2>4, <2>5 DEF Reads
<1>2. CASE k.st \notin {"apply", "count"}
  BY <1>2 DEF Reads
<1>. QED  BY <1>1, <1>2

(* Requests keep what they are charged.                                     *)
SameCharges(calls, calls2) ==
  \A c \in Calls : /\ calls2[c].day = calls[c].day
                   /\ calls[c].day # NoDay => calls2[c].amount = calls[c].amount
                   /\ calls2[c].st = "landed" <=> calls[c].st = "landed"

(* Then the sums of charged requests stay the same.                         *)
LEMMA SameWorth ==
  ASSUME NEW calls, NEW calls2, SameCharges(calls, calls2), NEW S \in SUBSET Calls,
         \A c \in S : calls[c].day # NoDay
  PROVE  Worth(calls2, S) = Worth(calls, S)
BY WorthSame DEF SameCharges

(* A step that changes neither charges nor accounts.                        *)
LEMMA AccountsStay ==
  ASSUME IInv, IInv', AccInv, SameCharges(call, call'), CallInv',
         UNCHANGED <<today, book, login, outflow, authorised, missed, blind, seed, past, turnedBack>>
  PROVE  AccInv'
<1>1. /\ call \in [Calls -> CallRecord] /\ call' \in [Calls -> CallRecord]
      /\ login \in [Logins -> LoginRecord] /\ today \in Days /\ blind \subseteq Calls
      /\ book.day \in Days \cup {NoDay}
  BY DEF IInv, TypeOK
<1>2. \A d \in Days : d # NoDay /\ d \in Nat
  BY SMT DEF Days, NoDay
<1>3. \A c \in Calls : call[c].st = "landed" => call[c].day # NoDay
  BY <1>2 DEF AccInv, CallInv, Charged
<1>4. \A d \in Days : Worth(call', OfDay(call', d)) = Worth(call, OfDay(call, d))
  <2>1. \A d \in Days : OfDay(call', d) = OfDay(call, d)
    BY DEF OfDay, SameCharges
  <2>2. \A d \in Days : OfDay(call, d) \in SUBSET Calls /\ \A c \in OfDay(call, d) : call[c].day # NoDay
    BY <1>2 DEF OfDay
  <2>. QED  BY <2>1, <2>2, SameWorth
<1>5. \A d \in Days : Worth(call', LandedSince(call', d)) = Worth(call, LandedSince(call, d))
  <2>1. \A d \in Days : LandedSince(call', d) = LandedSince(call, d)
    BY DEF LandedSince, SameCharges
  <2>2. \A d \in Days : /\ LandedSince(call, d) \in SUBSET Calls
                        /\ \A c \in LandedSince(call, d) : call[c].day # NoDay
    BY <1>3 DEF LandedSince
  <2>. QED  BY <2>1, <2>2, SameWorth
<1>6. OutInv'
  BY <1>4, <1>5 DEF AccInv, OutInv
<1>7. ReadInv'
  <2>1. today <= today
    BY SMT, <1>1, <1>2
  <2>2. \A c \in Calls : call[c].st = "landed" =>
           call'[c].st = "landed" /\ call'[c].day = call[c].day /\ call'[c].amount = call[c].amount
    BY <1>3 DEF SameCharges
  <2>3. \A l \in Logins : Reads(call', login[l], today)
    BY <1>1, <2>1, <2>2, ReadsStay DEF AccInv, ReadInv
  <2>. QED  BY <2>3 DEF ReadInv
<1>8. ASSUME ~turnedBack' PROVE OpenInv'
  <2>1. OpenInv
    BY <1>8 DEF AccInv
  <2>2. \A c \in Calls \ past : call'[c].day <= book.day
    BY <2>1 DEF OpenInv, SameCharges
  <2>3. ASSUME book.day # NoDay
        PROVE  Worth(call', OfDay(call', book.day) \ past) = Worth(call, OfDay(call, book.day) \ past)
    <3>1. OfDay(call', book.day) = OfDay(call, book.day)
      BY DEF OfDay, SameCharges
    <3>2. /\ OfDay(call, book.day) \ past \in SUBSET Calls
          /\ \A c \in OfDay(call, book.day) \ past : call[c].day # NoDay
      BY <2>3 DEF OfDay
    <3>. QED  BY SMT, <3>1, <3>2, SameWorth
  <2>. QED  BY <2>1, <2>2, <2>3 DEF OpenInv
<1>9. MissedWasInFlight'
  <2> DEFINE B(calls, d) == {c \in blind : calls[c].day = d}
  <2>1. \A d \in Days : B(call', d) = B(call, d)
    BY <1>1 DEF SameCharges
  <2>2. \A d \in Days : B(call, d) \in SUBSET Calls /\ \A c \in B(call, d) : call[c].day # NoDay
    BY <1>1, <1>2
  <2>3. \A d \in Days : Worth(call', B(call', d)) = Worth(call, B(call, d))
    <3> HIDE DEF B
    <3>. QED  BY <2>1, <2>2, SameWorth
  <2>. QED  BY <2>3 DEF AccInv, MissedWasInFlight, Sum
<1>. QED  BY <1>6, <1>7, <1>8, <1>9 DEF AccInv

(* A request that is not charged yet, or no longer to be released, moves on. *)
LEMMA QuietAccounts ==
  ASSUME IInv, IInv', AccInv, NEW c \in Calls, NEW k \in CallRecord, call' = [call EXCEPT ![c] = k],
         UNCHANGED <<today, book, login, outflow, seeded, authorised, missed, blind, seed, past, turnedBack>>,
         call[c].st \in {"idle", "asked", "locking", "reserved"},
         k.day = call[c].day,
         k.day # NoDay => k.amount = call[c].amount,
         k.st \notin {"landed", "lost"},
         k.st \in {"reserved", "signed"} <=> call[c].st = "reserved"
  PROVE  AccInv'
<1>1. call'[c] = k /\ \A x \in Calls : x # c => call'[x] = call[x]
  BY DEF IInv, TypeOK
<1>2. SameCharges(call, call')
  BY <1>1 DEF SameCharges
<1>3. c \notin past
  BY DEF AccInv, CallInv
<1>4. CallInv'
  <2>1. Charged(k, today)
    BY DEF AccInv, CallInv, Charged
  <2>. QED  BY SMT, <1>1, <1>3, <2>1 DEF AccInv, CallInv
<1>. QED  BY <1>2, <1>4, AccountsStay

(* A request is not charged before its reservation.                         *)
LEMMA AskForAccounts ==
  ASSUME IInv, IInv', AccInv, NEW c \in Calls, NEW amount \in Amounts, AskFor(c, amount)
  PROVE  AccInv'
<1> DEFINE k == IF amount > Ceiling THEN Refused
                ELSE [call[c] EXCEPT !.st = "asked", !.amount = amount]
<1>1. call[c] \in CallRecord /\ call[c].st = "idle" /\ call[c].day = NoDay
  BY DEF AskFor, IInv, TypeOK, AccInv, CallInv, Charged
<1>2. k \in CallRecord /\ k.st \in {"asked", "ended"} /\ k.day = NoDay
  BY <1>1, Records, AllowanceAssumption DEF CallRecord, Refused, NewCall
<1>3. call' = [call EXCEPT ![c] = k]
  BY DEF AskFor
<1>4. UNCHANGED <<today, book, login, outflow, seeded, authorised, missed, blind, seed, past, turnedBack>>
  BY DEF AskFor, process, history
<1> HIDE DEF k
<1>. QED  BY <1>1, <1>2, <1>3, <1>4, QuietAccounts

(* Nor when it has read the clock.                                          *)
LEMMA ReadClockAccounts ==
  ASSUME IInv, IInv', AccInv, NEW c \in Calls, ReadClock(c)
  PROVE  AccInv'
<1> DEFINE k == [call[c] EXCEPT !.st = "locking", !.clock = today]
<1>1. call[c] \in CallRecord /\ call[c].st = "asked" /\ call[c].day = NoDay /\ today \in Days
  BY DEF ReadClock, IInv, TypeOK, AccInv, CallInv, Charged
<1>2. k \in CallRecord /\ k.st = "locking" /\ k.day = NoDay
  BY <1>1 DEF CallRecord
<1>3. call' = [call EXCEPT ![c] = k]
  BY DEF ReadClock, IInv, TypeOK
<1>4. UNCHANGED <<today, book, login, outflow, seeded, authorised, missed, blind, seed, past, turnedBack>>
  BY DEF ReadClock, process, history
<1> HIDE DEF k
<1>. QED  BY <1>1, <1>2, <1>3, <1>4, QuietAccounts

(* A signature keeps the charge.                                            *)
LEMMA CommitAccounts ==
  ASSUME IInv, IInv', AccInv, NEW c \in Calls, Commit(c)
  PROVE  AccInv'
<1> DEFINE k == [call[c] EXCEPT !.st = "signed"]
<1>1. call[c] \in CallRecord /\ call[c].st = "reserved"
  BY DEF Commit, IInv, TypeOK
<1>2. k \in CallRecord /\ k.st = "signed" /\ k.day = call[c].day /\ k.amount = call[c].amount
  BY <1>1 DEF CallRecord
<1>3. call' = [call EXCEPT ![c] = k]
  BY DEF Commit
<1>4. UNCHANGED <<today, book, login, outflow, seeded, authorised, missed, blind, seed, past, turnedBack>>
  BY DEF Commit, process, history
<1> HIDE DEF k
<1>. QED  BY <1>1, <1>2, <1>3, <1>4, QuietAccounts

(* A payment that lands leaves the wallet on its day or later.              *)
LEMMA LandAccounts ==
  ASSUME IInv, IInv', AccInv, NEW c \in Calls, Land(c)
  PROVE  AccInv'
<1> DEFINE k == [call[c] EXCEPT !.st = "landed"]
<1>1. /\ call \in [Calls -> CallRecord] /\ call' \in [Calls -> CallRecord]
      /\ call[c] \in CallRecord /\ call[c].st = "signed" /\ call[c].amount \in Nat
      /\ call[c].day \in Days /\ call[c].day <= today
      /\ login \in [Logins -> LoginRecord] /\ today \in Days /\ blind \subseteq Calls
      /\ outflow \in [Days -> Nat]
  BY DEF Land, IInv, TypeOK, CallRecord, AccInv, CallInv, Charged
<1>2. k \in CallRecord /\ k.st = "landed" /\ k.day = call[c].day /\ k.amount = call[c].amount
  BY <1>1 DEF CallRecord
<1>3. /\ call' = [call EXCEPT ![c] = k]
      /\ outflow' = [d \in Days |-> IF d <= today THEN outflow[d] + call[c].amount ELSE outflow[d]]
      /\ UNCHANGED <<today, book, login, seeded, authorised, missed, blind, seed, past, turnedBack>>
  BY DEF Land, process, history
<1> HIDE DEF k
<1>4. call'[c] = k /\ \A x \in Calls : x # c => call'[x] = call[x]
  BY <1>1, <1>3
<1>5. \A x \in Calls : call'[x].day = call[x].day /\ call'[x].amount = call[x].amount
  BY <1>2, <1>4
<1>6. \A S \in SUBSET Calls : Worth(call', S) = Worth(call, S)
  <2>1. \A S \in SUBSET Calls : \A x \in S : call'[x].amount = call[x].amount
    BY <1>5
  <2>. QED  BY <2>1, WorthSame
<1>7. CallInv'
  <2>1. Charged(k, today)
    BY <1>1, <1>2 DEF Charged
  <2>. QED  BY SMT, <1>1, <1>2, <1>3, <1>4, <2>1 DEF AccInv, CallInv
<1>8. \A d : OfDay(call', d) = OfDay(call, d)
  BY <1>5 DEF OfDay
<1>9. \A d : OfDay(call, d) \in SUBSET Calls
  BY DEF OfDay
<1>10. OutInv'
  <2>1. \A d \in Days : authorised'[d] = Worth(call', OfDay(call', d))
    BY <1>3, <1>6, <1>8, <1>9 DEF AccInv, OutInv
  <2>2. ASSUME NEW d \in Days PROVE Worth(call', LandedSince(call', d)) <= outflow'[d]
    <3> DEFINE S == LandedSince(call, d)
    <3>1. S \in SUBSET Calls /\ c \notin S /\ Worth(call, S) <= outflow[d]
      BY <1>1 DEF LandedSince, AccInv, OutInv
    <3>2. Worth(call, S) \in Nat /\ outflow[d] \in Nat
      BY <1>1, <3>1, WorthType
    <3>3. CASE call[c].day >= d
      <4>1. LandedSince(call', d) = S \cup {c}
        BY <1>2, <1>4, <3>3 DEF LandedSince
      <4> HIDE DEF S
      <4>2. Worth(call', S \cup {c}) = Worth(call, S) + k.amount
        <5>1. \A x \in S : call'[x].amount = call[x].amount
          BY <1>5, <3>1
        <5>. QED  BY <1>1, <1>4, <3>1, <5>1, Joins
      <4>3. outflow'[d] = outflow[d] + call[c].amount
        BY SMT, <1>1, <1>3, <3>3 DEF Days
      <4>. QED  BY SMT, <1>1, <1>2, <3>1, <3>2, <4>1, <4>2, <4>3
    <3>4. CASE ~(call[c].day >= d)
      <4>1. LandedSince(call', d) = S
        BY <1>2, <1>4, <3>4 DEF LandedSince
      <4>2. Worth(call', S) = Worth(call, S)
        BY <1>6, <3>1
      <4>3. outflow'[d] >= outflow[d]
        BY SMT, <1>1, <1>3
      <4>4. outflow'[d] \in Nat
        BY DEF IInv, TypeOK
      <4> HIDE DEF S
      <4>. QED  BY SMT, <3>1, <3>2, <4>1, <4>2, <4>3, <4>4
    <3>. QED  BY <3>3, <3>4
  <2>. QED  BY <2>1, <2>2 DEF OutInv
<1>11. ReadInv'
  <2>1. today <= today
    BY SMT, <1>1 DEF Days
  <2>2. \A x \in Calls : call[x].st = "landed" =>
           call'[x].st = "landed" /\ call'[x].day = call[x].day /\ call'[x].amount = call[x].amount
    BY <1>1, <1>4
  <2>3. \A l \in Logins : Reads(call', login[l], today)
    BY <1>1, <2>1, <2>2, ReadsStay DEF AccInv, ReadInv
  <2>. QED  BY <1>3, <2>3 DEF ReadInv
<1>12. ASSUME ~turnedBack' PROVE OpenInv'
  <2>1. OpenInv
    BY <1>3, <1>12 DEF AccInv
  <2>2. Worth(call', OfDay(call', book.day) \ past) = Worth(call, OfDay(call, book.day) \ past)
    BY <1>6, <1>8, <1>9
  <2>. QED  BY <1>3, <1>5, <2>1, <2>2 DEF OpenInv
<1>13. MissedWasInFlight'
  <2>1. \A d : {x \in blind : call'[x].day = d} = {x \in blind : call[x].day = d}
    BY <1>1, <1>5
  <2>2. \A d : {x \in blind : call[x].day = d} \in SUBSET Calls
    BY <1>1
  <2>. QED  BY <1>3, <1>6, <2>1, <2>2 DEF AccInv, MissedWasInFlight, Sum
<1>. QED  BY <1>7, <1>10, <1>11, <1>12, <1>13 DEF AccInv

(* A reservation is made or released: what landed, what was read and what   *)
(* was missed concern other requests.                                       *)
LEMMA OthersStay ==
  ASSUME IInv, IInv', AccInv, NEW c \in Calls \ past,
         \A x \in Calls : x # c => call'[x] = call[x],
         call[c].st # "landed", call'[c].st # "landed",
         UNCHANGED <<today, login, outflow, missed, blind, past>>
  PROVE  /\ \A d \in Days : Worth(call', LandedSince(call', d)) <= outflow'[d]
         /\ ReadInv' /\ MissedWasInFlight'
<1>1. /\ call \in [Calls -> CallRecord] /\ call' \in [Calls -> CallRecord]
      /\ login \in [Logins -> LoginRecord] /\ today \in Days /\ blind \subseteq Calls /\ c \notin blind
  BY DEF IInv, TypeOK, AccInv, CallInv
<1>2. \A S \in SUBSET Calls : c \notin S => Worth(call', S) = Worth(call, S)
  <2>1. \A S \in SUBSET Calls : c \notin S => \A x \in S : call'[x].amount = call[x].amount
    OBVIOUS
  <2>. QED  BY <2>1, WorthSame
<1>3. \A d \in Days : Worth(call', LandedSince(call', d)) <= outflow'[d]
  <2>1. \A d \in Days : /\ LandedSince(call', d) = LandedSince(call, d)
                        /\ LandedSince(call, d) \in SUBSET Calls /\ c \notin LandedSince(call, d)
    BY DEF LandedSince
  <2>. QED  BY <1>2, <2>1 DEF AccInv, OutInv
<1>4. ReadInv'
  <2>1. today <= today
    BY SMT, <1>1 DEF Days
  <2>2. \A x \in Calls : call[x].st = "landed" =>
           call'[x].st = "landed" /\ call'[x].day = call[x].day /\ call'[x].amount = call[x].amount
    OBVIOUS
  <2>3. \A l \in Logins : Reads(call', login[l], today)
    BY <1>1, <2>1, <2>2, ReadsStay DEF AccInv, ReadInv
  <2>. QED  BY <2>3 DEF ReadInv
<1>5. MissedWasInFlight'
  <2>1. \A d : {x \in blind : call'[x].day = d} = {x \in blind : call[x].day = d}
    BY <1>1
  <2>2. \A d : {x \in blind : call[x].day = d} \in SUBSET Calls /\ c \notin {x \in blind : call[x].day = d}
    BY <1>1
  <2>. QED  BY <1>2, <2>1, <2>2 DEF AccInv, MissedWasInFlight, Sum
<1>. QED  BY <1>3, <1>4, <1>5

(* A reservation is charged to the book and to what is authorised alike; a  *)
(* day opened anew has no charges yet.                                      *)
LEMMA CheckAndRecordAccounts ==
  ASSUME IInv, IInv', AccInv, NEW c \in Calls, CheckAndRecord(c)
  PROVE  AccInv'
<1> DEFINE k == call[c]
           next == EntryAt(k.clock) + k.amount
           fits == next <= Cap
<1>1. /\ k \in CallRecord /\ k.st = "locking" /\ k.amount \in Nat /\ k.day = NoDay
      /\ k.clock \in Days /\ k.clock <= today /\ c \notin past
      /\ call \in [Calls -> CallRecord] /\ call' \in [Calls -> CallRecord]
  BY DEF CheckAndRecord, IInv, TypeOK, ClockInv, CallRecord, AccInv, CallInv, Charged
<1>2. CASE book.held
  <2>1. /\ call' = [call EXCEPT ![c] = Refused]
        /\ UNCHANGED <<today, book, login, outflow, seeded, authorised, missed, blind, seed, past, turnedBack>>
    BY <1>2 DEF CheckAndRecord, process
  <2>2. Refused.day = NoDay
    BY DEF Refused, NewCall
  <2>. QED  BY <1>1, <2>1, <2>2, Records, QuietAccounts
<1>3. CASE ~book.held
  <2> DEFINE r == IF fits THEN Reserved(k) ELSE Refused
             more == IF fits THEN k.amount ELSE 0
  <2>1. /\ call' = [call EXCEPT ![c] = r]
        /\ book' = [book EXCEPT !.day = k.clock, !.total = IF fits THEN next ELSE EntryAt(k.clock)]
        /\ turnedBack' = (turnedBack \/ k.clock < book.day)
        /\ authorised' = IF fits THEN [authorised EXCEPT ![k.clock] = @ + k.amount] ELSE authorised
        /\ UNCHANGED <<today, login, outflow, seeded, missed, blind, seed, past>>
    BY <1>3 DEF CheckAndRecord, TurnsBack, Fits, process
  <2>2. /\ fits => r.st = "reserved" /\ r.day = k.clock /\ r.amount = k.amount
        /\ ~fits => r.st = "ended" /\ r.day = NoDay
    <3>1. Reserved(k).st = "reserved" /\ Reserved(k).day = k.clock /\ Reserved(k).amount = k.amount
      BY <1>1 DEF Reserved, CallRecord
    <3>2. Refused.st = "ended" /\ Refused.day = NoDay
      BY DEF Refused, NewCall
    <3>. QED  BY <3>1, <3>2
  <2>3. seeded = "Counted" /\ book.day \in Days
    BY <1>1, <1>3 DEF IInv, SeedInv, TypeOK, NoDay
  <2>4. call'[c] = r /\ \A x \in Calls : x # c => call'[x] = call[x]
    <3> HIDE DEF r
    <3>. QED  BY <1>1, <2>1
  <2>5. EntryAt(k.clock) \in Nat /\ more \in Nat
    BY SMT, <1>1 DEF IInv, TypeOK, EntryAt
  <2>6. book'.day = k.clock /\ book'.total = EntryAt(k.clock) + more
    <3>1. book'.day = k.clock /\ book'.total = IF fits THEN next ELSE EntryAt(k.clock)
      BY <2>1 DEF IInv, TypeOK
    <3>. QED  BY SMT, <2>5, <3>1
  <2> HIDE DEF r
  <2>7. \A S \in SUBSET Calls : c \notin S => Worth(call', S) = Worth(call, S)
    <3>1. \A S \in SUBSET Calls : c \notin S => \A x \in S : call'[x].amount = call[x].amount
      BY <2>4
    <3>. QED  BY <3>1, WorthSame
  <2>8. ASSUME NEW d \in Days, NEW P \in SUBSET Calls, c \notin P
        PROVE  /\ Worth(call', OfDay(call', d) \ P)
                    = Worth(call, OfDay(call, d) \ P) + IF d = k.clock THEN more ELSE 0
               /\ Worth(call, OfDay(call, d) \ P) \in Nat
    <3> DEFINE S == OfDay(call, d) \ P
    <3>1. S \in SUBSET Calls /\ c \notin S
      <4>1. d # NoDay
        BY SMT DEF Days, NoDay
      <4>. QED  BY <1>1, <4>1 DEF OfDay
    <3>2. Worth(call, S) \in Nat
      BY <1>1, <3>1, WorthType
    <3>3. CASE fits /\ d = k.clock
      <4>1. OfDay(call', d) \ P = S \cup {c}
        BY <2>2, <2>4, <2>8, <3>3 DEF OfDay
      <4>2. \A x \in S : call'[x].amount = call[x].amount
        BY <2>4, <3>1
      <4> HIDE DEF S
      <4>3. Worth(call', S \cup {c}) = Worth(call, S) + call'[c].amount
        BY <1>1, <3>1, <4>2, Joins
      <4>. QED  BY <2>2, <2>4, <3>2, <3>3, <4>1, <4>3 DEF S
    <3>4. CASE ~(fits /\ d = k.clock)
      <4>1. d # NoDay
        BY SMT DEF Days, NoDay
      <4>2. OfDay(call', d) \ P = S
        BY <1>1, <2>2, <2>4, <3>4, <4>1 DEF OfDay
      <4>3. Worth(call', S) = Worth(call, S)
        BY <2>7, <3>1
      <4>4. (IF d = k.clock THEN more ELSE 0) = 0
        BY <3>4
      <4> HIDE DEF more
      <4>. QED  BY SMT, <3>2, <4>2, <4>3, <4>4
    <3>. QED  BY <3>3, <3>4
  <2>9. CallInv'
    <3>1. Charged(r, today)
      BY <1>1, <2>2 DEF Charged
    <3>2. r.st # "lost"
      BY <2>2
    <3>. QED  BY SMT, <1>1, <2>1, <2>3, <2>4, <3>1, <3>2 DEF AccInv, CallInv
  <2>10. k.st # "landed" /\ call'[c].st # "landed"
    BY <1>1, <2>2, <2>4
  <2>11. /\ \A d \in Days : Worth(call', LandedSince(call', d)) <= outflow'[d]
         /\ ReadInv' /\ MissedWasInFlight'
    <3>1. c \in Calls \ past
      BY <1>1
    <3>2. UNCHANGED <<today, login, outflow, missed, blind, past>>
      BY <2>1
    <3>. QED  BY <2>4, <2>10, <3>1, <3>2, OthersStay
  <2>12. \A d \in Days : authorised'[d] = Worth(call', OfDay(call', d))
    <3> SUFFICES ASSUME NEW d \in Days PROVE authorised'[d] = Worth(call', OfDay(call', d))
      OBVIOUS
    <3>1. /\ Worth(call', OfDay(call', d)) = Worth(call, OfDay(call, d)) + IF d = k.clock THEN more ELSE 0
          /\ Worth(call, OfDay(call, d)) \in Nat
      <4>1. OfDay(call', d) \ {} = OfDay(call', d) /\ OfDay(call, d) \ {} = OfDay(call, d)
        OBVIOUS
      <4>. QED  BY <2>8, <4>1
    <3>2. authorised[d] = Worth(call, OfDay(call, d))
      BY DEF AccInv, OutInv
    <3>3. authorised'[d] = authorised[d] + IF d = k.clock THEN more ELSE 0
      <4>1. authorised \in [Days -> Int]
        BY DEF IInv, TypeOK
      <4>. QED  BY SMT, <1>1, <2>1, <4>1
    <3>. QED  BY <3>1, <3>2, <3>3
  <2>13. ASSUME ~turnedBack' PROVE OpenInv'
    <3> DEFINE base == IF seed.day = k.clock THEN seed.spent ELSE 0
    <3>1. OpenInv /\ book.day <= k.clock /\ book.day # NoDay
      <4>1. ~turnedBack /\ ~(k.clock < book.day)
        BY <2>1, <2>13, Zenon
      <4>. QED  BY SMT, <1>1, <2>3, <4>1 DEF AccInv, Days, NoDay
    <3>2. /\ seed.day \in Days \cup {NoDay} /\ \A x \in Calls : call[x].day \in Days \cup {NoDay}
          /\ base \in Nat
      BY DEF IInv, TypeOK, CallRecord
    <3>3. EntryAt(k.clock) = base + Worth(call, OfDay(call, k.clock) \ past)
      <4>1. CASE book.day = k.clock
        BY <3>1, <4>1 DEF OpenInv, EntryAt
      <4>2. CASE book.day # k.clock
        <5>1. book.day < k.clock
          BY SMT, <1>1, <2>3, <3>1, <4>2 DEF Days
        <5>2. seed.day # k.clock
          BY SMT, <1>1, <2>3, <3>1, <3>2, <5>1 DEF OpenInv, Days, NoDay
        <5>3. \A x \in Calls \ past : call[x].day # k.clock
          BY SMT, <1>1, <2>3, <3>1, <3>2, <5>1 DEF OpenInv, Days, NoDay
        <5>4. OfDay(call, k.clock) \ past = {}
          BY <5>3 DEF OfDay
        <5>5. EntryAt(k.clock) = 0 /\ base = 0
          BY <4>2, <5>2 DEF EntryAt
        <5>6. Worth(call, OfDay(call, k.clock) \ past) = 0
          BY <5>4, WorthEmpty
        <5>. QED  BY SMT, <5>5, <5>6
      <4>. QED  BY <4>1, <4>2
    <3>4. /\ Worth(call', OfDay(call', k.clock) \ past) = Worth(call, OfDay(call, k.clock) \ past) + more
          /\ Worth(call, OfDay(call, k.clock) \ past) \in Nat
      <4>1. past \in SUBSET Calls
        BY DEF IInv, TypeOK
      <4>. QED  BY <1>1, <2>8, <4>1
    <3>5. book'.total = base + Worth(call', OfDay(call', k.clock) \ past)
      <4> HIDE DEF base, more
      <4>. QED  BY SMT, <2>5, <2>6, <3>2, <3>3, <3>4
    <3>6. seed.day <= k.clock
      BY SMT, <1>1, <2>3, <3>1, <3>2 DEF OpenInv, Days, NoDay
    <3>7. \A x \in Calls \ past : call'[x].day <= k.clock
      <4>1. \A x \in Calls \ past : call[x].day <= k.clock
        BY SMT, <1>1, <2>3, <3>1, <3>2 DEF OpenInv, Days, NoDay
      <4>2. r.day \in {k.clock, NoDay}
        BY <2>2
      <4>3. r.day <= k.clock
        BY SMT, <1>1, <4>2 DEF Days, NoDay
      <4>. QED  BY <2>4, <4>1, <4>3
    <3>. QED  BY <2>1, <2>6, <3>5, <3>6, <3>7 DEF OpenInv
  <2>. QED  BY <2>9, <2>11, <2>12, <2>13 DEF AccInv, OutInv
<1>. QED  BY <1>2, <1>3

(* A release takes back exactly what the reservation added: the book of its *)
(* day holds at least that much.                                            *)
LEMMA ReleaseAccounts ==
  ASSUME IInv, IInv', AccInv, NEW c \in Calls, Release(c)
  PROVE  AccInv'
<1> DEFINE k == call[c]
<1>1. /\ k.st = "reserved" /\ k.amount \in Nat /\ k.day \in Days /\ c \notin past
      /\ call \in [Calls -> CallRecord] /\ call' \in [Calls -> CallRecord]
      /\ book.total \in Nat /\ book.day \in Days \cup {NoDay} /\ past \in SUBSET Calls
  BY DEF Release, IInv, TypeOK, CallRecord, ClockInv, AccInv, CallInv
<1>2. /\ call' = [call EXCEPT ![c] = Refused]
      /\ authorised' = [authorised EXCEPT ![k.day] = @ - k.amount]
      /\ book' = Unreserved(k.day, k.amount)
      /\ UNCHANGED <<today, login, outflow, seeded, missed, blind, seed, past, turnedBack>>
  BY DEF Release, process
<1>3. /\ call'[c].st = "ended" /\ call'[c].day = NoDay
      /\ \A x \in Calls : x # c => call'[x] = call[x]
  <2>1. Refused.st = "ended" /\ Refused.day = NoDay
    BY DEF Refused, NewCall
  <2>. QED  BY <1>1, <1>2, <2>1
<1> HIDE DEF k
<1>4. ASSUME NEW d \in Days, NEW P \in SUBSET Calls, c \notin P
      PROVE  /\ Worth(call, OfDay(call, d) \ P)
                  = Worth(call', OfDay(call', d) \ P) + IF d = k.day THEN k.amount ELSE 0
             /\ Worth(call', OfDay(call', d) \ P) \in Nat
  <2> DEFINE S == OfDay(call', d) \ P
  <2>1. S \in SUBSET Calls /\ c \notin S
    <3>1. d # NoDay
      BY SMT DEF Days, NoDay
    <3>. QED  BY <1>3, <3>1 DEF OfDay
  <2>2. Worth(call', S) \in Nat
    BY <1>1, <2>1, WorthType
  <2>3. \A x \in S : call[x].amount = call'[x].amount
    BY <1>3, <2>1
  <2>4. Worth(call, S) = Worth(call', S)
    <3> HIDE DEF S
    <3>. QED  BY SMT, <2>3, WorthSame
  <2>5. CASE d = k.day
    <3>1. OfDay(call, d) \ P = S \cup {c}
      BY <1>3, <1>4, <2>5 DEF OfDay, k
    <3> HIDE DEF S
    <3>2. Worth(call, S \cup {c}) = Worth(call', S) + call[c].amount
      BY <1>1, <2>1, <2>3, Joins
    <3>. QED  BY <2>2, <2>5, <3>1, <3>2 DEF S, k
  <2>6. CASE d # k.day
    <3>1. d # NoDay
      BY SMT DEF Days, NoDay
    <3>2. OfDay(call, d) \ P = S
      BY <1>3, <2>6, <3>1 DEF OfDay, k
    <3> HIDE DEF S
    <3>3. Worth(call', S) = Worth(call', S) + 0
      BY SMT, <2>2
    <3>. QED  BY <2>2, <2>4, <2>6, <3>2, <3>3 DEF S
  <2>. QED  BY <2>5, <2>6
<1>5. CallInv'
  <2>1. Charged(call'[c], today) /\ call'[c].st # "lost"
    BY <1>3 DEF Charged
  <2>. QED  BY SMT, <1>1, <1>2, <1>3, <2>1 DEF AccInv, CallInv
<1>6. /\ \A d \in Days : Worth(call', LandedSince(call', d)) <= outflow'[d]
      /\ ReadInv' /\ MissedWasInFlight'
  <2>1. call[c].st # "landed" /\ call'[c].st # "landed" /\ c \in Calls \ past
    BY <1>1, <1>3 DEF k
  <2>2. UNCHANGED <<today, login, outflow, missed, blind, past>>
    BY <1>2
  <2>. QED  BY <1>3, <2>1, <2>2, OthersStay
<1>7. \A d \in Days : authorised'[d] = Worth(call', OfDay(call', d))
  <2> SUFFICES ASSUME NEW d \in Days PROVE authorised'[d] = Worth(call', OfDay(call', d))
    OBVIOUS
  <2>1. /\ Worth(call, OfDay(call, d)) = Worth(call', OfDay(call', d)) + IF d = k.day THEN k.amount ELSE 0
        /\ Worth(call', OfDay(call', d)) \in Nat
    <3>1. OfDay(call', d) \ {} = OfDay(call', d) /\ OfDay(call, d) \ {} = OfDay(call, d)
      OBVIOUS
    <3>. QED  BY <1>4, <3>1
  <2>2. authorised[d] = Worth(call, OfDay(call, d))
    BY DEF AccInv, OutInv
  <2>3. authorised'[d] = authorised[d] - IF d = k.day THEN k.amount ELSE 0
    <3>1. authorised \in [Days -> Int]
      BY DEF IInv, TypeOK
    <3>. QED  BY SMT, <1>1, <1>2, <3>1
  <2>. QED  BY SMT, <1>1, <2>1, <2>2, <2>3
<1>8. ASSUME ~turnedBack' PROVE OpenInv'
  <2>1. OpenInv
    BY <1>2, <1>8 DEF AccInv
  <2>2. book'.day = book.day
    BY <1>2 DEF Unreserved, IInv, TypeOK
  <2>3. \A x \in Calls \ past : call'[x].day <= book.day
    <3>1. NoDay <= book.day
      BY SMT, <1>1 DEF Days, NoDay
    <3>. QED  BY <1>3, <2>1, <3>1 DEF OpenInv
  <2>4. ASSUME book.day # NoDay
        PROVE  book'.total = (IF seed.day = book.day THEN seed.spent ELSE 0)
                             + Worth(call', OfDay(call', book.day) \ past)
    <3> DEFINE base == IF seed.day = book.day THEN seed.spent ELSE 0
               less == IF book.day = k.day THEN k.amount ELSE 0
               w == Worth(call', OfDay(call', book.day) \ past)
    <3>1. base \in Nat /\ book.total = base + Worth(call, OfDay(call, book.day) \ past)
      BY <2>1, <2>4 DEF OpenInv, IInv, TypeOK
    <3>2. Worth(call, OfDay(call, book.day) \ past) = w + less /\ w \in Nat
      BY <1>1, <1>4, <2>4
    <3>3. book'.total = IF book.day = k.day THEN Saturating(book.total, k.amount) ELSE book.total
      BY <1>2 DEF Unreserved, IInv, TypeOK
    <3>4. book'.total = base + w
      <4> HIDE DEF base, w
      <4>. QED  BY SMT, <1>1, <3>1, <3>2, <3>3 DEF Saturating
    <3>. QED  BY <3>4
  <2>. QED  BY <1>2, <2>1, <2>2, <2>3, <2>4 DEF OpenInv
<1>. QED  BY <1>5, <1>6, <1>7, <1>8 DEF AccInv, OutInv

(* A sign-in moves on without a new entry in the book.                      *)
LEMMA LoginAccounts ==
  ASSUME IInv, AccInv, NEW l \in Logins, NEW k \in LoginRecord, login' = [login EXCEPT ![l] = k],
         Reads(call, k, today),
         UNCHANGED <<today, call, outflow, authorised, missed, blind, seed, past, turnedBack>>,
         book'.day = book.day, book'.total = book.total,
         seeded' = "Counted" <=> seeded = "Counted"
  PROVE  AccInv'
<1>1. login'[l] = k /\ \A x \in Logins : x # l => login'[x] = login[x]
  BY DEF IInv, TypeOK
<1>2. CallInv'
  BY DEF AccInv, CallInv
<1>3. OutInv' /\ MissedWasInFlight'
  BY DEF AccInv, OutInv, MissedWasInFlight, Sum
<1>4. ReadInv'
  BY <1>1 DEF AccInv, ReadInv
<1>5. ~turnedBack' => OpenInv'
  BY DEF AccInv, OpenInv
<1>. QED  BY <1>2, <1>3, <1>4, <1>5 DEF AccInv

(* A sign-in that waits has seen nothing.                                   *)
LEMMA ReadsNothing ==
  ASSUME NEW calls, NEW k, NEW t, k.saw = {}, k.st \notin {"apply", "count"}
  PROVE  Reads(calls, k, t)
BY DEF Reads

(* A sign-in that leaves seed_spend has forgotten its answer.               *)
LEMMA SeededReads ==
  ASSUME NEW l \in Logins
  PROVE  SeededRecord(l).saw = {}
<1>1. Ended.saw = {} /\ [Ended EXCEPT !.st = "confirm", !.bind = TRUE].saw = {}
  BY DEF Ended, NewLogin
<1>. QED  BY <1>1 DEF SeededRecord

(* A sign-in starts without an answer.                                      *)
LEMMA SignInAccounts ==
  ASSUME IInv, AccInv, NEW l \in Logins, NEW unchanged \in BOOLEAN, SignIn(l, unchanged)
  PROVE  AccInv'
<1>1. login[l] \in LoginRecord /\ login \in [Logins -> LoginRecord] /\ login[l].st = "idle" /\ login[l].saw = {}
  BY DEF SignIn, IInv, TypeOK, AccInv, ReadInv, Reads
<1>2. /\ UNCHANGED <<today, call, outflow, authorised, missed, blind, seed, past, turnedBack>>
      /\ book' = book /\ seeded' = seeded
  BY DEF SignIn, history
<1>3. \E k \in LoginRecord : /\ k.st \in {"idle", "seed"} /\ k.saw = {}
                             /\ login' = [login EXCEPT ![l] = k]
  <2>1. \A b \in BOOLEAN : /\ [login[l] EXCEPT !.st = "seed", !.bind = b] \in LoginRecord
                           /\ [login[l] EXCEPT !.st = "seed", !.bind = b].st = "seed"
                           /\ [login[l] EXCEPT !.st = "seed", !.bind = b].saw = {}
    BY <1>1 DEF LoginRecord
  <2>2. \/ \E b \in BOOLEAN : login' = [login EXCEPT ![l] = [login[l] EXCEPT !.st = "seed", !.bind = b]]
        \/ login' = login
    BY <1>1 DEF SignIn
  <2>3. login = [login EXCEPT ![l] = login[l]]
    BY <1>1
  <2>. QED  BY <1>1, <2>1, <2>2, <2>3
<1>4. PICK k \in LoginRecord : /\ k.st \in {"idle", "seed"} /\ k.saw = {}
                               /\ login' = [login EXCEPT ![l] = k]
  BY <1>3
<1>5. Reads(call, k, today)
  BY <1>4, ReadsNothing
<1>. QED  BY <1>2, <1>4, <1>5, LoginAccounts

(* And reads the history without one.                                       *)
LEMMA StartSeedAccounts ==
  ASSUME IInv, AccInv, NEW l \in Logins, StartSeed(l)
  PROVE  AccInv'
<1>1. login[l] \in LoginRecord /\ login[l].st = "seed" /\ login[l].saw = {} /\ today \in Days
  BY DEF StartSeed, IInv, TypeOK, AccInv, ReadInv, Reads
<1>2. /\ UNCHANGED <<today, call, outflow, authorised, missed, blind, seed, past, turnedBack>>
      /\ book' = book /\ seeded' = seeded
  BY DEF StartSeed, process, history
<1>3. CASE seeded = "Counted"
  <2>1. Seeded(l)
    BY <1>3 DEF StartSeed
  <2>2. Reads(call, SeededRecord(l), today)
    BY <2>1, SeededShape, SeededReads, ReadsNothing
  <2>. QED  BY <1>2, <2>1, <2>2, SeededShape, LoginAccounts
<1>4. CASE seeded # "Counted"
  <2> DEFINE k == [login[l] EXCEPT !.st = "read", !.clock = today]
  <2>1. k \in LoginRecord /\ k.st = "read" /\ k.saw = {}
    BY <1>1 DEF LoginRecord
  <2>2. login' = [login EXCEPT ![l] = k]
    BY <1>4 DEF StartSeed, IInv, TypeOK
  <2> HIDE DEF k
  <2>3. Reads(call, k, today)
    BY <2>1, ReadsNothing
  <2>. QED  BY <1>2, <2>1, <2>2, <2>3, LoginAccounts
<1>. QED  BY <1>3, <1>4

(* The answer of a history shows what has landed, and is worth what left    *)
(* the wallet since its day began.                                          *)
LEMMA ReadHistoryAccounts ==
  ASSUME IInv, AccInv, NEW l \in Logins, ReadHistory(l)
  PROVE  AccInv'
<1>1. /\ login[l] \in LoginRecord /\ login[l].st = "read" /\ login[l].saw = {}
      /\ login[l].clock \in Days /\ login[l].clock <= today
      /\ call \in [Calls -> CallRecord] /\ outflow \in [Days -> Nat]
  BY DEF ReadHistory, IInv, TypeOK, ClockInv, AccInv, ReadInv, Reads
<1>2. /\ UNCHANGED <<today, call, outflow, authorised, missed, blind, seed, past, turnedBack>>
      /\ book' = book /\ seeded' = seeded
  BY DEF ReadHistory, process, history
<1> DEFINE k1 == [login[l] EXCEPT !.st = "apply", !.ok = TRUE, !.saw = Landed,
                                  !.spent = outflow[login[l].clock]]
           k2 == [login[l] EXCEPT !.st = "apply", !.ok = TRUE, !.spent = Cap]
           k3 == [login[l] EXCEPT !.st = "apply", !.ok = FALSE]
<1>3. /\ k1 \in LoginRecord /\ k1.st = "apply" /\ k1.saw = Landed
      /\ k1.clock = login[l].clock /\ k1.spent = outflow[login[l].clock]
  <2>1. Landed \in SUBSET Calls /\ outflow[login[l].clock] \in Nat
    BY <1>1 DEF Landed
  <2>. QED  BY <1>1, <2>1 DEF LoginRecord
<1>4. /\ k2 \in LoginRecord /\ k2.st = "apply" /\ k2.saw = {} /\ k2.clock = login[l].clock
      /\ k3 \in LoginRecord /\ k3.st = "apply" /\ k3.saw = {} /\ k3.clock = login[l].clock
  BY <1>1, AllowanceAssumption DEF LoginRecord
<1>5. \E k \in {k1, k2, k3} : login' = [login EXCEPT ![l] = k]
  BY DEF ReadHistory, IInv, TypeOK
<1> HIDE DEF k1, k2, k3
<1>6. Reads(call, k1, today)
  <2>1. Seen(call, k1) = LandedSince(call, login[l].clock)
    BY <1>3 DEF Seen, Landed, LandedSince
  <2>2. Worth(call, Seen(call, k1)) <= k1.spent
    BY <1>1, <1>3, <2>1 DEF AccInv, OutInv
  <2>3. \A c \in k1.saw : call[c].st = "landed"
    BY <1>3 DEF Landed
  <2>. QED  BY <1>1, <1>3, <2>2, <2>3 DEF Reads
<1>7. ASSUME NEW k \in LoginRecord, k.st = "apply", k.saw = {}, k.clock = login[l].clock
      PROVE  Reads(call, k, today)
  <2>1. Seen(call, k) = {}
    BY <1>7 DEF Seen
  <2>2. Worth(call, Seen(call, k)) = 0
    BY <2>1, WorthEmpty
  <2>3. k.spent \in Nat
    BY DEF LoginRecord
  <2>4. Worth(call, Seen(call, k)) <= k.spent
    BY SMT, <2>2, <2>3
  <2>. QED  BY <1>1, <1>7, <2>4 DEF Reads
<1>8. \E k \in LoginRecord : Reads(call, k, today) /\ login' = [login EXCEPT ![l] = k]
  BY <1>3, <1>4, <1>5, <1>6, <1>7
<1>. QED  BY <1>2, <1>8, LoginAccounts

(* An answer applied on a later day shows no more of that day than it       *)
(* counts.                                                                  *)
LEMMA ApplyAccounts ==
  ASSUME IInv, AccInv, NEW l \in Logins, Apply(l)
  PROVE  AccInv'
<1>1. /\ login[l] \in LoginRecord /\ today \in Days /\ login[l].st = "apply"
      /\ call \in [Calls -> CallRecord]
  BY DEF Apply, IInv, TypeOK
<1>2. UNCHANGED <<today, call, outflow, authorised, missed, blind, seed, past, turnedBack>>
  BY DEF Apply, history
<1>3. CASE seeded # "Counted" /\ login[l].ok
  <2> DEFINE k == [login[l] EXCEPT !.st = "count", !.clock = today]
  <2>1. /\ k \in LoginRecord /\ k.st = "count" /\ k.clock = today
        /\ k.saw = login[l].saw /\ k.spent = login[l].spent
    BY <1>1 DEF LoginRecord
  <2>2. login' = [login EXCEPT ![l] = k] /\ UNCHANGED <<book, seeded>>
    BY <1>3 DEF Apply, IInv, TypeOK
  <2> HIDE DEF k
  <2>3. /\ login[l].clock \in Days /\ login[l].clock <= today
        /\ \A c \in login[l].saw : call[c].st = "landed"
        /\ Worth(call, Seen(call, login[l])) <= login[l].spent
    BY <1>1 DEF AccInv, ReadInv, Reads
  <2>4. Seen(call, login[l]) \in SUBSET Calls /\ Seen(call, k) \in SUBSET Seen(call, login[l])
    <3>1. login[l].saw \in SUBSET Calls /\ \A c \in Calls : call[c].day \in Days \cup {NoDay}
      BY <1>1 DEF LoginRecord, CallRecord
    <3>2. \A d \in Days \cup {NoDay} : d >= today => d >= login[l].clock
      BY SMT, <1>1, <2>3 DEF Days, NoDay
    <3>. QED  BY <2>1, <3>1, <3>2 DEF Seen
  <2>5. Worth(call, Seen(call, k)) <= k.spent
    <3>1. Worth(call, Seen(call, k)) <= Worth(call, Seen(call, login[l]))
      BY <1>1, <2>4, WorthMonotone
    <3>2. Worth(call, Seen(call, k)) \in Nat /\ Worth(call, Seen(call, login[l])) \in Nat
      BY <1>1, <2>4, WorthType
    <3>3. k.spent \in Nat
      BY <2>1 DEF LoginRecord
    <3>. QED  BY SMT, <2>1, <2>3, <3>1, <3>2, <3>3
  <2>6. today <= today
    BY SMT, <1>1 DEF Days
  <2>7. Reads(call, k, today)
    BY <1>1, <2>1, <2>3, <2>5, <2>6 DEF Reads
  <2>. QED  BY <1>2, <2>1, <2>2, <2>7, LoginAccounts
<1>4. CASE ~(seeded # "Counted" /\ login[l].ok)
  <2>1. Seeded(l)
    BY <1>4 DEF Apply
  <2>2. /\ book'.day = book.day /\ book'.total = book.total
        /\ seeded' = "Counted" <=> seeded = "Counted"
    BY <1>4 DEF Apply, IInv, TypeOK
  <2>3. Reads(call, SeededRecord(l), today)
    BY <2>1, SeededShape, SeededReads, ReadsNothing
  <2>. QED  BY <1>2, <2>1, <2>2, <2>3, SeededShape, LoginAccounts
<1>. QED  BY <1>3, <1>4

(* Counting charges the answer to a day this process has charged nothing    *)
(* to, and falls short of what earlier ones charged by no more than what    *)
(* the answer did not show.                                                 *)
LEMMA CountAccounts ==
  ASSUME IInv, IInv', AccInv, NEW l \in Logins, Count(l)
  PROVE  AccInv'
<1> DEFINE k == login[l]
           unseen == {c \in past : call[c].day = k.clock /\ c \notin k.saw}
<1>1. /\ k.st = "count" /\ k.clock \in Days /\ k.clock # NoDay /\ k.spent \in Nat /\ k.saw \subseteq Calls
      /\ seeded # "Counted" /\ book.day = NoDay
      /\ call \in [Calls -> CallRecord] /\ past \subseteq Calls /\ blind \subseteq Calls
      /\ missed \in [Days -> Nat] /\ authorised \in [Days -> Int]
  <2>1. \A d \in Days : d # NoDay
    BY SMT DEF Days, NoDay
  <2>. QED  BY <2>1 DEF Count, IInv, TypeOK, ClockInv, SeedInv, CountInv, LoginRecord
<1>2. EntryAt(k.clock) + k.spent = k.spent
  <2>1. EntryAt(k.clock) = 0
    BY <1>1 DEF EntryAt
  <2>. QED  BY SMT, <1>1, <2>1
<1>3. /\ book'.day = k.clock /\ book'.total = k.spent
      /\ seeded' = "Counted"
      /\ seed'.day = k.clock /\ seed'.spent = k.spent
      /\ missed' = [missed EXCEPT ![k.clock] = IF authorised[k.clock] > k.spent + @
                                               THEN authorised[k.clock] - k.spent ELSE @]
      /\ blind' = blind \cup unseen
      /\ Seeded(l)
      /\ today' = today /\ call' = call /\ outflow' = outflow
      /\ authorised' = authorised /\ past' = past
  BY <1>2 DEF Count
<1>4. \A c \in Calls \ past : call[c].day = NoDay
  BY <1>1 DEF AccInv, CallInv
<1>5. /\ \A c \in k.saw : call[c].st = "landed"
      /\ Worth(call, Seen(call, k)) <= k.spent
  BY <1>1 DEF AccInv, ReadInv, Reads
<1>6. CallInv'
  BY <1>3 DEF AccInv, CallInv
<1>7. OutInv'
  BY <1>3 DEF AccInv, OutInv
<1>8. ReadInv'
  <2>1. /\ SeededRecord(l) \in LoginRecord /\ SeededRecord(l).st \in {"idle", "confirm"}
        /\ login' = [login EXCEPT ![l] = SeededRecord(l)]
    BY <1>3, SeededShape
  <2>2. Reads(call, SeededRecord(l), today)
    BY <2>1, SeededReads, ReadsNothing
  <2>3. login'[l] = SeededRecord(l) /\ \A x \in Logins : x # l => login'[x] = login[x]
    BY <2>1 DEF IInv, TypeOK
  <2>. QED  BY <1>3, <2>2, <2>3 DEF AccInv, ReadInv
<1>9. OpenInv'
  <2>1. OfDay(call, k.clock) \ past = {}
    BY <1>1, <1>4 DEF OfDay
  <2>2. Worth(call, OfDay(call, k.clock) \ past) = 0
    BY <2>1, WorthEmpty
  <2>3. k.spent = k.spent + 0 /\ k.clock <= k.clock /\ NoDay <= k.clock
    BY SMT, <1>1 DEF Days, NoDay
  <2>. QED  BY <1>3, <1>4, <2>2, <2>3 DEF OpenInv
<1>10. MissedWasInFlight'
  <2> DEFINE B(d) == {c \in blind : call[c].day = d}
             B2(d) == {c \in blind \cup unseen : call[c].day = d}
  <2>1. \A d \in Days : missed[d] <= Worth(call, B(d))
    BY DEF AccInv, MissedWasInFlight, Sum
  <2>2. \A d : B2(d) \in SUBSET Calls /\ B(d) \in SUBSET B2(d)
    BY <1>1
  <2>3. unseen \in SUBSET B2(k.clock)
    OBVIOUS
  <2> HIDE DEF B
  <2>4. \A d \in Days : Worth(call, B(d)) \in Nat /\ Worth(call, B2(d)) \in Nat
                        /\ Worth(call, B(d)) <= Worth(call, B2(d))
    <3> HIDE DEF B2
    <3>. QED  BY <1>1, <2>2, WorthType, WorthMonotone
  <2>5. authorised[k.clock] <= k.spent + Worth(call, B2(k.clock))
    <3> DEFINE P == OfDay(call, k.clock)
               seen == {c \in P : c \in k.saw}
    <3>1. P \in SUBSET Calls /\ authorised[k.clock] = Worth(call, P)
      BY <1>1 DEF OfDay, AccInv, OutInv
    <3>2. P = seen \cup unseen
      BY <1>1, <1>4 DEF OfDay
    <3>3. Seen(call, k) \in SUBSET Calls /\ seen \in SUBSET Seen(call, k)
      <4>1. k.clock >= k.clock
        BY SMT, <1>1 DEF Days
      <4>. QED  BY <1>1, <4>1 DEF OfDay, Seen
    <3>4. seen \in SUBSET Calls /\ unseen \in SUBSET Calls /\ unseen \in SUBSET B2(k.clock)
      BY <1>1, <2>3, <3>1
    <3> HIDE DEF P, seen, unseen, B2
    <3>5. Worth(call, P) <= Worth(call, seen) + Worth(call, unseen)
      BY <1>1, <3>2, <3>4, WorthUnion
    <3>6. Worth(call, seen) <= Worth(call, Seen(call, k)) /\ Worth(call, unseen) <= Worth(call, B2(k.clock))
      BY <1>1, <2>2, <3>3, <3>4, WorthMonotone
    <3>7. /\ Worth(call, P) \in Nat /\ Worth(call, seen) \in Nat /\ Worth(call, unseen) \in Nat
          /\ Worth(call, Seen(call, k)) \in Nat /\ Worth(call, B2(k.clock)) \in Nat
      BY <1>1, <2>4, <3>1, <3>3, <3>4, WorthType
    <3> HIDE DEF k
    <3>. QED  BY SMT, <1>1, <1>5, <3>1, <3>5, <3>6, <3>7
  <2>6. \A d \in Days : missed'[d] <= Worth(call, B2(d))
    <3> HIDE DEF B2, k
    <3>. QED  BY SMT, <1>1, <1>3, <2>1, <2>4, <2>5
  <2>. QED  BY <1>3, <2>6 DEF MissedWasInFlight, Sum
<1>. QED  BY <1>6, <1>7, <1>8, <1>9, <1>10 DEF AccInv

(* A sign-in that ends forgets its answer.                                  *)
LEMMA BindAccounts ==
  ASSUME IInv, AccInv, NEW l \in Logins, Bind(l) \/ SignInFails(l)
  PROVE  AccInv'
<1>1. /\ UNCHANGED <<today, call, outflow, authorised, missed, blind, seed, past, turnedBack>>
      /\ book' = book /\ seeded' = seeded
      /\ login' = [login EXCEPT ![l] = Ended]
  BY DEF Bind, SignInFails, history
<1>2. Ended \in LoginRecord /\ Ended.st = "idle" /\ Ended.saw = {}
  BY Records DEF Ended, NewLogin
<1>3. Reads(call, Ended, today)
  BY <1>2, ReadsNothing
<1>. QED  BY <1>1, <1>2, <1>3, LoginAccounts

(* Midnight changes no account.                                             *)
LEMMA MidnightAccounts ==
  ASSUME IInv, IInv', AccInv, Midnight
  PROVE  AccInv'
<1>1. /\ today \in Days /\ today' \in Days /\ call \in [Calls -> CallRecord]
      /\ login \in [Logins -> LoginRecord] /\ today' = today + 1
  BY DEF IInv, TypeOK, Midnight
<1>2. UNCHANGED <<book, login, call, outflow, seeded, authorised, missed, blind, seed, past, turnedBack>>
  BY DEF Midnight, process, history
<1>3. today <= today' /\ \A d \in Days : d <= today => d <= today'
  BY SMT, <1>1 DEF Days
<1>4. CallInv'
  <2>1. \A c \in Calls : Charged(call[c], today')
    BY <1>3 DEF AccInv, CallInv, Charged
  <2>. QED  BY <1>2, <2>1 DEF AccInv, CallInv
<1>5. OutInv' /\ MissedWasInFlight'
  BY <1>2 DEF AccInv, OutInv, MissedWasInFlight, Sum
<1>6. ReadInv'
  <2>1. \A l \in Logins : Reads(call, login[l], today')
    BY <1>1, <1>3, ReadsStay DEF AccInv, ReadInv
  <2>. QED  BY <1>2, <2>1 DEF ReadInv
<1>7. ~turnedBack' => OpenInv'
  BY <1>2 DEF AccInv, OpenInv
<1>. QED  BY <1>4, <1>5, <1>6, <1>7 DEF AccInv

(* A new process leaves what is charged as it is, and has charged nothing.  *)
LEMMA RestartAccounts ==
  ASSUME IInv, IInv', AccInv, Restart
  PROVE  AccInv'
<1>1. /\ book' = NoBook /\ seeded' = "none" /\ seed' = NoSeed
      /\ login' = [l \in Logins |-> NewLogin]
      /\ past' = {c \in Calls : call[c].st # "idle"}
      /\ UNCHANGED <<today, outflow, authorised, missed, blind, turnedBack>>
  BY DEF Restart
<1>2. /\ call \in [Calls -> CallRecord] /\ call' \in [Calls -> CallRecord]
      /\ today \in Days /\ blind \subseteq Calls /\ past \subseteq Calls
  BY DEF IInv, TypeOK
<1>3. \A c \in Calls :
        /\ call[c].st \in {"asked", "locking"} => call'[c].st = "ended" /\ call'[c].day = NoDay
        /\ call[c].st = "reserved" => /\ call'[c].st = "lost" /\ call'[c].day = call[c].day
                                      /\ call'[c].amount = call[c].amount
        /\ call[c].st \notin {"asked", "locking", "reserved"} => call'[c] = call[c]
  <2>1. Refused.st = "ended" /\ Refused.day = NoDay
    BY DEF Refused, NewCall
  <2>2. \A c \in Calls : /\ [call[c] EXCEPT !.st = "lost"].st = "lost"
                         /\ [call[c] EXCEPT !.st = "lost"].day = call[c].day
                         /\ [call[c] EXCEPT !.st = "lost"].amount = call[c].amount
    BY <1>2 DEF CallRecord
  <2>3. call' = [c \in Calls |-> IF call[c].st \in {"asked", "locking"} THEN Refused
                                 ELSE IF call[c].st = "reserved" THEN [call[c] EXCEPT !.st = "lost"]
                                 ELSE call[c]]
    BY DEF Restart
  <2>. QED  BY <2>1, <2>2, <2>3
<1>4. \A c \in Calls : Charged(call[c], today)
  BY DEF AccInv, CallInv
<1>5. SameCharges(call, call')
  <2>1. \A c \in Calls : call[c].st \in {"asked", "locking"} => call[c].day = NoDay
    BY <1>4 DEF Charged
  <2>. QED  BY <1>3, <2>1 DEF SameCharges
<1>6. CallInv'
  <2>1. \A c \in Calls : Charged(call'[c], today)
    BY <1>3, <1>4 DEF Charged
  <2>2. \A c \in Calls \ past' : call'[c].day = NoDay
    BY <1>1, <1>3, <1>4 DEF Charged
  <2>3. /\ \A c \in Calls : call'[c].st = "lost" => c \in past'
        /\ \A c \in past' : call'[c].st \notin {"idle", "asked", "locking", "reserved"}
    BY <1>1, <1>3
  <2>4. blind \subseteq past'
    BY <1>1, <1>2 DEF AccInv, CallInv
  <2>. QED  BY <1>1, <2>1, <2>2, <2>3, <2>4 DEF CallInv
<1>7. \A d \in Days : d # NoDay
  BY SMT DEF Days, NoDay
<1>8. OutInv'
  <2>1. \A d \in Days : /\ OfDay(call', d) = OfDay(call, d)
                        /\ LandedSince(call', d) = LandedSince(call, d)
    BY <1>5 DEF OfDay, LandedSince, SameCharges
  <2>2. \A d \in Days : OfDay(call, d) \in SUBSET Calls /\ \A c \in OfDay(call, d) : call[c].day # NoDay
    BY <1>7 DEF OfDay
  <2>3. \A d \in Days : /\ LandedSince(call, d) \in SUBSET Calls
                        /\ \A c \in LandedSince(call, d) : call[c].day # NoDay
    BY <1>4, <1>7 DEF LandedSince, Charged
  <2>4. \A d \in Days : /\ Worth(call', OfDay(call, d)) = Worth(call, OfDay(call, d))
                        /\ Worth(call', LandedSince(call, d)) = Worth(call, LandedSince(call, d))
    BY <1>5, <2>2, <2>3, SameWorth
  <2>. QED  BY <1>1, <2>1, <2>4 DEF AccInv, OutInv
<1>9. ReadInv'
  <2>1. NewLogin.st = "idle" /\ NewLogin.saw = {}
    BY DEF NewLogin
  <2>2. \A l \in Logins : Reads(call', login'[l], today')
    BY <1>1, <2>1, ReadsNothing
  <2>. QED  BY <2>2 DEF ReadInv
<1>10. OpenInv'
  <2>1. book'.day = NoDay /\ seed'.day = NoDay
    BY <1>1 DEF NoBook, NoSeed
  <2>2. NoDay <= NoDay
    BY SMT DEF NoDay
  <2>3. \A c \in Calls \ past' : call'[c].day = NoDay
    BY <1>1, <1>3, <1>4 DEF Charged
  <2>. QED  BY <2>1, <2>2, <2>3 DEF OpenInv
<1>11. MissedWasInFlight'
  <2> DEFINE B(calls, d) == {c \in blind : calls[c].day = d}
  <2>1. \A d \in Days : B(call', d) = B(call, d)
    BY <1>2, <1>5 DEF SameCharges
  <2>2. \A d \in Days : B(call, d) \in SUBSET Calls /\ \A c \in B(call, d) : call[c].day # NoDay
    BY <1>2, <1>7
  <2>3. \A d \in Days : Worth(call', B(call', d)) = Worth(call, B(call, d))
    <3> HIDE DEF B
    <3>. QED  BY <1>5, <2>1, <2>2, SameWorth
  <2>. QED  BY <1>1, <2>3 DEF AccInv, MissedWasInFlight, Sum
<1>. QED  BY <1>6, <1>8, <1>9, <1>10, <1>11 DEF AccInv

(* The first process finds nothing charged.                                 *)
LEMMA InitAccounts == Init => AccInv
<1> SUFFICES ASSUME Init PROVE AccInv
  OBVIOUS
<1>1. /\ \A c \in Calls : call[c].st = "idle" /\ call[c].day = NoDay
      /\ \A l \in Logins : login[l].st = "idle" /\ login[l].saw = {}
  BY DEF Init, NewCall, NewLogin
<1>2. \A d \in Days : d # NoDay
  BY SMT DEF Days, NoDay
<1>3. CallInv
  BY <1>1 DEF Init, CallInv, Charged
<1>4. OutInv
  <2>1. \A d \in Days : OfDay(call, d) = {} /\ LandedSince(call, d) = {}
    BY <1>1, <1>2 DEF OfDay, LandedSince
  <2>2. 0 <= 0
    BY SMT
  <2>. QED  BY <2>1, <2>2, WorthEmpty DEF Init, OutInv
<1>5. ReadInv
  BY <1>1, ReadsNothing DEF ReadInv
<1>6. OpenInv
  <2>1. book.day = NoDay /\ seed.day = NoDay
    BY DEF Init, NoBook, NoSeed
  <2>2. NoDay <= NoDay
    BY SMT DEF NoDay
  <2>. QED  BY <1>1, <2>1, <2>2 DEF OpenInv
<1>7. MissedWasInFlight
  <2>1. \A d \in Days : {c \in blind : call[c].day = d} = {}
    BY DEF Init
  <2>2. 0 <= 0
    BY SMT
  <2>. QED  BY <2>1, <2>2, WorthEmpty DEF Init, MissedWasInFlight, Sum
<1>. QED  BY <1>3, <1>4, <1>5, <1>6, <1>7 DEF AccInv

(* Every step keeps the accounts.                                           *)
LEMMA AccountsInductive == IInv /\ IInv' /\ AccInv /\ [Next]_vars => AccInv'
<1>1. IInv /\ IInv' /\ AccInv /\ Next => AccInv'
  BY AskForAccounts, ReadClockAccounts, CheckAndRecordAccounts, CommitAccounts, ReleaseAccounts,
     LandAccounts, SignInAccounts, StartSeedAccounts, ReadHistoryAccounts, ApplyAccounts,
     CountAccounts, BindAccounts, MidnightAccounts, RestartAccounts
  DEF Next
<1>2. ASSUME AccInv, UNCHANGED vars PROVE AccInv'
  <2>1. UNCHANGED <<today, book, login, call, outflow, seeded, authorised, missed, blind, seed, past, turnedBack>>
    BY <1>2 DEF vars, process, history
  <2>2. CallInv' /\ OutInv' /\ ReadInv'
    BY <1>2, <2>1 DEF AccInv, CallInv, OutInv, ReadInv
  <2>3. (~turnedBack' => OpenInv') /\ MissedWasInFlight'
    BY <1>2, <2>1 DEF AccInv, OpenInv, MissedWasInFlight, Sum
  <2>. QED  BY <2>2, <2>3 DEF AccInv
<1>. QED  BY <1>1, <1>2

(* So they hold in every behaviour.                                         *)
LEMMA AccountsHold == Spec => []AccInv
BY InitAccounts, AccountsInductive, Invariance, PTL DEF Spec

(* The book's entry is what was counted for its day plus what this process  *)
(* reserved and did not release (check_and_record, release and count of     *)
(* MemoryLedger): the saturating subtraction of a release never saturates.  *)
THEOREM EntryIsExact == Spec => []BookIsExact
<1>1. AccInv => BookIsExact
  <2> SUFFICES ASSUME AccInv, ~turnedBack, book.day # NoDay
               PROVE  book.total = (IF seed.day = book.day THEN seed.spent ELSE 0)
                        + Worth(call, {c \in Calls \ past : /\ call[c].day = book.day
                                                            /\ call[c].st \in {"reserved", "signed", "landed"}})
    BY DEF BookIsExact, Sum
  <2>1. OfDay(call, book.day) \ past = {c \in Calls \ past : /\ call[c].day = book.day
                                                             /\ call[c].st \in {"reserved", "signed", "landed"}}
    BY DEF OfDay, AccInv, CallInv, Charged
  <2>. QED  BY <2>1 DEF AccInv, OpenInv
<1>. QED  BY <1>1, AccountsHold, PTL

(* A history read by a new process falls short only of payments that had    *)
(* not landed when it was read (seed_spend, spent_today): what is on chain  *)
(* is never forgotten by a restart.                                         *)
THEOREM OnlyInFlightMissed == Spec => []MissedWasInFlight
<1>1. AccInv => MissedWasInFlight
  BY DEF AccInv
<1>. QED  BY <1>1, AccountsHold, PTL
=============================================================================
