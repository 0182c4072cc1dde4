---------------------------- MODULE JournalProofs ----------------------------
(***************************************************************************)
(* The journal file keeps what was acknowledged and tears at most its last  *)
(* line: for any number of events, errors and crashes, as long as no write  *)
(* stops exactly before its newline.                                        *)
(***************************************************************************)
EXTENDS Journal, SequenceTheorems, TLAPS

-----------------------------------------------------------------------------
(* The inductive invariant.                                                 *)

Writes == [id : 1..MaxEvents, sequence : Nat, form : Forms]

(* The first n writes are whole lines.                                      *)
WholeLines(f, n) == \A i \in DOMAIN f : i <= n => f[i].form = "line"

(* How far the file is whole: an open journal to its end; after an error    *)
(* all but the last write, and all but the last two once RunInterrupted was *)
(* written after it.                                                        *)
LayoutInv ==
  /\ ~exists => Len(file) = 0 /\ state = "closed"
  /\ \A i \in DOMAIN file : file[i].form # "bare"
  /\ state \in {"open", "writing"} => WholeLines(file, Len(file))
  /\ state = "failed" => WholeLines(file, Len(file) - 1)
  /\ WholeLines(file, Len(file) - 2)
  /\ state = "writing" => Len(file) > 0 /\ file[Len(file)].id = id

(* What was acknowledged is durable, and nothing before it is torn.         *)
AckedInv ==
  \A e \in acked : \E i \in DOMAIN file :
    i <= durable /\ file[i].id = e /\ WholeLines(file, i)

-----------------------------------------------------------------------------
(* Files.                                                                   *)

(* What a file has after one more write.                                    *)
LEMMA AppendWrite ==
  ASSUME NEW f \in Seq(Writes), NEW w \in Writes
  PROVE  /\ Append(f, w) \in Seq(Writes) /\ Len(Append(f, w)) = Len(f) + 1
         /\ DOMAIN Append(f, w) = 1..(Len(f) + 1) /\ DOMAIN f = 1..Len(f) /\ Len(f) \in Nat
         /\ \A i \in DOMAIN f : Append(f, w)[i] = f[i]
         /\ Append(f, w)[Len(f) + 1] = w
OBVIOUS

(* What a prefix has.                                                       *)
LEMMA Prefix ==
  ASSUME NEW f \in Seq(Writes), NEW n \in 0..Len(f)
  PROVE  /\ SubSeq(f, 1, n) \in Seq(Writes) /\ Len(SubSeq(f, 1, n)) = n
         /\ DOMAIN SubSeq(f, 1, n) = 1..n
         /\ \A i \in 1..n : SubSeq(f, 1, n)[i] = f[i]
<1>1. Len(f) \in Nat /\ \A i \in 1..n : f[i] \in Writes
  OBVIOUS
<1>2. n \in Int
  BY <1>1
<1>3. /\ SubSeq(f, 1, n) \in Seq(Writes) /\ Len(SubSeq(f, 1, n)) = (IF 1 <= n THEN n - 1 + 1 ELSE 0)
      /\ \A i \in 1..(n - 1 + 1) : SubSeq(f, 1, n)[i] = f[1 + i - 1]
  BY <1>1, <1>2, SubSeqProperties
<1>4. Len(SubSeq(f, 1, n)) = n /\ \A i \in 1..n : SubSeq(f, 1, n)[i] = f[i]
  BY <1>1, <1>3
<1> QED BY <1>3, <1>4

(* A torn line starts with the last write or the one before it.             *)
LEMMA LastLineStarts ==
  ASSUME NEW f, NEW len \in Nat \ {0}, Len(f) = len, DOMAIN f = 1..len, WholeLines(f, len - 2)
  PROVE  LastLine(f) = IF len > 1 /\ f[len - 1].form # "line" THEN len - 1 ELSE len
<1> DEFINE n == IF len > 1 /\ f[len - 1].form # "line" THEN len - 1 ELSE len
           Last(i) == StartsLine(f, i) /\ \A k \in DOMAIN f : k > i => ~StartsLine(f, k)
<1>1. n \in DOMAIN f /\ Last(n)
  <2>1. CASE len > 1 /\ f[len - 1].form # "line"
    <3>1. n = len - 1 /\ n \in DOMAIN f /\ ~StartsLine(f, len)
      BY <2>1 DEF StartsLine
    <3>2. \A k \in DOMAIN f : k > n => k = len
      BY <3>1
    <3>3. len - 1 = 1 \/ f[len - 2].form = "line"
      BY <2>1 DEF WholeLines
    <3>4. StartsLine(f, len - 1)
      BY <3>3 DEF StartsLine
    <3> QED BY <3>1, <3>2, <3>4
  <2>2. CASE ~(len > 1 /\ f[len - 1].form # "line")
    <3>1. n = len /\ n \in DOMAIN f
      BY <2>2
    <3>2. StartsLine(f, len)
      BY <2>2 DEF StartsLine
    <3> QED BY <3>1, <3>2
  <2> QED BY <2>1, <2>2
<1>2. n \in Nat /\ DOMAIN f \subseteq Nat
  OBVIOUS
<1> HIDE DEF n
<1>3. \A i \in DOMAIN f : Last(i) => i = n
  <2> SUFFICES ASSUME NEW i \in DOMAIN f, Last(i) PROVE i = n
    OBVIOUS
  <2>1. ~(i > n) /\ ~(n > i)
    BY <1>1
  <2> QED BY <1>2, <2>1
<1>4. LastLine(f) = n
  BY Zenon, <1>1, <1>3 DEF LastLine
<1> QED BY <1>4 DEF n

(* Only the last line can be torn.                                          *)
LEMMA TornIsLast ==
  ASSUME NEW f, NEW len \in Nat \ {0}, Len(f) = len, DOMAIN f = 1..len, WholeLines(f, len - 2),
         NEW i \in 1..len, StartsLine(f, i), f[i].form # "line"
  PROVE  i = LastLine(f)
<1>1. LastLine(f) = IF len > 1 /\ f[len - 1].form # "line" THEN len - 1 ELSE len
  BY LastLineStarts
<1>2. i > len - 2
  BY DEF WholeLines
<1>3. CASE i = len - 1
  BY <1>1, <1>3
<1>4. CASE i = len
  BY <1>1, <1>4 DEF StartsLine
<1> QED BY <1>2, <1>3, <1>4

(* Recovery of a file without bare records leaves whole lines, all that     *)
(* were whole from the start, and nothing that was not there.               *)
LEMMA RecoveredFile ==
  ASSUME NEW f \in Seq(Writes), WholeLines(f, Len(f) - 2), \A i \in DOMAIN f : f[i].form # "bare"
  PROVE  /\ Recovered(f) \in Seq(Writes) /\ Len(Recovered(f)) <= Len(f)
         /\ WholeLines(Recovered(f), Len(Recovered(f)))
         /\ \A i \in DOMAIN f : WholeLines(f, i) => i \in DOMAIN Recovered(f)
         /\ \A i \in DOMAIN Recovered(f) : i \in DOMAIN f /\ Recovered(f)[i] = f[i]
<1>1. Len(f) \in Nat /\ DOMAIN f = 1..Len(f) /\ \A i \in 1..Len(f) : f[i].form \in Forms
  <2>1. Len(f) \in Nat /\ DOMAIN f = 1..Len(f) /\ \A i \in 1..Len(f) : f[i] \in Writes
    OBVIOUS
  <2> QED BY <2>1 DEF Writes
<1>2. CASE f = <<>>
  <2>1. Recovered(f) = f
    BY <1>2 DEF Recovered
  <2>2. Len(f) = 0
    BY <1>2
  <2> QED BY <1>1, <2>1, <2>2 DEF WholeLines
<1>3. CASE f # <<>>
  <2>1. Len(f) \in Nat \ {0}
    BY <1>3, EmptySeq
  <2>2. PICK n \in 1..Len(f) : n = LastLine(f) /\ WholeLines(f, n - 1) /\ (n = Len(f) \/ f[n].form # "line")
    <3>1. LastLine(f) = IF Len(f) > 1 /\ f[Len(f) - 1].form # "line" THEN Len(f) - 1 ELSE Len(f)
      BY <1>1, <2>1, LastLineStarts
    <3>2. CASE Len(f) > 1 /\ f[Len(f) - 1].form # "line"
      <4>1. Len(f) - 1 \in 1..Len(f) /\ (Len(f) - 1) - 1 = Len(f) - 2
        BY <2>1, <3>2
      <4> QED BY Zenon, <3>1, <3>2, <4>1
    <3>3. CASE ~(Len(f) > 1 /\ f[Len(f) - 1].form # "line")
      <4>1. WholeLines(f, Len(f) - 1)
        BY <1>1, <2>1, <3>3 DEF WholeLines
      <4>2. Len(f) \in 1..Len(f)
        BY <2>1
      <4> QED BY <3>1, <3>3, <4>1, <4>2
    <3> QED BY <3>2, <3>3
  <2>3. CASE Parses(f, n)
    <3>1. f[n].form = "line"
      BY Zenon, <1>1, <2>3 DEF Parses, Forms
    <3>2. WholeLines(f, Len(f))
      BY <1>1, <2>2, <3>1 DEF WholeLines
    <3>3. Recovered(f) = f
      BY <2>2, <2>3 DEF Recovered
    <3> QED BY <1>1, <3>2, <3>3
  <2>4. CASE ~Parses(f, n)
    <3>1. f[n].form # "line"
      BY <2>4 DEF Parses
    <3>2. PICK m \in 0..Len(f) : m = n - 1
      BY <2>1
    <3>3. Recovered(f) = SubSeq(f, 1, m)
      BY <1>3, <2>2, <2>4, <3>2 DEF Recovered
    <3>4. /\ Recovered(f) \in Seq(Writes) /\ Len(Recovered(f)) = m
          /\ DOMAIN Recovered(f) = 1..m
          /\ \A i \in 1..m : Recovered(f)[i] = f[i]
      BY <3>3, Prefix
    <3>5. \A i \in DOMAIN f : WholeLines(f, i) => i <= m
      BY <1>1, <2>2, <3>1, <3>2 DEF WholeLines
    <3>6. WholeLines(f, m) /\ m <= Len(f) /\ 1..m \subseteq DOMAIN f
      BY <1>1, <2>1, <2>2, <3>2
    <3>7. WholeLines(Recovered(f), m)
      BY <3>4, <3>6 DEF WholeLines
    <3>8. \A i \in DOMAIN f : i <= m => i \in 1..m
      BY <1>1, <3>2
    <3> QED BY <3>4, <3>5, <3>6, <3>7, <3>8
  <2> QED BY <2>3, <2>4
<1> QED BY <1>2, <1>3

(* What is left of a file after the machine stopped.                        *)
LEMMA AfterCrash ==
  ASSUME TypeOK, Crash
  PROVE  /\ file' \in Seq(Writes) /\ durable <= Len(file') /\ Len(file') <= Len(file)
         /\ \A i \in DOMAIN file' : /\ i \in DOMAIN file /\ file'[i].id = file[i].id
                                    /\ i <= durable \/ i < Len(file') => file'[i] = file[i]
                                    /\ file'[i].form \in {file[i].form, "part"} \cup Cuts
<1>1. file \in Seq(Writes) /\ durable \in 0..Len(file) /\ Len(file) \in Nat /\ DOMAIN file = 1..Len(file)
  BY DEF TypeOK, Writes
<1>2. PICK n \in durable..Len(file) :
        \/ file' = SubSeq(file, 1, n)
        \/ /\ n > durable
           /\ \E form \in IF file[n].form = "part" THEN {"part"} ELSE Cuts :
                file' = [SubSeq(file, 1, n) EXCEPT ![n].form = form]
  BY Zenon DEF Crash
<1> DEFINE g == SubSeq(file, 1, n)
<1>3. n \in 0..Len(file) /\ n \in Nat
  BY <1>1, <1>2
<1>4. g \in Seq(Writes) /\ Len(g) = n /\ DOMAIN g = 1..n /\ \A i \in 1..n : g[i] = file[i]
  BY <1>1, <1>3, Prefix
<1> HIDE DEF g
<1>5. CASE file' = g
  BY <1>1, <1>3, <1>4, <1>5
<1>6. ASSUME n > durable, NEW form \in {"part"} \cup Cuts, file' = [g EXCEPT ![n].form = form]
      PROVE  /\ file' \in Seq(Writes) /\ Len(file') = n
             /\ \A i \in 1..n : file'[i] = IF i = n THEN [g[n] EXCEPT !.form = form] ELSE g[i]
             /\ n \in 1..Len(g)
  <2>1. n \in 1..Len(g) /\ g[n] \in Writes /\ form \in Forms
    BY <1>1, <1>3, <1>4, <1>6 DEF Cuts, Forms
  <2>2. [g[n] EXCEPT !.form = form] \in Writes
    BY <2>1 DEF Writes
  <2>3. file' = [g EXCEPT ![n] = [g[n] EXCEPT !.form = form]]
    BY <1>6
  <2> QED BY <1>4, <2>1, <2>2, <2>3, ExceptSeq
<1>7. CASE n > durable /\ \E form \in {"part"} \cup Cuts : file' = [g EXCEPT ![n].form = form]
  <2>1. PICK form \in {"part"} \cup Cuts : file' = [g EXCEPT ![n].form = form]
    BY Zenon, <1>7
  <2>2. /\ file' \in Seq(Writes) /\ Len(file') = n /\ n \in 1..Len(g)
        /\ \A i \in 1..n : file'[i] = IF i = n THEN [g[n] EXCEPT !.form = form] ELSE g[i]
    BY Zenon, <1>6, <1>7, <2>1
  <2>3. DOMAIN file' = 1..n /\ g[n] \in Writes
    BY <1>4, <2>2
  <2>4. file'[n].id = g[n].id /\ file'[n].form = form
    BY <2>2, <2>3 DEF Writes
  <2> QED BY <1>1, <1>3, <1>4, <1>7, <2>2, <2>3, <2>4
<1> QED BY Zenon, <1>2, <1>5, <1>7 DEF g

-----------------------------------------------------------------------------
(* Types.                                                                   *)

(* What a write puts into the file.                                         *)
LEMMA RecordType ==
  ASSUME TypeOK, id < MaxEvents, NEW form \in Forms
  PROVE  /\ Record(form) \in Writes /\ Record(form).form = form /\ Record(form).id = id + 1
         /\ id + 1 \in 1..MaxEvents
<1>1. id + 1 \in 1..MaxEvents /\ nextSequence \in Nat
  BY JournalAssumption DEF TypeOK
<1> QED BY <1>1 DEF Record, Writes

IInv == TypeOK /\ LayoutInv /\ AckedInv

(* Every action keeps the invariant while no write stops exactly before its *)
(* newline.                                                                 *)
LEMMA StepKeepsIInv ==
  ASSUME ~CutBeforeNewline, IInv, [Next]_vars
  PROVE  IInv'
<1>1. /\ file \in Seq(Writes) /\ Len(file) \in Nat /\ durable \in 0..Len(file)
      /\ DOMAIN file = 1..Len(file) /\ id \in 0..MaxEvents /\ MaxEvents \in Nat
  BY JournalAssumption DEF IInv, TypeOK, Writes
<1>2. /\ exists \in BOOLEAN /\ state \in {"closed", "open", "writing", "failed"}
      /\ nextSequence \in Nat /\ acked \subseteq 1..MaxEvents
  BY Zenon DEF IInv, TypeOK
<1>3. ASSUME file' \in Seq(Writes), durable' \in 0..Len(file'), id' \in 0..MaxEvents,
             exists' \in BOOLEAN, state' \in {"closed", "open", "writing", "failed"},
             nextSequence' \in Nat, acked' \subseteq 1..MaxEvents
      PROVE  TypeOK'
  BY Zenon, <1>3 DEF TypeOK, Writes
<1>4. LayoutInv /\ AckedInv /\ TypeOK
  BY DEF IInv
<1>5. Cuts = {"part"}
  BY DEF Cuts
<1>6. id < MaxEvents => id + 1 \in 0..MaxEvents
  BY <1>1
<1>7. ASSUME UNCHANGED <<file, durable, acked, id>>,
             exists' \in BOOLEAN, state' \in {"closed", "open", "failed"}, nextSequence' \in Nat,
             exists', WholeLines(file, IF state' = "open" THEN Len(file)
                              ELSE IF state' = "failed" THEN Len(file) - 1 ELSE Len(file) - 2)
      PROVE  IInv'
  <2>1. TypeOK'
    BY <1>1, <1>2, <1>3, <1>7
  <2>2. LayoutInv'
    BY <1>4, <1>7 DEF LayoutInv
  <2>3. AckedInv'
    BY <1>4, <1>7 DEF AckedInv
  <2> QED BY <2>1, <2>2, <2>3 DEF IInv
<1>8. ASSUME NEW form \in {"line", "part"}, id < MaxEvents, file' = Append(file, Record(form)),
             durable' \in {durable, Len(file')}, id' = id + 1,
             UNCHANGED <<exists, nextSequence, acked>>,
             \/ state = "open" /\ form = "line" /\ state' = "writing"
             \/ state = "open" /\ state' = "failed"
             \/ state = "failed" /\ state' = "closed"
      PROVE  IInv'
  <2>1. Record(form) \in Writes /\ Record(form).form = form /\ Record(form).id = id + 1
    BY <1>4, <1>8, RecordType DEF Forms
  <2>2. /\ file' \in Seq(Writes) /\ Len(file') = Len(file) + 1 /\ DOMAIN file' = 1..(Len(file) + 1)
        /\ \A i \in DOMAIN file : file'[i] = file[i]
        /\ file'[Len(file) + 1] = Record(form)
    BY <1>1, <1>8, <2>1, AppendWrite
  <2>3. TypeOK'
    <3>1. durable' \in 0..Len(file')
      BY <1>1, <1>8, <2>2
    <3>2. state' \in {"closed", "open", "writing", "failed"}
      BY <1>8
    <3> QED BY <1>2, <1>3, <1>6, <1>8, <2>2, <3>1, <3>2
  <2>4. \A n \in Int : WholeLines(file, n) /\ n <= Len(file) => WholeLines(file', n)
    BY <1>1, <2>2 DEF WholeLines
  <2>5. form = "line" /\ WholeLines(file, Len(file)) => WholeLines(file', Len(file) + 1)
    BY <1>1, <2>1, <2>2 DEF WholeLines
  <2>6. LayoutInv'
    <3>1. \A i \in DOMAIN file' : file'[i].form # "bare"
      BY <1>1, <1>4, <2>1, <2>2 DEF LayoutInv
    <3>2. WholeLines(file', Len(file) - 1)
      BY <1>1, <1>4, <1>8, <2>4 DEF LayoutInv, WholeLines
    <3>3. state = "open" => WholeLines(file', Len(file))
      BY <1>1, <1>4, <2>4 DEF LayoutInv
    <3>4. state' = "writing" => WholeLines(file', Len(file) + 1) /\ file'[Len(file) + 1].id = id'
      BY <1>4, <1>8, <2>1, <2>2, <2>5 DEF LayoutInv
    <3>5. Len(file') - 1 = Len(file) /\ Len(file') - 2 = Len(file) - 1 /\ Len(file') > 0
      BY <1>1, <2>2
    <3>6. exists'
      BY <1>4, <1>8 DEF LayoutInv
    <3> QED BY <1>8, <2>2, <3>1, <3>2, <3>3, <3>4, <3>5, <3>6 DEF LayoutInv
  <2>7. AckedInv'
    <3> SUFFICES ASSUME NEW e \in acked
                 PROVE  \E i \in DOMAIN file' : i <= durable' /\ file'[i].id = e /\ WholeLines(file', i)
      BY <1>8 DEF AckedInv
    <3>1. PICK i \in DOMAIN file : i <= durable /\ file[i].id = e /\ WholeLines(file, i)
      BY <1>4 DEF AckedInv
    <3>2. i \in DOMAIN file' /\ i <= durable' /\ file'[i].id = e
      BY <1>1, <1>8, <2>2, <3>1
    <3>3. WholeLines(file', i)
      BY <1>1, <2>4, <3>1
    <3> QED BY <3>2, <3>3
  <2> QED BY <2>3, <2>6, <2>7 DEF IInv
<1>9. CASE UNCHANGED vars
  BY Zenon, <1>9 DEF vars, IInv, TypeOK, LayoutInv, AckedInv
<1>10. CASE CreateNew
  <2>1. Len(file) = 0 /\ state' = "open"
    BY <1>4, <1>10 DEF CreateNew, LayoutInv
  <2>2. WholeLines(file, Len(file))
    BY <1>1, <2>1 DEF WholeLines
  <2> QED BY <1>7, <1>10, <2>2 DEF CreateNew
<1>11. CASE OpenExisting
  <2> DEFINE f == Recovered(file)
  <2>1. WholeLines(file, Len(file) - 2) /\ \A i \in DOMAIN file : file[i].form # "bare"
    BY <1>4 DEF LayoutInv
  <2>2. /\ f \in Seq(Writes) /\ Len(f) <= Len(file) /\ WholeLines(f, Len(f))
        /\ \A i \in DOMAIN file : WholeLines(file, i) => i \in DOMAIN f
        /\ \A i \in DOMAIN f : i \in DOMAIN file /\ f[i] = file[i]
    BY <1>1, <2>1, RecoveredFile
  <2>3. /\ file' = f /\ durable' = (IF durable > Len(f) THEN Len(f) ELSE durable)
        /\ UNCHANGED <<exists, acked, id>> /\ exists
        /\ \/ state' = "open" /\ nextSequence' = IF f = <<>> THEN 1 ELSE f[Len(f)].sequence + 1
           \/ state' = "closed" /\ nextSequence' = nextSequence
    BY <1>11 DEF OpenExisting
  <2> HIDE DEF f
  <2>4. Len(f) \in Nat /\ DOMAIN f = 1..Len(f)
    BY <2>2
  <2>5. nextSequence' \in Nat
    <3>1. f # <<>> => Len(f) \in 1..Len(f) /\ f[Len(f)] \in Writes
      BY <2>2, <2>4, EmptySeq
    <3> QED BY <1>2, <2>3, <3>1 DEF Writes
  <2>6. TypeOK'
    <3>1. durable' \in 0..Len(f)
      BY <1>1, <2>3, <2>4
    <3> QED BY <1>1, <1>2, <1>3, <2>2, <2>3, <2>5, <3>1
  <2>7. LayoutInv'
    <3>1. WholeLines(f, Len(f) - 2) /\ \A i \in DOMAIN f : f[i].form # "bare"
      BY <2>2, <2>4, <2>1 DEF WholeLines
    <3> QED BY <2>2, <2>3, <3>1 DEF LayoutInv
  <2>8. AckedInv'
    <3> SUFFICES ASSUME NEW e \in acked
                 PROVE  \E i \in DOMAIN f : i <= durable' /\ f[i].id = e /\ WholeLines(f, i)
      BY <2>3 DEF AckedInv
    <3>1. PICK i \in DOMAIN file : i <= durable /\ file[i].id = e /\ WholeLines(file, i)
      BY <1>4 DEF AckedInv
    <3>2. i \in DOMAIN f /\ f[i].id = e
      BY <2>2, <3>1
    <3>3. i <= durable'
      BY <1>1, <2>3, <2>4, <3>1, <3>2
    <3>4. WholeLines(f, i)
      BY <2>2, <2>4, <3>2 DEF WholeLines
    <3> QED BY <3>2, <3>3, <3>4
  <2> QED BY <2>6, <2>7, <2>8 DEF IInv
<1>12. CASE Write
  BY <1>8, <1>12 DEF Write
<1>13. CASE Sync
  <2>1. Len(file) \in DOMAIN file /\ file[Len(file)].id = id /\ WholeLines(file, Len(file)) /\ exists
    BY <1>1, <1>4, <1>13 DEF Sync, LayoutInv
  <2>2. file[Len(file)].id \in 1..MaxEvents
    <3>1. file[Len(file)] \in Writes
      BY <1>1, <2>1
    <3> QED BY <3>1 DEF Writes
  <2>3. TypeOK'
    BY <1>1, <1>2, <1>3, <1>13, <2>1, <2>2 DEF Sync
  <2>4. LayoutInv'
    BY <1>4, <1>13, <2>1 DEF Sync, LayoutInv
  <2>5. AckedInv'
    BY <1>1, <1>4, <1>13, <2>1 DEF Sync, AckedInv
  <2> QED BY <2>3, <2>4, <2>5 DEF IInv
<1>14. CASE WriteFails
  <2>1. exists /\ state = "open" /\ WholeLines(file, Len(file) - 1)
    BY <1>1, <1>4, <1>14 DEF WriteFails, LayoutInv, WholeLines
  <2>2. CASE UNCHANGED file
    <3>1. TypeOK'
      BY <1>1, <1>2, <1>3, <1>6, <1>14, <2>2 DEF WriteFails
    <3>2. LayoutInv'
      BY <1>4, <1>14, <2>1, <2>2 DEF WriteFails, LayoutInv
    <3>3. AckedInv'
      BY <1>4, <1>14, <2>2 DEF WriteFails, AckedInv
    <3> QED BY <3>1, <3>2, <3>3 DEF IInv
  <2>3. CASE file' = Append(file, Record("part"))
    BY <1>8, <1>14, <2>3 DEF WriteFails
  <2> QED BY <1>5, <1>14, <2>2, <2>3 DEF WriteFails
<1>15. CASE SyncFails
  <2>1. exists /\ WholeLines(file, Len(file) - 1) /\ state' = "failed"
    BY <1>1, <1>4, <1>15 DEF SyncFails, LayoutInv, WholeLines
  <2> QED BY <1>2, <1>7, <1>15, <2>1 DEF SyncFails
<1>16. CASE AppendRunInterrupted
  BY <1>5, <1>8, <1>16 DEF AppendRunInterrupted
<1>17. CASE Close
  <2>1. exists /\ WholeLines(file, Len(file) - 2) /\ state' = "closed"
    BY <1>4, <1>17 DEF Close, LayoutInv
  <2> QED BY <1>2, <1>7, <1>17, <2>1 DEF Close
<1>18. CASE Crash
  <2>1. /\ file' \in Seq(Writes) /\ durable <= Len(file') /\ Len(file') <= Len(file)
        /\ \A i \in DOMAIN file' : /\ i \in DOMAIN file /\ file'[i].id = file[i].id
                                   /\ i <= durable \/ i < Len(file') => file'[i] = file[i]
                                   /\ file'[i].form \in {file[i].form, "part"} \cup Cuts
    BY <1>4, <1>18, AfterCrash
  <2>2. UNCHANGED <<exists, durable, nextSequence, acked, id>> /\ state' = "closed" /\ exists
    BY <1>18 DEF Crash
  <2>3. Len(file') \in Nat /\ DOMAIN file' = 1..Len(file')
    BY <2>1
  <2>4. TypeOK'
    BY <1>1, <1>2, <1>3, <2>1, <2>2, <2>3
  <2>5. LayoutInv'
    <3>1. \A i \in DOMAIN file' : file'[i].form # "bare"
      BY <1>4, <1>5, <2>1 DEF LayoutInv
    <3>2. WholeLines(file', Len(file') - 2)
      BY <1>1, <1>4, <2>1, <2>3 DEF LayoutInv, WholeLines
    <3> QED BY <2>2, <3>1, <3>2 DEF LayoutInv
  <2>6. AckedInv'
    <3> SUFFICES ASSUME NEW e \in acked
                 PROVE  \E i \in DOMAIN file' : i <= durable /\ file'[i].id = e /\ WholeLines(file', i)
      BY <2>2 DEF AckedInv
    <3>1. PICK i \in DOMAIN file : i <= durable /\ file[i].id = e /\ WholeLines(file, i)
      BY <1>4 DEF AckedInv
    <3>2. i \in DOMAIN file' /\ file'[i].id = e
      BY <1>1, <2>1, <2>3, <3>1
    <3>3. WholeLines(file', i)
      BY <1>1, <2>1, <2>3, <3>1 DEF WholeLines
    <3> QED BY <3>1, <3>2, <3>3
  <2> QED BY <2>4, <2>5, <2>6 DEF IInv
<1> QED BY <1>9, <1>10, <1>11, <1>12, <1>13, <1>14, <1>15, <1>16, <1>17, <1>18 DEF Next

(* The invariant is inductive.                                              *)
LEMMA Inductive ==
  ASSUME ~CutBeforeNewline
  PROVE  Spec => []IInv
<1>1. Init => IInv
  <2> SUFFICES ASSUME Init PROVE IInv
    OBVIOUS
  <2>1. file = <<>> /\ Len(file) = 0 /\ DOMAIN file = {}
    BY DEF Init
  <2>2. TypeOK
    <3>1. file \in Seq(Writes) /\ durable \in 0..Len(file) /\ id \in 0..MaxEvents /\ nextSequence \in Nat
      BY <2>1, EmptySeq, JournalAssumption DEF Init
    <3> QED BY Zenon, <3>1 DEF Init, TypeOK, Writes
  <2> QED BY <2>1, <2>2 DEF Init, IInv, LayoutInv, AckedInv, WholeLines
<1>2. IInv /\ [Next]_vars => IInv'
  BY StepKeepsIInv
<1> QED BY <1>1, <1>2, PTL DEF Spec

-----------------------------------------------------------------------------
(* An event whose append_event returned is loaded after every crash, error  *)
(* and restart.                                                             *)
THEOREM AckedAlwaysSurvives ==
  ASSUME ~CutBeforeNewline
  PROVE  Spec => []AckedSurvives
<1>1. IInv => AckedSurvives
  <2> SUFFICES ASSUME IInv, NEW e \in acked
               PROVE  \E w \in Range(Recovered(file)) : w.id = e
    BY DEF AckedSurvives
  <2>1. /\ file \in Seq(Writes) /\ WholeLines(file, Len(file) - 2)
        /\ \A i \in DOMAIN file : file[i].form # "bare"
    BY DEF IInv, TypeOK, LayoutInv, Writes
  <2>2. PICK i \in DOMAIN file : file[i].id = e /\ WholeLines(file, i)
    BY DEF IInv, AckedInv
  <2>3. i \in DOMAIN Recovered(file) /\ Recovered(file)[i] = file[i]
    BY <2>1, <2>2, RecoveredFile
  <2> QED BY <2>2, <2>3 DEF Range
<1> QED BY <1>1, Inductive, PTL

(* load_events of a file this code wrote meets no torn line but the last.   *)
THEOREM OnlyLastLineTears ==
  ASSUME ~CutBeforeNewline
  PROVE  Spec => []OnlyLastLineIsTorn
<1>1. IInv => OnlyLastLineIsTorn
  <2> SUFFICES ASSUME IInv, NEW i \in DOMAIN file, StartsLine(file, i), ~Parses(file, i),
                      i # LastLine(file)
               PROVE  FALSE
    BY DEF OnlyLastLineIsTorn, Corrupted
  <2>1. /\ file \in Seq(Writes) /\ WholeLines(file, Len(file) - 2)
        /\ Len(file) \in Nat /\ DOMAIN file = 1..Len(file)
    BY DEF IInv, TypeOK, LayoutInv, Writes
  <2>2. Len(file) \in Nat \ {0}
    BY <2>1
  <2>3. file[i].form # "line"
    BY DEF Parses
  <2> QED BY <2>1, <2>2, <2>3, TornIsLast
<1> QED BY <1>1, Inductive, PTL

(* The writer's counters and the file stay within their types.              *)
THEOREM TypeCorrect ==
  ASSUME ~CutBeforeNewline
  PROVE  Spec => []TypeOK
<1>1. IInv => TypeOK
  BY DEF IInv
<1> QED BY <1>1, Inductive, PTL
=============================================================================
