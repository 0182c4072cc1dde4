---------------------------- MODULE FanoutProofs -----------------------------
(***************************************************************************)
(* A journal pays each of its rows once: for any CSV, any number of         *)
(* processes, journals, resumes and forks, and any --max-in-flight.         *)
(* While confirmed blocks hold, it records as confirmed only what has       *)
(* landed, and is finished only when every row of the CSV is paid.  Run one *)
(* at a time, the command then implements the abstract payout of Payout.    *)
(***************************************************************************)
EXTENDS Fanout, LandingProofs

(* Most steps are logic without arithmetic; the others name the SMT backend. *)
USE Zenon

-----------------------------------------------------------------------------
(* The inductive invariant.                                                 *)

Overlap(rows1, rows2) == rows1 \cap rows2 # {}

(* A journal and the chain: what was signed last for a row is the only      *)
(* thing that may still pay it.                                             *)
JournalInv(j) ==
  /\ j \notin created => journal[j] = <<>>
  /\ \A e \in SignedEvents(journal[j]) : expiry[<<j, e.chunk>>] = e.lastValid
  /\ \A i, k \in DOMAIN journal[j] :
       /\ journal[j][i].kind = "ChunkSigned" /\ journal[j][k].kind = "ChunkSigned"
       /\ journal[j][i].chunk = journal[j][k].chunk
       => i = k
  /\ \A e, f \in SignedEvents(journal[j]) :
       e.chunk < f.chunk /\ Overlap(e.rows, f.rows) => Dead(<<j, e.chunk>>)

Sending == {"send", "sent", "unsent"}
Executing == {"next", "poll", "drain"} \cup Sending
Working(p) == pc[p] \notin {"idle", "create"}

(* A process holds its journal's lock, has an up-to-date view of it, and    *)
(* has left to sign only rows whose earlier transactions are dead.          *)
ProcInv(p) ==
  LET j == jn[p]  signed == SignedEvents(journal[j])
  IN  /\ tip[p] <= final
      /\ Working(p) => lock[j] = p /\ j \in created
      /\ pc[p] \in {"tip", "statuses"} => events[p] = journal[j]
      /\ pc[p] \in {"record", "plan"} => \A e \in signed :
           e.chunk < next[p] /\ (Overlap(e.rows, remaining[p]) => Dead(<<j, e.chunk>>))
      /\ pc[p] \in Executing =>
           /\ \A e \in signed :
                e.chunk < next[p] \/ (pc[p] \in Sending /\ e.chunk = next[p])
           /\ \A e \in signed, c \in DOMAIN plan[p] :
                c >= next[p] /\ e.chunk < c /\ Overlap(e.rows, plan[p][c]) => Dead(<<j, e.chunk>>)
           /\ \A c, d \in DOMAIN plan[p] : c # d => ~Overlap(plan[p][c], plan[p][d])
      /\ pc[p] \in Sending =>
           next[p] \in DOMAIN plan[p] /\ \E e \in signed : e.chunk = next[p]

(* Nothing is in the network that a journal does not know.                  *)
PoolInv == \A t \in pool : \E e \in SignedEvents(journal[t[1]]) : e.chunk = t[2]

IInv ==
  /\ TypeOK
  /\ LedgerInv
  /\ PoolInv
  /\ \A j \in Journals : JournalInv(j)
  /\ \A p \in Procs : ProcInv(p)

-----------------------------------------------------------------------------
(* Events and appends.                                                      *)

(* The events the code appends, told apart by their kinds.                  *)
LEMMA EventValues ==
  /\ \A c \in ChunkIndex, rows \in SUBSET Rows, n \in Nat : SignedEvent(c, rows, n) \in Event
  /\ \A c \in ChunkIndex, kind \in {"ChunkBroadcast", "ChunkConfirmed", "ChunkFailed"} :
       ChunkEvent(kind, c) \in Event /\ ChunkEvent(kind, c).kind = kind
  /\ \A kind \in {"RunCreated", "AuthorizationGranted", "RunInterrupted"} :
       RunEvent(kind) \in Event /\ RunEvent(kind).kind = kind
  /\ \A n \in Nat : CompletedEvent(n) \in Event /\ CompletedEvent(n).kind = "RunCompleted"
BY DEF Event, SignedEvent, ChunkEvent, RunEvent, CompletedEvent

(* The numbers of the model are naturals.                                   *)
LEMMA Numbers ==
  /\ \A c \in ChunkIndex : c \in Nat
  /\ \A n \in RecentExpiries : n \in Nat
  /\ 0 <= 0
<1>1. \A m \in Int : \A c \in 0..m : c \in Nat
  BY SMT
<1>2. MaxChunks - 1 \in Int /\ MaxExpiry \in Int
  BY SMT, FanoutAssumption, LedgerAssumption
<1>3. 0 <= 0
  BY SMT
<1> QED BY <1>1, <1>2, <1>3 DEF ChunkIndex, RecentExpiries

(* A chunk index that moves moves up.                                       *)
LEMMA Ascending ==
  \A n \in Nat : n >= n /\ n + 1 >= n
BY SMT

(* Intervals of chunk indexes.                                              *)
LEMMA Intervals ==
  /\ \A m, n, c \in Nat : n >= m => \A d \in n..c : d \in m..c
  /\ \A n, c \in Nat : c >= n => n \in n..c
BY SMT

(* A transaction is of a journal and a chunk.                               *)
LEMMA TxPair ==
  ASSUME NEW t \in Tx
  PROVE  t[1] \in Journals /\ t = <<t[1], t[2]>>
BY SMTT(30), FanoutAssumption

(* A log with one event more keeps the events that were there and has the   *)
(* new one after them.                                                      *)
Extended(log, e, longer) ==
  /\ \A i \in DOMAIN log : i \in DOMAIN longer /\ longer[i] = log[i] /\ Len(log) + 1 > i
  /\ Len(log) + 1 \in DOMAIN longer /\ longer[Len(log) + 1] = e
  /\ Len(log) + 1 \notin DOMAIN log
  /\ \A i \in DOMAIN longer :
       (i \in DOMAIN log \/ i = Len(log) + 1) /\ ~(i > Len(log) + 1)

(* An append is that.                                                       *)
LEMMA AppendShape ==
  ASSUME NEW log \in Seq(Event), NEW e
  PROVE  Extended(log, e, Append(log, e))
<1>1. /\ DOMAIN Append(log, e) = 1..(Len(log) + 1) /\ DOMAIN log = 1..Len(log) /\ Len(log) \in Nat
      /\ Append(log, e)[Len(log) + 1] = e
  BY SMTT(30)
<1>2. \A i \in 1..Len(log) : Append(log, e)[i] = log[i]
  BY SMTT(30)
<1>3. \A n \in Nat : /\ \A i \in 1..n : i \in 1..(n + 1) /\ n + 1 > i
                     /\ n + 1 \in 1..(n + 1) /\ n + 1 \notin 1..n
                     /\ \A i \in 1..(n + 1) : (i \in 1..n \/ i = n + 1) /\ ~(i > n + 1)
  BY SMT
<1> QED BY <1>1, <1>2, <1>3 DEF Extended

(* Appending adds one event to the set of them.                             *)
LEMMA AppendRange ==
  ASSUME NEW log \in Seq(Event), NEW e
  PROVE  Range(Append(log, e)) = Range(log) \cup {e}
<1> DEFINE longer == Append(log, e)
<1>1. Extended(log, e, longer)
  BY AppendShape
<1> HIDE DEF longer
<1>2. \A d \in Range(longer) : d \in Range(log) \cup {e}
  BY <1>1 DEF Extended, Range
<1>3. \A d \in Range(log) : d \in Range(longer)
  BY <1>1 DEF Extended, Range
<1>4. e \in Range(longer)
  BY <1>1 DEF Extended, Range
<1> QED BY <1>2, <1>3, <1>4 DEF longer

(* A log holds events, and an empty one holds none.                         *)
LEMMA LogEvents ==
  /\ \A log \in Seq(Event) : \A e \in Range(log) : e \in Event
  /\ DOMAIN <<>> = {} /\ Range(<<>>) = {} /\ SignedEvents(<<>>) = {} /\ <<>> \in Seq(Event)
<1>1. \A log \in Seq(Event) : \A i \in DOMAIN log : log[i] \in Event
  BY SMTT(30)
<1>2. DOMAIN <<>> = {} /\ <<>> \in Seq(Event)
  BY SMT
<1>3. Range(<<>>) = {}
  BY <1>2 DEF Range
<1> QED BY <1>1, <1>2, <1>3 DEF Range, SignedEvents

(* What a ChunkSigned event holds.                                          *)
LEMMA SignedTypes ==
  ASSUME NEW log \in Seq(Event), NEW e \in SignedEvents(log)
  PROVE  e \in Event /\ e.chunk \in ChunkIndex /\ e.rows \subseteq Rows /\ e.lastValid \in Nat
<1>1. e \in Event /\ e.kind = "ChunkSigned"
  BY LogEvents DEF SignedEvents
<1> QED BY <1>1 DEF Event

(* The transaction of a ChunkSigned event.                                  *)
LEMMA SignedTx ==
  ASSUME TypeOK, NEW j \in Journals, NEW e \in SignedEvents(journal[j])
  PROVE  <<j, e.chunk>> \in Tx /\ e.chunk \in ChunkIndex
<1>1. e.chunk \in ChunkIndex
  BY SignedTypes DEF TypeOK, Logs
<1> QED BY <1>1, FanoutAssumption

(* Appending adds one event to what was signed if it is a ChunkSigned.      *)
LEMMA AppendSigned ==
  ASSUME NEW log \in Seq(Event), NEW e \in Event
  PROVE  SignedEvents(Append(log, e)) =
           SignedEvents(log) \cup (IF e.kind = "ChunkSigned" THEN {e} ELSE {})
<1>1. Range(Append(log, e)) = Range(log) \cup {e}
  BY AppendRange
<1> QED BY <1>1 DEF SignedEvents

(* The only write of a step is an append of p that signs nothing.           *)
QuietLog(p) ==
  journal' = journal \/ \E e \in Event : e.kind # "ChunkSigned" /\ Log(p, e)

(* Such a write changes no other journal and nothing about what is signed.  *)
LEMMA QuietLogEffect ==
  ASSUME TypeOK, NEW p \in Procs, QuietLog(p)
  PROVE  /\ \A j \in Journals : SignedEvents(journal'[j]) = SignedEvents(journal[j])
         /\ \A j \in Journals \ {jn[p]} : journal'[j] = journal[j]
         /\ \A j \in Journals : \A i \in DOMAIN journal'[j] :
              journal'[j][i].kind = "ChunkSigned" =>
                i \in DOMAIN journal[j] /\ journal'[j][i] = journal[j][i]
<1>1. CASE journal' = journal
  BY <1>1
<1>2. ASSUME NEW e \in Event, e.kind # "ChunkSigned", Log(p, e)
      PROVE  /\ \A j \in Journals : SignedEvents(journal'[j]) = SignedEvents(journal[j])
             /\ \A j \in Journals \ {jn[p]} : journal'[j] = journal[j]
             /\ \A j \in Journals : \A i \in DOMAIN journal'[j] :
                  journal'[j][i].kind = "ChunkSigned" =>
                    i \in DOMAIN journal[j] /\ journal'[j][i] = journal[j][i]
  <2> DEFINE log == journal[jn[p]]
  <2>1. jn[p] \in Journals /\ log \in Seq(Event)
    BY DEF TypeOK, Logs
  <2>2. journal'[jn[p]] = Append(log, e) /\ \A j \in Journals \ {jn[p]} : journal'[j] = journal[j]
    BY <1>2, <2>1 DEF Log, TypeOK
  <2>3. SignedEvents(Append(log, e)) = SignedEvents(log)
    BY <1>2, <2>1, AppendSigned
  <2>4. \A i \in DOMAIN Append(log, e) :
          Append(log, e)[i].kind = "ChunkSigned" => i \in DOMAIN log /\ Append(log, e)[i] = log[i]
    <3> DEFINE longer == Append(log, e)
    <3>1. Extended(log, e, longer)
      BY <2>1, AppendShape
    <3> HIDE DEF longer
    <3>2. \A i \in DOMAIN longer :
            longer[i].kind = "ChunkSigned" => i \in DOMAIN log /\ longer[i] = log[i]
      BY <1>2, <3>1 DEF Extended
    <3> QED BY <3>2 DEF longer
  <2> HIDE DEF log
  <2> QED BY <2>1, <2>2, <2>3, <2>4 DEF log
<1> QED BY <1>1, <1>2 DEF QuietLog

-----------------------------------------------------------------------------
(* Steps of one process that leave the ledger alone and sign nothing.       *)

(* p's step changes nothing another process knows, and takes no lock away.  *)
OthersKeep(p) ==
  /\ \A q \in Procs \ {p} :
       /\ pc'[q] = pc[q] /\ jn'[q] = jn[q] /\ events'[q] = events[q] /\ tip'[q] = tip[q]
       /\ remaining'[q] = remaining[q] /\ plan'[q] = plan[q] /\ next'[q] = next[q]
       /\ \A j \in created : lock[j] = q => lock'[j] = q
  /\ created \subseteq created'

(* p may write to its journal.                                              *)
MayWrite(p) == (lock[jn[p]] = p \/ jn[p] \notin created) /\ jn[p] \in created'

(* The invariant of another process, for a step that writes p's journal.    *)
LEMMA OtherProc ==
  ASSUME IInv, NEW p \in Procs, NEW q \in Procs, q # p, OthersKeep(p),
         \A j \in Journals \ {jn[p]} : journal'[j] = journal[j],
         journal' = journal \/ MayWrite(p),
         \A j \in Journals : \A e \in SignedEvents(journal[j]) :
           Dead(<<j, e.chunk>>) => Dead(<<j, e.chunk>>)',
         final' = final
  PROVE  ProcInv(q)'
<1>1. TypeOK /\ ProcInv(q) /\ jn[q] \in Journals
  BY DEF IInv, TypeOK
<1>2. /\ pc'[q] = pc[q] /\ jn'[q] = jn[q] /\ events'[q] = events[q] /\ tip'[q] = tip[q]
      /\ remaining'[q] = remaining[q] /\ plan'[q] = plan[q] /\ next'[q] = next[q]
      /\ \A j \in created : lock[j] = q => lock'[j] = q
      /\ created \subseteq created'
  BY DEF OthersKeep
<1>3. Working(q) => journal'[jn[q]] = journal[jn[q]]
  <2>1. Working(q) => lock[jn[q]] = q /\ jn[q] \in created
    BY <1>1 DEF ProcInv
  <2> QED BY <1>1, <2>1 DEF MayWrite
<1>4. \A e \in SignedEvents(journal[jn[q]]) : Dead(<<jn[q], e.chunk>>) => Dead(<<jn[q], e.chunk>>)'
  BY <1>1, <1>2
<1>5. CASE ~Working(q)
  BY <1>1, <1>2, <1>5 DEF ProcInv, Working, Executing, Sending
<1>6. CASE Working(q)
  BY <1>1, <1>2, <1>3, <1>4, <1>6 DEF ProcInv, Working, Executing, Sending
<1> QED BY <1>5, <1>6

(* What such a step must ensure, for the whole invariant to survive it.     *)
LEMMA LocalStep ==
  ASSUME IInv, TypeOK', NEW p \in Procs, UNCHANGED ledgerVars, OthersKeep(p),
         QuietLog(p), journal' = journal \/ MayWrite(p), ProcInv(p)'
  PROVE  IInv'
<1>1. TypeOK /\ LedgerInv /\ jn[p] \in Journals
  BY DEF IInv, TypeOK
<1>2. LedgerInv'
  BY <1>1 DEF LedgerInv, LedgerTypeOK, ledgerVars
<1>3. \A t \in Tx : Dead(t) => Dead(t)'
  BY DEF Dead, Landed, ledgerVars
<1>4. /\ \A j \in Journals : SignedEvents(journal'[j]) = SignedEvents(journal[j])
      /\ \A j \in Journals \ {jn[p]} : journal'[j] = journal[j]
      /\ \A j \in Journals : \A i \in DOMAIN journal'[j] :
           journal'[j][i].kind = "ChunkSigned" =>
             i \in DOMAIN journal[j] /\ journal'[j][i] = journal[j][i]
  BY <1>1, QuietLogEffect
<1>5. PoolInv'
  <2> SUFFICES ASSUME NEW t \in pool
               PROVE  \E e \in SignedEvents(journal'[t[1]]) : e.chunk = t[2]
    BY DEF PoolInv, ledgerVars, SignedEvents
  <2>1. t[1] \in Journals
    BY <1>1, FanoutAssumption DEF TypeOK, LedgerTypeOK
  <2> QED BY <1>4, <2>1 DEF IInv, PoolInv
<1>6. ASSUME NEW j \in Journals PROVE JournalInv(j)'
  <2>1. JournalInv(j)
    BY DEF IInv
  <2>2. j \notin created' => journal'[j] = <<>>
    BY <1>1, <1>4, <2>1 DEF JournalInv, OthersKeep, MayWrite
  <2>3. \A e \in SignedEvents(journal[j]) : Dead(<<j, e.chunk>>) => Dead(<<j, e.chunk>>)'
    BY <1>1, <1>3, SignedTx
  <2>4. \A i, k \in DOMAIN journal'[j] :
          /\ journal'[j][i].kind = "ChunkSigned" /\ journal'[j][k].kind = "ChunkSigned"
          /\ journal'[j][i].chunk = journal'[j][k].chunk
          => i = k
    BY <1>4, <2>1 DEF JournalInv
  <2> QED BY <1>4, <2>1, <2>2, <2>3, <2>4 DEF JournalInv, ledgerVars, SignedEvents
<1>7. \A j \in Journals : \A e \in SignedEvents(journal[j]) :
        Dead(<<j, e.chunk>>) => Dead(<<j, e.chunk>>)'
  BY <1>1, <1>3, SignedTx
<1>8. ASSUME NEW q \in Procs, q # p PROVE ProcInv(q)'
  BY <1>4, <1>7, <1>8, OtherProc DEF ledgerVars
<1> QED BY <1>2, <1>5, <1>6, <1>8 DEF IInv

-----------------------------------------------------------------------------
(* Types.                                                                   *)

(* Plans and polls are the partial functions on chunk indexes.              *)
LEMMA PlanMaps ==
  /\ \A chunks \in SUBSET ChunkIndex : \A f \in [chunks -> SUBSET Rows] : f \in Plans
  /\ \A f \in Plans : DOMAIN f \subseteq ChunkIndex /\ \A c \in DOMAIN f : f[c] \subseteq Rows
BY DEF Plans, ChunkMaps

(* What a poll knows of a chunk.                                            *)
Statuses == {"StillPending", "Confirmed", "Failed", "Missing"}

(* The polls are the partial functions from chunk indexes to these.         *)
LEMMA PollMaps ==
  /\ \A chunks \in SUBSET ChunkIndex : \A f \in [chunks -> Statuses] : f \in Polls
  /\ \A f \in Polls : DOMAIN f \subseteq ChunkIndex /\ \A c \in DOMAIN f : f[c] \in Statuses
BY DEF Polls, ChunkMaps, Statuses

(* An append keeps journals sequences of events.                            *)
LEMMA LogType ==
  ASSUME TypeOK, NEW p \in Procs, NEW e \in Event, Log(p, e)
  PROVE  journal' \in [Journals -> Logs]
<1>1. jn[p] \in Journals /\ Append(journal[jn[p]], e) \in Seq(Event)
  BY SMTT(30) DEF TypeOK, Logs
<1>2. Append(journal[jn[p]], e) \in Logs
  BY <1>1 DEF Logs
<1> QED BY <1>1, <1>2 DEF Log, TypeOK

(* A step that leaves the ledger alone leaves its types alone.              *)
LEMMA LedgerTypesKept ==
  ASSUME TypeOK, UNCHANGED ledgerVars
  PROVE  LedgerTypeOK'
BY DEF TypeOK, LedgerTypeOK, ledgerVars

(* An exiting process forgets, frees its locks and disturbs nobody.         *)
LEMMA ExitEffect ==
  ASSUME TypeOK, TypeOK', NEW p \in Procs, Exit(p), created \subseteq created'
  PROVE  OthersKeep(p) /\ ProcInv(p)'
<1>1. OthersKeep(p)
  BY SMTT(30) DEF Exit, Goto, OthersKeep, TypeOK
<1>2. pc'[p] = "idle" /\ tip'[p] = 0 /\ final' \in Nat
  BY SMTT(30) DEF Exit, Goto, TypeOK, LedgerTypeOK
<1> QED BY SMTT(30), <1>1, <1>2 DEF ProcInv, Working, Executing, Sending

(* ... and the types of all it forgets are right.                           *)
LEMMA ExitTypes ==
  ASSUME TypeOK, NEW p \in Procs, Exit(p), UNCHANGED ledgerVars,
         journal' \in [Journals -> Logs], created' \subseteq Journals, runs' \in Nat
  PROVE  TypeOK'
<1>1. NoPlan \in Plans
  <2>1. NoPlan \in [{} -> SUBSET Rows] /\ {} \in SUBSET ChunkIndex
    BY DEF NoPlan
  <2> QED BY <2>1, PlanMaps
<1>2. NoPoll \in Polls
  <2>1. NoPoll \in [{} -> Statuses] /\ {} \in SUBSET ChunkIndex
    BY DEF NoPoll
  <2> QED BY <2>1, PollMaps
<1>3. LedgerTypeOK'
  BY LedgerTypesKept
<1>4. "idle" \in Labels /\ <<>> \in Logs
  BY LogEvents DEF Labels, Logs
<1> QED BY <1>1, <1>2, <1>3, <1>4 DEF Exit, Goto, TypeOK

(* What a plan of pack_chunks_from looks like.                              *)
LEMMA PackedChunks ==
  ASSUME NEW rows \in SUBSET Rows, NEW first \in Nat, NEW f \in PackChunksFrom(rows, first),
         DOMAIN f \subseteq ChunkIndex
  PROVE  /\ f \in Plans
         /\ \A c \in DOMAIN f : c >= first /\ f[c] \subseteq rows
         /\ \A c, d \in DOMAIN f : c # d => f[c] \cap f[d] = {}
<1>1. PICK n \in 0..Cardinality(rows) : f \in [first..(first + n - 1) -> SUBSET rows]
  BY DEF PackChunksFrom
<1>2. f \in Plans
  BY <1>1, PlanMaps
<1>3. \A c \in DOMAIN f : c \in Int /\ c >= first /\ f[c] \subseteq rows
  BY SMTT(30), <1>1
<1>4. \A c, d \in DOMAIN f : c < d => f[c] \cap f[d] = {}
  <2> SUFFICES ASSUME NEW c \in DOMAIN f, NEW d \in DOMAIN f, c < d, NEW r \in f[c], r \in f[d]
               PROVE  FALSE
    OBVIOUS
  <2>1. r < r
    BY DEF PackChunksFrom
  <2>2. r \in Nat
    BY <1>3, FanoutAssumption
  <2> QED BY SMTT(30), <2>1, <2>2
<1> QED BY SMTT(30), <1>2, <1>3, <1>4

(* The indexes a resumed run starts from.                                   *)
LEMMA NextIndex ==
  ASSUME NEW signed, NEW n \in NextChunkIndex(signed)
  PROVE  n \in Nat /\ \A e \in signed : e.chunk < n
BY SMTT(30), FanoutAssumption DEF NextChunkIndex

(* The two outcomes of plan_resume.                                         *)
Resumes(p, v) ==
  /\ \A e \in SignedEvents(events[p]) :
       ResumeAction(p, e, v) \notin {"RebroadcastIdenticalBytes", "StopUnknown"}
  /\ \E chunks : /\ record' = [record EXCEPT ![p] = chunks]
                 /\ \A c \in chunks : \E e \in SignedEvents(events[p]) : c = e.chunk
  /\ \E rows \in SUBSET Rows :
       /\ remaining' = [remaining EXCEPT ![p] = rows]
       /\ \A e \in SignedEvents(events[p]) :
            ResumeAction(p, e, v) \in {"Skip", "RecordConfirmedThenSkip"} => e.rows \cap rows = {}
  /\ \E n \in NextChunkIndex(SignedEvents(events[p])) : next' = [next EXCEPT ![p] = n]
  /\ events' = [events EXCEPT ![p] = <<>>]
  /\ tip' = [tip EXCEPT ![p] = 0]
  /\ pc' = [pc EXCEPT ![p] = "record"]
  /\ UNCHANGED <<lock, jn, plan, inFlight, polled, failures>>

(* plan_resume stops without a trace, or hands over what Resumes says.      *)
LEMMA PlanResumeEffect ==
  ASSUME NEW p \in Procs, PlanResume(p)
  PROVE  Exit(p) \/ \E v \in StatusNodes : Resumes(p, v)
<1> DEFINE signed == SignedEvents(events[p])
           Chunks(v, actions) == {e \in signed : ResumeAction(p, e, v) \in actions}
           paid(v) == Chunks(v, {"Skip", "RecordConfirmedThenSkip"})
<1> SUFFICES ASSUME ~Exit(p) PROVE \E v \in StatusNodes : Resumes(p, v)
  OBVIOUS
<1>1. PICK v \in StatusNodes :
        /\ Chunks(v, {"RebroadcastIdenticalBytes", "StopUnknown"}) = {}
        /\ record' = [record EXCEPT ![p] = {e.chunk : e \in Chunks(v, {"RecordConfirmedThenSkip"})}]
        /\ remaining' = [remaining EXCEPT ![p] = {r \in Rows : \A e \in paid(v) : r \notin e.rows}]
        /\ \E n \in NextChunkIndex(signed) : next' = [next EXCEPT ![p] = n]
        /\ events' = [events EXCEPT ![p] = <<>>]
        /\ tip' = [tip EXCEPT ![p] = 0]
        /\ pc' = [pc EXCEPT ![p] = "record"]
        /\ UNCHANGED <<lock, jn, plan, inFlight, polled, failures>>
  BY DEF PlanResume, Goto
<1>2. \A e \in signed : ResumeAction(p, e, v) \notin {"RebroadcastIdenticalBytes", "StopUnknown"}
  BY <1>1
<1>3. \A c \in {e.chunk : e \in Chunks(v, {"RecordConfirmedThenSkip"})} : \E e \in signed : c = e.chunk
  OBVIOUS
<1>4. /\ {r \in Rows : \A e \in paid(v) : r \notin e.rows} \in SUBSET Rows
      /\ \A e \in signed : ResumeAction(p, e, v) \in {"Skip", "RecordConfirmedThenSkip"} =>
           e.rows \cap {r \in Rows : \A f \in paid(v) : r \notin f.rows} = {}
  OBVIOUS
<1>5. \E chunks : /\ record' = [record EXCEPT ![p] = chunks]
                 /\ \A c \in chunks : \E e \in signed : c = e.chunk
  BY <1>1, <1>3
<1>6. \E rows \in SUBSET Rows :
        /\ remaining' = [remaining EXCEPT ![p] = rows]
        /\ \A e \in signed :
             ResumeAction(p, e, v) \in {"Skip", "RecordConfirmedThenSkip"} => e.rows \cap rows = {}
  BY <1>1, <1>4
<1> HIDE DEF signed, Chunks, paid
<1> QED BY <1>1, <1>2, <1>5, <1>6 DEF Resumes, signed

(* Every step of a process keeps the types.                                 *)
LEMMA ProcTypes ==
  ASSUME IInv, NEW p \in Procs, ProcAction(p)
  PROVE  TypeOK'
<1>1. TypeOK /\ jn[p] \in Journals /\ ProcInv(p) /\ (UNCHANGED ledgerVars => LedgerTypeOK')
  BY LedgerTypesKept DEF IInv, TypeOK
<1> /\ "create" \in Labels /\ "tip" \in Labels /\ "statuses" \in Labels /\ "record" \in Labels
    /\ "plan" \in Labels /\ "next" \in Labels /\ "send" \in Labels /\ "sent" \in Labels
    /\ "unsent" \in Labels /\ "poll" \in Labels /\ "drain" \in Labels
  BY DEF Labels
<1>2. ASSUME NEW j \in Journals, StartFresh(p, j) PROVE TypeOK'
  BY SMTT(30), <1>1, <1>2 DEF StartFresh, Goto, TypeOK
<1>3. ASSUME NEW j \in Journals, OpenExisting(p, j) PROVE TypeOK'
  BY SMTT(30), <1>1, <1>3 DEF OpenExisting, LockExclusive, Goto, TypeOK
<1>4. CASE CreateNew(p)
  <2>1. CASE Exit(p) /\ UNCHANGED journal
    <3>1. created' \subseteq Journals
      BY <1>1, <1>4 DEF CreateNew, TypeOK
    <3> QED BY <1>1, <1>4, <2>1, <3>1, ExitTypes DEF CreateNew, TypeOK
  <2>2. CASE Log(p, RunEvent("RunCreated"))
    <3>1. journal' \in [Journals -> Logs]
      BY <1>1, <2>2, LogType, EventValues
    <3>2. CASE Exit(p)
      BY <1>1, <1>4, <3>1, <3>2, ExitTypes DEF CreateNew, TypeOK
    <3>3. CASE ~Exit(p)
      BY SMTT(30), <1>1, <1>4, <3>1, <3>3 DEF CreateNew, Goto, TypeOK
    <3> QED BY <3>2, <3>3
  <2> QED BY <1>4, <2>1, <2>2 DEF CreateNew
<1>5. CASE ReadTip(p)
  BY SMTT(30), <1>1, <1>5 DEF ReadTip, FinalizedTips, Goto, TypeOK
<1>6. CASE PlanResume(p)
  <2>1. CASE Exit(p)
    BY <1>1, <1>6, <2>1, ExitTypes DEF PlanResume, TypeOK
  <2>2. ASSUME NEW v \in StatusNodes, Resumes(p, v) PROVE TypeOK'
    <3>1. \A e \in SignedEvents(events[p]) : e.chunk \in ChunkIndex
      BY <1>1, SignedTypes DEF TypeOK, Logs
    <3>2. record' \in [Procs -> SUBSET ChunkIndex]
      <4>1. PICK chunks : /\ record' = [record EXCEPT ![p] = chunks]
                          /\ \A c \in chunks : \E e \in SignedEvents(events[p]) : c = e.chunk
        BY <2>2 DEF Resumes
      <4>2. chunks \in SUBSET ChunkIndex
        BY <3>1, <4>1
      <4> QED BY <1>1, <4>1, <4>2 DEF TypeOK
    <3>3. remaining' \in [Procs -> SUBSET Rows]
      BY SMTT(30), <1>1, <2>2 DEF Resumes, TypeOK
    <3>4. next' \in [Procs -> Nat]
      <4>1. PICK n \in NextChunkIndex(SignedEvents(events[p])) : next' = [next EXCEPT ![p] = n]
        BY <2>2 DEF Resumes
      <4>2. n \in Nat
        BY NextIndex
      <4> QED BY <1>1, <4>1, <4>2 DEF TypeOK
    <3>5. events' \in [Procs -> Logs]
      <4>1. events' = [events EXCEPT ![p] = <<>>]
        BY <2>2 DEF Resumes
      <4>2. <<>> \in Logs
        BY LogEvents DEF Logs
      <4> QED BY <1>1, <4>1, <4>2 DEF TypeOK
    <3> QED BY <1>1, <1>6, <2>2, <3>2, <3>3, <3>4, <3>5 DEF PlanResume, Resumes, TypeOK
  <2> QED BY <1>6, <2>1, <2>2, PlanResumeEffect
<1>7. CASE RecordConfirmed(p)
  <2>1. PICK c \in record[p] : /\ Log(p, ChunkEvent("ChunkConfirmed", c))
                              /\ record' = [record EXCEPT ![p] = @ \ {c}]
    BY <1>7 DEF RecordConfirmed
  <2>2. journal' \in [Journals -> Logs]
    BY <1>1, <2>1, LogType, EventValues DEF TypeOK
  <2> QED BY <1>1, <1>7, <2>1, <2>2 DEF RecordConfirmed, TypeOK
<1>8. CASE RecordedAll(p)
  <2>1. CASE remaining[p] = {}
    <3>1. journal' \in [Journals -> Logs] /\ Exit(p)
      BY <1>1, <1>8, <2>1, LogType, EventValues DEF RecordedAll
    <3> QED BY <1>1, <1>8, <3>1, ExitTypes DEF RecordedAll, TypeOK
  <2>2. CASE remaining[p] # {}
    BY <1>1, <1>8, <2>2 DEF RecordedAll, Goto, TypeOK
  <2> QED BY <2>1, <2>2
<1>9. CASE PlanAndAuthorize(p)
  <2>1. journal' \in [Journals -> Logs]
    BY <1>1, <1>9, LogType, EventValues DEF PlanAndAuthorize
  <2>2. plan' \in [Procs -> Plans]
    <3>1. PICK f \in PackChunksFrom(remaining[p], next[p]) :
            DOMAIN f \subseteq ChunkIndex /\ plan' = [plan EXCEPT ![p] = f]
      BY <1>9 DEF PlanAndAuthorize
    <3>2. f \in Plans
      BY <1>1, <3>1, PackedChunks DEF TypeOK
    <3> QED BY <1>1, <3>1, <3>2 DEF TypeOK
  <2> QED BY <1>1, <1>9, <2>1, <2>2 DEF PlanAndAuthorize, Goto, TypeOK
<1>10. CASE SignChunk(p)
  <2>1. /\ next[p] \in ChunkIndex /\ plan[p][next[p]] \subseteq Rows
        /\ RecentExpiries \subseteq Nat /\ <<jn[p], next[p]>> \in Tx
    BY SMTT(30), <1>1, <1>10, PlanMaps, LedgerAssumption, FanoutAssumption
       DEF SignChunk, AllSigned, TypeOK, RecentExpiries
  <2>2. PICK lastValid \in RecentExpiries :
          /\ SignTx(<<jn[p], next[p]>>, lastValid)
          /\ Log(p, SignedEvent(next[p], plan[p][next[p]], lastValid))
    BY <1>10 DEF SignChunk
  <2>3. journal' \in [Journals -> Logs]
    <3>1. lastValid \in Nat
      BY <2>1, <2>2
    <3>2. SignedEvent(next[p], plan[p][next[p]], lastValid) \in Event
      BY <2>1, <3>1, EventValues
    <3> QED BY <1>1, <2>2, <3>2, LogType
  <2>4. LedgerTypeOK'
    BY <1>1, <2>1, <2>2 DEF SignTx, TypeOK, LedgerTypeOK
  <2> QED BY <1>1, <1>10, <2>3, <2>4 DEF SignChunk, Goto, TypeOK
<1>11. CASE Send(p)
  <2>1. <<jn[p], next[p]>> \in Tx
    <3>1. next[p] \in ChunkIndex
      BY <1>1, <1>11, PlanMaps DEF Send, ProcInv, Sending, TypeOK
    <3> QED BY <1>1, <3>1, FanoutAssumption
  <2>2. LedgerTypeOK'
    BY <1>1, <1>11, <2>1 DEF Send, SendTx, TypeOK, LedgerTypeOK
  <2> QED BY SMTT(30), <1>1, <1>11, <2>2 DEF Send, Goto, TypeOK
<1>12. CASE AppendChunkBroadcast(p) \/ AppendChunkFailed(p)
  <2>1. next[p] \in ChunkIndex
    BY <1>1, <1>12, PlanMaps
       DEF AppendChunkBroadcast, AppendChunkFailed, ProcInv, Sending, TypeOK
  <2>2. journal' \in [Journals -> Logs]
    BY <1>1, <1>12, <2>1, LogType, EventValues DEF AppendChunkBroadcast, AppendChunkFailed
  <2> QED BY SMTT(30), <1>1, <1>12, <2>1, <2>2
          DEF AppendChunkBroadcast, AppendChunkFailed, Goto, TypeOK
<1>13. ASSUME NEW v \in StatusNodes, PollStatuses(p, v) PROVE TypeOK'
  <2>1. \A c \in inFlight[p] : PollEntry(<<jn[p], c>>, v) \in Statuses
    BY DEF PollEntry, Statuses
  <2>2. [c \in inFlight[p] |-> PollEntry(<<jn[p], c>>, v)]
          \in Polls
    BY <1>1, <2>1, PollMaps DEF TypeOK
  <2> QED BY <1>1, <1>13, <2>2 DEF PollStatuses, Goto, TypeOK
<1>14. ASSUME NEW h \in 0..confirmed, PollHeight(p, h) PROVE TypeOK'
  <2> DEFINE f == [c \in DOMAIN polled[p] |->
                     IF polled[p][c] = "Missing"
                     THEN ClassifyMissingSignature(h, expiry[<<jn[p], c>>]) ELSE polled[p][c]]
  <2>1. f \in Polls
    BY <1>1, PollMaps DEF ClassifyMissingSignature, Statuses, TypeOK
  <2>2. polled' = [polled EXCEPT ![p] = f]
    BY <1>1, <1>14 DEF PollHeight, TypeOK
  <2> QED BY SMTT(30), <1>1, <1>14, <2>1, <2>2 DEF PollHeight, Goto, TypeOK
<1>15. CASE Drain(p)
  <2>1. PICK c \in DOMAIN polled[p] :
          /\ polled' = [polled EXCEPT ![p] = [d \in DOMAIN @ \ {c} |-> @[d]]]
          /\ \/ /\ polled[p][c] = "StillPending"
                /\ UNCHANGED <<journal, inFlight, failures>>
             \/ /\ polled[p][c] = "Confirmed"
                /\ Log(p, ChunkEvent("ChunkConfirmed", c))
                /\ inFlight' = [inFlight EXCEPT ![p] = @ \ {c}]
                /\ UNCHANGED failures
             \/ /\ polled[p][c] = "Failed"
                /\ Log(p, ChunkEvent("ChunkFailed", c))
                /\ inFlight' = [inFlight EXCEPT ![p] = @ \ {c}]
                /\ failures' = [failures EXCEPT ![p] = @ + 1]
          /\ Goto(p, IF DOMAIN polled[p] = {c} THEN "next" ELSE "drain")
    BY <1>15 DEF Drain
  <2>2. c \in ChunkIndex
    BY <1>1, PollMaps DEF TypeOK
  <2>3. journal' \in [Journals -> Logs]
    <3>1. /\ ChunkEvent("ChunkConfirmed", c) \in Event
          /\ ChunkEvent("ChunkFailed", c) \in Event
      BY <2>2, EventValues
    <3> QED BY <1>1, <2>1, <3>1, LogType DEF TypeOK
  <2>4. [d \in DOMAIN polled[p] \ {c} |-> polled[p][d]] \in Polls
    <3>1. polled[p] \in Polls
      BY <1>1 DEF TypeOK
    <3>2. /\ DOMAIN polled[p] \ {c} \in SUBSET ChunkIndex
          /\ [d \in DOMAIN polled[p] \ {c} |-> polled[p][d]] \in [DOMAIN polled[p] \ {c} -> Statuses]
      BY <3>1, PollMaps
    <3> QED BY <3>2, PollMaps
  <2> QED BY SMTT(30), <1>1, <1>15, <2>1, <2>3, <2>4 DEF Drain, Goto, TypeOK
<1>16. CASE AppendRunCompleted(p)
  <2>1. journal' \in [Journals -> Logs]
    BY <1>1, <1>16, LogType, EventValues DEF AppendRunCompleted, TypeOK
  <2> QED BY <1>1, <1>16, <2>1, ExitTypes DEF AppendRunCompleted, TypeOK
<1>17. CASE AppendRunInterrupted(p)
  <2>1. journal' \in [Journals -> Logs]
    BY <1>1, <1>17, LogType, EventValues DEF AppendRunInterrupted
  <2> QED BY <1>1, <1>17, <2>1, ExitTypes DEF AppendRunInterrupted, TypeOK
<1>18. CASE Crash(p)
  BY <1>1, <1>18, ExitTypes DEF Crash, TypeOK
<1> QED BY <1>2, <1>3, <1>4, <1>5, <1>6, <1>7, <1>8, <1>9, <1>10, <1>11, <1>12, <1>13, <1>14,
           <1>15, <1>16, <1>17, <1>18 DEF ProcAction, ProcStep

-----------------------------------------------------------------------------
(* Each action keeps the invariant.                                         *)

(* No action of p disturbs another process.                                 *)
LEMMA ProcFootprint ==
  ASSUME IInv, NEW p \in Procs, ProcAction(p)
  PROVE  OthersKeep(p)
<1>1. TypeOK
  BY DEF IInv
<1>2. ASSUME Exit(p), created \subseteq created' PROVE OthersKeep(p)
  BY <1>1, <1>2 DEF Exit, Goto, OthersKeep, TypeOK
<1>3. ASSUME NEW j \in Journals, StartFresh(p, j) PROVE OthersKeep(p)
  BY <1>1, <1>3 DEF StartFresh, Goto, OthersKeep, TypeOK
<1>4. ASSUME NEW j \in Journals, OpenExisting(p, j) PROVE OthersKeep(p)
  BY <1>1, <1>4, FanoutAssumption DEF OpenExisting, LockExclusive, Goto, OthersKeep, TypeOK
<1>5. CASE CreateNew(p)
  <2>1. CASE Exit(p)
    BY <1>2, <1>5, <2>1 DEF CreateNew
  <2>2. CASE ~Exit(p)
    <3>1. jn[p] \notin created /\ lock' = [lock EXCEPT ![jn[p]] = p]
      BY <1>5, <2>2 DEF CreateNew
    <3>2. \A q \in Procs \ {p} : \A j \in created : lock[j] = q => lock'[j] = q
      BY <1>1, <3>1 DEF TypeOK
    <3> QED BY <1>1, <1>5, <2>2, <3>2 DEF CreateNew, Goto, OthersKeep, TypeOK
  <2> QED BY <2>1, <2>2
<1>6. CASE PlanResume(p)
  <2>1. ASSUME NEW v \in StatusNodes, Resumes(p, v) PROVE OthersKeep(p)
    BY SMTT(30), <1>1, <1>6, <2>1 DEF PlanResume, Resumes, OthersKeep, TypeOK
  <2> QED BY <1>2, <1>6, <2>1, PlanResumeEffect DEF PlanResume
<1>7. CASE RecordedAll(p)
  BY <1>1, <1>2, <1>7 DEF RecordedAll, Goto, OthersKeep, TypeOK
<1>8. CASE ReadTip(p)
  BY <1>1, <1>8 DEF ReadTip, Goto, OthersKeep, TypeOK
<1>9. CASE RecordConfirmed(p)
  BY <1>1, <1>9 DEF RecordConfirmed, OthersKeep, TypeOK
<1>10. CASE PlanAndAuthorize(p)
  BY <1>1, <1>10 DEF PlanAndAuthorize, Goto, OthersKeep, TypeOK
<1>11. CASE SignChunk(p)
  BY <1>1, <1>11 DEF SignChunk, Goto, OthersKeep, TypeOK
<1>12. CASE Send(p)
  BY <1>1, <1>12 DEF Send, Goto, OthersKeep, TypeOK
<1>13. CASE AppendChunkBroadcast(p)
  BY <1>1, <1>13 DEF AppendChunkBroadcast, Goto, OthersKeep, TypeOK
<1>14. CASE AppendChunkFailed(p)
  BY <1>1, <1>14 DEF AppendChunkFailed, Goto, OthersKeep, TypeOK
<1>15. ASSUME NEW v \in StatusNodes, PollStatuses(p, v) PROVE OthersKeep(p)
  BY <1>1, <1>15 DEF PollStatuses, Goto, OthersKeep, TypeOK
<1>16. ASSUME NEW h \in 0..confirmed, PollHeight(p, h) PROVE OthersKeep(p)
  BY <1>1, <1>16 DEF PollHeight, Goto, OthersKeep, TypeOK
<1>17. CASE Drain(p)
  BY <1>1, <1>17 DEF Drain, Goto, OthersKeep, TypeOK
<1>18. CASE AppendRunCompleted(p) \/ AppendRunInterrupted(p) \/ Crash(p)
  BY <1>2, <1>18 DEF AppendRunCompleted, AppendRunInterrupted, Crash
<1> QED BY <1>3, <1>4, <1>5, <1>6, <1>7, <1>8, <1>9, <1>10, <1>11, <1>12, <1>13, <1>14, <1>15,
           <1>16, <1>17, <1>18 DEF ProcAction, ProcStep

(* confirm_not_landed returns a Landing.                                    *)
LEMMA LandingValues ==
  ASSUME NEW t, NEW lastValid, NEW f, NEW v
  PROVE  ConfirmNotLanded(t, lastValid, f, v) \in Landings
BY DEF ConfirmNotLanded, Classify, Landings

(* plan_resume keeps rows to pay again only from chunks that are dead.      *)
LEMMA RetriedIsDead ==
  ASSUME IInv, NEW p \in Procs, pc[p] = "statuses", NEW v \in StatusNodes,
         NEW e \in SignedEvents(journal[jn[p]]),
         ResumeAction(p, e, v) \notin {"Skip", "RecordConfirmedThenSkip",
                                      "RebroadcastIdenticalBytes", "StopUnknown"}
  PROVE  Dead(<<jn[p], e.chunk>>)
<1> DEFINE t == <<jn[p], e.chunk>>
           landing == ConfirmNotLanded(t, e.lastValid, tip[p], v)
<1>1. TypeOK /\ LedgerInv /\ ProcInv(p) /\ jn[p] \in Journals /\ JournalInv(jn[p])
  BY DEF IInv, TypeOK
<1>2. t \in Tx /\ e.lastValid = expiry[t]
  BY <1>1, SignedTx DEF JournalInv
<1>3. landing \in Landings
  BY LandingValues
<1>4. landing \in {"Failed", "Expired"}
  BY <1>3 DEF ResumeAction, ReduceChunkResumeAction, Landings
<1>5. tip[p] \in Nat /\ tip[p] <= final
  BY <1>1 DEF TypeOK, ProcInv
<1> HIDE DEF t
<1> QED BY <1>1, <1>2, <1>4, <1>5, ReplaceableIsDead DEF Replaceable, t

(* The steps that sign nothing and send nothing.                            *)
LEMMA QuietStepKeepsIInv ==
  ASSUME IInv, NEW p \in Procs, ProcAction(p), ~SignChunk(p), ~Send(p)
  PROVE  IInv'
<1> DEFINE signed == SignedEvents(journal[jn[p]])
<1>1. TypeOK /\ ProcInv(p) /\ jn[p] \in Journals /\ next[p] \in Nat
  BY DEF IInv, TypeOK
<1>2. TypeOK' /\ OthersKeep(p)
  BY ProcTypes, ProcFootprint
<1>3. Working(p) /\ created' = created => MayWrite(p)
  BY <1>1 DEF ProcInv, MayWrite
<1>4. \A e \in signed : <<jn[p], e.chunk>> \in Tx /\ e.chunk \in Nat
  BY <1>1, SignedTx, Numbers
<1>5. ASSUME UNCHANGED ledgerVars, jn'[p] = jn[p]
      PROVE  /\ \A e \in signed : Dead(<<jn[p], e.chunk>>) => Dead(<<jn[p], e.chunk>>)'
             /\ final' = final
  BY <1>5 DEF Dead, Landed, ledgerVars
<1>6. ASSUME QuietLog(p) PROVE SignedEvents(journal'[jn[p]]) = signed
  BY <1>1, <1>6, QuietLogEffect
<1>7. ASSUME UNCHANGED ledgerVars, QuietLog(p), journal' = journal \/ MayWrite(p), ProcInv(p)'
      PROVE  IInv'
  BY <1>2, <1>7, LocalStep
<1>8. ASSUME Exit(p), UNCHANGED ledgerVars, QuietLog(p), journal' = journal \/ MayWrite(p)
      PROVE  IInv'
  BY <1>1, <1>2, <1>7, <1>8, ExitEffect DEF OthersKeep
<1>9. ASSUME NEW j \in Journals, StartFresh(p, j) PROVE IInv'
  <2>1. QuietLog(p) /\ journal' = journal /\ UNCHANGED ledgerVars
    BY <1>9 DEF StartFresh, QuietLog
  <2>2. pc'[p] = "create" /\ tip'[p] = tip[p] /\ final' = final
    BY <1>1, <1>9 DEF StartFresh, Goto, TypeOK, ledgerVars
  <2>3. ProcInv(p)'
    BY <1>1, <2>2 DEF ProcInv, Working, Executing, Sending
  <2> QED BY <1>7, <2>1, <2>3
<1>10. ASSUME NEW j \in Journals, OpenExisting(p, j) PROVE IInv'
  <2>1. QuietLog(p) /\ journal' = journal /\ UNCHANGED ledgerVars
    BY <1>10 DEF OpenExisting, LockExclusive, QuietLog
  <2>2. /\ pc'[p] = "tip" /\ tip'[p] = tip[p] /\ final' = final /\ jn'[p] = j
        /\ lock'[j] = p /\ j \in created' /\ events'[p] = journal'[j]
    BY <1>1, <1>10 DEF OpenExisting, LockExclusive, Goto, TypeOK, ledgerVars
  <2>3. ProcInv(p)'
    BY <1>1, <2>2 DEF ProcInv, Working, Executing, Sending
  <2> QED BY <1>7, <2>1, <2>3
<1>11. CASE CreateNew(p)
  <2>1. CASE UNCHANGED journal
    <3>1. QuietLog(p) /\ UNCHANGED ledgerVars
      BY <1>11, <2>1 DEF CreateNew, QuietLog
    <3>2. CASE Exit(p)
      BY <1>8, <2>1, <3>1, <3>2
    <3>3. CASE Log(p, RunEvent("RunCreated"))
      <4>1. FALSE
        BY SMTT(30), <1>1, <2>1, <3>3 DEF Log, TypeOK, Logs
      <4> QED BY <4>1
    <3> QED BY <1>11, <3>2, <3>3 DEF CreateNew
  <2>2. CASE ~UNCHANGED journal
    <3>1. /\ jn[p] \notin created /\ jn[p] \in created' /\ lock' = [lock EXCEPT ![jn[p]] = p]
          /\ Log(p, RunEvent("RunCreated")) /\ pc' = [pc EXCEPT ![p] = "plan"]
          /\ UNCHANGED <<jn, tip, next, ledgerVars>>
      BY <1>11, <2>2 DEF CreateNew, Goto
    <3>2. QuietLog(p)
      <4>1. RunEvent("RunCreated") \in Event /\ RunEvent("RunCreated").kind = "RunCreated"
        BY EventValues
      <4> QED BY <3>1, <4>1 DEF QuietLog
    <3>3. signed = {}
      <4>1. journal[jn[p]] = <<>>
        BY <1>1, <3>1 DEF IInv, JournalInv
      <4> QED BY <4>1, LogEvents
    <3>4. MayWrite(p)
      BY <3>1 DEF MayWrite
    <3>5. /\ pc'[p] = "plan" /\ jn'[p] = jn[p] /\ tip'[p] = tip[p] /\ final' = final
          /\ lock'[jn[p]] = p /\ SignedEvents(journal'[jn[p]]) = {}
      BY <1>1, <1>6, <3>1, <3>2, <3>3 DEF TypeOK, ledgerVars
    <3>6. ProcInv(p)'
      BY <1>1, <3>1, <3>5 DEF ProcInv, Working, Executing, Sending
    <3> QED BY <1>7, <3>1, <3>2, <3>4, <3>6
  <2> QED BY <2>1, <2>2
<1>12. CASE ReadTip(p)
  <2>1. QuietLog(p) /\ journal' = journal /\ UNCHANGED ledgerVars
    BY <1>12 DEF ReadTip, QuietLog
  <2>2. /\ pc[p] = "tip" /\ pc'[p] = "statuses" /\ jn'[p] = jn[p] /\ events'[p] = events[p]
        /\ lock' = lock /\ created' = created /\ tip'[p] <= final'
    BY SMTT(30), <1>1, <1>12 DEF ReadTip, FinalizedTips, Goto, TypeOK, LedgerTypeOK, ledgerVars
  <2>3. ProcInv(p)'
    BY <1>1, <2>1, <2>2 DEF ProcInv, Working, Executing, Sending
  <2> QED BY <1>7, <2>1, <2>3
<1>13. CASE PlanResume(p)
  <2>1. QuietLog(p) /\ journal' = journal /\ UNCHANGED ledgerVars /\ pc[p] = "statuses"
        /\ created' = created
    BY <1>13 DEF PlanResume, QuietLog
  <2>2. ASSUME NEW v \in StatusNodes, Resumes(p, v) PROVE IInv'
    <3>1. /\ pc'[p] = "record" /\ jn'[p] = jn[p] /\ lock' = lock /\ tip'[p] <= final'
      <4>1. /\ pc' = [pc EXCEPT ![p] = "record"] /\ tip' = [tip EXCEPT ![p] = 0]
            /\ jn' = jn /\ lock' = lock
        BY <2>2 DEF Resumes
      <4>2. final' = final /\ final \in Nat
        BY <1>1, <2>1 DEF TypeOK, LedgerTypeOK, ledgerVars
      <4> QED BY SMTT(30), <1>1, <4>1, <4>2 DEF TypeOK
    <3>2. events[p] = journal[jn[p]]
      BY <1>1, <2>1 DEF ProcInv
    <3>3. \A e \in signed : e.chunk < next'[p]
      <4>1. PICK n \in NextChunkIndex(signed) : next' = [next EXCEPT ![p] = n]
        BY <2>2, <3>2 DEF Resumes
      <4> QED BY <1>1, <4>1, NextIndex DEF TypeOK
    <3>4. ASSUME NEW e \in signed, Overlap(e.rows, remaining'[p]) PROVE Dead(<<jn[p], e.chunk>>)
      <4>1. ResumeAction(p, e, v) \notin {"RebroadcastIdenticalBytes", "StopUnknown"}
        BY <2>2, <3>2 DEF Resumes
      <4>2. ResumeAction(p, e, v) \in {"Skip", "RecordConfirmedThenSkip"} => e.rows \cap remaining'[p] = {}
        <5>1. PICK rows \in SUBSET Rows :
                /\ remaining' = [remaining EXCEPT ![p] = rows]
                /\ \A f \in SignedEvents(events[p]) :
                     ResumeAction(p, f, v) \in {"Skip", "RecordConfirmedThenSkip"} => f.rows \cap rows = {}
          BY <2>2 DEF Resumes
        <5>2. remaining'[p] = rows
          BY <1>1, <5>1 DEF TypeOK
        <5> QED BY <3>2, <5>1, <5>2
      <4> QED BY <2>1, <3>4, <4>1, <4>2, RetriedIsDead DEF Overlap
    <3>5. ProcInv(p)'
      BY <1>1, <1>5, <2>1, <3>1, <3>3, <3>4 DEF ProcInv, Working, Executing, Sending
    <3> QED BY <1>7, <2>1, <3>5
  <2> QED BY <1>8, <1>13, <2>1, <2>2, PlanResumeEffect
<1>14. ASSUME Working(p), UNCHANGED <<ledgerVars, created, lock, jn, tip>>, QuietLog(p),
              pc'[p] \in {"record", "plan"}, pc[p] \in {"record", "plan"},
              next'[p] = next[p], remaining'[p] = remaining[p]
       PROVE  IInv'
  <2>1. ProcInv(p)'
    BY <1>1, <1>5, <1>6, <1>14 DEF ProcInv, Working, Executing, Sending, ledgerVars
  <2> QED BY <1>3, <1>7, <1>14, <2>1
<1>15. CASE RecordConfirmed(p)
  <2>1. PICK c \in record[p] : Log(p, ChunkEvent("ChunkConfirmed", c))
    BY <1>15 DEF RecordConfirmed
  <2>2. QuietLog(p)
    <3>1. c \in ChunkIndex
      BY <1>1 DEF TypeOK
    <3>2. /\ ChunkEvent("ChunkConfirmed", c) \in Event
          /\ ChunkEvent("ChunkConfirmed", c).kind = "ChunkConfirmed"
      BY <3>1, EventValues
    <3> QED BY <2>1, <3>2 DEF QuietLog
  <2> QED BY <1>14, <1>15, <2>2 DEF RecordConfirmed, Working
<1>16. CASE RecordedAll(p)
  <2>1. pc[p] = "record" /\ UNCHANGED <<ledgerVars, created>>
    BY <1>16 DEF RecordedAll
  <2>2. CASE Exit(p) /\ Log(p, CompletedEvent(0))
    <3>1. CompletedEvent(0) \in Event /\ CompletedEvent(0).kind = "RunCompleted"
      BY EventValues
    <3>2. QuietLog(p)
      BY <2>2, <3>1 DEF QuietLog
    <3> QED BY <1>3, <1>8, <2>1, <2>2, <3>2 DEF Working
  <2>3. CASE Goto(p, "plan") /\ UNCHANGED <<journal, lock, jn, tip, remaining, next>>
    BY <1>1, <1>14, <2>1, <2>3 DEF Goto, Working, QuietLog, TypeOK
  <2> QED BY <1>16, <2>2, <2>3 DEF RecordedAll
<1>17. CASE PlanAndAuthorize(p)
  <2>1. /\ pc[p] = "plan" /\ pc'[p] = "next"
        /\ UNCHANGED <<ledgerVars, created, lock, jn, tip, next>>
        /\ Log(p, RunEvent("AuthorizationGranted"))
    BY <1>1, <1>17 DEF PlanAndAuthorize, Goto, TypeOK
  <2>2. PICK f \in PackChunksFrom(remaining[p], next[p]) :
          DOMAIN f \subseteq ChunkIndex /\ plan' = [plan EXCEPT ![p] = f]
    BY <1>17 DEF PlanAndAuthorize
  <2>3. /\ \A c \in DOMAIN f : c >= next[p] /\ f[c] \subseteq remaining[p]
        /\ \A c, d \in DOMAIN f : c # d => ~Overlap(f[c], f[d])
    <3>1. remaining[p] \in SUBSET Rows
      BY <1>1 DEF TypeOK
    <3> QED BY <1>1, <2>2, <3>1, PackedChunks DEF Overlap
  <2>4. QuietLog(p)
    <3>1. /\ RunEvent("AuthorizationGranted") \in Event
          /\ RunEvent("AuthorizationGranted").kind = "AuthorizationGranted"
      BY EventValues
    <3> QED BY <2>1, <3>1 DEF QuietLog
  <2>5. \A e \in signed, c \in DOMAIN f : Overlap(e.rows, f[c]) => Dead(<<jn[p], e.chunk>>)
    BY <1>1, <2>1, <2>3 DEF ProcInv, Overlap
  <2>6. plan'[p] = f /\ SignedEvents(journal'[jn[p]]) = signed /\ \A e \in signed : e.chunk < next[p]
    BY <1>1, <1>6, <2>1, <2>2, <2>4 DEF TypeOK, ProcInv
  <2> HIDE DEF signed
  <2>7. ProcInv(p)'
    BY <1>1, <1>5, <2>1, <2>3, <2>5, <2>6 DEF ProcInv, Working, Executing, Sending, ledgerVars
  <2> QED BY <1>3, <1>7, <2>1, <2>4, <2>7 DEF Working
<1>18. ASSUME pc[p] \in Executing, pc'[p] \in Executing \ Sending, QuietLog(p),
              UNCHANGED <<ledgerVars, created, lock, jn, tip, plan>>,
              \/ pc[p] \notin Sending /\ next'[p] = next[p]
              \/ next'[p] = next[p] + 1
       PROVE  IInv'
  <2>1. Working(p) /\ jn'[p] = jn[p] /\ tip'[p] = tip[p] /\ plan'[p] = plan[p]
    BY <1>18 DEF Working, Executing, Sending
  <2>2. SignedEvents(journal'[jn[p]]) = signed /\ DOMAIN plan[p] \subseteq Nat
    <3>1. plan[p] \in Plans
      BY <1>1 DEF TypeOK
    <3>2. DOMAIN plan[p] \subseteq ChunkIndex
      BY <3>1, PlanMaps
    <3> QED BY SMTT(30), <1>6, <1>18, <3>2, FanoutAssumption DEF ChunkIndex
  <2>6. /\ \A e \in signed : e.chunk < next[p] \/ (pc[p] \in Sending /\ e.chunk = next[p])
        /\ \A e \in signed, c \in DOMAIN plan[p] :
             c >= next[p] /\ e.chunk < c /\ Overlap(e.rows, plan[p][c]) => Dead(<<jn[p], e.chunk>>)
    BY <1>1, <1>18 DEF ProcInv
  <2> HIDE DEF signed
  <2>7. next'[p] \in Nat /\ next[p] <= next'[p]
    <3>1. next'[p] = next[p] \/ next'[p] = next[p] + 1
      BY <1>18
    <3>2. next[p] \in Nat
      BY <1>1
    <3> QED BY SMTT(30), <3>1, <3>2
  <2>3. ASSUME NEW e \in signed PROVE e.chunk < next'[p]
    <3>1. e.chunk \in Nat /\ (e.chunk < next[p] \/ (pc[p] \in Sending /\ e.chunk = next[p]))
      BY <1>4, <2>6
    <3>2. \/ pc[p] \notin Sending /\ next'[p] = next[p]
          \/ next'[p] = next[p] + 1
      BY <1>18
    <3>3. next[p] \in Nat
      BY <1>1
    <3> QED BY SMTT(30), <3>1, <3>2, <3>3
  <2>4. \A e \in signed, c \in DOMAIN plan[p] :
          c >= next'[p] /\ e.chunk < c /\ Overlap(e.rows, plan[p][c]) => Dead(<<jn[p], e.chunk>>)
    <3> SUFFICES ASSUME NEW e \in signed, NEW c \in DOMAIN plan[p], c >= next'[p], e.chunk < c,
                        Overlap(e.rows, plan[p][c])
                 PROVE  Dead(<<jn[p], e.chunk>>)
      OBVIOUS
    <3>1. c >= next[p]
      BY SMTT(30), <1>1, <2>2, <2>7
    <3> QED BY <2>6, <3>1
  <2>5. ProcInv(p)'
    BY <1>1, <1>5, <1>18, <2>1, <2>2, <2>3, <2>4 DEF ProcInv, Working, Executing, Sending
  <2> QED BY <1>3, <1>7, <1>18, <2>1, <2>5
<1>19. CASE AppendChunkBroadcast(p) \/ AppendChunkFailed(p)
  <2>1. next[p] \in ChunkIndex
    <3>1. plan[p] \in Plans /\ next[p] \in DOMAIN plan[p]
      BY <1>1, <1>19 DEF AppendChunkBroadcast, AppendChunkFailed, ProcInv, TypeOK, Sending
    <3> QED BY <3>1, PlanMaps
  <2>2. \A kind \in {"ChunkBroadcast", "ChunkFailed"} :
          ChunkEvent(kind, next[p]) \in Event /\ ChunkEvent(kind, next[p]).kind = kind
    BY <2>1, EventValues
  <2>3. QuietLog(p)
    BY <1>19, <2>2 DEF AppendChunkBroadcast, AppendChunkFailed, QuietLog
  <2> QED BY <1>1, <1>18, <1>19, <2>3
          DEF AppendChunkBroadcast, AppendChunkFailed, Goto, TypeOK, Executing, Sending
<1>20. ASSUME NEW v \in StatusNodes, PollStatuses(p, v) PROVE IInv'
  BY <1>1, <1>18, <1>20 DEF PollStatuses, QuietLog, Goto, TypeOK, Executing, Sending
<1>21. ASSUME NEW h \in 0..confirmed, PollHeight(p, h) PROVE IInv'
  BY <1>1, <1>18, <1>21 DEF PollHeight, QuietLog, Goto, TypeOK, Executing, Sending
<1>22. CASE Drain(p)
  <2>1. PICK c \in DOMAIN polled[p] :
          \/ UNCHANGED journal
          \/ Log(p, ChunkEvent("ChunkConfirmed", c))
          \/ Log(p, ChunkEvent("ChunkFailed", c))
    BY <1>22 DEF Drain
  <2>2. c \in ChunkIndex
    <3>1. polled[p] \in Polls
      BY <1>1 DEF TypeOK
    <3> QED BY <3>1, PollMaps
  <2>3. \A kind \in {"ChunkConfirmed", "ChunkFailed"} :
          ChunkEvent(kind, c) \in Event /\ ChunkEvent(kind, c).kind = kind
    BY <2>2, EventValues
  <2>4. QuietLog(p)
    BY <2>1, <2>3 DEF QuietLog
  <2>5. pc[p] = "drain" /\ pc'[p] \in {"next", "drain"}
    BY <1>1, <1>22 DEF Drain, Goto, TypeOK
  <2> QED BY <1>18, <1>22, <2>4, <2>5 DEF Drain, Executing, Sending
<1>23. CASE AppendRunCompleted(p) \/ AppendRunInterrupted(p)
  <2>1. /\ CompletedEvent(failures[p]) \in Event /\ RunEvent("RunInterrupted") \in Event
        /\ CompletedEvent(failures[p]).kind = "RunCompleted"
        /\ RunEvent("RunInterrupted").kind = "RunInterrupted"
    BY <1>1, EventValues DEF TypeOK
  <2>2. QuietLog(p)
    BY <1>23, <2>1 DEF AppendRunCompleted, AppendRunInterrupted, QuietLog
  <2> QED BY <1>3, <1>8, <1>23, <2>2 DEF AppendRunCompleted, AppendRunInterrupted, Working
<1>24. CASE Crash(p)
  BY <1>8, <1>24 DEF Crash, QuietLog
<1> QED BY <1>9, <1>10, <1>11, <1>12, <1>13, <1>15, <1>16, <1>17, <1>19, <1>20, <1>21, <1>22, <1>23,
           <1>24 DEF ProcAction, ProcStep

(* Signing a chunk: its index is new to the journal, so its transaction is  *)
(* new to the cluster, and whatever else was signed for its rows is dead.   *)
LEMMA SignChunkKeepsIInv ==
  ASSUME IInv, NEW p \in Procs, SignChunk(p)
  PROVE  IInv'
<1> DEFINE j == jn[p]  n == next[p]  rows == plan[p][n]  signed == SignedEvents(journal[j])
<1>1. TypeOK /\ LedgerInv /\ ProcInv(p) /\ j \in Journals /\ n \in Nat /\ JournalInv(j)
      /\ plan[p] \in Plans
  BY DEF IInv, TypeOK
<1>2. TypeOK' /\ OthersKeep(p)
  <2>1. ProcAction(p)
    BY DEF ProcAction, ProcStep
  <2> QED BY <2>1, ProcTypes, ProcFootprint
<1>3. pc[p] = "next" /\ n \in DOMAIN plan[p] /\ pc'[p] = "send"
      /\ UNCHANGED <<created, lock, jn, tip, plan, next>>
  BY <1>1 DEF SignChunk, AllSigned, Goto, TypeOK
<1>4. n \in ChunkIndex /\ rows \subseteq Rows /\ DOMAIN plan[p] \subseteq Nat
  BY <1>1, <1>3, PlanMaps, Numbers
<1>5. PICK lastValid \in Nat :
        SignTx(<<j, n>>, lastValid) /\ Log(p, SignedEvent(n, rows, lastValid))
  <2>1. RecentExpiries \subseteq Nat
    BY Numbers
  <2> QED BY <2>1 DEF SignChunk
<1> DEFINE s == SignedEvent(n, rows, lastValid)  t == <<j, n>>
<1>6. s \in Event /\ s.kind = "ChunkSigned" /\ s.chunk = n /\ s.rows = rows /\ s.lastValid = lastValid
  BY <1>4, <1>5, EventValues DEF SignedEvent
<1>7. t \in Tx
  BY <1>1, <1>4, FanoutAssumption
<1>8. /\ lock[j] = p /\ j \in created
      /\ \A e \in signed : e.chunk < n
      /\ \A e \in signed, c \in DOMAIN plan[p] :
           c >= n /\ e.chunk < c /\ Overlap(e.rows, plan[p][c]) => Dead(<<j, e.chunk>>)
      /\ \A c, d \in DOMAIN plan[p] : c # d => ~Overlap(plan[p][c], plan[p][d])
      /\ tip[p] <= final
  BY <1>1, <1>3 DEF ProcInv, Working, Executing, Sending
<1>9. /\ journal' = [journal EXCEPT ![j] = Append(@, s)]
      /\ expiry' = [expiry EXCEPT ![t] = lastValid]
      /\ UNCHANGED <<height, confirmed, final, pool, block, failed, forks>>
  BY <1>5 DEF Log, SignTx
<1>10. /\ journal[j] \in Seq(Event)
       /\ journal'[j] = Append(journal[j], s)
       /\ \A k \in Journals \ {j} : journal'[k] = journal[k]
  BY <1>1, <1>9 DEF TypeOK, Logs
<1>11. SignedEvents(journal'[j]) = signed \cup {s}
  BY <1>6, <1>10, AppendSigned
<1>12. \A e \in signed : e.chunk \in Nat /\ <<j, e.chunk>> \in Tx
  BY <1>1, SignedTx, Numbers
<1> HIDE DEF s, signed
<1>13. t \notin pool
  <2> SUFFICES ASSUME t \in pool PROVE FALSE
    OBVIOUS
  <2>1. PICK e \in signed : e.chunk = n
    BY DEF IInv, PoolInv, signed
  <2> QED BY SMTT(30), <1>1, <1>8, <2>1
<1>14. LedgerInv'
  <2>1. LedgerTypeOK'
    BY <1>2 DEF TypeOK
  <2>2. block[t] = 0
    BY <1>1, <1>7, <1>13, UnsentHasNoBlock
  <2> HIDE DEF t
  <2>3. \A u \in Tx : u # t => expiry'[u] = expiry[u]
    BY <1>1, <1>9 DEF LedgerInv, LedgerTypeOK
  <2> QED BY <1>1, <1>9, <2>1, <2>2, <2>3 DEF LedgerInv
<1>15. \A u \in Tx : u # t => (Dead(u) => Dead(u)') /\ expiry'[u] = expiry[u]
  <2> HIDE DEF t
  <2> QED BY <1>1, <1>9 DEF Dead, Landed, LedgerInv, LedgerTypeOK
<1>16. ASSUME NEW k \in Journals, NEW e \in SignedEvents(journal[k])
       PROVE  /\ Dead(<<k, e.chunk>>) => Dead(<<k, e.chunk>>)'
              /\ expiry'[<<k, e.chunk>>] = expiry[<<k, e.chunk>>]
  <2>1. <<k, e.chunk>> \in Tx /\ <<k, e.chunk>> # t
    BY SMTT(30), <1>1, <1>8, SignedTx DEF signed
  <2> HIDE DEF t
  <2> QED BY <1>15, <2>1
<1>17. PoolInv'
  <2> SUFFICES ASSUME NEW u \in pool
               PROVE  \E e \in SignedEvents(journal'[u[1]]) : e.chunk = u[2]
    BY <1>9 DEF PoolInv, SignedEvents
  <2>1. u[1] \in Journals
    BY <1>1, FanoutAssumption DEF TypeOK, LedgerTypeOK
  <2>2. PICK e \in SignedEvents(journal[u[1]]) : e.chunk = u[2]
    BY DEF IInv, PoolInv
  <2>3. e \in SignedEvents(journal'[u[1]])
    BY <1>10, <1>11, <2>1, <2>2 DEF signed
  <2> QED BY <2>2, <2>3
<1>18. ASSUME NEW k \in Journals, k # j PROVE JournalInv(k)'
  <2>1. JournalInv(k) /\ journal'[k] = journal[k]
    BY <1>10, <1>18 DEF IInv
  <2>2. \A e \in SignedEvents(journal[k]) :
          /\ Dead(<<k, e.chunk>>) => Dead(<<k, e.chunk>>)'
          /\ expiry'[<<k, e.chunk>>] = expiry[<<k, e.chunk>>]
    BY <1>16
  <2> QED BY <1>3, <2>1, <2>2 DEF JournalInv
<1>19. JournalInv(j)'
  <2>1. \A e \in signed : /\ Dead(<<j, e.chunk>>) => Dead(<<j, e.chunk>>)'
                         /\ expiry'[<<j, e.chunk>>] = expiry[<<j, e.chunk>>]
    BY <1>1, <1>3, <1>16 DEF signed
  <2>2. \A e \in SignedEvents(journal'[j]) : expiry'[<<j, e.chunk>>] = e.lastValid
    <3>1. expiry'[<<j, s.chunk>>] = s.lastValid
      BY <1>1, <1>6, <1>7, <1>9 DEF LedgerInv, LedgerTypeOK
    <3> QED BY <1>1, <1>11, <2>1, <3>1 DEF JournalInv, signed
  <2>3. \A i, k \in DOMAIN journal'[j] :
          /\ journal'[j][i].kind = "ChunkSigned" /\ journal'[j][k].kind = "ChunkSigned"
          /\ journal'[j][i].chunk = journal'[j][k].chunk
          => i = k
    <3> DEFINE log == journal[j]
    <3>1. /\ DOMAIN journal'[j] = 1..(Len(log) + 1) /\ DOMAIN log = 1..Len(log) /\ Len(log) \in Nat
          /\ journal'[j][Len(log) + 1] = s /\ \A i \in 1..Len(log) : journal'[j][i] = log[i]
      BY SMTT(30), <1>6, <1>10
    <3>2. \A i \in DOMAIN log : log[i].kind = "ChunkSigned" => log[i].chunk < n /\ log[i].chunk \in Nat
      <4>1. \A i \in DOMAIN log : log[i].kind = "ChunkSigned" => log[i] \in signed
        BY DEF signed, SignedEvents, Range
      <4> QED BY <1>8, <1>12, <4>1
    <3>3. \A i, k \in DOMAIN log :
            log[i].kind = "ChunkSigned" /\ log[k].kind = "ChunkSigned" /\ log[i].chunk = log[k].chunk
            => i = k
      BY <1>1 DEF JournalInv
    <3>4. n \in Nat /\ s.chunk = n
      BY <1>1, <1>6
    <3> HIDE DEF log, n
    <3>5. ASSUME NEW i \in 1..Len(log), journal'[j][i].kind = "ChunkSigned"
          PROVE  journal'[j][i].chunk # journal'[j][Len(log) + 1].chunk
      <4>1. log[i].chunk < n /\ log[i].chunk \in Nat
        BY <3>1, <3>2, <3>5
      <4> QED BY SMTT(30), <3>1, <3>4, <4>1
    <3>6. \A i \in DOMAIN journal'[j] : i \in 1..Len(log) \/ i = Len(log) + 1
      BY SMTT(30), <3>1
    <3> QED BY <3>1, <3>3, <3>5, <3>6
  <2>4. ASSUME NEW e \in signed \cup {s}, NEW f \in signed \cup {s}, e.chunk < f.chunk,
               Overlap(e.rows, f.rows)
        PROVE  Dead(<<j, e.chunk>>)'
    <3>1. e \in signed
      <4>1. f.chunk \in Nat /\ f.chunk <= n
        <5>1. CASE f = s
          BY SMTT(30), <1>1, <1>6, <5>1
        <5>2. CASE f \in signed
          <6>1. f.chunk \in Nat /\ f.chunk < n
            BY <1>8, <1>12, <5>2
          <6> QED BY SMTT(30), <1>1, <6>1
        <5> QED BY <5>1, <5>2
      <4> QED BY SMTT(30), <1>1, <1>6, <2>4, <4>1
    <3>2. Dead(<<j, e.chunk>>)
      <4>1. CASE f \in signed
        BY <1>1, <2>4, <3>1, <4>1 DEF JournalInv, signed
      <4>2. CASE f = s
        <5>1. e.chunk < n /\ Overlap(e.rows, plan[p][n]) /\ n \in DOMAIN plan[p]
          BY <1>3, <1>6, <2>4, <4>2
        <5>2. n >= n
          BY SMTT(30), <1>1
        <5> QED BY <1>8, <3>1, <5>1, <5>2
      <4> QED BY <4>1, <4>2
    <3> QED BY <2>1, <3>1, <3>2
  <2> QED BY <1>3, <1>8, <1>11, <2>2, <2>3, <2>4 DEF JournalInv
<1>20. ProcInv(p)'
  <2>1. \A e \in signed \cup {s} : e.chunk < n \/ e.chunk = n
    BY <1>6, <1>8
  <2>2. ASSUME NEW e \in signed \cup {s}, NEW c \in DOMAIN plan[p], c >= n, e.chunk < c,
               Overlap(e.rows, plan[p][c])
        PROVE  Dead(<<j, e.chunk>>)'
    <3>1. e # s
      <4> SUFFICES ASSUME e = s PROVE FALSE
        OBVIOUS
      <4>1. n < c /\ Overlap(plan[p][n], plan[p][c])
        BY <1>6, <2>2
      <4>2. n # c
        BY SMTT(30), <1>1, <4>1
      <4> QED BY <1>3, <1>8, <4>1, <4>2
    <3>2. e \in signed /\ Dead(<<j, e.chunk>>)
      BY <1>8, <2>2, <3>1
    <3> QED BY <1>1, <1>3, <1>16, <3>2 DEF signed
  <2>3. \E e \in signed \cup {s} : e.chunk = n
    BY <1>6
  <2>4. jn'[p] = j /\ next'[p] = n /\ plan'[p] = plan[p] /\ tip'[p] = tip[p] /\ lock'[j] = p
        /\ j \in created' /\ final' = final
    BY <1>3, <1>8, <1>9
  <2> QED BY <1>3, <1>8, <1>11, <2>1, <2>2, <2>3, <2>4 DEF ProcInv, Working, Executing, Sending
<1>21. ASSUME NEW q \in Procs, q # p PROVE ProcInv(q)'
  <2>1. MayWrite(p)
    BY <1>3, <1>8 DEF MayWrite
  <2>2. /\ \A k \in Journals \ {jn[p]} : journal'[k] = journal[k]
        /\ final' = final
    BY <1>9, <1>10
  <2>3. \A k \in Journals : \A e \in SignedEvents(journal[k]) :
          Dead(<<k, e.chunk>>) => Dead(<<k, e.chunk>>)'
    BY <1>16
  <2> HIDE DEF j, n, t, rows
  <2> QED BY <1>2, <1>21, <2>1, <2>2, <2>3, OtherProc
<1>22. ASSUME NEW k \in Journals PROVE JournalInv(k)'
  BY SMTT(30), <1>3, <1>18, <1>19 DEF JournalInv
<1> QED BY <1>2, <1>14, <1>17, <1>20, <1>21, <1>22 DEF IInv

(* Sending a chunk: its ChunkSigned event is already in the journal.        *)
LEMMA SendKeepsIInv ==
  ASSUME IInv, NEW p \in Procs, Send(p)
  PROVE  IInv'
<1> DEFINE t == <<jn[p], next[p]>>
<1>1. TypeOK /\ LedgerInv /\ ProcInv(p) /\ PoolInv
  BY DEF IInv
<1>2. TypeOK' /\ OthersKeep(p)
  <2>1. ProcAction(p)
    BY DEF ProcAction, ProcStep
  <2> QED BY <2>1, ProcTypes, ProcFootprint
<1>3. /\ pc[p] = "send" /\ pc'[p] \in {"sent", "unsent"} /\ pool \subseteq pool'
      /\ pool' \subseteq pool \cup {t}
      /\ UNCHANGED <<height, confirmed, final, expiry, block, failed, forks>>
      /\ UNCHANGED <<journal, created, lock, jn, events, tip, remaining, plan, next>>
  BY <1>1 DEF Send, SendTx, Goto, TypeOK
<1>4. LedgerInv'
  <2>1. LedgerTypeOK'
    BY <1>2 DEF TypeOK
  <2> QED BY <1>1, <1>3, <2>1 DEF LedgerInv
<1>5. PoolInv'
  <2>1. \E e \in SignedEvents(journal[t[1]]) : e.chunk = t[2]
    BY <1>1, <1>3 DEF ProcInv, Sending
  <2> HIDE DEF t
  <2> QED BY <1>1, <1>3, <2>1 DEF PoolInv
<1>6. \A u : Dead(u) <=> Dead(u)'
  BY <1>3 DEF Dead, Landed
<1>7. ASSUME NEW j \in Journals PROVE JournalInv(j)'
  BY <1>3, <1>6 DEF IInv, JournalInv, SignedEvents
<1>8. ASSUME NEW q \in Procs, q # p PROVE ProcInv(q)'
  <2>1. \A j \in Journals : \A e \in SignedEvents(journal[j]) :
          Dead(<<j, e.chunk>>) => Dead(<<j, e.chunk>>)'
    BY <1>6
  <2> QED BY <1>2, <1>3, <1>8, <2>1, OtherProc
<1>9. ProcInv(p)'
  BY <1>1, <1>3, <1>6 DEF ProcInv, Working, Executing, Sending
<1> QED BY <1>2, <1>4, <1>5, <1>7, <1>8, <1>9 DEF IInv

(* Every step of a process keeps the invariant.                             *)
LEMMA ProcActionKeepsIInv ==
  ASSUME IInv, NEW p \in Procs, ProcAction(p)
  PROVE  IInv'
BY QuietStepKeepsIInv, SignChunkKeepsIInv, SendKeepsIInv

(* So does every step of the cluster.                                       *)
LEMMA LedgerStepKeepsIInv ==
  ASSUME IInv, LedgerNext \/ UNCHANGED ledgerVars,
         UNCHANGED <<journal, created, lock, procVars, runs>>
  PROVE  IInv'
<1>1. LedgerInv' /\ expiry' = expiry /\ pool' = pool /\ final <= final' /\ final' \in Nat
  <2>1. CASE LedgerNext
    BY <2>1, LedgerStep, LedgerKeeps DEF IInv
  <2>2. CASE UNCHANGED ledgerVars
    BY SMTT(30), <2>2 DEF IInv, LedgerInv, LedgerTypeOK, ledgerVars
  <2> QED BY <2>1, <2>2
<1>2. TypeOK /\ LedgerInv
  BY DEF IInv
<1>3. TypeOK'
  BY <1>1, <1>2 DEF TypeOK, LedgerInv, procVars
<1>4. \A t \in Tx : Dead(t) => Dead(t)'
  <2>1. CASE LedgerNext
    BY <1>2, <2>1, DeadStaysDead
  <2>2. CASE UNCHANGED ledgerVars
    BY <2>2 DEF Dead, Landed, ledgerVars
  <2> QED BY <2>1, <2>2
<1>5. PoolInv'
  BY <1>1 DEF IInv, PoolInv, SignedEvents
<1>6. \A j \in Journals : \A e \in SignedEvents(journal[j]) :
        Dead(<<j, e.chunk>>) => Dead(<<j, e.chunk>>)'
  BY <1>2, <1>4, SignedTx
<1>7. ASSUME NEW j \in Journals PROVE JournalInv(j)'
  <2>1. JournalInv(j) /\ journal' = journal /\ created' = created
    BY DEF IInv
  <2>2. \A e \in SignedEvents(journal[j]) : Dead(<<j, e.chunk>>) => Dead(<<j, e.chunk>>)'
    BY <1>6
  <2> QED BY <1>1, <2>1, <2>2 DEF JournalInv
<1>8. ASSUME NEW p \in Procs PROVE ProcInv(p)'
  <2>1. ProcInv(p) /\ jn[p] \in Journals /\ tip[p] <= final'
    <3>1. ProcInv(p) /\ jn[p] \in Journals /\ tip[p] <= final /\ tip[p] \in Nat /\ final \in Nat
      BY <1>2 DEF IInv, ProcInv, TypeOK, LedgerTypeOK
    <3> QED BY SMTT(30), <1>1, <3>1
  <2>2. \A e \in SignedEvents(journal[jn[p]]) :
          Dead(<<jn[p], e.chunk>>) => Dead(<<jn[p], e.chunk>>)'
    BY <1>6, <2>1 DEF procVars
  <2>3. UNCHANGED <<journal, created, lock, pc, jn, events, tip, remaining, plan, next>>
    BY DEF procVars
  <2> QED BY <2>1, <2>2, <2>3 DEF ProcInv, Working, Executing, Sending
<1> QED BY <1>1, <1>3, <1>5, <1>7, <1>8 DEF IInv

(* The initial states satisfy the invariant.                                *)
LEMMA InitIInv == ASSUME Init PROVE IInv
<1>1. LedgerInv
  BY SMTT(30) DEF Init, LedgerInit, LedgerInv, LedgerTypeOK
<1>2. TypeOK
  <2>1. NoPlan \in Plans
    <3>1. NoPlan \in [{} -> SUBSET Rows] /\ {} \in SUBSET ChunkIndex
      BY DEF NoPlan
    <3> QED BY <3>1, PlanMaps
  <2>2. NoPoll \in Polls
    <3>1. NoPoll \in [{} -> Statuses] /\ {} \in SUBSET ChunkIndex
      BY DEF NoPoll
    <3> QED BY <3>1, PollMaps
  <2>3. "idle" \in Labels /\ <<>> \in Logs /\ (CHOOSE j \in Journals : TRUE) \in Journals
    BY FanoutAssumption, LogEvents DEF Labels, Logs
  <2> QED BY <1>1, <2>1, <2>2, <2>3 DEF Init, TypeOK, LedgerInv
<1>3. \A j \in Journals :
        journal[j] = <<>> /\ DOMAIN journal[j] = {} /\ SignedEvents(journal[j]) = {}
  BY LogEvents DEF Init
<1>4. PoolInv
  BY DEF Init, LedgerInit, PoolInv
<1>5. ASSUME NEW j \in Journals PROVE JournalInv(j)
  <2>1. journal[j] = <<>> /\ DOMAIN journal[j] = {} /\ SignedEvents(journal[j]) = {}
    BY <1>3
  <2> QED BY <2>1 DEF JournalInv
<1>6. ASSUME NEW p \in Procs PROVE ProcInv(p)
  <2>1. pc[p] = "idle" /\ tip[p] = 0 /\ final = 0
    BY DEF Init, LedgerInit
  <2>2. /\ ~Working(p) /\ pc[p] \notin Executing /\ pc[p] \notin Sending
        /\ pc[p] \notin {"tip", "statuses"} /\ pc[p] \notin {"record", "plan"}
    BY <2>1 DEF Working, Executing, Sending
  <2>3. tip[p] <= final
    BY <2>1, Numbers
  <2> QED BY <2>2, <2>3 DEF ProcInv
<1> QED BY <1>1, <1>2, <1>4, <1>5, <1>6 DEF IInv

-----------------------------------------------------------------------------
(* The theorems.                                                            *)

(* One step of the specification keeps the invariant.                       *)
LEMMA NextKeepsIInv == IInv /\ [Next]_vars => IInv'
<1> SUFFICES ASSUME IInv, [Next]_vars PROVE IInv'
  OBVIOUS
<1>1. CASE Next
  BY <1>1, ProcActionKeepsIInv, LedgerStepKeepsIInv DEF Next, Cluster
<1>2. CASE UNCHANGED vars
  BY <1>2, LedgerStepKeepsIInv DEF vars
<1> QED BY <1>1, <1>2

(* The inductive invariant holds in every reachable state.                  *)
THEOREM IInvHolds == Spec => []IInv
<1>1. Init => IInv
  BY InitIInv
<1> QED BY <1>1, NextKeepsIInv, PTL DEF Spec

(* Every variable keeps its type.                                           *)
THEOREM TypeCorrect == Spec => []TypeOK
BY IInvHolds, PTL DEF IInv

(* Nothing reaches the network before its ChunkSigned event is durable, so  *)
(* no crash of the executor loses track of a payout that may land.          *)
THEOREM SentIsJournaled == Spec => []JournaledBeforeSent
<1>1. IInv => JournaledBeforeSent
  <2> SUFFICES ASSUME IInv, NEW t \in pool
               PROVE  \E e \in SignedEvents(journal[t[1]]) : e.chunk = t[2] /\ e.lastValid = expiry[t]
    BY DEF JournaledBeforeSent
  <2>1. t \in Tx /\ t[1] \in Journals /\ t = <<t[1], t[2]>>
    BY TxPair DEF IInv, TypeOK, LedgerTypeOK
  <2>2. PICK e \in SignedEvents(journal[t[1]]) : e.chunk = t[2]
    BY DEF IInv, PoolInv
  <2> QED BY SMTT(30), <2>1, <2>2 DEF IInv, JournalInv
<1> QED BY <1>1, IInvHolds, PTL

(* No row of a journal is paid by two transactions, over any number of      *)
(* crashes and resumes (plan_resume, PushExecutor::run).                    *)
THEOREM PaysOnce == Spec => []JournalPaysOnce
<1>1. IInv => JournalPaysOnce
  <2> SUFFICES ASSUME IInv, NEW j \in Journals,
                      NEW e \in SignedEvents(journal[j]), NEW f \in SignedEvents(journal[j]),
                      e # f, Overlap(e.rows, f.rows),
                      Landed(<<j, e.chunk>>), Landed(<<j, f.chunk>>)
               PROVE  FALSE
    BY DEF JournalPaysOnce, Overlap
  <2>1. TypeOK /\ LedgerInv /\ JournalInv(j)
    BY DEF IInv
  <2>2. /\ <<j, e.chunk>> \in Tx /\ e.chunk \in Nat
        /\ <<j, f.chunk>> \in Tx /\ f.chunk \in Nat
    BY <2>1, SignedTx, Numbers
  <2>3. ~Dead(<<j, e.chunk>>) /\ ~Dead(<<j, f.chunk>>)
    BY <2>1, <2>2, LandedIsLive
  <2>4. e.chunk # f.chunk
    <3>1. PICK i \in DOMAIN journal[j] : journal[j][i] = e /\ e.kind = "ChunkSigned"
      BY DEF SignedEvents, Range
    <3>2. PICK k \in DOMAIN journal[j] : journal[j][k] = f /\ f.kind = "ChunkSigned"
      BY DEF SignedEvents, Range
    <3> QED BY <2>1, <3>1, <3>2 DEF JournalInv
  <2>5. Overlap(f.rows, e.rows)
    BY DEF Overlap
  <2>6. CASE e.chunk < f.chunk
    BY <2>1, <2>3, <2>6 DEF JournalInv
  <2>7. CASE f.chunk < e.chunk
    BY <2>1, <2>3, <2>5, <2>7 DEF JournalInv
  <2> QED BY SMTT(30), <2>2, <2>4, <2>6, <2>7
<1> QED BY <1>1, IInvHolds, PTL

(* A chunk index names one transaction for the life of a journal.           *)
THEOREM SignedOnce == Spec => []ChunkSignedOnce
<1>1. IInv => ChunkSignedOnce
  BY DEF IInv, JournalInv, ChunkSignedOnce
<1> QED BY <1>1, IInvHolds, PTL

(* While a resuming process decides, nobody writes to its journal.          *)
THEOREM CurrentSnapshot == Spec => []SnapshotIsCurrent
<1>1. IInv => SnapshotIsCurrent
  BY DEF IInv, ProcInv, SnapshotIsCurrent
<1> QED BY <1>1, IInvHolds, PTL

(* A step of a process leaves the cluster alone, signs or sends.            *)
LEMMA ProcLedger ==
  ASSUME NEW p \in Procs, ProcAction(p)
  PROVE  UNCHANGED ledgerVars \/ SignChunk(p) \/ Send(p)
BY DEF ProcAction, ProcStep, StartFresh, CreateNew, OpenExisting, ReadTip, PlanResume,
   RecordConfirmed, RecordedAll, PlanAndAuthorize, AppendChunkBroadcast, AppendChunkFailed,
   PollStatuses, PollHeight, Drain, AppendRunCompleted, AppendRunInterrupted, Crash

(* A dead payout of a journal is never signed again under its index, so no  *)
(* step revives it.                                                         *)
LEMMA SignedStayDead ==
  ASSUME IInv, Next, NEW j \in Journals, NEW e \in SignedEvents(journal[j]), Dead(<<j, e.chunk>>)
  PROVE  Dead(<<j, e.chunk>>)'
<1>1. TypeOK /\ LedgerInv /\ <<j, e.chunk>> \in Tx /\ e.chunk \in ChunkIndex
  BY SignedTx DEF IInv
<1>2. CASE LedgerNext
  BY <1>1, <1>2, DeadStaysDead
<1>3. CASE UNCHANGED ledgerVars
  BY <1>3 DEF Dead, Landed, ledgerVars
<1>4. ASSUME NEW p \in Procs, Send(p) PROVE Dead(<<j, e.chunk>>)'
  BY <1>4 DEF Send, SendTx, Dead, Landed
<1>5. ASSUME NEW p \in Procs, SignChunk(p) PROVE Dead(<<j, e.chunk>>)'
  <2>1. PICK n : SignTx(<<jn[p], next[p]>>, n)
    BY <1>5 DEF SignChunk
  <2>2. <<j, e.chunk>> # <<jn[p], next[p]>>
    <3>1. pc[p] = "next" /\ ProcInv(p) /\ next[p] \in Nat
      BY <1>5 DEF SignChunk, IInv, TypeOK
    <3>2. j = jn[p] => e.chunk < next[p]
      BY <3>1 DEF ProcInv, Executing, Sending
    <3>3. e.chunk \in Nat
      BY <1>1, Numbers
    <3> QED BY SMTT(30), <3>1, <3>2, <3>3
  <2>3. expiry'[<<j, e.chunk>>] = expiry[<<j, e.chunk>>]
    BY <1>1, <2>1, <2>2 DEF SignTx, LedgerInv, LedgerTypeOK
  <2> QED BY <2>1, <2>3 DEF SignTx, Dead, Landed
<1> QED BY <1>2, <1>3, <1>4, <1>5, ProcLedger DEF Next, Cluster

(* Once confirm_not_landed was right to call a chunk replaceable, it stays  *)
(* right: no step lets the chunk land (plan_resume).                        *)
THEOREM ReplaceableStays == Spec => ReplaceableForever
<1> DEFINE Keeps == \A j \in Journals : \A e \in SignedEvents(journal[j]) :
                      Dead(<<j, e.chunk>>) => Dead(<<j, e.chunk>>)'
<1>1. IInv /\ [Next]_vars => [Keeps]_vars
  BY SignedStayDead
<1> QED BY <1>1, IInvHolds, PTL DEF Spec, ReplaceableForever
-----------------------------------------------------------------------------
(* One command at a time pays a row once, whatever journals there are.       *)

(* What is signed is in a journal that matching_run finds, and in one        *)
(* journal only; a running command works on that one.                        *)
Unsigned(j) == SignedEvents(journal[j]) = {}
SoleInv ==
  /\ \A j \in Journals : ~Unsigned(j) =>
       Has(journal[j], "RunCreated") /\ Has(journal[j], "AuthorizationGranted")
  /\ \A p \in Procs : /\ Working(p) => Has(journal[jn[p]], "RunCreated")
                      /\ pc[p] \in Executing => Has(journal[jn[p]], "AuthorizationGranted")
                      /\ pc[p] # "idle" => \A k \in Journals \ {jn[p]} : Unsigned(k)
  /\ \A j, k \in Journals : j # k => Unsigned(j) \/ Unsigned(k)

(* An append only adds events.                                              *)
LEMMA HasAppend ==
  ASSUME NEW log \in Seq(Event), NEW e \in Event
  PROVE  /\ \A kind : Has(log, kind) => Has(Append(log, e), kind)
         /\ Has(Append(log, e), e.kind)
<1> DEFINE longer == Append(log, e)
<1>1. Extended(log, e, longer)
  BY AppendShape
<1> HIDE DEF longer
<1>2. (\A kind : Has(log, kind) => Has(longer, kind)) /\ Has(longer, e.kind)
  BY <1>1 DEF Extended, Has, Range
<1> QED BY <1>2 DEF longer

(* A command signs into its own journal, or signs nothing.                  *)
LEMMA ProcLog ==
  ASSUME IInv, NEW p \in Procs, ProcAction(p), ~SignChunk(p)
  PROVE  QuietLog(p)
<1>1. TypeOK /\ next[p] \in Nat /\ failures[p] \in Nat /\ ProcInv(p)
  BY DEF IInv, TypeOK
<1>2. ASSUME UNCHANGED journal PROVE QuietLog(p)
  BY <1>2 DEF QuietLog
<1>3. ASSUME NEW e \in Event, e.kind # "ChunkSigned", Log(p, e) PROVE QuietLog(p)
  BY <1>3 DEF QuietLog
<1>4. ASSUME NEW j \in Journals, StartFresh(p, j) \/ OpenExisting(p, j) PROVE QuietLog(p)
  BY <1>2, <1>4 DEF StartFresh, OpenExisting
<1>5. CASE CreateNew(p)
  BY <1>2, <1>3, <1>5, EventValues DEF CreateNew
<1>6. CASE ReadTip(p) \/ PlanResume(p) \/ Send(p) \/ Crash(p)
  BY <1>2, <1>6 DEF ReadTip, PlanResume, Send, Crash
<1>7. CASE RecordConfirmed(p)
  <2>1. PICK c \in record[p] : Log(p, ChunkEvent("ChunkConfirmed", c))
    BY <1>7 DEF RecordConfirmed
  <2>2. c \in ChunkIndex
    BY <1>1 DEF TypeOK
  <2> QED BY <1>3, <2>1, <2>2, EventValues
<1>8. CASE RecordedAll(p)
  BY <1>2, <1>3, <1>8, EventValues DEF RecordedAll
<1>9. CASE PlanAndAuthorize(p)
  BY <1>3, <1>9, EventValues DEF PlanAndAuthorize
<1>10. CASE AppendChunkBroadcast(p) \/ AppendChunkFailed(p)
  <2>1. next[p] \in ChunkIndex
    BY <1>1, <1>10, PlanMaps DEF AppendChunkBroadcast, AppendChunkFailed, ProcInv, Sending, TypeOK
  <2> QED BY <1>3, <1>10, <2>1, EventValues DEF AppendChunkBroadcast, AppendChunkFailed
<1>11. ASSUME NEW v \in StatusNodes, PollStatuses(p, v) PROVE QuietLog(p)
  BY <1>2, <1>11 DEF PollStatuses
<1>12. ASSUME NEW h \in 0..confirmed, PollHeight(p, h) PROVE QuietLog(p)
  BY <1>2, <1>12 DEF PollHeight
<1>13. CASE Drain(p)
  <2>1. PICK c \in DOMAIN polled[p] : \/ UNCHANGED journal
                                      \/ Log(p, ChunkEvent("ChunkConfirmed", c))
                                      \/ Log(p, ChunkEvent("ChunkFailed", c))
    BY <1>13 DEF Drain
  <2>2. c \in ChunkIndex
    BY SMTT(30), <1>1 DEF TypeOK, Polls, ChunkMaps
  <2> QED BY <1>2, <1>3, <2>1, <2>2, EventValues
<1>14. CASE AppendRunCompleted(p) \/ AppendRunInterrupted(p)
  BY <1>1, <1>3, <1>14, EventValues DEF AppendRunCompleted, AppendRunInterrupted
<1> QED BY <1>4, <1>5, <1>6, <1>7, <1>8, <1>9, <1>10, <1>11, <1>12, <1>13, <1>14
        DEF ProcAction, ProcStep

(* Where a step leads: a command that is past RunCreated, or past its       *)
(* authorization, was so before, or this step is the one that logs it.      *)
LEMMA ProcPath ==
  ASSUME IInv, NEW p \in Procs, ProcAction(p),
         \A j \in Journals : ~StartFresh(p, j) /\ ~(MayResume(j) /\ OpenExisting(p, j))
  PROVE  /\ jn' = jn /\ pc[p] # "idle"
         /\ Working(p)' => Working(p) \/ Log(p, RunEvent("RunCreated"))
         /\ pc'[p] \in Executing => pc[p] \in Executing \/ Log(p, RunEvent("AuthorizationGranted"))
<1> DEFINE Goal == /\ jn' = jn /\ pc[p] # "idle"
                   /\ Working(p)' => Working(p) \/ Log(p, RunEvent("RunCreated"))
                   /\ pc'[p] \in Executing =>
                        pc[p] \in Executing \/ Log(p, RunEvent("AuthorizationGranted"))
<1>1. pc \in [Procs -> Labels]
  BY DEF IInv, TypeOK
<1>2. ASSUME Exit(p), pc[p] # "idle" PROVE Goal
  BY <1>1, <1>2 DEF Exit, Goto, Working, Executing, Sending
<1>3. CASE CreateNew(p)
  BY <1>1, <1>2, <1>3 DEF CreateNew, Goto, Working, Executing, Sending
<1>4. CASE ReadTip(p) \/ RecordConfirmed(p)
  BY <1>1, <1>4 DEF ReadTip, RecordConfirmed, Goto, Working, Executing, Sending
<1>5. CASE PlanResume(p)
  BY <1>1, <1>2, <1>5 DEF PlanResume, Goto, Working, Executing, Sending
<1>6. CASE RecordedAll(p)
  BY <1>1, <1>2, <1>6 DEF RecordedAll, Goto, Working, Executing, Sending
<1>7. CASE PlanAndAuthorize(p)
  BY <1>1, <1>7 DEF PlanAndAuthorize, Goto, Working, Executing, Sending
<1>8. CASE SignChunk(p) \/ Send(p) \/ AppendChunkBroadcast(p) \/ AppendChunkFailed(p)
  BY <1>1, <1>8 DEF SignChunk, Send, AppendChunkBroadcast, AppendChunkFailed, Goto, Working,
                    Executing, Sending
<1>9. ASSUME NEW v \in StatusNodes, PollStatuses(p, v) PROVE Goal
  BY <1>1, <1>9 DEF PollStatuses, Goto, Working, Executing, Sending
<1>10. ASSUME NEW h \in 0..confirmed, PollHeight(p, h) PROVE Goal
  BY <1>1, <1>10 DEF PollHeight, Goto, Working, Executing, Sending
<1>11. CASE Drain(p)
  BY <1>1, <1>11 DEF Drain, Goto, Working, Executing, Sending
<1>12. CASE AppendRunCompleted(p) \/ AppendRunInterrupted(p) \/ Crash(p)
  BY <1>2, <1>12 DEF AppendRunCompleted, AppendRunInterrupted, Crash
<1> QED BY <1>3, <1>4, <1>5, <1>6, <1>7, <1>8, <1>9, <1>10, <1>11, <1>12 DEF ProcAction, ProcStep

(* Every step of one command at a time keeps SoleInv.                       *)
LEMMA StepKeepsSole ==
  ASSUME IInv, SequentialUse, SoleInv, [Next]_vars
  PROVE  SoleInv'
<1>1. TypeOK /\ (\A j \in Journals : JournalInv(j)) /\ (\A j \in Journals : journal[j] \in Seq(Event))
  BY DEF IInv, TypeOK, Logs
<1>2. CASE UNCHANGED vars \/ Cluster(LedgerNext)
  <2>1. UNCHANGED <<journal, pc, jn>>
    BY <1>2 DEF vars, procVars, Cluster
  <2> QED BY <2>1 DEF SoleInv, Unsigned, Working
<1>3. ASSUME NEW p \in Procs, ProcAction(p) PROVE SoleInv'
  <2>1. Procs = {p}
    BY DEF SequentialUse
  <2>2. \A j \in Journals : ~MatchingRun(journal[j]) => Unsigned(j)
    BY DEF SoleInv, MatchingRun, Unsigned, SignedEvents, Has
  <2>3. CASE QuietLog(p)
    <3>1. \A j \in Journals : Unsigned(j)' = Unsigned(j)
      BY <1>1, <2>3, QuietLogEffect DEF Unsigned
    <3>2. ASSUME NEW j \in Journals, NEW kind, Has(journal[j], kind) PROVE Has(journal'[j], kind)
      <4>1. CASE journal' = journal
        BY <3>2, <4>1
      <4>2. ASSUME NEW e \in Event, Log(p, e) PROVE Has(journal'[j], kind)
        <5>1. journal'[j] = IF j = jn[p] THEN Append(journal[j], e) ELSE journal[j]
          BY <1>1, <4>2 DEF Log, TypeOK
        <5>2. Has(Append(journal[j], e), kind)
          BY <1>1, <3>2, HasAppend
        <5> QED BY <3>2, <5>1, <5>2
      <4> QED BY <2>3, <4>1, <4>2 DEF QuietLog
    <3>3. ASSUME NEW kind \in {"RunCreated", "AuthorizationGranted"}, Log(p, RunEvent(kind))
          PROVE  Has(journal'[jn[p]], kind)
      <4>1. jn[p] \in Journals /\ journal'[jn[p]] = Append(journal[jn[p]], RunEvent(kind))
        BY <1>1, <3>3 DEF Log, TypeOK
      <4>2. RunEvent(kind) \in Event /\ RunEvent(kind).kind = kind
        BY EventValues
      <4> QED BY <1>1, <4>1, <4>2, HasAppend
    <3>4. ASSUME NEW j \in Journals, StartFresh(p, j) PROVE SoleInv'
      <4>1. pc'[p] = "create" /\ jn'[p] = j /\ ~RefuseExistingRuns(j) /\ UNCHANGED journal
        BY <1>1, <3>4 DEF StartFresh, Goto, TypeOK
      <4>2. \A k \in Journals : Unsigned(k)
        <5>1. \A k \in created : Unsigned(k)
          BY <1>1, <2>2, <4>1 DEF RefuseExistingRuns, SequentialUse, TypeOK
        <5>2. ASSUME NEW k \in Journals, k \notin created PROVE Unsigned(k)
          BY <1>1, <5>2, LogEvents DEF JournalInv, Unsigned
        <5> QED BY <5>1, <5>2
      <4>3. \A k \in Journals : Unsigned(k)'
        BY <3>1, <4>2
      <4>4. ~Working(p)' /\ pc'[p] \notin Executing
        BY <4>1 DEF Working, Executing, Sending
      <4> QED BY <2>1, <4>3, <4>4 DEF SoleInv
    <3>5. ASSUME NEW j \in Journals, MayResume(j), OpenExisting(p, j) PROVE SoleInv'
      <4>1. pc'[p] = "tip" /\ jn'[p] = j /\ UNCHANGED journal
        BY <1>1, <3>5 DEF OpenExisting, Goto, TypeOK
      <4>2. MatchingRun(journal[j])
        BY <3>5 DEF MayResume, SequentialUse
      <4>3. ~Unsigned(j) /\ Has(journal[j], "RunCreated")
        BY <4>2 DEF MatchingRun, Unsigned, SignedEvents, Has
      <4>4. \A k \in Journals \ {j} : Unsigned(k)'
        BY <3>1, <4>3 DEF SoleInv
      <4>5. pc'[p] \notin Executing /\ Has(journal'[j], "RunCreated")
        BY <4>1, <4>3 DEF Executing, Sending
      <4>6. \A k, l \in Journals : k # l => Unsigned(k)' \/ Unsigned(l)'
        BY <4>4
      <4>7. \A k \in Journals : ~Unsigned(k)' =>
              Has(journal'[k], "RunCreated") /\ Has(journal'[k], "AuthorizationGranted")
        BY <3>1, <3>2 DEF SoleInv
      <4> QED BY <2>1, <4>1, <4>4, <4>5, <4>6, <4>7 DEF SoleInv
    <3>6. CASE \A j \in Journals : ~StartFresh(p, j) /\ ~(MayResume(j) /\ OpenExisting(p, j))
      <4>1. /\ jn' = jn /\ pc[p] # "idle"
            /\ Working(p)' => Working(p) \/ Log(p, RunEvent("RunCreated"))
            /\ pc'[p] \in Executing =>
                 pc[p] \in Executing \/ Log(p, RunEvent("AuthorizationGranted"))
        BY <1>3, <3>6, ProcPath
      <4>2. jn[p] \in Journals
        BY <1>1 DEF TypeOK
      <4>3. Working(p)' => Has(journal'[jn'[p]], "RunCreated")
        BY <3>2, <3>3, <4>1, <4>2 DEF SoleInv
      <4>4. pc'[p] \in Executing => Has(journal'[jn'[p]], "AuthorizationGranted")
        BY <3>2, <3>3, <4>1, <4>2 DEF SoleInv
      <4>5. \A k \in Journals \ {jn'[p]} : Unsigned(k)'
        BY <3>1, <4>1 DEF SoleInv
      <4>6. \A k, l \in Journals : k # l => Unsigned(k)' \/ Unsigned(l)'
        BY <3>1 DEF SoleInv
      <4>7. \A k \in Journals : ~Unsigned(k)' =>
              Has(journal'[k], "RunCreated") /\ Has(journal'[k], "AuthorizationGranted")
        BY <3>1, <3>2 DEF SoleInv
      <4> QED BY <2>1, <4>3, <4>4, <4>5, <4>6, <4>7 DEF SoleInv
    <3> QED BY <3>4, <3>5, <3>6
  <2>4. CASE SignChunk(p)
    <3>1. PICK e : Log(p, e)
      BY <2>4 DEF SignChunk
    <3>2. jn[p] \in Journals /\ jn' = jn /\ pc[p] = "next" /\ pc'[p] = "send"
      BY <1>1, <2>4 DEF SignChunk, Goto, TypeOK
    <3>3. \A k \in Journals \ {jn[p]} : journal'[k] = journal[k]
      BY <1>1, <3>1 DEF Log, TypeOK
    <3>4. Has(journal[jn[p]], "RunCreated") /\ Has(journal[jn[p]], "AuthorizationGranted")
      BY <3>2 DEF SoleInv, Working, Executing
    <3>5. Has(journal'[jn[p]], "RunCreated") /\ Has(journal'[jn[p]], "AuthorizationGranted")
      <4>1. next[p] \in ChunkIndex /\ plan[p][next[p]] \in SUBSET Rows
        BY SMTT(30), <1>1, <2>4 DEF SignChunk, AllSigned, TypeOK, Plans, ChunkMaps
      <4>2. PICK n \in RecentExpiries : Log(p, SignedEvent(next[p], plan[p][next[p]], n))
        BY <2>4 DEF SignChunk
      <4>3. n \in Nat
        BY Numbers
      <4>4. SignedEvent(next[p], plan[p][next[p]], n) \in Event
        BY <4>1, <4>3, EventValues
      <4>5. journal'[jn[p]] = Append(journal[jn[p]], SignedEvent(next[p], plan[p][next[p]], n))
        BY <1>1, <3>2, <4>2 DEF Log, TypeOK
      <4> QED BY <1>1, <3>2, <3>4, <4>4, <4>5, HasAppend
    <3>6. \A k \in Journals \ {jn[p]} : Unsigned(k)'
      BY <3>2, <3>3 DEF SoleInv, Unsigned
    <3>7. \A k \in Journals : ~Unsigned(k)' =>
              Has(journal'[k], "RunCreated") /\ Has(journal'[k], "AuthorizationGranted")
      BY <3>5, <3>6
    <3>8. \A k, l \in Journals : k # l => Unsigned(k)' \/ Unsigned(l)'
      BY <3>6
    <3> QED BY <2>1, <3>2, <3>5, <3>6, <3>7, <3>8 DEF SoleInv
  <2> QED BY <1>3, <2>3, <2>4, ProcLog
<1> QED BY <1>2, <1>3 DEF Next

(* Under sequential use, everything signed is in one journal.               *)
THEOREM SoleInvHolds ==
  ASSUME SequentialUse
  PROVE  Spec => []SoleInv
<1>1. Init => SoleInv
  <2> SUFFICES ASSUME Init PROVE SoleInv
    OBVIOUS
  <2>1. \A j \in Journals : Unsigned(j)
    BY LogEvents DEF Init, Unsigned
  <2>2. \A p \in Procs : pc[p] = "idle"
    BY DEF Init
  <2> QED BY <2>1, <2>2 DEF SoleInv, Working, Executing, Sending
<1>2. IInv /\ SoleInv /\ [Next]_vars => SoleInv'
  BY StepKeepsSole
<1> QED BY <1>1, <1>2, IInvHolds, PTL DEF Spec

(* Run one at a time, the command pays no row of a CSV twice, over all       *)
(* journals, crashes, resumes and reruns (refuse_existing_runs).             *)
THEOREM RowOnce == Spec => []RowPaidOnce
<1>1. CASE SequentialUse
  <2>1. JournalPaysOnce /\ SoleInv => RowPaidOnce
    <3> SUFFICES ASSUME JournalPaysOnce, SoleInv,
                        NEW j \in Journals, NEW k \in Journals,
                        NEW e \in SignedEvents(journal[j]), NEW f \in SignedEvents(journal[k]),
                        <<j, e.chunk>> # <<k, f.chunk>>, e.rows \cap f.rows # {}
                 PROVE  ~(Landed(<<j, e.chunk>>) /\ Landed(<<k, f.chunk>>))
      BY DEF RowPaidOnce
    <3>1. j = k
      BY DEF SoleInv, Unsigned
    <3> QED BY <3>1 DEF JournalPaysOnce
  <2> QED BY <1>1, <2>1, SoleInvHolds, PaysOnce, PTL
<1>2. CASE ~SequentialUse
  <2>1. RowPaidOnce
    BY <1>2 DEF RowPaidOnce
  <2> QED BY <2>1, PTL
<1> QED BY <1>1, <1>2

-----------------------------------------------------------------------------
(* The accounts of a run.                                                   *)

(* t has landed in a confirmed block.                                       *)
Paid(t) == Landed(t) /\ block[t] <= confirmed

(* j records the payment of r.                                              *)
Covered(j, r) ==
  \E e \in SignedEvents(journal[j]) : r \in e.rows /\ RecordedConfirmed(journal[j], e.chunk)

(* r is of a chunk that a resume found confirmed and has yet to record.     *)
Held(p, r) == \E e \in SignedEvents(journal[jn[p]]) : e.chunk \in record[p] /\ r \in e.rows

(* What a journal says has happened.                                        *)
JournalPaid(j) ==
  /\ \A e \in Range(journal[j]) : e.kind = "ChunkConfirmed" => Paid(<<j, e.chunk>>)
  /\ Finished(journal[j]) => \A r \in Rows : Covered(j, r)

(* A row of an execution is recorded, yet to be signed, or in flight, unless *)
(* some chunk failed.                                                       *)
Accounted(p, r) ==
  \/ Covered(jn[p], r)
  \/ \E c \in DOMAIN plan[p] : c >= next[p] /\ r \in plan[p][c]
  \/ \E e \in SignedEvents(journal[jn[p]]) : e.chunk \in inFlight[p] /\ r \in e.rows

(* The chunks that are left follow each other.                              *)
Contiguous(p) ==
  \A c \in DOMAIN plan[p] : \A d \in next[p]..c : d \in DOMAIN plan[p]

(* What a process knows is so: rows it dropped are recorded or about to be, *)
(* confirmed chunks are paid, and its accounts are complete.                *)
AccountInv(p) ==
  /\ pc[p] \in {"record", "plan"} => \A r \in Rows :
       r \in remaining[p] \/ Covered(jn[p], r) \/ (pc[p] = "record" /\ Held(p, r))
  /\ pc[p] = "record" => \A c \in record[p] : Paid(<<jn[p], c>>)
  /\ pc[p] \in Executing => Contiguous(p) /\ (failures[p] = 0 => \A r \in Rows : Accounted(p, r))
  /\ pc[p] \in Sending => \E e \in SignedEvents(journal[jn[p]]) :
                            e.chunk = next[p] /\ e.rows = plan[p][next[p]]
  /\ pc[p] \in {"poll", "drain"} => \A c \in DOMAIN polled[p] :
                                      polled[p][c] = "Confirmed" => Paid(<<jn[p], c>>)

PaidInv == (\A j \in Journals : JournalPaid(j)) /\ (\A p \in Procs : AccountInv(p))
-----------------------------------------------------------------------------
(* What the cluster answers, and keeps.                                     *)

(* A payment in a confirmed block stays.                                    *)
LEMMA PaidStays ==
  ASSUME ConfirmedIsFinal, LedgerInv, LedgerNext, NEW t \in Tx, Paid(t)
  PROVE  Paid(t)'
<1> USE LedgerAssumption DEF LedgerInv, LedgerTypeOK, Paid, Landed
<1>1. CASE NewBlock
  BY <1>1 DEF NewBlock
<1>2. CASE Confirm
  BY SMTT(30), <1>2 DEF Confirm
<1>3. CASE Finalize
  BY <1>3 DEF Finalize
<1>4. ASSUME NEW u \in Tx, NEW succeeds \in BOOLEAN, Include(u, succeeds)
      PROVE  Paid(t)'
  BY <1>4 DEF Include
<1>5. ASSUME NEW h \in 0..MaxHeight, Fork(h)
      PROVE  Paid(t)'
  BY SMTT(30), <1>5 DEF Fork
<1> QED BY <1>1, <1>2, <1>3, <1>4, <1>5 DEF LedgerNext

(* A status entry without an error, at confirmed commitment or above, is of *)
(* a payment in a confirmed block.                                          *)
LEMMA EntryIsPaid ==
  ASSUME LedgerInv, NEW t \in Tx, NEW v,
         RpcEntry(t, v).found, ~RpcEntry(t, v).err,
         RpcEntry(t, v).commitment \in {"confirmed", "finalized"}
  PROVE  Paid(t)
<1>1. block[t] # 0 /\ t \notin failed
  BY DEF RpcEntry
<1>2. block[t] <= final \/ block[t] <= confirmed
  BY DEF RpcEntry
<1> QED BY SMTT(30), <1>1, <1>2 DEF Paid, Landed, LedgerInv, LedgerTypeOK

(* poll_pending's Confirmed is of a payment in a confirmed block.           *)
LEMMA PolledIsPaid ==
  ASSUME LedgerInv, NEW t \in Tx, NEW v, PollEntry(t, v) = "Confirmed"
  PROVE  Paid(t)
<1>1. /\ RpcEntry(t, v).found /\ ~RpcEntry(t, v).err
      /\ RpcEntry(t, v).commitment \in {"confirmed", "finalized"}
  BY DEF PollEntry, RpcEntry
<1> QED BY <1>1, EntryIsPaid

(* So is confirm_not_landed's.                                              *)
LEMMA ConfirmedIsPaid ==
  ASSUME LedgerInv, NEW t \in Tx, NEW lastValid, NEW readTip, NEW v,
         ConfirmNotLanded(t, lastValid, readTip, v) = "Confirmed"
  PROVE  Paid(t)
<1>1. SignatureStatusFromRpc(RpcEntry(t, v)) = "Confirmed"
  BY DEF ConfirmNotLanded, Classify
<1>2. /\ RpcEntry(t, v).found /\ ~RpcEntry(t, v).err
      /\ RpcEntry(t, v).commitment \in {"confirmed", "finalized"}
  BY <1>1 DEF SignatureStatusFromRpc, RpcEntry
<1> QED BY <1>2, EntryIsPaid

-----------------------------------------------------------------------------
(* Steps.                                                                   *)

(* What is signed, recorded and paid only grows.                            *)
Grows ==
  /\ \A j \in Journals : SignedEvents(journal[j]) \subseteq SignedEvents(journal'[j])
  /\ \A j \in Journals : \A e \in SignedEvents(journal[j]) :
       RecordedConfirmed(journal[j], e.chunk) => RecordedConfirmed(journal'[j], e.chunk)
  /\ \A t \in Tx : Paid(t) => Paid(t)'

(* What p may append: confirmations that are true, and a clean completion   *)
(* when every row is recorded.                                              *)
TrueLog(p) ==
  \/ journal' = journal
  \/ \E e \in Event : /\ Log(p, e)
                      /\ e.kind = "ChunkConfirmed" => Paid(<<jn[p], e.chunk>>)
                      /\ e = CompletedEvent(0) => \A r \in Rows : Covered(jn[p], r)

(* The chunks that the state speaks of are transactions.                    *)
LEMMA ChunkTx ==
  ASSUME TypeOK, NEW j \in Journals, NEW c \in ChunkIndex
  PROVE  <<j, c>> \in Tx
BY FanoutAssumption

(* A covered row stays covered.                                             *)
LEMMA CoveredStays ==
  ASSUME TypeOK, Grows, NEW j \in Journals, NEW r, Covered(j, r)
  PROVE  Covered(j, r)'
BY DEF Covered, Grows

(* A chunk event names a chunk.                                             *)
LEMMA ConfirmedChunk ==
  ASSUME NEW e \in Event, e.kind = "ChunkConfirmed"
  PROVE  e.chunk \in ChunkIndex
BY DEF Event

(* What an append adds can be told from the result.                         *)
LEMMA LastAppended ==
  ASSUME NEW log \in Seq(Event), NEW d, NEW e, Append(log, d) = Append(log, e)
  PROVE  d = e
<1> DEFINE longer == Append(log, e)
<1>1. Extended(log, d, longer) /\ Extended(log, e, longer)
  BY AppendShape
<1> HIDE DEF longer
<1> QED BY <1>1 DEF Extended

(* An append changes the log.                                               *)
LEMMA LongerLog ==
  ASSUME NEW log \in Seq(Event), NEW e
  PROVE  Append(log, e) # log
<1> DEFINE longer == Append(log, e)
<1>1. Extended(log, e, longer)
  BY AppendShape
<1>2. longer # log
  <2> HIDE DEF longer
  <2> QED BY <1>1 DEF Extended
<1> QED BY <1>2

(* A recorded confirmation stays recorded unless its chunk is signed again. *)
LEMMA RecordedAppend ==
  ASSUME NEW log \in Seq(Event), NEW e \in Event, NEW c, RecordedConfirmed(log, c),
         e.kind = "ChunkSigned" => e.chunk # c
  PROVE  RecordedConfirmed(Append(log, e), c)
<1> DEFINE longer == Append(log, e)
<1>1. Extended(log, e, longer)
  BY AppendShape
<1> HIDE DEF longer
<1>2. PICK i \in DOMAIN log :
        /\ log[i] = ChunkEvent("ChunkConfirmed", c)
        /\ \A k \in DOMAIN log : k > i => ~(log[k].kind = "ChunkSigned" /\ log[k].chunk = c)
  BY DEF RecordedConfirmed
<1>3. \A k \in DOMAIN longer : k > i => ~(longer[k].kind = "ChunkSigned" /\ longer[k].chunk = c)
  BY <1>1, <1>2 DEF Extended
<1>4. i \in DOMAIN longer /\ longer[i] = log[i]
  BY <1>1 DEF Extended
<1> QED BY <1>2, <1>3, <1>4 DEF RecordedConfirmed, longer

(* The confirmation that was just appended is recorded.                     *)
LEMMA ConfirmedAppend ==
  ASSUME NEW log \in Seq(Event), NEW c
  PROVE  RecordedConfirmed(Append(log, ChunkEvent("ChunkConfirmed", c)), c)
<1> DEFINE e == ChunkEvent("ChunkConfirmed", c)
           longer == Append(log, e)
<1>1. Extended(log, e, longer)
  BY AppendShape
<1> HIDE DEF longer
<1>2. RecordedConfirmed(longer, c)
  BY <1>1 DEF Extended, RecordedConfirmed
<1> QED BY <1>2 DEF longer

(* So it is in the journal of the process that appended it.                 *)
LEMMA ConfirmationRecorded ==
  ASSUME TypeOK, NEW p \in Procs, NEW c, Log(p, ChunkEvent("ChunkConfirmed", c))
  PROVE  RecordedConfirmed(journal'[jn[p]], c)
<1>1. jn[p] \in Journals /\ journal[jn[p]] \in Seq(Event)
  BY DEF TypeOK, Logs
<1>2. journal'[jn[p]] = Append(journal[jn[p]], ChunkEvent("ChunkConfirmed", c))
  BY <1>1 DEF Log, TypeOK
<1> QED BY <1>1, <1>2, ConfirmedAppend

(* Only a confirmation records one.                                         *)
LEMMA RecordedBefore ==
  ASSUME NEW log \in Seq(Event), NEW e \in Event, NEW c, RecordedConfirmed(Append(log, e), c),
         e # ChunkEvent("ChunkConfirmed", c)
  PROVE  RecordedConfirmed(log, c)
<1> DEFINE longer == Append(log, e)
<1>1. Extended(log, e, longer)
  BY AppendShape
<1>2. PICK i \in DOMAIN longer :
        /\ longer[i] = ChunkEvent("ChunkConfirmed", c)
        /\ \A k \in DOMAIN longer : k > i =>
             ~(longer[k].kind = "ChunkSigned" /\ longer[k].chunk = c)
  BY DEF RecordedConfirmed
<1> HIDE DEF longer
<1>3. i \in DOMAIN log /\ log[i] = longer[i]
  BY <1>1, <1>2 DEF Extended
<1>4. \A k \in DOMAIN log : k \in DOMAIN longer /\ longer[k] = log[k]
  BY <1>1 DEF Extended
<1> QED BY <1>2, <1>3, <1>4 DEF RecordedConfirmed

(* A completion is not undone, and comes from the code that appends it.     *)
LEMMA FinishedAppend ==
  ASSUME NEW log \in Seq(Event), NEW e \in Event, Finished(Append(log, e))
  PROVE  e = CompletedEvent(0) \/ Finished(log)
<1> DEFINE longer == Append(log, e)
<1>1. Extended(log, e, longer)
  BY AppendShape
<1>2. PICK i \in DOMAIN longer :
        /\ longer[i] = CompletedEvent(0)
        /\ \A k \in DOMAIN longer : k > i =>
             longer[k].kind \notin {"ChunkSigned", "RunCompleted", "RunInterrupted"}
  BY DEF Finished
<1> HIDE DEF longer
<1>3. \A k \in DOMAIN log : k \in DOMAIN longer /\ longer[k] = log[k]
  BY <1>1 DEF Extended
<1>4. i \in DOMAIN log \/ e = CompletedEvent(0)
  BY <1>1, <1>2 DEF Extended
<1> QED BY <1>2, <1>3, <1>4 DEF Finished

(* What is recorded is paid.                                                *)
LEMMA CoveredIsPaid ==
  ASSUME NEW j \in Journals, JournalPaid(j), NEW r, Covered(j, r)
  PROVE  \E e \in SignedEvents(journal[j]) : r \in e.rows /\ Paid(<<j, e.chunk>>)
<1>1. PICK e \in SignedEvents(journal[j]) : r \in e.rows /\ RecordedConfirmed(journal[j], e.chunk)
  BY DEF Covered
<1>2. ChunkEvent("ChunkConfirmed", e.chunk) \in Range(journal[j])
  BY <1>1 DEF RecordedConfirmed, Range
<1>3. /\ ChunkEvent("ChunkConfirmed", e.chunk).kind = "ChunkConfirmed"
      /\ ChunkEvent("ChunkConfirmed", e.chunk).chunk = e.chunk
  BY DEF ChunkEvent
<1> QED BY <1>1, <1>2, <1>3 DEF JournalPaid

(* Appends of true events keep the journals true.                           *)
LEMMA JournalsStayPaid ==
  ASSUME TypeOK, \A j \in Journals : JournalPaid(j), Grows, NEW p \in Procs, TrueLog(p)
  PROVE  \A j \in Journals : JournalPaid(j)'
<1> SUFFICES ASSUME NEW j \in Journals PROVE JournalPaid(j)'
  OBVIOUS
<1>1. JournalPaid(j) /\ journal[j] \in Seq(Event) /\ jn[p] \in Journals
  BY DEF TypeOK, Logs
<1>2. \A r : Covered(j, r) => Covered(j, r)'
  BY CoveredStays
<1>3. ASSUME NEW e \in Event, e.kind = "ChunkConfirmed", Paid(<<j, e.chunk>>)
      PROVE  Paid(<<j, e.chunk>>)'
  BY <1>3, ConfirmedChunk, ChunkTx DEF Grows
<1>4. CASE journal'[j] = journal[j]
  <2>1. \A e \in Range(journal[j]) : e \in Event
    BY <1>1, LogEvents
  <2> QED BY <1>1, <1>2, <1>3, <1>4, <2>1 DEF JournalPaid
<1>5. CASE journal'[j] # journal[j]
  <2>1. PICK e \in Event : /\ Log(p, e)
                           /\ e.kind = "ChunkConfirmed" => Paid(<<jn[p], e.chunk>>)
                           /\ e = CompletedEvent(0) => \A r \in Rows : Covered(jn[p], r)
    BY <1>5 DEF TrueLog
  <2>2. j = jn[p] /\ journal'[j] = Append(journal[j], e)
    BY <1>1, <1>5, <2>1 DEF Log, TypeOK
  <2>3. Range(Append(journal[j], e)) = Range(journal[j]) \cup {e}
    BY <1>1, AppendRange
  <2>4. \A f \in Range(journal'[j]) : f.kind = "ChunkConfirmed" => Paid(<<j, f.chunk>>)'
    <3>1. \A f \in Range(journal[j]) : f \in Event
      BY <1>1, LogEvents
    <3> QED BY <1>1, <1>3, <2>1, <2>2, <2>3, <3>1 DEF JournalPaid
  <2>5. ASSUME Finished(journal'[j]) PROVE \A r \in Rows : Covered(j, r)'
    <3>1. e = CompletedEvent(0) \/ Finished(journal[j])
      BY <1>1, <2>2, <2>5, FinishedAppend
    <3>2. \A r \in Rows : Covered(j, r)
      BY <1>1, <2>1, <2>2, <3>1 DEF JournalPaid
    <3> QED BY <1>2, <3>2
  <2> QED BY <2>4, <2>5 DEF JournalPaid
<1> QED BY <1>4, <1>5

(* A process that does not move keeps its accounts.                         *)
LEMMA AccountsStay ==
  ASSUME TypeOK, Grows, NEW q \in Procs, AccountInv(q),
         pc'[q] = pc[q], jn'[q] = jn[q], remaining'[q] = remaining[q], record'[q] = record[q],
         plan'[q] = plan[q], next'[q] = next[q], inFlight'[q] = inFlight[q],
         polled'[q] = polled[q], failures'[q] = failures[q]
  PROVE  AccountInv(q)'
<1>1. PICK j \in Journals : j = jn[q] /\ j = jn'[q]
  BY DEF TypeOK
<1>2. record[q] \subseteq ChunkIndex /\ DOMAIN polled[q] \subseteq ChunkIndex
  <2>1. record[q] \subseteq ChunkIndex /\ polled[q] \in Polls
    BY DEF TypeOK
  <2> QED BY <2>1, PollMaps
<1>3. \A r : Covered(j, r) => Covered(j, r)'
  BY CoveredStays
<1>4. \A c \in ChunkIndex : Paid(<<j, c>>) => Paid(<<j, c>>)'
  BY ChunkTx DEF Grows
<1>5. SignedEvents(journal[j]) \subseteq SignedEvents(journal'[j])
  BY DEF Grows
<1>6. Contiguous(q) => Contiguous(q)'
  BY DEF Contiguous
<1>7. \A r : Accounted(q, r) => Accounted(q, r)'
  <2>1. \A r : Covered(jn[q], r) => Covered(jn[q], r)'
    BY <1>1, <1>3 DEF Covered
  <2> QED BY <1>1, <1>5, <2>1 DEF Accounted
<1>8. /\ pc[q] \in {"record", "plan"} => \A r \in Rows :
           r \in remaining[q] \/ Covered(j, r)' \/ (pc[q] = "record" /\ Held(q, r)')
      /\ pc[q] = "record" => \A c \in record[q] : Paid(<<j, c>>)'
  <2>1. \A r : Held(q, r) => Held(q, r)'
    BY <1>1, <1>5 DEF Held
  <2> QED BY <1>1, <1>2, <1>3, <1>4, <2>1 DEF AccountInv
<1>9. pc[q] \in Executing => Contiguous(q)' /\ (failures[q] = 0 => \A r \in Rows : Accounted(q, r)')
  BY <1>6, <1>7 DEF AccountInv
<1>10. pc[q] \in Sending => \E e \in SignedEvents(journal'[j]) :
                              e.chunk = next[q] /\ e.rows = plan[q][next[q]]
  BY <1>1, <1>5 DEF AccountInv
<1>11. pc[q] \in {"poll", "drain"} => \A c \in DOMAIN polled[q] :
                                        polled[q][c] = "Confirmed" => Paid(<<j, c>>)'
  BY <1>1, <1>2, <1>4 DEF AccountInv
<1> QED BY <1>1, <1>8, <1>9, <1>10, <1>11 DEF AccountInv, Covered, Paid, Landed, Executing, Sending

(* The chain and the accounts of the others are as they were.               *)
AccountsKept(p) ==
  /\ UNCHANGED <<block, failed, confirmed>>
  /\ \A q \in Procs \ {p} : /\ record'[q] = record[q] /\ inFlight'[q] = inFlight[q]
                            /\ polled'[q] = polled[q] /\ failures'[q] = failures[q]

(* A step of p keeps both.                                                  *)
LEMMA AccountFootprint ==
  ASSUME IInv, NEW p \in Procs, ProcAction(p)
  PROVE  AccountsKept(p)
<1>1. TypeOK
  BY DEF IInv
<1>2. ASSUME Exit(p), UNCHANGED ledgerVars PROVE AccountsKept(p)
  BY <1>1, <1>2 DEF Exit, TypeOK, ledgerVars, AccountsKept
<1>3. ASSUME UNCHANGED <<ledgerVars, record, inFlight, polled, failures>> PROVE AccountsKept(p)
  BY <1>3 DEF ledgerVars, AccountsKept
<1>4. ASSUME NEW j \in Journals, StartFresh(p, j) \/ OpenExisting(p, j) PROVE AccountsKept(p)
  BY <1>3, <1>4 DEF StartFresh, OpenExisting
<1>5. CASE CreateNew(p)
  BY <1>2, <1>3, <1>5 DEF CreateNew
<1>6. CASE PlanResume(p)
  <2>1. ASSUME NEW v \in StatusNodes, Resumes(p, v) PROVE AccountsKept(p)
    BY ZenonT(30), <1>1, <1>6, <2>1 DEF PlanResume, Resumes, TypeOK, ledgerVars, AccountsKept
  <2> QED BY <1>2, <1>6, <2>1, PlanResumeEffect DEF PlanResume
<1>7. CASE RecordedAll(p)
  BY <1>2, <1>3, <1>7 DEF RecordedAll
<1>8. CASE ReadTip(p) \/ PlanAndAuthorize(p)
  BY <1>3, <1>8 DEF ReadTip, PlanAndAuthorize
<1>9. CASE RecordConfirmed(p)
  BY <1>1, <1>9 DEF RecordConfirmed, TypeOK, ledgerVars, AccountsKept
<1>10. CASE SignChunk(p)
  BY <1>10 DEF SignChunk, SignTx, AccountsKept
<1>11. CASE Send(p)
  BY <1>11 DEF Send, SendTx, AccountsKept
<1>12. CASE AppendChunkBroadcast(p)
  BY <1>1, <1>12 DEF AppendChunkBroadcast, TypeOK, ledgerVars, AccountsKept
<1>13. CASE AppendChunkFailed(p)
  BY <1>1, <1>13 DEF AppendChunkFailed, TypeOK, ledgerVars, AccountsKept
<1>14. ASSUME NEW v \in StatusNodes, PollStatuses(p, v) PROVE AccountsKept(p)
  BY <1>1, <1>14 DEF PollStatuses, TypeOK, ledgerVars, AccountsKept
<1>15. ASSUME NEW h \in 0..confirmed, PollHeight(p, h) PROVE AccountsKept(p)
  BY <1>1, <1>15 DEF PollHeight, TypeOK, ledgerVars, AccountsKept
<1>16. CASE Drain(p)
  BY SMTT(30), <1>1, <1>16 DEF Drain, TypeOK, ledgerVars, AccountsKept
<1>17. CASE AppendRunCompleted(p) \/ AppendRunInterrupted(p) \/ Crash(p)
  BY <1>2, <1>17 DEF AppendRunCompleted, AppendRunInterrupted, Crash
<1> QED BY <1>4, <1>5, <1>6, <1>7, <1>8, <1>9, <1>10, <1>11, <1>12, <1>13, <1>14, <1>15, <1>16, <1>17
        DEF ProcAction, ProcStep

(* A chunk that is signed was not signed before.                            *)
LEMMA SignsAnew ==
  ASSUME IInv, NEW p \in Procs, ProcAction(p), NEW e \in Event, Log(p, e), e.kind = "ChunkSigned",
         NEW f \in SignedEvents(journal[jn[p]])
  PROVE  e.chunk # f.chunk
<1>1. /\ TypeOK /\ ProcInv(p) /\ jn[p] \in Journals /\ journal[jn[p]] \in Seq(Event)
      /\ next[p] \in Nat
  BY DEF IInv, TypeOK, Logs
<1>2. journal'[jn[p]] = Append(journal[jn[p]], e) /\ DOMAIN journal = Journals
  BY <1>1 DEF Log, TypeOK
<1>3. CASE SignChunk(p)
  <2>1. PICK n : Log(p, SignedEvent(next[p], plan[p][next[p]], n))
    BY <1>3 DEF SignChunk
  <2>2. journal'[jn[p]] = Append(journal[jn[p]], SignedEvent(next[p], plan[p][next[p]], n))
    BY <1>1, <2>1 DEF Log, TypeOK
  <2>3. e = SignedEvent(next[p], plan[p][next[p]], n)
    BY <1>1, <1>2, <2>2, LastAppended
  <2>4. e.chunk = next[p]
    BY <2>3 DEF SignedEvent
  <2>5. f.chunk < next[p]
    BY <1>1, <1>3 DEF ProcInv, SignChunk, Executing, Sending
  <2> QED BY SMT, <1>1, <2>4, <2>5
<1>4. CASE ~SignChunk(p)
  <2>1. QuietLog(p)
    BY <1>4, ProcLog
  <2>2. journal' # journal
    BY <1>1, <1>2, LongerLog
  <2>3. PICK d \in Event : d.kind # "ChunkSigned" /\ Log(p, d)
    BY <2>1, <2>2 DEF QuietLog
  <2>4. journal'[jn[p]] = Append(journal[jn[p]], d)
    BY <1>1, <2>3 DEF Log, TypeOK
  <2>5. e = d
    BY <1>1, <1>2, <2>4, LastAppended
  <2> QED BY <2>3, <2>5
<1> QED BY <1>3, <1>4

(* What p appends, and when.                                                *)
Appends(p) ==
  \/ journal' = journal
  \/ \E e \in Event : /\ Log(p, e)
                      /\ Working(p) \/ jn[p] \notin created
                      /\ \/ e = CompletedEvent(0)
                         \/ e.kind \in {"RunCreated", "AuthorizationGranted", "ChunkConfirmed"}
                         \/ pc[p] \in Executing

(* Signing appends a ChunkSigned event.                                     *)
LEMMA SignChunkAppends ==
  ASSUME TypeOK, NEW p \in Procs, SignChunk(p)
  PROVE  \E e \in Event : Log(p, e) /\ e.kind = "ChunkSigned"
<1>1. PICK n \in RecentExpiries : Log(p, SignedEvent(next[p], plan[p][next[p]], n))
  BY DEF SignChunk
<1>2. next[p] \in ChunkIndex /\ plan[p][next[p]] \in SUBSET Rows
  BY PlanMaps DEF SignChunk, AllSigned, TypeOK
<1>3. n \in Nat
  BY Numbers
<1>4. SignedEvent(next[p], plan[p][next[p]], n).kind = "ChunkSigned"
  BY DEF SignedEvent
<1> QED BY <1>1, <1>2, <1>3, <1>4, EventValues

(* A step appends one event or none; one that reopens a run is of the       *)
(* executor.                                                                *)
LEMMA ProcAppends ==
  ASSUME IInv, NEW p \in Procs, ProcAction(p)
  PROVE  Appends(p)
<1>1. TypeOK /\ next[p] \in Nat /\ failures[p] \in Nat /\ ProcInv(p)
  BY DEF IInv, TypeOK
<1>2. ASSUME UNCHANGED journal PROVE Appends(p)
  BY <1>2 DEF Appends
<1>3. ASSUME NEW e \in Event, Log(p, e), pc[p] \in Executing PROVE Appends(p)
  BY <1>3 DEF Appends, Working, Executing, Sending
<1>4. ASSUME NEW e \in Event, Log(p, e), Working(p) \/ jn[p] \notin created,
             e = CompletedEvent(0) \/ e.kind \in {"RunCreated", "AuthorizationGranted", "ChunkConfirmed"}
      PROVE  Appends(p)
  BY <1>4 DEF Appends
<1>5. ASSUME NEW j \in Journals, StartFresh(p, j) \/ OpenExisting(p, j) PROVE Appends(p)
  BY <1>2, <1>5 DEF StartFresh, OpenExisting
<1>6. CASE CreateNew(p)
  BY <1>2, <1>4, <1>6, EventValues DEF CreateNew
<1>7. CASE ReadTip(p) \/ PlanResume(p) \/ Send(p) \/ Crash(p)
  BY <1>2, <1>7 DEF ReadTip, PlanResume, Send, Crash
<1>8. CASE RecordConfirmed(p)
  <2>1. PICK c \in record[p] : Log(p, ChunkEvent("ChunkConfirmed", c))
    BY <1>8 DEF RecordConfirmed
  <2>2. c \in ChunkIndex /\ Working(p)
    BY <1>1, <1>8 DEF TypeOK, RecordConfirmed, Working
  <2> QED BY <1>4, <2>1, <2>2, EventValues
<1>9. CASE RecordedAll(p)
  BY <1>2, <1>4, <1>9, EventValues DEF RecordedAll, Working
<1>10. CASE PlanAndAuthorize(p)
  BY <1>4, <1>10, EventValues DEF PlanAndAuthorize, Working
<1>11. CASE SignChunk(p)
  <2>1. pc[p] \in Executing
    BY <1>11 DEF SignChunk, Executing
  <2> QED BY <1>1, <1>3, <1>11, <2>1, SignChunkAppends
<1>12. CASE AppendChunkBroadcast(p) \/ AppendChunkFailed(p)
  <2>1. next[p] \in ChunkIndex /\ pc[p] \in Executing
    BY <1>1, <1>12, PlanMaps DEF AppendChunkBroadcast, AppendChunkFailed, ProcInv, Executing,
                                 Sending, TypeOK
  <2> QED BY <1>3, <1>12, <2>1, EventValues DEF AppendChunkBroadcast, AppendChunkFailed
<1>13. ASSUME NEW v \in StatusNodes, PollStatuses(p, v) PROVE Appends(p)
  BY <1>2, <1>13 DEF PollStatuses
<1>14. ASSUME NEW h \in 0..confirmed, PollHeight(p, h) PROVE Appends(p)
  BY <1>2, <1>14 DEF PollHeight
<1>15. CASE Drain(p)
  <2>1. PICK c \in DOMAIN polled[p] : \/ UNCHANGED journal
                                      \/ Log(p, ChunkEvent("ChunkConfirmed", c))
                                      \/ Log(p, ChunkEvent("ChunkFailed", c))
    BY <1>15 DEF Drain
  <2>2. c \in ChunkIndex /\ pc[p] \in Executing
    BY <1>1, <1>15, PollMaps DEF TypeOK, Drain, Executing
  <2> QED BY <1>2, <1>3, <2>1, <2>2, EventValues
<1>16. CASE AppendRunCompleted(p) \/ AppendRunInterrupted(p)
  <2>1. pc[p] \in Executing
    BY <1>16 DEF AppendRunCompleted, AppendRunInterrupted, Executing, Sending
  <2> QED BY <1>1, <1>3, <1>16, <2>1, EventValues DEF AppendRunCompleted, AppendRunInterrupted
<1> QED BY <1>5, <1>6, <1>7, <1>8, <1>9, <1>10, <1>11, <1>12, <1>13, <1>14, <1>15, <1>16
        DEF ProcAction, ProcStep

(* What is signed, recorded and paid grows with every step of a process.    *)
LEMMA ProcGrows ==
  ASSUME IInv, NEW p \in Procs, ProcAction(p)
  PROVE  Grows
<1>1. TypeOK
  BY DEF IInv
<1>2. \A t : Paid(t) => Paid(t)'
  <2>1. UNCHANGED <<block, failed, confirmed>>
    BY AccountFootprint DEF AccountsKept
  <2> QED BY <2>1 DEF Paid, Landed
<1>3. ASSUME NEW j \in Journals
      PROVE  /\ SignedEvents(journal[j]) \subseteq SignedEvents(journal'[j])
             /\ \A e \in SignedEvents(journal[j]) :
                  RecordedConfirmed(journal[j], e.chunk) => RecordedConfirmed(journal'[j], e.chunk)
  <2>1. journal[j] \in Seq(Event) /\ jn[p] \in Journals
    BY <1>1 DEF TypeOK, Logs
  <2>2. CASE journal'[j] = journal[j]
    BY <2>2
  <2>3. CASE journal'[j] # journal[j]
    <3>1. PICK e \in Event : Log(p, e)
      BY <2>3, ProcAppends DEF Appends
    <3>2. j = jn[p] /\ journal'[j] = Append(journal[j], e)
      BY <1>1, <2>1, <2>3, <3>1 DEF Log, TypeOK
    <3>3. ASSUME NEW f \in SignedEvents(journal[j]), RecordedConfirmed(journal[j], f.chunk)
          PROVE  RecordedConfirmed(Append(journal[j], e), f.chunk)
      <4>1. e.kind = "ChunkSigned" => e.chunk # f.chunk
        BY <3>1, <3>2, SignsAnew
      <4> QED BY <2>1, <3>3, <4>1, RecordedAppend
    <3> QED BY <2>1, <3>2, <3>3, AppendSigned
  <2> QED BY <2>2, <2>3
<1> QED BY <1>2, <1>3 DEF Grows

(* What a step of p must ensure: true appends and true accounts.            *)
LEMMA StepKeepsPaid ==
  ASSUME IInv, PaidInv, NEW p \in Procs, ProcAction(p), TrueLog(p), Grows => AccountInv(p)'
  PROVE  PaidInv'
<1>1. TypeOK /\ OthersKeep(p)
  BY ProcFootprint DEF IInv
<1>2. Grows
  BY ProcGrows
<1>3. \A j \in Journals : JournalPaid(j)'
  BY <1>1, <1>2, JournalsStayPaid DEF PaidInv
<1>4. ASSUME NEW q \in Procs, q # p PROVE AccountInv(q)'
  <2>1. /\ pc'[q] = pc[q] /\ jn'[q] = jn[q] /\ remaining'[q] = remaining[q]
        /\ plan'[q] = plan[q] /\ next'[q] = next[q]
    BY <1>1, <1>4 DEF OthersKeep
  <2>2. /\ record'[q] = record[q] /\ inFlight'[q] = inFlight[q]
        /\ polled'[q] = polled[q] /\ failures'[q] = failures[q]
    BY <1>4, AccountFootprint DEF AccountsKept
  <2>3. AccountInv(q)
    BY DEF PaidInv
  <2> QED BY <1>1, <1>2, <2>1, <2>2, <2>3, AccountsStay
<1> QED BY <1>2, <1>3, <1>4 DEF PaidInv

(* A process outside the accounts needs nothing.                            *)
LEMMA NoAccounts ==
  ASSUME NEW p \in Procs, pc'[p] \in {"idle", "create", "tip", "statuses"}
  PROVE  AccountInv(p)'
BY DEF AccountInv, Executing, Sending

(* An exiting process needs to append the truth only.                       *)
LEMMA ExitKeepsPaid ==
  ASSUME IInv, PaidInv, NEW p \in Procs, ProcAction(p), TrueLog(p), Exit(p)
  PROVE  PaidInv'
<1>1. pc'[p] = "idle"
  BY DEF Exit, Goto, IInv, TypeOK
<1> QED BY <1>1, NoAccounts, StepKeepsPaid

(* Events of the run are true.                                              *)
LEMMA RunEventIsTrue ==
  ASSUME NEW p \in Procs, NEW kind \in {"RunCreated", "AuthorizationGranted", "RunInterrupted"},
         Log(p, RunEvent(kind))
  PROVE  TrueLog(p)
<1>1. RunEvent(kind) \in Event /\ RunEvent(kind).kind = kind /\ CompletedEvent(0).kind = "RunCompleted"
  BY EventValues
<1>2. RunEvent(kind).kind # "ChunkConfirmed" /\ RunEvent(kind) # CompletedEvent(0)
  BY <1>1
<1> QED BY <1>1, <1>2 DEF TrueLog

(* So are a chunk's broadcast and its failure, and its confirmation if it   *)
(* is paid.                                                                 *)
LEMMA ChunkEventIsTrue ==
  ASSUME NEW p \in Procs, NEW kind \in {"ChunkBroadcast", "ChunkConfirmed", "ChunkFailed"},
         NEW c \in ChunkIndex, Log(p, ChunkEvent(kind, c)),
         kind = "ChunkConfirmed" => Paid(<<jn[p], c>>)
  PROVE  TrueLog(p)
<1>1. /\ ChunkEvent(kind, c) \in Event /\ ChunkEvent(kind, c).kind = kind
      /\ CompletedEvent(0).kind = "RunCompleted"
  BY EventValues
<1>2. ChunkEvent(kind, c).chunk = c /\ ChunkEvent(kind, c) # CompletedEvent(0)
  BY <1>1 DEF ChunkEvent
<1> QED BY <1>1, <1>2 DEF TrueLog
-----------------------------------------------------------------------------
(* Resuming and planning.                                                   *)

(* Recording what was found confirmed, and going on to plan.                *)
LEMMA PlanningStep ==
  ASSUME TypeOK, NEW p \in Procs, AccountInv(p), Grows,
         pc[p] = "record", pc'[p] \in {"record", "plan"},
         jn'[p] = jn[p], remaining'[p] = remaining[p], record'[p] \subseteq record[p],
         \A r \in Rows : Held(p, r) => Covered(jn[p], r)' \/ (pc'[p] = "record" /\ Held(p, r)')
  PROVE  AccountInv(p)'
<1>1. PICK j \in Journals : j = jn[p] /\ j = jn'[p]
  BY DEF TypeOK
<1>2. \A r : Covered(j, r) => Covered(j, r)'
  BY CoveredStays
<1>3. \A c \in record[p] : Paid(<<j, c>>) => Paid(<<j, c>>)'
  <2>1. record[p] \subseteq ChunkIndex
    BY DEF TypeOK
  <2> QED BY <2>1, ChunkTx DEF Grows
<1>4. \A r \in Rows : r \in remaining'[p] \/ Covered(j, r)' \/ (pc'[p] = "record" /\ Held(p, r)')
  <2>1. \A r \in Rows : Held(p, r) => Covered(j, r)' \/ (pc'[p] = "record" /\ Held(p, r)')
    BY <1>1 DEF Covered
  <2> QED BY <1>1, <1>2, <2>1 DEF AccountInv
<1>5. pc'[p] = "record" => \A c \in record'[p] : Paid(<<j, c>>)'
  BY <1>1, <1>3 DEF AccountInv
<1>6. pc'[p] \notin Executing /\ pc'[p] \notin Sending /\ pc'[p] \notin {"poll", "drain"}
  BY DEF Executing, Sending
<1> QED BY <1>1, <1>4, <1>5, <1>6 DEF AccountInv, Covered, Paid, Landed

(* A chunk that plan_resume does not pay again is paid.                     *)
LEMMA SkippedIsPaid ==
  ASSUME IInv, PaidInv, NEW p \in Procs, pc[p] = "statuses", NEW v \in StatusNodes,
         NEW e \in SignedEvents(journal[jn[p]]),
         ResumeAction(p, e, v) \in {"Skip", "RecordConfirmedThenSkip"}
  PROVE  Paid(<<jn[p], e.chunk>>)
<1> DEFINE landing == ConfirmNotLanded(<<jn[p], e.chunk>>, e.lastValid, tip[p], v)
<1>1. /\ TypeOK /\ LedgerInv /\ jn[p] \in Journals /\ events[p] = journal[jn[p]]
      /\ JournalPaid(jn[p]) /\ journal[jn[p]] \in Seq(Event)
  BY DEF IInv, TypeOK, ProcInv, PaidInv, Logs
<1>2. <<jn[p], e.chunk>> \in Tx
  BY <1>1, SignedTx
<1>3. landing \in Landings
  BY LandingValues
<1>4. CASE RecordedConfirmed(journal[jn[p]], e.chunk)
  <2>1. ChunkEvent("ChunkConfirmed", e.chunk) \in Range(journal[jn[p]])
    BY <1>4 DEF RecordedConfirmed, Range
  <2>2. /\ ChunkEvent("ChunkConfirmed", e.chunk).kind = "ChunkConfirmed"
        /\ ChunkEvent("ChunkConfirmed", e.chunk).chunk = e.chunk
    BY DEF ChunkEvent
  <2> QED BY <1>1, <2>1, <2>2 DEF JournalPaid
<1>5. CASE ~RecordedConfirmed(journal[jn[p]], e.chunk)
  <2>1. landing = "Confirmed"
    BY <1>1, <1>3, <1>5 DEF ResumeAction, ReduceChunkResumeAction, Landings
  <2> QED BY <1>1, <1>2, <2>1, ConfirmedIsPaid
<1> QED BY <1>4, <1>5

(* A chunk that plan_resume does not have to record is recorded.            *)
LEMMA SkippedIsRecorded ==
  ASSUME IInv, NEW p \in Procs, pc[p] = "statuses", NEW v, NEW e,
         ResumeAction(p, e, v) = "Skip"
  PROVE  RecordedConfirmed(journal[jn[p]], e.chunk)
<1> DEFINE landing == ConfirmNotLanded(<<jn[p], e.chunk>>, e.lastValid, tip[p], v)
<1>1. events[p] = journal[jn[p]]
  BY DEF IInv, ProcInv
<1>2. landing \in Landings
  BY LandingValues
<1> QED BY <1>1, <1>2 DEF ResumeAction, ReduceChunkResumeAction, Landings

(* plan_resume drops rows that are paid, and keeps what it must record.     *)
LEMMA PlanResumeKeepsPaid ==
  ASSUME IInv, PaidInv, NEW p \in Procs, PlanResume(p), ProcAction(p)
  PROVE  PaidInv'
<1> DEFINE signed == SignedEvents(events[p])
           Chunks(v, actions) == {e \in signed : ResumeAction(p, e, v) \in actions}
           paid(v) == Chunks(v, {"Skip", "RecordConfirmedThenSkip"})
<1>1. TrueLog(p) /\ pc[p] = "statuses" /\ UNCHANGED ledgerVars /\ journal' = journal
  BY DEF PlanResume, TrueLog
<1>2. CASE Exit(p)
  BY <1>1, <1>2, ExitKeepsPaid
<1>3. CASE ~Exit(p)
  <2>1. PICK v \in StatusNodes :
          /\ record' = [record EXCEPT ![p] = {e.chunk : e \in Chunks(v, {"RecordConfirmedThenSkip"})}]
          /\ remaining' = [remaining EXCEPT ![p] = {r \in Rows : \A e \in paid(v) : r \notin e.rows}]
          /\ pc' = [pc EXCEPT ![p] = "record"]
          /\ jn' = jn
    BY <1>3 DEF PlanResume, Goto
  <2>2. PICK j \in Journals : j = jn[p] /\ j = jn'[p]
    BY <2>1 DEF IInv, TypeOK
  <2>3. signed = SignedEvents(journal[j])
    BY <1>1, <2>2 DEF IInv, ProcInv
  <2>4. \A e \in paid(v) : e \in SignedEvents(journal[j]) /\ Paid(<<j, e.chunk>>)
    BY <1>1, <2>2, <2>3, SkippedIsPaid
  <2>5. /\ record'[p] = {e.chunk : e \in Chunks(v, {"RecordConfirmedThenSkip"})}
        /\ remaining'[p] = {r \in Rows : \A e \in paid(v) : r \notin e.rows}
        /\ pc'[p] = "record"
    BY <2>1 DEF IInv, TypeOK
  <2>6. \A t : Paid(t) => Paid(t)'
    BY <1>1 DEF Paid, Landed, ledgerVars
  <2>7. \A r \in Rows : r \in remaining'[p] \/ Covered(j, r)' \/ Held(p, r)'
    <3> SUFFICES ASSUME NEW r \in Rows, r \notin remaining'[p] PROVE Covered(j, r)' \/ Held(p, r)'
      OBVIOUS
    <3>1. PICK e \in paid(v) : r \in e.rows
      BY <2>5
    <3>2. CASE ResumeAction(p, e, v) = "Skip"
      <4>1. RecordedConfirmed(journal[j], e.chunk)
        BY <1>1, <2>2, <2>4, <3>1, <3>2, SkippedIsRecorded
      <4> QED BY <1>1, <2>4, <3>1, <4>1 DEF Covered
    <3>3. CASE ResumeAction(p, e, v) # "Skip"
      <4>1. ResumeAction(p, e, v) = "RecordConfirmedThenSkip"
        BY <3>1, <3>3
      <4>2. e.chunk \in record'[p]
        BY <2>5, <3>1, <4>1
      <4> QED BY <1>1, <2>2, <2>4, <3>1, <4>2 DEF Held
    <3> QED BY <3>2, <3>3
  <2>8. \A c \in record'[p] : Paid(<<j, c>>)'
    BY <2>4, <2>5, <2>6
  <2>9. pc'[p] \notin Executing /\ pc'[p] \notin Sending /\ pc'[p] \notin {"poll", "drain"}
    BY <2>5 DEF Executing, Sending
  <2>10. AccountInv(p)'
    BY <2>2, <2>5, <2>7, <2>8, <2>9 DEF AccountInv, Covered, Paid, Landed
  <2> QED BY <1>1, <2>10, StepKeepsPaid
<1> QED BY <1>2, <1>3

(* A plan pays what remains, and its chunks follow each other.              *)
LEMMA PlanCovers ==
  ASSUME NEW rows \in SUBSET Rows, NEW first \in Nat, NEW f \in PackChunksFrom(rows, first)
  PROVE  /\ \A r \in rows : \E c \in DOMAIN f : c >= first /\ r \in f[c]
         /\ \A c \in DOMAIN f : \A d \in first..c : d \in DOMAIN f
<1>1. PICK n \in 0..Cardinality(rows) : f \in [first..(first + n - 1) -> SUBSET rows]
  BY DEF PackChunksFrom
<1>2. UNION Range(f) = rows
  BY DEF PackChunksFrom
<1>3. \A c \in DOMAIN f : c \in first..(first + n - 1)
  BY <1>1
<1>4. n \in Int
  BY SMTT(30), <1>1
<1>5. \A r \in rows : \E c \in DOMAIN f : r \in f[c]
  BY <1>2 DEF Range
<1>6. \A c \in DOMAIN f : c \in Int /\ c >= first
  BY SMTT(30), <1>3
<1>7. \A c \in DOMAIN f : \A d \in first..c : d \in first..(first + n - 1)
  BY SMTT(30), <1>3, <1>4
<1> QED BY <1>1, <1>5, <1>6, <1>7
-----------------------------------------------------------------------------
(* Executing.                                                               *)

(* What a step of the executor must ensure.                                 *)
LEMMA ExecutingStep ==
  ASSUME TypeOK, TypeOK', NEW p \in Procs, AccountInv(p), pc[p] \in Executing, pc'[p] \in Executing,
         plan'[p] = plan[p], next'[p] >= next[p],
         failures'[p] = 0 => failures[p] = 0 /\ \A r \in Rows : Accounted(p, r) => Accounted(p, r)',
         pc'[p] \in Sending => \E e \in SignedEvents(journal'[jn'[p]]) :
                                 e.chunk = next'[p] /\ e.rows = plan'[p][next'[p]],
         pc'[p] \in {"poll", "drain"} => \A c \in DOMAIN polled'[p] :
                                           polled'[p][c] = "Confirmed" => Paid(<<jn[p], c>>)'
  PROVE  AccountInv(p)'
<1>1. Contiguous(p)'
  <2>1. next[p] \in Nat /\ next'[p] \in Nat /\ plan[p] \in Plans
    BY DEF TypeOK
  <2>2. \A c \in Nat : \A d \in next'[p]..c : d \in next[p]..c
    BY <2>1, Intervals
  <2>3. \A c \in DOMAIN plan[p] : c \in Nat
    <3>1. DOMAIN plan[p] \subseteq ChunkIndex
      BY <2>1, PlanMaps
    <3> QED BY <3>1, Numbers
  <2> QED BY <2>2, <2>3 DEF AccountInv, Contiguous
<1>2. failures'[p] = 0 => \A r \in Rows : Accounted(p, r)'
  BY DEF AccountInv
<1>3. pc'[p] \notin {"record", "plan"}
  BY DEF Executing, Sending
<1> QED BY <1>1, <1>2, <1>3 DEF AccountInv

(* An account whose process goes on with the same plan stays accounted for. *)
LEMMA AccountedStays ==
  ASSUME TypeOK, Grows, NEW p \in Procs, NEW r, Accounted(p, r),
         jn'[p] = jn[p], plan'[p] = plan[p], next'[p] = next[p], inFlight[p] \subseteq inFlight'[p]
  PROVE  Accounted(p, r)'
<1>1. PICK j \in Journals : j = jn[p] /\ j = jn'[p]
  BY DEF TypeOK
<1>2. Covered(j, r) => Covered(j, r)'
  BY CoveredStays
<1>3. SignedEvents(journal[j]) \subseteq SignedEvents(journal'[j])
  BY DEF Grows
<1>4. \/ Covered(j, r)'
      \/ \E c \in DOMAIN plan'[p] : c >= next'[p] /\ r \in plan'[p][c]
      \/ \E e \in SignedEvents(journal'[j]) : e.chunk \in inFlight'[p] /\ r \in e.rows
  BY <1>1, <1>2, <1>3 DEF Accounted
<1> QED BY <1>1, <1>4 DEF Accounted, Covered

(* The first accounts of a run.                                             *)
LEMMA PlanAndAuthorizeKeepsPaid ==
  ASSUME IInv, PaidInv, NEW p \in Procs, PlanAndAuthorize(p), ProcAction(p)
  PROVE  PaidInv'
<1>1. /\ TypeOK /\ AccountInv(p) /\ pc[p] = "plan" /\ remaining[p] \in SUBSET Rows /\ next[p] \in Nat
  BY DEF PlanAndAuthorize, IInv, TypeOK, PaidInv
<1>2. /\ pc'[p] = "next" /\ next'[p] = next[p] /\ Log(p, RunEvent("AuthorizationGranted")) /\ jn' = jn
  BY <1>1 DEF PlanAndAuthorize, Goto, TypeOK
<1>3. TrueLog(p)
  BY <1>2, RunEventIsTrue
<1>4. PICK f \in PackChunksFrom(remaining[p], next[p]) : plan'[p] = f
  <2>1. PICK f \in PackChunksFrom(remaining[p], next[p]) : plan' = [plan EXCEPT ![p] = f]
    BY DEF PlanAndAuthorize
  <2> QED BY <1>1, <2>1 DEF TypeOK
<1>5. /\ \A r \in remaining[p] : \E c \in DOMAIN f : c >= next[p] /\ r \in f[c]
      /\ \A c \in DOMAIN f : \A d \in next[p]..c : d \in DOMAIN f
  BY <1>1, PlanCovers
<1>6. Contiguous(p)'
  BY <1>2, <1>4, <1>5 DEF Contiguous
<1>7. ASSUME Grows, NEW r \in Rows PROVE Accounted(p, r)'
  <2>1. PICK j \in Journals : j = jn[p] /\ j = jn'[p]
    BY <1>1, <1>2 DEF TypeOK
  <2>2. r \in remaining[p] \/ Covered(j, r)'
    BY <1>1, <1>7, <2>1, CoveredStays DEF AccountInv
  <2>3. Covered(j, r)' \/ \E c \in DOMAIN plan'[p] : c >= next'[p] /\ r \in plan'[p][c]
    BY <1>2, <1>4, <1>5, <2>2
  <2> QED BY <2>1, <2>3 DEF Accounted, Covered
<1>8. Grows => AccountInv(p)'
  <2>1. pc'[p] \notin {"record", "plan"} /\ pc'[p] \notin Sending /\ pc'[p] \notin {"poll", "drain"}
    BY <1>2 DEF Sending
  <2> QED BY <1>6, <1>7, <2>1 DEF AccountInv
<1> QED BY <1>3, <1>8, StepKeepsPaid

(* Signing: the event holds the rows of the plan.                           *)
LEMMA SignChunkKeepsPaid ==
  ASSUME IInv, PaidInv, NEW p \in Procs, SignChunk(p), ProcAction(p)
  PROVE  PaidInv'
<1>1. /\ TypeOK /\ TypeOK' /\ AccountInv(p) /\ pc[p] = "next" /\ plan[p] \in Plans
      /\ next[p] \in DOMAIN plan[p] /\ jn[p] \in Journals
  BY ProcTypes DEF SignChunk, AllSigned, IInv, TypeOK, PaidInv
<1>2. /\ pc'[p] = "send" /\ next' = next /\ plan' = plan /\ jn' = jn /\ inFlight' = inFlight
      /\ failures' = failures
  BY <1>1 DEF SignChunk, Goto, TypeOK
<1>3. next[p] \in ChunkIndex /\ plan[p][next[p]] \in SUBSET Rows
  BY <1>1, PlanMaps
<1>4. PICK lastValid \in RecentExpiries : Log(p, SignedEvent(next[p], plan[p][next[p]], lastValid))
  BY DEF SignChunk
<1> DEFINE e == SignedEvent(next[p], plan[p][next[p]], lastValid)
<1>5. lastValid \in Nat
  BY Numbers
<1>6. /\ e \in Event /\ e.kind = "ChunkSigned" /\ e.chunk = next[p] /\ e.rows = plan[p][next[p]]
  BY <1>3, <1>5, EventValues DEF SignedEvent
<1> HIDE DEF e
<1>7. TrueLog(p)
  <2>1. CompletedEvent(0).kind = "RunCompleted"
    BY EventValues
  <2>2. e # CompletedEvent(0) /\ e.kind # "ChunkConfirmed"
    BY <1>6, <2>1
  <2> QED BY <1>4, <1>6, <2>2 DEF TrueLog, e
<1>8. \E f \in SignedEvents(journal'[jn'[p]]) : f.chunk = next'[p] /\ f.rows = plan'[p][next'[p]]
  <2>1. journal[jn[p]] \in Seq(Event)
    BY <1>1 DEF TypeOK, Logs
  <2>2. journal'[jn[p]] = Append(journal[jn[p]], e)
    BY <1>1, <1>4 DEF Log, TypeOK, e
  <2>3. e \in SignedEvents(Append(journal[jn[p]], e))
    BY <1>6, <2>1, AppendSigned
  <2> QED BY <1>2, <1>6, <2>2, <2>3
<1>9. Grows => \A r \in Rows : Accounted(p, r) => Accounted(p, r)'
  BY <1>1, <1>2, AccountedStays
<1>10. /\ pc[p] \in Executing /\ pc'[p] \in Executing /\ pc'[p] \notin {"poll", "drain"}
       /\ next'[p] >= next[p]
  BY <1>1, <1>2, Ascending DEF Executing, Sending, TypeOK
<1>11. Grows => AccountInv(p)'
  BY <1>1, <1>2, <1>8, <1>9, <1>10, ExecutingStep
<1> QED BY <1>7, <1>11, StepKeepsPaid

(* Sending changes no account.                                              *)
LEMMA SendKeepsPaid ==
  ASSUME IInv, PaidInv, NEW p \in Procs, Send(p), ProcAction(p)
  PROVE  PaidInv'
<1>1. /\ TypeOK /\ TypeOK' /\ AccountInv(p) /\ pc[p] = "send" /\ pc'[p] \in {"sent", "unsent"}
  BY ProcTypes DEF Send, Goto, IInv, TypeOK, PaidInv
<1>2. /\ next' = next /\ plan' = plan /\ jn' = jn /\ inFlight' = inFlight
      /\ failures' = failures /\ journal' = journal
  BY DEF Send
<1>3. TrueLog(p)
  BY <1>2 DEF TrueLog
<1>4. Grows => \A r \in Rows : Accounted(p, r) => Accounted(p, r)'
  BY <1>1, <1>2, AccountedStays
<1>5. /\ pc[p] \in Executing /\ pc'[p] \in Executing /\ pc'[p] \notin {"poll", "drain"}
      /\ next'[p] >= next[p] /\ pc[p] \in Sending
  BY <1>1, <1>2, Ascending DEF Executing, Sending, TypeOK
<1>6. \E f \in SignedEvents(journal'[jn'[p]]) : f.chunk = next'[p] /\ f.rows = plan'[p][next'[p]]
  BY <1>1, <1>2, <1>5 DEF AccountInv
<1>7. Grows => AccountInv(p)'
  BY <1>1, <1>2, <1>4, <1>5, <1>6, ExecutingStep
<1> QED BY <1>3, <1>7, StepKeepsPaid

(* The rows of a broadcast chunk are in flight.                             *)
LEMMA BroadcastKeepsPaid ==
  ASSUME IInv, PaidInv, NEW p \in Procs, AppendChunkBroadcast(p), ProcAction(p)
  PROVE  PaidInv'
<1>1. /\ TypeOK /\ TypeOK' /\ AccountInv(p) /\ pc[p] = "sent" /\ pc'[p] = "next"
      /\ next[p] \in Nat /\ plan[p] \in Plans
  BY ProcTypes DEF AppendChunkBroadcast, Goto, IInv, TypeOK, PaidInv
<1>2. /\ next'[p] = next[p] + 1 /\ plan' = plan /\ jn' = jn
      /\ inFlight'[p] = inFlight[p] \cup {next[p]}
      /\ failures' = failures /\ Log(p, ChunkEvent("ChunkBroadcast", next[p]))
  BY <1>1 DEF AppendChunkBroadcast, TypeOK
<1>3. /\ pc[p] \in Executing /\ pc'[p] \in Executing /\ pc'[p] \notin {"poll", "drain"}
      /\ next'[p] >= next[p] /\ pc[p] \in Sending /\ pc'[p] \notin Sending
  BY <1>1, <1>2, Ascending DEF Executing, Sending
<1>4. next[p] \in DOMAIN plan[p] /\ DOMAIN plan[p] \subseteq ChunkIndex
  BY <1>1, <1>3, PlanMaps DEF IInv, ProcInv
<1>5. TrueLog(p)
  BY <1>2, <1>4, ChunkEventIsTrue
<1>6. ASSUME Grows, NEW r, Accounted(p, r) PROVE Accounted(p, r)'
  <2>1. PICK j \in Journals : j = jn[p] /\ j = jn'[p]
    BY <1>1, <1>2 DEF TypeOK
  <2>2. Covered(j, r) => Covered(j, r)'
    BY <1>1, <1>6, CoveredStays
  <2>3. SignedEvents(journal[j]) \subseteq SignedEvents(journal'[j])
    BY <1>6 DEF Grows
  <2>4. PICK e \in SignedEvents(journal[j]) : e.chunk = next[p] /\ e.rows = plan[p][next[p]]
    BY <1>1, <1>3, <2>1 DEF AccountInv
  <2>5. \/ Covered(j, r)
        \/ r \in plan[p][next[p]]
        \/ \E c \in DOMAIN plan[p] : c >= next[p] + 1 /\ r \in plan[p][c]
        \/ \E f \in SignedEvents(journal[j]) : f.chunk \in inFlight[p] /\ r \in f.rows
    <3>1. \A c \in DOMAIN plan[p] : c >= next[p] => c = next[p] \/ c >= next[p] + 1
      BY SMTT(30), <1>1, <1>4, FanoutAssumption DEF ChunkIndex
    <3> QED BY <1>6, <2>1, <3>1 DEF Accounted
  <2>6. \/ Covered(j, r)'
        \/ \E c \in DOMAIN plan'[p] : c >= next'[p] /\ r \in plan'[p][c]
        \/ \E f \in SignedEvents(journal'[j]) : f.chunk \in inFlight'[p] /\ r \in f.rows
    BY <1>2, <2>2, <2>3, <2>4, <2>5
  <2> QED BY <2>1, <2>6 DEF Accounted, Covered
<1>7. Grows => AccountInv(p)'
  BY <1>1, <1>2, <1>3, <1>6, ExecutingStep
<1> QED BY <1>5, <1>7, StepKeepsPaid

(* A failed send is counted.                                                *)
LEMMA FailedKeepsPaid ==
  ASSUME IInv, PaidInv, NEW p \in Procs, AppendChunkFailed(p), ProcAction(p)
  PROVE  PaidInv'
<1>1. /\ TypeOK /\ TypeOK' /\ AccountInv(p) /\ pc[p] = "unsent" /\ pc'[p] = "next"
      /\ next[p] \in Nat /\ plan[p] \in Plans
  BY ProcTypes DEF AppendChunkFailed, Goto, IInv, TypeOK, PaidInv
<1>2. /\ next'[p] = next[p] + 1 /\ plan' = plan /\ jn' = jn
      /\ failures'[p] # 0 /\ Log(p, ChunkEvent("ChunkFailed", next[p]))
  BY SMTT(30), <1>1 DEF AppendChunkFailed, TypeOK
<1>3. /\ pc[p] \in Executing /\ pc'[p] \in Executing /\ pc'[p] \notin {"poll", "drain"}
      /\ next'[p] >= next[p] /\ pc[p] \in Sending /\ pc'[p] \notin Sending
  BY <1>1, <1>2, Ascending DEF Executing, Sending
<1>4. next[p] \in ChunkIndex
  BY <1>1, <1>3, PlanMaps DEF IInv, ProcInv
<1>5. TrueLog(p)
  BY <1>2, <1>4, ChunkEventIsTrue
<1>6. AccountInv(p)'
  BY <1>1, <1>2, <1>3, ExecutingStep
<1> QED BY <1>5, <1>6, StepKeepsPaid

(* What a poll calls confirmed is paid.                                     *)
LEMMA PollKeepsPaid ==
  ASSUME IInv, PaidInv, NEW p \in Procs, NEW v \in StatusNodes, PollStatuses(p, v), ProcAction(p)
  PROVE  PaidInv'
<1>1. /\ TypeOK /\ TypeOK' /\ AccountInv(p) /\ pc[p] = "next" /\ pc'[p] = "poll" /\ LedgerInv
      /\ inFlight[p] \subseteq ChunkIndex
  BY ProcTypes DEF PollStatuses, Goto, IInv, TypeOK, PaidInv
<1>2. /\ next' = next /\ plan' = plan /\ jn' = jn /\ inFlight' = inFlight
      /\ failures' = failures /\ journal' = journal /\ UNCHANGED ledgerVars
      /\ polled'[p] = [c \in inFlight[p] |-> PollEntry(<<jn[p], c>>, v)]
  BY <1>1 DEF PollStatuses, TypeOK
<1>3. TrueLog(p)
  BY <1>2 DEF TrueLog
<1>4. Grows => \A r \in Rows : Accounted(p, r) => Accounted(p, r)'
  BY <1>1, <1>2, AccountedStays
<1>5. /\ pc[p] \in Executing /\ pc'[p] \in Executing /\ pc'[p] \notin Sending
      /\ next'[p] >= next[p]
  BY <1>1, <1>2, Ascending DEF Executing, Sending, TypeOK
<1>6. \A c \in DOMAIN polled'[p] : polled'[p][c] = "Confirmed" => Paid(<<jn[p], c>>)'
  <2>1. \A c \in inFlight[p] : <<jn[p], c>> \in Tx
    BY <1>1, ChunkTx DEF TypeOK
  <2>2. \A c \in inFlight[p] : PollEntry(<<jn[p], c>>, v) = "Confirmed" => Paid(<<jn[p], c>>)
    BY <1>1, <2>1, PolledIsPaid
  <2>3. \A c : Paid(<<jn[p], c>>) => Paid(<<jn[p], c>>)'
    BY <1>2 DEF Paid, Landed, ledgerVars
  <2> QED BY <1>2, <2>2, <2>3
<1>7. Grows => AccountInv(p)'
  BY <1>1, <1>2, <1>4, <1>5, <1>6, ExecutingStep
<1> QED BY <1>3, <1>7, StepKeepsPaid

(* The height read decides on the missing ones only.                        *)
LEMMA HeightKeepsPaid ==
  ASSUME IInv, PaidInv, NEW p \in Procs, NEW h, PollHeight(p, h), ProcAction(p)
  PROVE  PaidInv'
<1>1. /\ TypeOK /\ TypeOK' /\ AccountInv(p) /\ pc[p] = "poll" /\ pc'[p] = "drain"
  BY ProcTypes DEF PollHeight, Goto, IInv, TypeOK, PaidInv
<1>2. /\ next' = next /\ plan' = plan /\ jn' = jn /\ inFlight' = inFlight
      /\ failures' = failures /\ journal' = journal /\ UNCHANGED ledgerVars
      /\ polled'[p] = [c \in DOMAIN polled[p] |->
                         IF polled[p][c] = "Missing"
                         THEN ClassifyMissingSignature(h, expiry[<<jn[p], c>>]) ELSE polled[p][c]]
  BY <1>1 DEF PollHeight, TypeOK
<1>3. TrueLog(p)
  BY <1>2 DEF TrueLog
<1>4. Grows => \A r \in Rows : Accounted(p, r) => Accounted(p, r)'
  BY <1>1, <1>2, AccountedStays
<1>5. /\ pc[p] \in Executing /\ pc'[p] \in Executing /\ pc'[p] \notin Sending
      /\ next'[p] >= next[p]
  BY <1>1, <1>2, Ascending DEF Executing, Sending, TypeOK
<1>6. \A c \in DOMAIN polled'[p] : polled'[p][c] = "Confirmed" => Paid(<<jn[p], c>>)'
  <2>1. \A c \in DOMAIN polled'[p] :
          c \in DOMAIN polled[p] /\ (polled'[p][c] = "Confirmed" => polled[p][c] = "Confirmed")
    BY <1>2 DEF ClassifyMissingSignature
  <2>2. \A c : Paid(<<jn[p], c>>) => Paid(<<jn[p], c>>)'
    BY <1>2 DEF Paid, Landed, ledgerVars
  <2> QED BY <1>1, <2>1, <2>2 DEF AccountInv
<1>7. Grows => AccountInv(p)'
  BY <1>1, <1>2, <1>4, <1>5, <1>6, ExecutingStep
<1> QED BY <1>3, <1>7, StepKeepsPaid
(* drain_in_flight takes off a chunk that is paid, or counts a failure.     *)
LEMMA DrainKeepsPaid ==
  ASSUME IInv, PaidInv, NEW p \in Procs, Drain(p), ProcAction(p)
  PROVE  PaidInv'
<1>1. /\ TypeOK /\ TypeOK' /\ AccountInv(p) /\ pc[p] = "drain" /\ polled[p] \in Polls
      /\ inFlight[p] \subseteq ChunkIndex /\ failures[p] \in Nat
  BY ProcTypes DEF Drain, IInv, TypeOK, PaidInv
<1>2. PICK c \in DOMAIN polled[p] :
        /\ polled' = [polled EXCEPT ![p] = [d \in DOMAIN @ \ {c} |-> @[d]]]
        /\ \/ /\ polled[p][c] = "StillPending"
              /\ UNCHANGED <<journal, inFlight, failures>>
           \/ /\ polled[p][c] = "Confirmed"
              /\ Log(p, ChunkEvent("ChunkConfirmed", c))
              /\ inFlight' = [inFlight EXCEPT ![p] = @ \ {c}]
              /\ UNCHANGED failures
           \/ /\ polled[p][c] = "Failed"
              /\ Log(p, ChunkEvent("ChunkFailed", c))
              /\ inFlight' = [inFlight EXCEPT ![p] = @ \ {c}]
              /\ failures' = [failures EXCEPT ![p] = @ + 1]
        /\ Goto(p, IF DOMAIN polled[p] = {c} THEN "next" ELSE "drain")
  BY DEF Drain
<1>3. next' = next /\ plan' = plan /\ jn' = jn /\ UNCHANGED ledgerVars
  BY DEF Drain
<1>4. c \in ChunkIndex
  BY <1>1, PollMaps
<1>5. pc'[p] \in {"next", "drain"}
  BY <1>1, <1>2 DEF Goto, TypeOK
<1>6. polled'[p] = [d \in DOMAIN polled[p] \ {c} |-> polled[p][d]]
  BY <1>1, <1>2 DEF TypeOK
<1>7. \A d \in DOMAIN polled[p] : polled[p][d] = "Confirmed" => Paid(<<jn[p], d>>)
  BY <1>1 DEF AccountInv
<1>8. TrueLog(p)
  <2>1. CASE polled[p][c] = "StillPending"
    BY <1>2, <2>1 DEF TrueLog
  <2>2. CASE polled[p][c] = "Confirmed"
    BY <1>2, <1>4, <1>7, <2>2, ChunkEventIsTrue
  <2>3. CASE polled[p][c] = "Failed"
    BY <1>2, <1>4, <2>3, ChunkEventIsTrue
  <2> QED BY <1>2, <2>1, <2>2, <2>3
<1>9. \A d \in DOMAIN polled'[p] : polled'[p][d] = "Confirmed" => Paid(<<jn[p], d>>)'
  <2>1. \A d : Paid(<<jn[p], d>>) => Paid(<<jn[p], d>>)'
    BY <1>3 DEF Paid, Landed, ledgerVars
  <2> QED BY <1>6, <1>7, <2>1
<1>10. /\ pc[p] \in Executing /\ pc'[p] \in Executing /\ pc'[p] \notin Sending
       /\ next'[p] >= next[p]
  BY <1>1, <1>3, <1>5, Ascending DEF Executing, Sending, TypeOK
<1>11. ASSUME Grows, failures'[p] = 0
       PROVE  failures[p] = 0 /\ \A r \in Rows : Accounted(p, r) => Accounted(p, r)'
  <2>1. CASE polled[p][c] = "StillPending"
    <3>1. failures' = failures /\ inFlight' = inFlight
      BY <1>2, <2>1
    <3> QED BY <1>1, <1>3, <1>11, <3>1, AccountedStays
  <2>2. CASE polled[p][c] = "Failed"
    <3>1. failures'[p] = failures[p] + 1
      BY <1>1, <1>2, <2>2 DEF TypeOK
    <3>2. failures[p] \in Nat
      BY <1>1
    <3>3. failures[p] + 1 # 0
      BY SMT, <3>2
    <3> QED BY <1>11, <3>1, <3>3
  <2>3. CASE polled[p][c] = "Confirmed"
    <3>1. failures' = failures /\ inFlight'[p] = inFlight[p] \ {c}
      BY <1>1, <1>2, <2>3 DEF TypeOK
    <3>2. PICK j \in Journals : j = jn[p] /\ j = jn'[p]
      BY <1>1, <1>3 DEF TypeOK
    <3>3. SignedEvents(journal[j]) \subseteq SignedEvents(journal'[j])
      BY <1>11 DEF Grows
    <3>4. ASSUME NEW r \in Rows, Accounted(p, r) PROVE Accounted(p, r)'
      <4>1. \/ Covered(j, r)
            \/ \E d \in DOMAIN plan[p] : d >= next[p] /\ r \in plan[p][d]
            \/ \E e \in SignedEvents(journal[j]) : e.chunk \in inFlight[p] \ {c} /\ r \in e.rows
            \/ \E e \in SignedEvents(journal[j]) : e.chunk = c /\ r \in e.rows
        BY <3>2, <3>4 DEF Accounted
      <4>2. /\ Covered(j, r) => Covered(j, r)'
            /\ \A e \in SignedEvents(journal[j]) : e.chunk = c /\ r \in e.rows => Covered(j, r)'
        <5>1. Covered(j, r) => Covered(j, r)'
          BY <1>1, <1>11, CoveredStays
        <5>2. RecordedConfirmed(journal'[j], c)
          BY <1>1, <1>2, <2>3, <3>2, ConfirmationRecorded
        <5> QED BY <3>3, <5>1, <5>2 DEF Covered
      <4>3. \/ Covered(j, r)'
            \/ \E d \in DOMAIN plan'[p] : d >= next'[p] /\ r \in plan'[p][d]
            \/ \E e \in SignedEvents(journal'[j]) : e.chunk \in inFlight'[p] /\ r \in e.rows
        BY <1>3, <3>1, <3>3, <4>1, <4>2
      <4> QED BY <3>2, <4>3 DEF Accounted, Covered
    <3> QED BY <1>11, <3>1, <3>4
  <2> QED BY <1>2, <2>1, <2>2, <2>3
<1>12. Grows => AccountInv(p)'
  BY <1>1, <1>3, <1>9, <1>10, <1>11, ExecutingStep
<1> QED BY <1>8, <1>12, StepKeepsPaid

(* A run without failures completes when every row is paid.                 *)
LEMMA CompletedKeepsPaid ==
  ASSUME IInv, PaidInv, NEW p \in Procs, AppendRunCompleted(p), ProcAction(p)
  PROVE  PaidInv'
<1>1. /\ TypeOK /\ AccountInv(p) /\ pc[p] \in Executing /\ failures[p] \in Nat /\ next[p] \in Nat
      /\ next[p] \notin DOMAIN plan[p] /\ inFlight[p] = {} /\ plan[p] \in Plans
      /\ Log(p, CompletedEvent(failures[p])) /\ Exit(p)
  BY DEF AppendRunCompleted, AllSigned, IInv, TypeOK, PaidInv, Executing
<1>2. \A c \in DOMAIN plan[p] : ~(c >= next[p])
  <2>1. \A c \in DOMAIN plan[p] : c \in Nat
    BY <1>1, PlanMaps, Numbers
  <2>2. \A c \in DOMAIN plan[p] : c >= next[p] => next[p] \in next[p]..c
    BY <1>1, <2>1, Intervals
  <2> QED BY <1>1, <2>2 DEF AccountInv, Contiguous
<1>3. failures[p] = 0 => \A r \in Rows : Covered(jn[p], r)
  BY <1>1, <1>2 DEF AccountInv, Accounted
<1>4. /\ CompletedEvent(failures[p]) \in Event
      /\ CompletedEvent(failures[p]).kind = "RunCompleted"
      /\ CompletedEvent(failures[p]) = CompletedEvent(0) => failures[p] = 0
  BY <1>1, EventValues DEF CompletedEvent
<1>5. TrueLog(p)
  BY <1>1, <1>3, <1>4 DEF TrueLog
<1> QED BY <1>1, <1>5, ExitKeepsPaid

-----------------------------------------------------------------------------
(* The other steps.                                                         *)

(* Creating a journal, with every row to pay.                               *)
LEMMA CreateNewKeepsPaid ==
  ASSUME IInv, PaidInv, NEW p \in Procs, CreateNew(p), ProcAction(p)
  PROVE  PaidInv'
<1>1. CASE Exit(p) /\ UNCHANGED journal
  BY <1>1, ExitKeepsPaid DEF TrueLog
<1>2. CASE ~(Exit(p) /\ UNCHANGED journal)
  <2>1. /\ Log(p, RunEvent("RunCreated")) /\ remaining' = [remaining EXCEPT ![p] = Rows]
        /\ pc' = [pc EXCEPT ![p] = "plan"]
    BY <1>2 DEF CreateNew, Goto
  <2>2. pc'[p] = "plan" /\ remaining'[p] = Rows
    BY <2>1 DEF IInv, TypeOK
  <2>3. AccountInv(p)'
    BY <2>2 DEF AccountInv, Executing, Sending
  <2> QED BY <2>1, <2>3, RunEventIsTrue, StepKeepsPaid
<1> QED BY <1>1, <1>2

(* Recording what a resume found confirmed.                                 *)
LEMMA RecordConfirmedKeepsPaid ==
  ASSUME IInv, PaidInv, NEW p \in Procs, RecordConfirmed(p), ProcAction(p)
  PROVE  PaidInv'
<1>1. /\ TypeOK /\ AccountInv(p) /\ pc[p] = "record" /\ pc' = pc /\ jn' = jn
      /\ remaining' = remaining /\ record[p] \subseteq ChunkIndex
  BY DEF RecordConfirmed, IInv, TypeOK, PaidInv
<1>2. PICK c \in record[p] : /\ Log(p, ChunkEvent("ChunkConfirmed", c))
                             /\ record' = [record EXCEPT ![p] = @ \ {c}]
  BY DEF RecordConfirmed
<1>3. TrueLog(p)
  <2>1. c \in ChunkIndex /\ Paid(<<jn[p], c>>)
    BY <1>1 DEF AccountInv
  <2> QED BY <1>2, <2>1, ChunkEventIsTrue
<1>4. record'[p] = record[p] \ {c}
  BY <1>1, <1>2 DEF TypeOK
<1>5. ASSUME Grows, NEW r \in Rows, Held(p, r) PROVE Covered(jn[p], r)' \/ Held(p, r)'
  <2>1. PICK j \in Journals : j = jn[p] /\ j = jn'[p]
    BY <1>1 DEF TypeOK
  <2>2. PICK e \in SignedEvents(journal[j]) : e.chunk \in record[p] /\ r \in e.rows
    BY <1>5, <2>1 DEF Held
  <2>3. e \in SignedEvents(journal'[j])
    BY <1>5 DEF Grows
  <2>4. RecordedConfirmed(journal'[j], c)
    BY <1>1, <1>2, <2>1, ConfirmationRecorded
  <2>5. CASE e.chunk = c
    BY <1>1, <2>1, <2>2, <2>3, <2>4, <2>5 DEF Covered
  <2>6. CASE e.chunk # c
    BY <1>4, <2>1, <2>2, <2>3, <2>6 DEF Held
  <2> QED BY <2>5, <2>6
<1>6. Grows => AccountInv(p)'
  BY <1>1, <1>4, <1>5, PlanningStep
<1> QED BY <1>3, <1>6, StepKeepsPaid

(* With no row left after that, every row is recorded.                      *)
LEMMA RecordedAllKeepsPaid ==
  ASSUME IInv, PaidInv, NEW p \in Procs, RecordedAll(p), ProcAction(p)
  PROVE  PaidInv'
<1>1. TypeOK /\ AccountInv(p) /\ pc[p] = "record" /\ \A r : ~Held(p, r)
  BY DEF RecordedAll, IInv, PaidInv, Held
<1>2. CASE remaining[p] = {}
  <2>1. Log(p, CompletedEvent(0)) /\ Exit(p)
    BY <1>2 DEF RecordedAll
  <2>2. \A r \in Rows : Covered(jn[p], r)
    BY <1>1, <1>2 DEF AccountInv
  <2>3. CompletedEvent(0) \in Event /\ CompletedEvent(0).kind # "ChunkConfirmed"
    BY EventValues
  <2>4. TrueLog(p)
    BY <2>1, <2>2, <2>3 DEF TrueLog
  <2> QED BY <2>1, <2>4, ExitKeepsPaid
<1>3. CASE remaining[p] # {}
  <2>1. /\ pc'[p] = "plan" /\ journal' = journal /\ jn' = jn /\ remaining' = remaining
        /\ record' = record
    BY <1>1, <1>3 DEF RecordedAll, Goto, TypeOK
  <2>2. Grows => AccountInv(p)'
    BY <1>1, <2>1, PlanningStep
  <2> QED BY <2>1, <2>2, StepKeepsPaid DEF TrueLog
<1> QED BY <1>2, <1>3

(* Every step of a process.                                                 *)
LEMMA ProcActionKeepsPaid ==
  ASSUME IInv, PaidInv, NEW p \in Procs, ProcAction(p)
  PROVE  PaidInv'
<1>1. TypeOK
  BY DEF IInv
<1>2. ASSUME NEW j \in Journals, StartFresh(p, j) \/ OpenExisting(p, j) PROVE PaidInv'
  <2>1. pc'[p] \in {"create", "tip"} /\ journal' = journal
    BY <1>1, <1>2 DEF StartFresh, OpenExisting, Goto, TypeOK
  <2> QED BY <2>1, NoAccounts, StepKeepsPaid DEF TrueLog
<1>3. CASE ReadTip(p)
  <2>1. pc'[p] = "statuses" /\ journal' = journal
    BY <1>1, <1>3 DEF ReadTip, Goto, TypeOK
  <2> QED BY <2>1, NoAccounts, StepKeepsPaid DEF TrueLog
<1>4. CASE AppendRunInterrupted(p)
  BY <1>4, RunEventIsTrue, ExitKeepsPaid DEF AppendRunInterrupted
<1>5. CASE Crash(p)
  BY <1>5, ExitKeepsPaid DEF Crash, TrueLog
<1>6. CASE CreateNew(p) \/ PlanResume(p) \/ RecordConfirmed(p) \/ RecordedAll(p)
  BY <1>6, CreateNewKeepsPaid, PlanResumeKeepsPaid, RecordConfirmedKeepsPaid, RecordedAllKeepsPaid
<1>7. CASE PlanAndAuthorize(p) \/ SignChunk(p) \/ Send(p) \/ AppendChunkBroadcast(p)
             \/ AppendChunkFailed(p)
  BY <1>7, PlanAndAuthorizeKeepsPaid, SignChunkKeepsPaid, SendKeepsPaid, BroadcastKeepsPaid,
     FailedKeepsPaid
<1>8. CASE Drain(p) \/ AppendRunCompleted(p)
  BY <1>8, DrainKeepsPaid, CompletedKeepsPaid
<1>9. ASSUME NEW v \in StatusNodes, PollStatuses(p, v) PROVE PaidInv'
  BY <1>9, PollKeepsPaid
<1>10. ASSUME NEW h \in 0..confirmed, PollHeight(p, h) PROVE PaidInv'
  BY <1>10, HeightKeepsPaid
<1> QED BY <1>2, <1>3, <1>4, <1>5, <1>6, <1>7, <1>8, <1>9, <1>10 DEF ProcAction, ProcStep

(* The chain moves, and takes no confirmed block back.                      *)
LEMMA LedgerKeepsPaid ==
  ASSUME IInv, PaidInv, ConfirmedIsFinal, LedgerNext \/ UNCHANGED ledgerVars,
         UNCHANGED <<journal, created, lock, procVars, runs>>
  PROVE  PaidInv'
<1>1. TypeOK /\ LedgerInv /\ UNCHANGED <<journal, jn, pc, remaining, record, plan, next,
                                         inFlight, polled, failures>>
  BY DEF IInv, procVars
<1>2. \A t \in Tx : Paid(t) => Paid(t)'
  BY <1>1, PaidStays DEF Paid, Landed, ledgerVars
<1>3. Grows
  BY <1>1, <1>2 DEF Grows
<1>4. ASSUME NEW q \in Procs PROVE AccountInv(q)'
  BY <1>1, <1>3, AccountsStay DEF PaidInv
<1>5. ASSUME NEW j \in Journals PROVE JournalPaid(j)'
  <2>1. JournalPaid(j) /\ journal'[j] = journal[j] /\ journal[j] \in Seq(Event)
    BY <1>1 DEF PaidInv, TypeOK, Logs
  <2>2. \A r : Covered(j, r) => Covered(j, r)'
    BY <1>1, <1>3, CoveredStays
  <2>3. \A e \in Range(journal[j]) : e.kind = "ChunkConfirmed" => <<j, e.chunk>> \in Tx
    <3>1. \A e \in Range(journal[j]) : e \in Event
      BY <2>1, LogEvents
    <3> QED BY <1>1, <3>1, ConfirmedChunk, ChunkTx
  <2> QED BY <1>2, <2>1, <2>2, <2>3 DEF JournalPaid
<1> QED BY <1>4, <1>5 DEF PaidInv

(* Nothing is recorded at first.                                            *)
LEMMA InitPaid ==
  ASSUME Init PROVE PaidInv
<1>1. ASSUME NEW j \in Journals PROVE JournalPaid(j)
  <2>1. journal[j] = <<>>
    BY <1>1 DEF Init
  <2>2. Range(journal[j]) = {} /\ DOMAIN journal[j] = {}
    BY <2>1, LogEvents
  <2> QED BY <2>2 DEF JournalPaid, Finished
<1>2. ASSUME NEW p \in Procs PROVE AccountInv(p)
  <2>1. pc[p] = "idle"
    BY <1>2 DEF Init
  <2> QED BY <2>1 DEF AccountInv, Executing, Sending
<1> QED BY <1>1, <1>2 DEF PaidInv

-----------------------------------------------------------------------------
(* The theorems.                                                            *)

(* While confirmed blocks hold, the accounts are true in every state.       *)
THEOREM PaidInvHolds == Spec => [](ConfirmedIsFinal => PaidInv)
<1>1. Init => (ConfirmedIsFinal => PaidInv)
  BY InitPaid
<1>2. IInv /\ (ConfirmedIsFinal => PaidInv) /\ [Next]_vars => (ConfirmedIsFinal => PaidInv)'
  <2> SUFFICES ASSUME IInv, ConfirmedIsFinal, PaidInv, [Next]_vars PROVE PaidInv'
    OBVIOUS
  <2>1. CASE Next
    BY <2>1, ProcActionKeepsPaid, LedgerKeepsPaid DEF Next, Cluster
  <2>2. CASE UNCHANGED vars
    BY <2>2, LedgerKeepsPaid DEF vars
  <2> QED BY <2>1, <2>2
<1> QED BY <1>1, <1>2, IInvHolds, PTL DEF Spec

(* A chunk that the journal records as confirmed, in the run or when it is  *)
(* resumed, has landed in a confirmed block (poll_pending,                  *)
(* confirm_not_landed).                                                     *)
THEOREM ConfirmedIsLanded == Spec => []ConfirmedHasLanded
<1>1. (ConfirmedIsFinal => PaidInv) => ConfirmedHasLanded
  BY DEF PaidInv, JournalPaid, Paid, ConfirmedHasLanded
<1> QED BY <1>1, PaidInvHolds, PTL

(* A CSV that matching_run reports as already paid is paid, every row of    *)
(* it, however many runs and crashes that took (append_run_completed).      *)
THEOREM FinishedIsPaid == Spec => []FinishedPaidEveryRow
<1>1. (ConfirmedIsFinal => PaidInv) => FinishedPaidEveryRow
  BY CoveredIsPaid DEF PaidInv, JournalPaid, Paid, FinishedPaidEveryRow
<1> QED BY <1>1, PaidInvHolds, PTL

-----------------------------------------------------------------------------
(* A finished run stays finished.                                           *)

(* A process that resumes a finished run finds nothing left to pay, and one *)
(* that plans or executes works on a run that is not finished.              *)
FinalInv(p) ==
  /\ pc[p] = "record" /\ Finished(journal[jn[p]]) => remaining[p] = {}
  /\ pc[p] \in {"plan"} \cup Executing => ~Finished(journal[jn[p]])

(* Nothing is finished at first.                                            *)
LEMMA EmptyUnfinished == ~Finished(<<>>)
BY LogEvents DEF Finished

(* The events that matching_run does not look at, and a clean completion,   *)
(* leave a finished log finished.                                           *)
LEMMA FinishedKept ==
  ASSUME NEW log \in Seq(Event), NEW e \in Event, Finished(log),
         \/ e.kind \notin {"ChunkSigned", "RunCompleted", "RunInterrupted"}
         \/ e = CompletedEvent(0)
  PROVE  Finished(Append(log, e))
<1> DEFINE longer == Append(log, e)
<1>1. Extended(log, e, longer)
  BY AppendShape
<1> HIDE DEF longer
<1>2. PICK i \in DOMAIN log :
        /\ log[i] = CompletedEvent(0)
        /\ \A k \in DOMAIN log : k > i =>
             log[k].kind \notin {"ChunkSigned", "RunCompleted", "RunInterrupted"}
  BY DEF Finished
<1>3. CASE e = CompletedEvent(0)
  BY <1>1, <1>3 DEF Extended, Finished, longer
<1>4. CASE e.kind \notin {"ChunkSigned", "RunCompleted", "RunInterrupted"}
  <2>1. \A k \in DOMAIN longer : k > i =>
          longer[k].kind \notin {"ChunkSigned", "RunCompleted", "RunInterrupted"}
    BY <1>1, <1>2, <1>4 DEF Extended
  <2>2. i \in DOMAIN longer /\ longer[i] = log[i]
    BY <1>1 DEF Extended
  <2> QED BY <1>2, <2>1, <2>2 DEF Finished, longer
<1> QED BY <1>3, <1>4

(* The journal of a process at work is written by nobody else.              *)
LEMMA OthersJournal ==
  ASSUME IInv, NEW p \in Procs, Appends(p), NEW q \in Procs, q # p, Working(q)
  PROVE  journal'[jn[q]] = journal[jn[q]]
<1>1. TypeOK /\ ProcInv(p) /\ ProcInv(q) /\ jn[p] \in Journals /\ jn[q] \in Journals
  BY DEF IInv, TypeOK
<1>2. CASE journal' = journal
  BY <1>2
<1>3. CASE journal' # journal
  <2>1. PICK e \in Event : Log(p, e) /\ (Working(p) \/ jn[p] \notin created)
    BY <1>3 DEF Appends
  <2>2. jn[p] # jn[q]
    BY <1>1, <2>1 DEF ProcInv
  <2> QED BY <1>1, <2>1, <2>2 DEF Log, TypeOK
<1> QED BY <1>2, <1>3

(* A run that is not finished is finished only by a clean completion.       *)
LEMMA UnfinishedAppend ==
  ASSUME TypeOK, NEW p \in Procs, ~Finished(journal[jn[p]]), NEW e \in Event, Log(p, e),
         e.kind # "RunCompleted"
  PROVE  ~Finished(journal'[jn[p]])
<1>1. jn[p] \in Journals /\ journal[jn[p]] \in Seq(Event)
  BY DEF TypeOK, Logs
<1>2. journal'[jn[p]] = Append(journal[jn[p]], e)
  BY <1>1 DEF Log, TypeOK
<1>3. e # CompletedEvent(0)
  BY EventValues
<1> QED BY <1>1, <1>2, <1>3, FinishedAppend

(* No step makes a finished journal unfinished.                             *)
LEMMA FinishedStays ==
  ASSUME IInv, \A p \in Procs : FinalInv(p), [Next]_vars, NEW j \in Journals, Finished(journal[j])
  PROVE  Finished(journal'[j])
<1>1. TypeOK /\ journal[j] \in Seq(Event)
  BY DEF IInv, TypeOK, Logs
<1>2. CASE journal'[j] = journal[j]
  BY <1>2
<1>3. CASE journal'[j] # journal[j]
  <2>1. PICK p \in Procs : ProcAction(p)
    BY <1>3 DEF Next, Cluster, vars
  <2>2. PICK e \in Event : /\ Log(p, e)
                           /\ \/ e = CompletedEvent(0)
                              \/ e.kind \in {"RunCreated", "AuthorizationGranted", "ChunkConfirmed"}
                              \/ pc[p] \in Executing
    BY <1>3, <2>1, ProcAppends DEF Appends
  <2>3. j = jn[p] /\ journal'[j] = Append(journal[j], e)
    BY <1>1, <1>3, <2>2 DEF Log, TypeOK
  <2>4. pc[p] \notin Executing
    BY <2>3 DEF FinalInv
  <2>5. \/ e.kind \notin {"ChunkSigned", "RunCompleted", "RunInterrupted"}
        \/ e = CompletedEvent(0)
    BY <2>2, <2>4
  <2> QED BY <1>1, <2>3, <2>5, FinishedKept
<1> QED BY <1>2, <1>3

(* plan_resume leaves no row of a finished run to pay.                      *)
LEMMA PlanResumeFinal ==
  ASSUME IInv, PaidInv, NEW p \in Procs, PlanResume(p), ~Exit(p), Finished(journal[jn[p]])
  PROVE  remaining'[p] = {}
<1> DEFINE Chunks(v, actions) == {e \in SignedEvents(events[p]) : ResumeAction(p, e, v) \in actions}
           paid(v) == Chunks(v, {"Skip", "RecordConfirmedThenSkip"})
<1>1. PICK v \in StatusNodes :
        remaining' = [remaining EXCEPT ![p] = {r \in Rows : \A e \in paid(v) : r \notin e.rows}]
  BY DEF PlanResume
<1>2. remaining'[p] = {r \in Rows : \A e \in paid(v) : r \notin e.rows}
  BY <1>1 DEF IInv, TypeOK
<1>3. jn[p] \in Journals /\ events[p] = journal[jn[p]]
  BY DEF IInv, TypeOK, ProcInv, PlanResume
<1>4. \A r \in Rows : Covered(jn[p], r)
  BY <1>3 DEF PaidInv, JournalPaid
<1>5. ASSUME NEW r \in Rows PROVE \E e \in paid(v) : r \in e.rows
  <2>1. PICK e \in SignedEvents(events[p]) :
          r \in e.rows /\ RecordedConfirmed(events[p], e.chunk)
    BY <1>3, <1>4 DEF Covered
  <2>2. ResumeAction(p, e, v) = "Skip"
    BY <2>1 DEF ResumeAction, ReduceChunkResumeAction
  <2> QED BY <2>1, <2>2
<1> QED BY <1>2, <1>5

(* Every step of a process keeps what it knows of finished runs.            *)
LEMMA ProcKeepsFinal ==
  ASSUME IInv, PaidInv, NEW p \in Procs, FinalInv(p), ProcAction(p)
  PROVE  FinalInv(p)'
<1>1. TypeOK /\ jn[p] \in Journals
  BY DEF IInv, TypeOK
<1>2. ASSUME pc'[p] \notin {"record", "plan"} \cup Executing PROVE FinalInv(p)'
  BY <1>2 DEF FinalInv
<1>3. ASSUME Exit(p) PROVE FinalInv(p)'
  BY <1>1, <1>2, <1>3 DEF Exit, Goto, TypeOK, Executing, Sending
<1>4. ASSUME pc'[p] \in {"plan"} \cup Executing, pc[p] \in {"plan"} \cup Executing, jn' = jn,
             journal' = journal
      PROVE  FinalInv(p)'
  BY <1>4 DEF FinalInv, Executing, Sending
<1>5. ASSUME pc'[p] \in {"plan"} \cup Executing, pc[p] \in {"plan"} \cup Executing, jn' = jn,
             NEW e \in Event, Log(p, e), e.kind # "RunCompleted"
      PROVE  FinalInv(p)'
  <2>1. ~Finished(journal[jn[p]])
    BY <1>5 DEF FinalInv
  <2>2. ~Finished(journal'[jn[p]])
    BY <1>1, <1>5, <2>1, UnfinishedAppend
  <2> QED BY <1>5, <2>2 DEF FinalInv, Executing, Sending
<1>6. ASSUME NEW j \in Journals, StartFresh(p, j) \/ OpenExisting(p, j) PROVE FinalInv(p)'
  BY <1>1, <1>2, <1>6 DEF StartFresh, OpenExisting, Goto, TypeOK, Executing, Sending
<1>7. CASE ReadTip(p)
  BY <1>1, <1>2, <1>7 DEF ReadTip, Goto, TypeOK, Executing, Sending
<1>8. CASE CreateNew(p)
  <2>1. CASE Exit(p)
    BY <1>3, <2>1
  <2>2. CASE ~Exit(p)
    <3>1. /\ jn[p] \notin created /\ Log(p, RunEvent("RunCreated")) /\ jn' = jn
          /\ pc' = [pc EXCEPT ![p] = "plan"]
      BY <1>8, <2>2 DEF CreateNew, Goto
    <3>2. ~Finished(journal[jn[p]])
      BY <1>1, <3>1, EmptyUnfinished DEF IInv, JournalInv
    <3>3. ~Finished(journal'[jn[p]])
      BY <1>1, <3>1, <3>2, EventValues, UnfinishedAppend
    <3>4. pc'[p] = "plan"
      BY <1>1, <3>1 DEF TypeOK
    <3> QED BY <3>1, <3>3, <3>4 DEF FinalInv
  <2> QED BY <2>1, <2>2
<1>9. CASE PlanResume(p)
  <2>1. CASE Exit(p)
    BY <1>3, <2>1
  <2>2. CASE ~Exit(p)
    <3>1. pc' = [pc EXCEPT ![p] = "record"] /\ jn' = jn /\ journal' = journal
      BY <1>9, <2>2 DEF PlanResume, Goto
    <3>2. pc'[p] = "record"
      BY <1>1, <3>1 DEF TypeOK
    <3>3. Finished(journal[jn[p]]) => remaining'[p] = {}
      BY <1>9, <2>2, PlanResumeFinal
    <3> QED BY <3>1, <3>2, <3>3 DEF FinalInv, Executing, Sending
  <2> QED BY <2>1, <2>2
<1>10. CASE RecordConfirmed(p)
  <2>1. PICK c \in record[p] : Log(p, ChunkEvent("ChunkConfirmed", c))
    BY <1>10 DEF RecordConfirmed
  <2>2. pc[p] = "record" /\ pc' = pc /\ jn' = jn /\ remaining' = remaining /\ c \in ChunkIndex
    BY <1>1, <1>10 DEF RecordConfirmed, TypeOK
  <2>3. Finished(journal'[jn[p]]) => Finished(journal[jn[p]])
    BY <1>1, <2>1, <2>2, EventValues, UnfinishedAppend
  <2> QED BY <2>2, <2>3 DEF FinalInv, Executing, Sending
<1>11. CASE RecordedAll(p)
  <2>1. CASE remaining[p] = {}
    BY <1>3, <1>11, <2>1 DEF RecordedAll
  <2>2. CASE remaining[p] # {}
    <3>1. pc[p] = "record" /\ pc' = [pc EXCEPT ![p] = "plan"] /\ jn' = jn /\ journal' = journal
      BY <1>11, <2>2 DEF RecordedAll, Goto
    <3>2. pc'[p] = "plan"
      BY <1>1, <3>1 DEF TypeOK
    <3>3. ~Finished(journal[jn[p]])
      BY <2>2, <3>1 DEF FinalInv
    <3> QED BY <3>1, <3>2, <3>3 DEF FinalInv
  <2> QED BY <2>1, <2>2
<1>12. CASE PlanAndAuthorize(p)
  <2>1. /\ pc[p] = "plan" /\ pc'[p] = "next" /\ jn' = jn /\ Log(p, RunEvent("AuthorizationGranted"))
    BY <1>1, <1>12 DEF PlanAndAuthorize, Goto, TypeOK
  <2> QED BY <1>5, <2>1, EventValues DEF Executing
<1>13. CASE SignChunk(p) \/ AppendChunkBroadcast(p) \/ AppendChunkFailed(p)
  <2>1. pc[p] \in Executing /\ pc'[p] \in Executing /\ jn' = jn /\ next[p] \in ChunkIndex
    <3>1. ProcInv(p) /\ plan[p] \in Plans
      BY DEF IInv, TypeOK
    <3> QED BY <1>1, <1>13, <3>1, PlanMaps
            DEF SignChunk, AllSigned, AppendChunkBroadcast, AppendChunkFailed, Goto, TypeOK, ProcInv,
                Executing, Sending
  <2>2. PICK e \in Event : Log(p, e) /\ e.kind # "RunCompleted"
    <3>1. CASE SignChunk(p)
      BY <1>1, <3>1, SignChunkAppends
    <3>2. CASE AppendChunkBroadcast(p)
      BY <2>1, <3>2, EventValues DEF AppendChunkBroadcast
    <3>3. CASE AppendChunkFailed(p)
      BY <2>1, <3>3, EventValues DEF AppendChunkFailed
    <3> QED BY <1>13, <3>1, <3>2, <3>3
  <2> QED BY <1>5, <2>1, <2>2
<1>14. CASE Send(p)
  BY <1>1, <1>4, <1>14 DEF Send, Goto, TypeOK, Executing, Sending
<1>15. ASSUME NEW v \in StatusNodes, PollStatuses(p, v) PROVE FinalInv(p)'
  BY <1>1, <1>4, <1>15 DEF PollStatuses, Goto, TypeOK, Executing, Sending
<1>16. ASSUME NEW h \in 0..confirmed, PollHeight(p, h) PROVE FinalInv(p)'
  BY <1>1, <1>4, <1>16 DEF PollHeight, Goto, TypeOK, Executing, Sending
<1>17. CASE Drain(p)
  <2>1. PICK c \in DOMAIN polled[p] : \/ UNCHANGED journal
                                      \/ Log(p, ChunkEvent("ChunkConfirmed", c))
                                      \/ Log(p, ChunkEvent("ChunkFailed", c))
    BY <1>17 DEF Drain
  <2>2. c \in ChunkIndex
    BY <1>1, PollMaps DEF TypeOK
  <2>3. pc[p] \in Executing /\ pc'[p] \in Executing /\ jn' = jn
    BY <1>1, <1>17 DEF Drain, Goto, TypeOK, Executing
  <2> QED BY <1>4, <1>5, <2>1, <2>2, <2>3, EventValues
<1>18. CASE AppendRunCompleted(p) \/ AppendRunInterrupted(p) \/ Crash(p)
  BY <1>3, <1>18 DEF AppendRunCompleted, AppendRunInterrupted, Crash
<1> QED BY <1>6, <1>7, <1>8, <1>9, <1>10, <1>11, <1>12, <1>13, <1>14, <1>15, <1>16, <1>17, <1>18
        DEF ProcAction, ProcStep

(* Every step does.                                                         *)
LEMMA StepKeepsFinal ==
  ASSUME IInv, PaidInv, \A p \in Procs : FinalInv(p), [Next]_vars, NEW q \in Procs
  PROVE  FinalInv(q)'
<1>1. ASSUME NEW p \in Procs, ProcAction(p) PROVE FinalInv(q)'
  <2>1. CASE q = p
    BY <1>1, <2>1, ProcKeepsFinal
  <2>2. CASE q # p
    <3>1. pc'[q] = pc[q] /\ jn'[q] = jn[q] /\ remaining'[q] = remaining[q]
      <4>1. OthersKeep(p)
        BY <1>1, ProcFootprint
      <4> QED BY <2>2, <4>1 DEF OthersKeep
    <3>2. Working(q) => journal'[jn[q]] = journal[jn[q]]
      BY <1>1, <2>2, ProcAppends, OthersJournal
    <3> QED BY <3>1, <3>2 DEF FinalInv, Working, Executing, Sending
  <2> QED BY <2>1, <2>2
<1>2. ASSUME UNCHANGED <<journal, procVars>> PROVE FinalInv(q)'
  BY <1>2 DEF procVars, FinalInv, Executing, Sending
<1> QED BY <1>1, <1>2 DEF Next, Cluster, vars

(* While confirmed blocks hold, no run is planned or executed once it is    *)
(* finished.                                                                *)
THEOREM FinalInvHolds == Spec => [](ConfirmedIsFinal => \A p \in Procs : FinalInv(p))
<1>1. Init => (ConfirmedIsFinal => \A p \in Procs : FinalInv(p))
  BY DEF Init, FinalInv, Executing, Sending
<1>2. /\ IInv /\ (ConfirmedIsFinal => PaidInv) /\ (ConfirmedIsFinal => \A p \in Procs : FinalInv(p))
      /\ [Next]_vars
      => (ConfirmedIsFinal => \A p \in Procs : FinalInv(p))'
  <2> SUFFICES ASSUME IInv, PaidInv, \A p \in Procs : FinalInv(p), [Next]_vars, NEW q \in Procs
               PROVE  FinalInv(q)'
    OBVIOUS
  <2> QED BY StepKeepsFinal
<1> QED BY <1>1, <1>2, IInvHolds, PaidInvHolds, PTL DEF Spec

-----------------------------------------------------------------------------
(* The refinement of Payout.                                                *)

(* What Payout promises of the state: a row is credited once, what is       *)
(* recorded is credited, and a finished payout is recorded.                 *)
SingleCredit == \A r \in Rows : \A t, u \in RowCredits(r) : t = u
RecordedCredit == \A r \in RecordedRows : RowCredits(r) # {}
FinishedRecord == (\E j \in Journals : Finished(journal[j])) => RecordedRows = Rows
PromiseInv == SingleCredit /\ RecordedCredit /\ FinishedRecord

(* One command at a time credits a row by one transaction.                  *)
LEMMA OneCredit ==
  ASSUME SequentialUse, RowPaidOnce
  PROVE  SingleCredit
<1> SUFFICES ASSUME NEW r \in Rows, NEW t \in RowCredits(r), NEW u \in RowCredits(r) PROVE t = u
  BY DEF SingleCredit
<1>1. t \in Tx /\ u \in Tx /\ Landed(t) /\ Landed(u)
  BY DEF RowCredits
<1>2. PICK e \in SignedEvents(journal[t[1]]) : e.chunk = t[2] /\ r \in e.rows
  BY DEF RowCredits
<1>3. PICK f \in SignedEvents(journal[u[1]]) : f.chunk = u[2] /\ r \in f.rows
  BY DEF RowCredits
<1>4. /\ t[1] \in Journals /\ t = <<t[1], e.chunk>>
      /\ u[1] \in Journals /\ u = <<u[1], f.chunk>>
  BY <1>1, <1>2, <1>3, TxPair
<1>5. e.rows \cap f.rows # {}
  BY <1>2, <1>3
<1>6. <<t[1], e.chunk>> = <<u[1], f.chunk>>
  BY <1>1, <1>4, <1>5 DEF RowPaidOnce
<1> QED BY <1>4, <1>6

(* A paid transaction of a signed chunk credits its rows.                   *)
LEMMA PaidCredits ==
  ASSUME TypeOK, NEW j \in Journals, NEW e \in SignedEvents(journal[j]), Paid(<<j, e.chunk>>),
         NEW r \in e.rows
  PROVE  <<j, e.chunk>> \in RowCredits(r)
<1>1. <<j, e.chunk>> \in Tx /\ <<j, e.chunk>>[1] = j /\ <<j, e.chunk>>[2] = e.chunk
  BY SignedTx
<1> QED BY <1>1 DEF RowCredits, Paid

(* The rows that journals cover are the recorded rows.                      *)
LEMMA RecordedIsCovered ==
  \A r : r \in RecordedRows <=> r \in Rows /\ \E j \in Journals : Covered(j, r)
BY DEF RecordedRows, Covered

(* True accounts and single payments keep the promises.                     *)
LEMMA PromisesKept ==
  ASSUME SequentialUse, IInv, PaidInv, RowPaidOnce
  PROVE  PromiseInv
<1>1. TypeOK /\ \A j \in Journals : JournalPaid(j)
  BY DEF IInv, PaidInv
<1>2. ASSUME NEW r \in RecordedRows PROVE RowCredits(r) # {}
  <2>1. PICK j \in Journals : Covered(j, r)
    BY RecordedIsCovered
  <2>2. PICK e \in SignedEvents(journal[j]) : r \in e.rows /\ Paid(<<j, e.chunk>>)
    BY <1>1, <2>1, CoveredIsPaid
  <2> QED BY <1>1, <2>2, PaidCredits
<1>3. ASSUME NEW j \in Journals, Finished(journal[j]) PROVE RecordedRows = Rows
  <2>1. \A r \in Rows : Covered(j, r)
    BY <1>1, <1>3 DEF JournalPaid
  <2> QED BY <2>1, RecordedIsCovered
<1> QED BY <1>2, <1>3, OneCredit DEF PromiseInv, RecordedCredit, FinishedRecord

(* One of the three variables of Payout changes, in the direction it may.   *)
Advances ==
  LET SameCredits == \A r \in Rows : RowCredits(r)' = RowCredits(r)
      SameRecord == RecordedRows' = RecordedRows
      SameReport == (\E j \in Journals : Finished(journal'[j])) <=> \E j \in Journals : Finished(journal[j])
  IN  \/ (\A r \in Rows : RowCredits(r) \subseteq RowCredits(r)') /\ SameRecord /\ SameReport
      \/ SameCredits /\ RecordedRows \subseteq RecordedRows' /\ SameReport
      \/ SameCredits /\ SameRecord /\ \E j \in Journals : Finished(journal'[j])

(* Such a step is a step of Payout.                                         *)
LEMMA AdvanceSimulates ==
  ASSUME PromiseInv', Advances
  PROVE  [Abstract!Next]_(Abstract!payoutVars)
<1> DEFINE paid == [r \in Rows |-> RowCredits(r)]
           finished == \E j \in Journals : Finished(journal[j])
<1>1. /\ \A r \in Rows : \A t, u \in RowCredits(r)' : t = u
      /\ \A r \in RecordedRows' : RowCredits(r)' # {}
      /\ finished' => RecordedRows' = Rows
  BY DEF PromiseInv, SingleCredit, RecordedCredit, FinishedRecord
<1>2. RecordedRows' \subseteq Rows
  BY DEF RecordedRows
<1>3. \A r \in Rows : paid[r] = RowCredits(r) /\ paid'[r] = RowCredits(r)' /\ RowCredits(r)' \subseteq Tx
  BY DEF RowCredits
<1>4. CASE /\ \A r \in Rows : RowCredits(r) \subseteq RowCredits(r)'
           /\ RecordedRows' = RecordedRows
           /\ finished' <=> finished
  <2>1. paid' \in [Rows -> SUBSET Tx]
    BY <1>3
  <2>2. ASSUME NEW r \in Rows, paid'[r] # paid[r]
        PROVE  paid[r] = {} /\ \E t \in Tx : paid'[r] = {t}
    <3>1. PICK t \in RowCredits(r)' : t \notin RowCredits(r)
      BY <1>3, <1>4, <2>2
    <3>2. RowCredits(r)' = {t} /\ t \in Tx
      BY SMT, <1>1, <1>3, <3>1
    <3> QED BY <1>3, <1>4, <3>1, <3>2
  <2>3. Abstract!Pay
    BY <1>4, <2>1, <2>2 DEF Abstract!Pay
  <2> QED BY <2>3 DEF Abstract!Next
<1>5. CASE /\ \A r \in Rows : RowCredits(r)' = RowCredits(r)
           /\ RecordedRows \subseteq RecordedRows'
           /\ finished' <=> finished
  <2>1. paid' = paid
    BY <1>5
  <2>2. \A r \in RecordedRows' : r \in Rows /\ paid[r] # {}
    BY <1>1, <1>2, <1>3, <1>5
  <2>3. Abstract!Record
    BY <1>5, <2>1, <2>2 DEF Abstract!Record
  <2> QED BY <2>3 DEF Abstract!Next
<1>6. CASE /\ \A r \in Rows : RowCredits(r)' = RowCredits(r)
           /\ RecordedRows' = RecordedRows
           /\ finished'
  <2>1. paid' = paid
    BY <1>6
  <2>2. Abstract!Finish
    BY <1>1, <1>6, <2>1 DEF Abstract!Finish
  <2> QED BY <2>2 DEF Abstract!Next
<1> QED BY <1>4, <1>5, <1>6 DEF Advances

(* Credits grow with what is signed and paid.                               *)
LEMMA CreditsGrow ==
  ASSUME Grows, NEW r
  PROVE  RowCredits(r) \subseteq RowCredits(r)'
<1> SUFFICES ASSUME NEW t \in RowCredits(r) PROVE t \in RowCredits(r)'
  OBVIOUS
<1>1. t \in Tx /\ Paid(t)
  BY DEF RowCredits, Paid
<1>2. Paid(t)' /\ t[1] \in Journals
  BY <1>1, TxPair DEF Grows
<1>3. PICK e \in SignedEvents(journal[t[1]]) : e.chunk = t[2] /\ r \in e.rows
  BY DEF RowCredits
<1>4. e \in SignedEvents(journal'[t[1]])
  BY <1>2, <1>3 DEF Grows
<1> QED BY <1>1, <1>2, <1>3, <1>4 DEF RowCredits, Paid

(* Records grow too.                                                        *)
LEMMA RecordGrows ==
  ASSUME TypeOK, Grows
  PROVE  RecordedRows \subseteq RecordedRows'
BY DEF Grows, RecordedRows

(* A step of the cluster credits rows.                                      *)
LEMMA LedgerAdvances ==
  ASSUME ConfirmedIsFinal, IInv, LedgerNext \/ UNCHANGED ledgerVars, journal' = journal
  PROVE  Advances
<1>1. \A t \in Tx : Paid(t) => Paid(t)'
  BY PaidStays DEF IInv, Paid, Landed, ledgerVars
<1>2. Grows
  BY <1>1 DEF Grows
<1>3. RecordedRows' = RecordedRows
  BY DEF RecordedRows
<1> QED BY <1>2, <1>3, CreditsGrow DEF Advances

(* So does signing; a chunk signed last is not recorded.                    *)
LEMMA SignedUnrecorded ==
  ASSUME NEW log \in Seq(Event), NEW e \in Event, e.kind = "ChunkSigned"
  PROVE  ~RecordedConfirmed(Append(log, e), e.chunk)
<1> DEFINE longer == Append(log, e)
<1>1. Extended(log, e, longer)
  BY AppendShape
<1> SUFFICES ASSUME NEW i \in DOMAIN longer, longer[i] = ChunkEvent("ChunkConfirmed", e.chunk),
                    \A k \in DOMAIN longer : k > i =>
                      ~(longer[k].kind = "ChunkSigned" /\ longer[k].chunk = e.chunk)
             PROVE  FALSE
  BY DEF RecordedConfirmed
<1> HIDE DEF longer
<1>2. ChunkEvent("ChunkConfirmed", e.chunk).kind = "ChunkConfirmed"
  BY DEF ChunkEvent
<1>3. i \in DOMAIN log
  BY <1>1, <1>2 DEF Extended
<1> QED BY <1>1, <1>3 DEF Extended

(* Nothing but a confirmation adds to the record.                           *)
LEMMA RecordKept ==
  ASSUME TypeOK, Grows, NEW p \in Procs, NEW e \in Event, Log(p, e), e.kind # "ChunkConfirmed"
  PROVE  RecordedRows' = RecordedRows
<1>1. RecordedRows \subseteq RecordedRows'
  BY RecordGrows
<1>2. ASSUME NEW r \in RecordedRows' PROVE r \in RecordedRows
  <2>1. PICK j \in Journals : \E f \in SignedEvents(journal'[j]) :
          r \in f.rows /\ RecordedConfirmed(journal'[j], f.chunk)
    BY DEF RecordedRows
  <2>2. PICK f \in SignedEvents(journal'[j]) :
          r \in f.rows /\ RecordedConfirmed(journal'[j], f.chunk)
    BY <2>1
  <2>3. r \in Rows /\ jn[p] \in Journals /\ journal[j] \in Seq(Event)
    BY DEF RecordedRows, TypeOK, Logs
  <2>4. CASE j # jn[p]
    <3>1. journal'[j] = journal[j]
      BY <2>3, <2>4 DEF Log, TypeOK
    <3> QED BY <2>2, <2>3, <3>1 DEF RecordedRows
  <2>5. CASE j = jn[p]
    <3>1. journal'[j] = Append(journal[j], e)
      BY <2>3, <2>5 DEF Log, TypeOK
    <3>2. e # ChunkEvent("ChunkConfirmed", f.chunk)
      <4>1. ChunkEvent("ChunkConfirmed", f.chunk).kind = "ChunkConfirmed"
        BY DEF ChunkEvent
      <4> QED BY <4>1
    <3>3. RecordedConfirmed(journal[j], f.chunk)
      BY <2>2, <2>3, <3>1, <3>2, RecordedBefore
    <3>4. f # e \/ e.kind # "ChunkSigned"
      BY <2>2, <2>3, <3>1, SignedUnrecorded
    <3>5. f \in SignedEvents(journal[j])
      BY <2>3, <3>1, <3>4, AppendSigned
    <3> QED BY <2>2, <2>3, <3>3, <3>5 DEF RecordedRows
  <2> QED BY <2>4, <2>5
<1> QED BY <1>1, <1>2

(* A step of a process signs, records, reports or does none of it.          *)
LEMMA ProcAdvances ==
  ASSUME IInv, \A q \in Procs : FinalInv(q), Next, NEW p \in Procs, ProcAction(p)
  PROVE  Advances
<1>1. TypeOK /\ Grows
  BY ProcGrows DEF IInv
<1>2. (\E j \in Journals : Finished(journal[j])) => \E j \in Journals : Finished(journal'[j])
  BY FinishedStays
<1>3. \A r \in Rows : RowCredits(r) \subseteq RowCredits(r)'
  BY <1>1, CreditsGrow
<1>4. RecordedRows \subseteq RecordedRows'
  BY <1>1, RecordGrows
<1>5. ASSUME NEW e \in Event, Log(p, e), e # CompletedEvent(0)
      PROVE  (\E j \in Journals : Finished(journal'[j])) => \E j \in Journals : Finished(journal[j])
  <2> SUFFICES ASSUME NEW j \in Journals, Finished(journal'[j]) PROVE Finished(journal[j])
    OBVIOUS
  <2>1. jn[p] \in Journals /\ journal[j] \in Seq(Event)
    BY <1>1 DEF TypeOK, Logs
  <2>2. journal'[j] = journal[j] \/ journal'[j] = Append(journal[j], e)
    BY <1>1, <1>5, <2>1 DEF Log, TypeOK
  <2> QED BY <1>5, <2>1, <2>2, FinishedAppend
<1>6. CASE SignChunk(p)
  <2>1. PICK e \in Event : Log(p, e) /\ e.kind = "ChunkSigned"
    BY <1>1, <1>6, SignChunkAppends
  <2>2. e.kind # "ChunkConfirmed" /\ e # CompletedEvent(0)
    BY <2>1, EventValues
  <2>3. RecordedRows' = RecordedRows
    BY <1>1, <2>1, <2>2, RecordKept
  <2> QED BY <1>2, <1>3, <1>5, <2>1, <2>2, <2>3 DEF Advances
<1>7. CASE ~SignChunk(p)
  <2>1. QuietLog(p)
    BY <1>7, ProcLog
  <2>2. \A r \in Rows : RowCredits(r)' = RowCredits(r)
    <3>1. UNCHANGED <<block, failed, confirmed>>
      BY AccountFootprint DEF AccountsKept
    <3>2. \A j \in Journals : SignedEvents(journal'[j]) = SignedEvents(journal[j])
      BY <1>1, <2>1, QuietLogEffect
    <3>3. \A t \in Tx : SignedEvents(journal'[t[1]]) = SignedEvents(journal[t[1]])
      BY <3>2, TxPair
    <3> QED BY <3>1, <3>3 DEF RowCredits, Landed
  <2>3. CASE journal' = journal
    <3>1. RecordedRows' = RecordedRows
      BY <2>3 DEF RecordedRows
    <3> QED BY <1>3, <2>3, <3>1 DEF Advances
  <2>4. ASSUME NEW e \in Event, Log(p, e), e.kind = "ChunkConfirmed" PROVE Advances
    <3>1. e # CompletedEvent(0)
      BY <2>4, EventValues
    <3> QED BY <1>2, <1>4, <1>5, <2>2, <2>4, <3>1 DEF Advances
  <2>5. ASSUME NEW e \in Event, Log(p, e), e.kind # "ChunkConfirmed" PROVE Advances
    <3>1. RecordedRows' = RecordedRows
      BY <1>1, <2>5, RecordKept
    <3>2. CASE \E j \in Journals : Finished(journal'[j])
      BY <2>2, <3>1, <3>2 DEF Advances
    <3>3. CASE ~\E j \in Journals : Finished(journal'[j])
      BY <1>2, <1>3, <3>1, <3>3 DEF Advances
    <3> QED BY <3>2, <3>3
  <2> QED BY <2>1, <2>3, <2>4, <2>5 DEF QuietLog
<1> QED BY <1>6, <1>7

(* While confirmed blocks hold and the command is run one at a time, it     *)
(* implements the abstract payout, over any number of runs, resumes and     *)
(* crashes: rows are credited once, are recorded after that, and the payout *)
(* is reported finished, for good, when all of them are recorded.           *)
THEOREM FanoutImplementsPayout ==
  ASSUME ConfirmedIsFinal, SequentialUse
  PROVE  Spec => ImplementsPayout
<1>1. Init => Abstract!Init
  <2> SUFFICES ASSUME Init PROVE Abstract!Init
    OBVIOUS
  <2>1. \A j \in Journals : journal[j] = <<>>
    BY DEF Init
  <2>2. \A j \in Journals : SignedEvents(journal[j]) = {}
    BY <2>1, LogEvents
  <2>3. \A r \in Rows : RowCredits(r) = {}
    BY <2>2, TxPair DEF RowCredits
  <2>4. RecordedRows = {}
    BY <2>2 DEF RecordedRows
  <2>5. ~\E j \in Journals : Finished(journal[j])
    BY <2>1, EmptyUnfinished
  <2> QED BY <2>3, <2>4, <2>5 DEF Abstract!Init
<1>2. /\ IInv /\ (ConfirmedIsFinal => \A p \in Procs : FinalInv(p)) /\ PromiseInv' /\ [Next]_vars
      => [Abstract!Next]_(Abstract!payoutVars)
  <2> SUFFICES ASSUME IInv, \A p \in Procs : FinalInv(p), PromiseInv', [Next]_vars
               PROVE  [Abstract!Next]_(Abstract!payoutVars)
    OBVIOUS
  <2>1. CASE Next
    BY <2>1, LedgerAdvances, ProcAdvances, AdvanceSimulates DEF Next, Cluster
  <2>2. CASE UNCHANGED vars
    BY <2>2, LedgerAdvances, AdvanceSimulates DEF vars
  <2> QED BY <2>1, <2>2
<1>3. IInv /\ (ConfirmedIsFinal => PaidInv) /\ RowPaidOnce => PromiseInv
  BY PromisesKept
<1> QED BY <1>1, <1>2, <1>3, IInvHolds, PaidInvHolds, FinalInvHolds, RowOnce, PTL
        DEF Spec, ImplementsPayout, Abstract!Spec
=============================================================================
