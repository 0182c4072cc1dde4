------------------------------- MODULE Fanout -------------------------------
(***************************************************************************)
(* `pay fanout`: one CSV of payouts, paid by self-funded transactions.      *)
(*                                                                          *)
(*   cli/src/commands/fanout.rs      the command: fresh runs and --resume   *)
(*   core/src/client/push/executor.rs   the sign / send / poll pipeline     *)
(*   core/src/client/push/journal.rs    the durable journal and its lock    *)
(*                                                                          *)
(* Procs are invocations of the command that may run at the same time.      *)
(* Each works on one journal, whose file lock it holds from opening to      *)
(* exit.  A journal is the sequence of its durable events; everything else  *)
(* a process knows is lost when it stops.                                   *)
(***************************************************************************)
EXTENDS Landing, Sequences, FiniteSetsExt

CONSTANTS
  Rows,           \* the row numbers of the CSV
  Procs,          \* concurrent invocations of the command
  Journals,       \* journal paths
  Dir,            \* the directory of each journal path
  DefaultDir,     \* ~/.config/pay/push
  RowsPerChunk,   \* most transfers that fit one transaction
  MaxInFlight,    \* --max-in-flight
  MaxChunks,      \* bound: chunk indexes of a journal
  MaxRuns,        \* bound: invocations altogether
  ResumeUnsigned, \* TRUE if users also resume runs that signed nothing
  NoProc          \* nobody holds a lock

ChunkIndex == 0..(MaxChunks - 1)

ASSUME FanoutAssumption ==
  /\ Rows \subseteq Nat /\ IsFiniteSet(Rows)
  /\ Journals # {}
  /\ Dir \in [Journals -> {Dir[j] : j \in Journals}]
  /\ RowsPerChunk \in Nat \ {0}
  /\ MaxInFlight \in Nat \ {0}
  /\ MaxChunks \in Nat
  /\ MaxRuns \in Nat
  /\ ResumeUnsigned \in BOOLEAN
  /\ NoProc \notin Procs
  /\ Tx = Journals \X ChunkIndex

VARIABLES
  journal,     \* the durable events of each journal file
  created,     \* journal files that exist
  lock,        \* the process holding each journal's lock
  pc,          \* where each process is
  jn,          \* the journal a process works on
  events,      \* the events a resuming process loaded
  tip,         \* the finalized tip a resuming process read
  remaining,   \* rows the process has left to pay
  record,      \* chunks found confirmed, to be recorded before planning
  plan,        \* the planned chunks: chunk index -> rows
  next,        \* the first planned chunk index not signed yet
  inFlight,    \* broadcast chunks without a terminal status
  polled,      \* statuses of the current poll, not yet applied
  failures,    \* RunSummary.failed
  runs         \* invocations so far

procVars == <<pc, jn, events, tip, remaining, record, plan, next, inFlight, polled, failures>>
vars == <<ledgerVars, journal, created, lock, procVars, runs>>

-----------------------------------------------------------------------------
(* Journal events and what the code derives from them.  PreflightCompleted  *)
(* is left out: it is written for the reader of the file, and no code looks *)
(* at it.                                                                   *)

SignedEvent(c, rows, lastValid) ==
  [kind |-> "ChunkSigned", chunk |-> c, rows |-> rows, lastValid |-> lastValid]
ChunkEvent(kind, c) == [kind |-> kind, chunk |-> c]
RunEvent(kind) == [kind |-> kind]
CompletedEvent(n) == [kind |-> "RunCompleted", failed |-> n]

Event ==
  [kind : {"ChunkSigned"}, chunk : ChunkIndex, rows : SUBSET Rows, lastValid : Nat]
  \cup [kind : {"ChunkBroadcast", "ChunkConfirmed", "ChunkFailed"}, chunk : ChunkIndex]
  \cup [kind : {"RunCreated", "AuthorizationGranted", "RunInterrupted"}]
  \cup [kind : {"RunCompleted"}, failed : Nat]

SignedEvents(log) == {e \in Range(log) : e.kind = "ChunkSigned"}
Has(log, kind) == \E e \in Range(log) : e.kind = kind

(* reduce_chunk_resume_action: a ChunkConfirmed counts unless the chunk was *)
(* signed again after it.                                                   *)
RecordedConfirmed(log, c) ==
  \E i \in DOMAIN log :
    /\ log[i] = ChunkEvent("ChunkConfirmed", c)
    /\ \A k \in DOMAIN log : k > i => ~(log[k].kind = "ChunkSigned" /\ log[k].chunk = c)

ReduceChunkResumeAction(log, e, landing) ==
  IF RecordedConfirmed(log, e.chunk) THEN "Skip"
  ELSE CASE landing = "Confirmed" -> "RecordConfirmedThenSkip"
         [] landing = "Failed"    -> "RetryAfterFailure"
         [] landing = "Expired"   -> "RebuildWithFreshBlockhash"
         [] landing = "MayLand"   -> "RebroadcastIdenticalBytes"
         [] landing = "Unknown"   -> "StopUnknown"

(* matching_run: a run of this CSV that signed something.  Every run of the *)
(* model is of the same CSV, network and account.                           *)
MatchingRun(log) ==
  Has(log, "RunCreated") /\ Has(log, "AuthorizationGranted") /\ Has(log, "ChunkSigned")

(* A bug: a completion counts whatever failed.                              *)
FinishedDespiteFailures(log) ==
  \E i \in DOMAIN log :
    /\ log[i].kind = "RunCompleted"
    /\ \A k \in DOMAIN log : k > i =>
         log[k].kind \notin {"ChunkSigned", "RunCompleted", "RunInterrupted"}

(* matching_run: the last of the events it looks at is a clean completion.  *)
Finished(log) ==
  \E i \in DOMAIN log :
    /\ log[i] = CompletedEvent(0)
    /\ \A k \in DOMAIN log : k > i =>
         log[k].kind \notin {"ChunkSigned", "RunCompleted", "RunInterrupted"}

(* A bug: a finished run is no obstacle.                                    *)
RefuseUnfinishedRuns(j) ==
  \E k \in created : /\ Dir[k] \in {DefaultDir, Dir[j]}
                     /\ MatchingRun(journal[k]) /\ ~Finished(journal[k])

(* refuse_existing_runs looks in the default directory and in the one the   *)
(* new journal goes to.                                                     *)
RefuseExistingRuns(j) ==
  \E k \in created : Dir[k] \in {DefaultDir, Dir[j]} /\ MatchingRun(journal[k])

(* A bug: numbering goes on from the last index, not after it.              *)
NextChunkIndexReused(signed) ==
  {n \in 0..MaxChunks :
     /\ \A e \in signed : e.chunk <= n
     /\ n = 0 \/ \E e \in signed : n = e.chunk}

(* plan_resume numbers new chunks after the last one signed, or from 0.     *)
NextChunkIndex(signed) ==
  {n \in 0..MaxChunks :
     /\ \A e \in signed : e.chunk < n
     /\ n = 0 \/ \E e \in signed : n = e.chunk + 1}

(* pack_chunks_from: the rows in manifest order, cut into transactions.     *)
(* Where the cuts fall depends on which token accounts exist.               *)
PackChunksFrom(rows, first) ==
  {f \in UNION {[first..(first + n - 1) -> SUBSET rows] : n \in 0..Cardinality(rows)} :
     /\ \A c \in DOMAIN f : f[c] # {} /\ Cardinality(f[c]) <= RowsPerChunk
     /\ UNION Range(f) = rows
     /\ \A c, d \in DOMAIN f : c < d => \A r \in f[c], s \in f[d] : r < s}

-----------------------------------------------------------------------------
NoPlan == [c \in {} |-> {}]
NoPoll == [c \in {} |-> "StillPending"]

Labels == {"idle", "create", "tip", "statuses", "record", "plan", "next", "send", "sent",
           "unsent", "poll", "drain"}
Logs == Seq(Event)
ChunkMaps(values) == UNION {[chunks -> values] : chunks \in SUBSET ChunkIndex}
Plans == ChunkMaps(SUBSET Rows)
Polls == ChunkMaps({"StillPending", "Confirmed", "Failed", "Missing"})

TypeOK ==
  /\ LedgerTypeOK
  /\ journal \in [Journals -> Logs]
  /\ created \subseteq Journals
  /\ lock \in [Journals -> Procs \cup {NoProc}]
  /\ pc \in [Procs -> Labels]
  /\ jn \in [Procs -> Journals]
  /\ events \in [Procs -> Logs]
  /\ tip \in [Procs -> Nat]
  /\ remaining \in [Procs -> SUBSET Rows]
  /\ record \in [Procs -> SUBSET ChunkIndex]
  /\ plan \in [Procs -> Plans]
  /\ next \in [Procs -> Nat]
  /\ inFlight \in [Procs -> SUBSET ChunkIndex]
  /\ polled \in [Procs -> Polls]
  /\ failures \in [Procs -> Nat]
  /\ runs \in Nat

Init ==
  /\ LedgerInit
  /\ journal = [j \in Journals |-> <<>>]
  /\ created = {}
  /\ lock = [j \in Journals |-> NoProc]
  /\ pc = [p \in Procs |-> "idle"]
  /\ jn = [p \in Procs |-> CHOOSE j \in Journals : TRUE]
  /\ events = [p \in Procs |-> <<>>]
  /\ tip = [p \in Procs |-> 0]
  /\ remaining = [p \in Procs |-> {}]
  /\ record = [p \in Procs |-> {}]
  /\ plan = [p \in Procs |-> NoPlan]
  /\ next = [p \in Procs |-> 0]
  /\ inFlight = [p \in Procs |-> {}]
  /\ polled = [p \in Procs |-> NoPoll]
  /\ failures = [p \in Procs |-> 0]
  /\ runs = 0

-----------------------------------------------------------------------------
(* Helpers of the actions.                                                  *)

Goto(p, label) == pc' = [pc EXCEPT ![p] = label]
Log(p, e) == journal' = [journal EXCEPT ![jn[p]] = Append(@, e)]

(* The process ends: the journal closes, its lock is released and all that  *)
(* was only in memory is gone.                                              *)
Exit(p) ==
  /\ Goto(p, "idle")
  /\ lock' = [j \in Journals |-> IF lock[j] = p THEN NoProc ELSE lock[j]]
  /\ events' = [events EXCEPT ![p] = <<>>]
  /\ tip' = [tip EXCEPT ![p] = 0]
  /\ remaining' = [remaining EXCEPT ![p] = {}]
  /\ record' = [record EXCEPT ![p] = {}]
  /\ plan' = [plan EXCEPT ![p] = NoPlan]
  /\ next' = [next EXCEPT ![p] = 0]
  /\ inFlight' = [inFlight EXCEPT ![p] = {}]
  /\ polled' = [polled EXCEPT ![p] = NoPoll]
  /\ failures' = [failures EXCEPT ![p] = 0]
  /\ UNCHANGED jn

-----------------------------------------------------------------------------
(* A fresh run.                                                             *)

(* The command starts without --resume and no matching run turns up.        *)
StartFresh(p, j) ==
  /\ pc[p] = "idle" /\ runs < MaxRuns
  /\ ~RefuseExistingRuns(j)
  /\ Goto(p, "create")
  /\ jn' = [jn EXCEPT ![p] = j]
  /\ runs' = runs + 1
  /\ UNCHANGED <<ledgerVars, journal, created, lock, events, tip, remaining, record, plan,
                 next, inFlight, polled, failures>>

(* Journal::create_new fails if the file exists.  The process may die       *)
(* before append_run_created, which leaves an empty file.                   *)
CreateNew(p) ==
  /\ pc[p] = "create"
  /\ \/ /\ jn[p] \in created
        /\ Exit(p)
        /\ UNCHANGED <<journal, created>>
     \/ /\ jn[p] \notin created
        /\ created' = created \cup {jn[p]}
        /\ Exit(p)
        /\ UNCHANGED journal
     \/ /\ jn[p] \notin created
        /\ created' = created \cup {jn[p]}
        /\ lock' = [lock EXCEPT ![jn[p]] = p]
        /\ Log(p, RunEvent("RunCreated"))
        /\ remaining' = [remaining EXCEPT ![p] = Rows]
        /\ Goto(p, "plan")
        /\ UNCHANGED <<jn, events, tip, record, plan, next, inFlight, polled, failures>>
  /\ UNCHANGED <<ledgerVars, runs>>

-----------------------------------------------------------------------------
(* A resumed run.                                                           *)

(* lock_exclusive: one process has a journal until it exits.  A process     *)
(* that finds it taken gives up after a while, having done nothing.         *)
LockExclusive(p, j) ==
  /\ lock[j] = NoProc
  /\ lock' = [lock EXCEPT ![j] = p]

(* verify_resume_journal: there is a RunCreated, of this CSV as they all are.*)
VerifyResumeJournal(log) == Has(log, "RunCreated")

(* A bug: the journal is read without its lock.                             *)
OpenExistingUnlocked(p, j) ==
  /\ pc[p] = "idle" /\ runs < MaxRuns
  /\ j \in created
  /\ VerifyResumeJournal(journal[j])
  /\ jn' = [jn EXCEPT ![p] = j]
  /\ events' = [events EXCEPT ![p] = journal[j]]
  /\ Goto(p, "tip")
  /\ runs' = runs + 1
  /\ UNCHANGED <<ledgerVars, journal, created, lock, tip, remaining, record, plan, next,
                 inFlight, polled, failures>>

(* Journal::open_existing takes the lock before it reads the events.        *)
OpenExisting(p, j) ==
  /\ pc[p] = "idle" /\ runs < MaxRuns
  /\ j \in created /\ LockExclusive(p, j)
  /\ VerifyResumeJournal(journal[j])
  /\ jn' = [jn EXCEPT ![p] = j]
  /\ events' = [events EXCEPT ![p] = journal[j]]
  /\ Goto(p, "tip")
  /\ runs' = runs + 1
  /\ UNCHANGED <<ledgerVars, journal, created, tip, remaining, record, plan, next, inFlight,
                 polled, failures>>

ReadTip(p) ==
  /\ pc[p] = "tip"
  /\ \E f \in FinalizedTips : tip' = [tip EXCEPT ![p] = f]
  /\ Goto(p, "statuses")
  /\ UNCHANGED <<ledgerVars, journal, created, lock, jn, events, remaining, record, plan, next,
                 inFlight, polled, failures, runs>>

(* The second read of confirm_not_landed, and what it means for a chunk.    *)
ResumeAction(p, e, v) ==
  ReduceChunkResumeAction(events[p], e,
    ConfirmNotLanded(<<jn[p], e.chunk>>, e.lastValid, tip[p], v))

(* plan_resume: stop while any chunk may land or is unknown, else keep the  *)
(* rows of no paid chunk.                                                   *)
PlanResume(p) ==
  /\ pc[p] = "statuses"
  /\ \E v \in StatusNodes :
       LET signed == SignedEvents(events[p])
           Chunks(actions) == {e \in signed : ResumeAction(p, e, v) \in actions}
           paid == Chunks({"Skip", "RecordConfirmedThenSkip"})
           open == Chunks({"RebroadcastIdenticalBytes", "StopUnknown"})
       IN  \/ /\ open # {}
              /\ Exit(p)
           \/ /\ open = {}
              /\ record' = [record EXCEPT ![p] =
                   {e.chunk : e \in Chunks({"RecordConfirmedThenSkip"})}]
              /\ remaining' = [remaining EXCEPT ![p] = {r \in Rows : \A e \in paid : r \notin e.rows}]
              /\ \E n \in NextChunkIndex(signed) : next' = [next EXCEPT ![p] = n]
              /\ events' = [events EXCEPT ![p] = <<>>]
              /\ tip' = [tip EXCEPT ![p] = 0]
              /\ Goto(p, "record")
              /\ UNCHANGED <<lock, jn, plan, inFlight, polled, failures>>
  /\ UNCHANGED <<ledgerVars, journal, created, runs>>

RecordConfirmed(p) ==
  /\ pc[p] = "record"
  /\ \E c \in record[p] :
       /\ \A d \in record[p] : c <= d
       /\ Log(p, ChunkEvent("ChunkConfirmed", c))
       /\ record' = [record EXCEPT ![p] = @ \ {c}]
  /\ UNCHANGED <<ledgerVars, created, lock, pc, jn, events, tip, remaining, plan, next, inFlight,
                 polled, failures, runs>>

(* Every newly confirmed chunk is recorded: done if no row remains.         *)
RecordedAll(p) ==
  /\ pc[p] = "record" /\ record[p] = {}
  /\ IF remaining[p] = {}
     THEN Log(p, CompletedEvent(0)) /\ Exit(p)
     ELSE /\ Goto(p, "plan")
          /\ UNCHANGED <<journal, lock, jn, events, tip, remaining, record, plan, next, inFlight,
                         polled, failures>>
  /\ UNCHANGED <<ledgerVars, created, runs>>

-----------------------------------------------------------------------------
(* Planning and authorization, common to both.                              *)

(* Balances are checked, the batch is planned and the account holder        *)
(* authorizes it (a shortfall or a refusal ends the command: Crash).        *)
PlanAndAuthorize(p) ==
  /\ pc[p] = "plan"
  /\ \E f \in PackChunksFrom(remaining[p], next[p]) :
       /\ DOMAIN f \subseteq ChunkIndex
       /\ plan' = [plan EXCEPT ![p] = f]
  /\ Log(p, RunEvent("AuthorizationGranted"))
  /\ remaining' = [remaining EXCEPT ![p] = {}]
  /\ Goto(p, "next")
  /\ UNCHANGED <<ledgerVars, created, lock, jn, events, tip, record, next, inFlight, polled,
                 failures, runs>>

-----------------------------------------------------------------------------
(* PushExecutor::run.                                                       *)

WindowFull(p) == Cardinality(inFlight[p]) >= MaxInFlight
AllSigned(p) == next[p] \notin DOMAIN plan[p]

(* A bug: the signed bytes are not journaled.                               *)
SignChunkUnjournaled(p) ==
  /\ pc[p] = "next" /\ ~AllSigned(p) /\ ~WindowFull(p)
  /\ \E lastValid \in RecentExpiries : SignTx(<<jn[p], next[p]>>, lastValid)
  /\ Goto(p, "send")
  /\ UNCHANGED <<journal, created, lock, jn, events, tip, remaining, record, plan, next,
                 inFlight, polled, failures, runs>>

(* prepare, build, sign_chunk and append_chunk_signed.  Nothing leaves the  *)
(* process before the signed bytes are durable.                             *)
SignChunk(p) ==
  /\ pc[p] = "next" /\ ~AllSigned(p) /\ ~WindowFull(p)
  /\ \E lastValid \in RecentExpiries :
       /\ SignTx(<<jn[p], next[p]>>, lastValid)
       /\ Log(p, SignedEvent(next[p], plan[p][next[p]], lastValid))
  /\ Goto(p, "send")
  /\ UNCHANGED <<created, lock, jn, events, tip, remaining, record, plan, next, inFlight,
                 polled, failures, runs>>

(* broadcast: the answer may be lost after the bytes were forwarded.        *)
Send(p) ==
  /\ pc[p] = "send"
  /\ \E forwarded, answered \in BOOLEAN :
       /\ answered => forwarded
       /\ SendTx(<<jn[p], next[p]>>, forwarded)
       /\ Goto(p, IF answered THEN "sent" ELSE "unsent")
  /\ UNCHANGED <<journal, created, lock, jn, events, tip, remaining, record, plan, next,
                 inFlight, polled, failures, runs>>

AppendChunkBroadcast(p) ==
  /\ pc[p] = "sent"
  /\ Log(p, ChunkEvent("ChunkBroadcast", next[p]))
  /\ inFlight' = [inFlight EXCEPT ![p] = @ \cup {next[p]}]
  /\ next' = [next EXCEPT ![p] = @ + 1]
  /\ Goto(p, "next")
  /\ UNCHANGED <<ledgerVars, created, lock, jn, events, tip, remaining, record, plan, polled,
                 failures, runs>>

AppendChunkFailed(p) ==
  /\ pc[p] = "unsent"
  /\ Log(p, ChunkEvent("ChunkFailed", next[p]))
  /\ failures' = [failures EXCEPT ![p] = @ + 1]
  /\ next' = [next EXCEPT ![p] = @ + 1]
  /\ Goto(p, "next")
  /\ UNCHANGED <<ledgerVars, created, lock, jn, events, tip, remaining, record, plan, inFlight,
                 polled, runs>>

(* A bug: a processed signature counts as confirmed.                        *)
PollEntryProcessed(t, v) ==
  LET entry == RpcEntry(t, v)
  IN  CASE ~entry.found -> "Missing"
        [] entry.found /\ entry.err -> "Failed"
        [] OTHER -> "Confirmed"

(* poll_pending reads the statuses first ...                                *)
PollEntry(t, v) ==
  LET entry == RpcEntry(t, v)
  IN  CASE ~entry.found -> "Missing"
        [] entry.found /\ entry.err -> "Failed"
        [] OTHER -> IF entry.commitment \in {"confirmed", "finalized"}
                    THEN "Confirmed" ELSE "StillPending"

PollStatuses(p, v) ==
  /\ pc[p] = "next" /\ inFlight[p] # {} /\ (WindowFull(p) \/ AllSigned(p))
  /\ polled' = [polled EXCEPT ![p] =
                  [c \in inFlight[p] |-> PollEntry(<<jn[p], c>>, v)]]
  /\ Goto(p, "poll")
  /\ UNCHANGED <<ledgerVars, journal, created, lock, jn, events, tip, remaining, record, plan,
                 next, inFlight, failures, runs>>

(* A bug: a missing signature is pending for ever.                          *)
MissingIsPending(h, lastValid) == "StillPending"

(* ... and then, for the missing ones, the confirmed block height.          *)
ClassifyMissingSignature(h, lastValid) == IF h > lastValid THEN "Failed" ELSE "StillPending"

PollHeight(p, h) ==
  /\ pc[p] = "poll"
  /\ polled' = [polled EXCEPT ![p] = [c \in DOMAIN @ |->
                  IF @[c] = "Missing" THEN ClassifyMissingSignature(h, expiry[<<jn[p], c>>])
                                      ELSE @[c]]]
  /\ Goto(p, "drain")
  /\ UNCHANGED <<ledgerVars, journal, created, lock, jn, events, tip, remaining, record, plan,
                 next, inFlight, failures, runs>>

(* drain_in_flight applies the statuses one by one, oldest chunk first.     *)
Drain(p) ==
  /\ pc[p] = "drain"
  /\ \E c \in DOMAIN polled[p] :
       /\ \A d \in DOMAIN polled[p] : c <= d
       /\ polled' = [polled EXCEPT ![p] = [d \in DOMAIN @ \ {c} |-> @[d]]]
       /\ \/ /\ polled[p][c] = "StillPending"
             /\ UNCHANGED <<journal, inFlight, failures>>
          \/ /\ polled[p][c] = "Confirmed"
             /\ Log(p, ChunkEvent("ChunkConfirmed", c))
             /\ inFlight' = [inFlight EXCEPT ![p] = @ \ {c}]
             /\ UNCHANGED failures
          \/ /\ polled[p][c] = "Failed"
             /\ Log(p, ChunkEvent("ChunkFailed", c))
             /\ inFlight' = [inFlight EXCEPT ![p] = @ \ {c}]
             /\ failures' = [failures EXCEPT ![p] = @ + 1]
       /\ Goto(p, IF DOMAIN polled[p] = {c} THEN "next" ELSE "drain")
  /\ UNCHANGED <<ledgerVars, created, lock, jn, events, tip, remaining, record, plan, next, runs>>

(* Every chunk has a terminal status: the run completes.                    *)
AppendRunCompleted(p) ==
  /\ pc[p] = "next" /\ AllSigned(p) /\ inFlight[p] = {}
  /\ Log(p, CompletedEvent(failures[p]))
  /\ Exit(p)
  /\ UNCHANGED <<ledgerVars, created, runs>>

-----------------------------------------------------------------------------
(* Ways a run stops early.                                                  *)

(* An error inside the executor (of the RPC, the permit or an append) is    *)
(* journaled before the command returns.                                    *)
AppendRunInterrupted(p) ==
  /\ pc[p] \in {"next", "sent", "unsent", "poll", "drain"}
  /\ pc[p] = "next" => ~AllSigned(p) \/ inFlight[p] # {}
  /\ Log(p, RunEvent("RunInterrupted"))
  /\ Exit(p)
  /\ UNCHANGED <<ledgerVars, created, runs>>

(* The process is killed, or an error outside the executor ends the command.*)
Crash(p) ==
  /\ pc[p] # "idle"
  /\ Exit(p)
  /\ UNCHANGED <<ledgerVars, journal, created, runs>>

-----------------------------------------------------------------------------
ProcStep(p) ==
  \/ CreateNew(p)
  \/ ReadTip(p) \/ PlanResume(p) \/ RecordConfirmed(p) \/ RecordedAll(p)
  \/ PlanAndAuthorize(p)
  \/ SignChunk(p) \/ Send(p) \/ AppendChunkBroadcast(p) \/ AppendChunkFailed(p)
  \/ \E v \in StatusNodes : PollStatuses(p, v)
  \/ \E h \in 0..confirmed : PollHeight(p, h)
  \/ Drain(p) \/ AppendRunCompleted(p)

(* The path a user gives to --resume.                                       *)
MayResume(j) == ResumeUnsigned \/ MatchingRun(journal[j])

ProcAction(p) ==
  \/ \E j \in Journals : StartFresh(p, j) \/ (MayResume(j) /\ OpenExisting(p, j))
  \/ ProcStep(p)
  \/ AppendRunInterrupted(p)
  \/ Crash(p)

Cluster(step) == step /\ UNCHANGED <<journal, created, lock, procVars, runs>>

Next ==
  \/ \E p \in Procs : ProcAction(p)
  \/ Cluster(LedgerNext)

Spec == Init /\ [][Next]_vars

(* The executor loop keeps running; the cluster keeps producing and         *)
(* confirming blocks; and a node that is asked again and again is not       *)
(* behind for ever.  Nothing makes a crash, an error, a reorganisation or   *)
(* the inclusion of a transaction happen.                                   *)
Fairness ==
  /\ \A p \in Procs :
       /\ WF_vars(ProcStep(p) \/ AppendRunInterrupted(p))
       /\ SF_vars(PollStatuses(p, height))
       /\ SF_vars(PollHeight(p, confirmed))
  /\ WF_vars(Cluster(NewBlock))
  /\ WF_vars(Cluster(Confirm))

FairSpec == Spec /\ Fairness

-----------------------------------------------------------------------------
(* Properties.                                                              *)

(* Nothing is known to the network before its ChunkSigned event is durable  *)
(* (executor.rs signs, fsyncs the journal, and only then broadcasts).  A    *)
(* crash anywhere therefore leaves a record of every payout that may land.  *)
JournaledBeforeSent ==
  \A t \in pool : \E e \in SignedEvents(journal[t[1]]) :
    e.chunk = t[2] /\ e.lastValid = expiry[t]

(* Within one journal no row is paid by two transactions, whatever crashes, *)
(* lost answers, reorganisations, lagging nodes and resumes happened        *)
(* (plan_resume signs a replacement only for rows proven unpaid).           *)
JournalPaysOnce ==
  \A j \in Journals : \A e, f \in SignedEvents(journal[j]) :
    e # f /\ e.rows \cap f.rows # {} =>
      ~(Landed(<<j, e.chunk>>) /\ Landed(<<j, f.chunk>>))

(* A chunk index is never signed twice in one journal: the chunks of a      *)
(* resumed run are numbered after every chunk the journal knows, so the     *)
(* status looked up for an index is the status of its only transaction.     *)
ChunkSignedOnce ==
  \A j \in Journals : \A i, k \in DOMAIN journal[j] :
    /\ journal[j][i].kind = "ChunkSigned" /\ journal[j][k].kind = "ChunkSigned"
    /\ journal[j][i].chunk = journal[j][k].chunk
    => i = k

(* The events a resuming process decides from are the journal's events for  *)
(* as long as it decides (open_existing locks the file before it reads it). *)
SnapshotIsCurrent ==
  \A p \in Procs : pc[p] \in {"tip", "statuses"} => events[p] = journal[jn[p]]

(* While confirmed blocks hold, a chunk recorded as confirmed has landed.   *)
ConfirmedHasLanded ==
  ConfirmedIsFinal =>
    \A j \in Journals : \A e \in Range(journal[j]) :
      e.kind = "ChunkConfirmed" => Landed(<<j, e.chunk>>) /\ block[<<j, e.chunk>>] <= confirmed

(* While confirmed blocks hold, a journal that matching_run reports as      *)
(* finished ("already paid") has paid every row of the CSV.                 *)
FinishedPaidEveryRow ==
  ConfirmedIsFinal =>
    \A j \in Journals : MatchingRun(journal[j]) /\ Finished(journal[j]) =>
      \A r \in Rows : \E e \in SignedEvents(journal[j]) :
        r \in e.rows /\ Landed(<<j, e.chunk>>)

(* The command is run once at a time, with journals in the directory that   *)
(* refuse_existing_runs reads, and only runs that signed are resumed.       *)
SequentialUse ==
  /\ \A p, q \in Procs : p = q
  /\ \A j \in Journals : Dir[j] = DefaultDir
  /\ ~ResumeUnsigned

(* Under sequential use a rerun of the same CSV pays no row again: over all *)
(* journals together no row is paid by two transactions                     *)
(* (refuse_existing_runs).                                                  *)
RowPaidOnce ==
  SequentialUse =>
    \A j, k \in Journals : \A e \in SignedEvents(journal[j]), f \in SignedEvents(journal[k]) :
      <<j, e.chunk>> # <<k, f.chunk>> /\ e.rows \cap f.rows # {} =>
        ~(Landed(<<j, e.chunk>>) /\ Landed(<<k, f.chunk>>))

(* Once a signed chunk is proven replaceable it stays so: no later step     *)
(* lets it land.                                                            *)
ReplaceableForever ==
  [][\A j \in Journals : \A e \in SignedEvents(journal[j]) :
       Dead(<<j, e.chunk>>) => Dead(<<j, e.chunk>>)']_vars

(* A run that started ends: no signature keeps the executor polling for     *)
(* ever (poll_pending turns a missing signature past its expiry into a      *)
(* failure).                                                                *)
RunTerminates == \A p \in Procs : pc[p] # "idle" ~> pc[p] = "idle"

(* The payout that the journals and the chain amount to.                    *)
RowCredits(r) ==
  {t \in Tx : /\ Landed(t) /\ block[t] <= confirmed
              /\ \E e \in SignedEvents(journal[t[1]]) : e.chunk = t[2] /\ r \in e.rows}
RecordedRows ==
  {r \in Rows : \E j \in Journals : \E e \in SignedEvents(journal[j]) :
     r \in e.rows /\ RecordedConfirmed(journal[j], e.chunk)}

Abstract == INSTANCE Payout WITH
  Payments <- Tx,
  paid <- [r \in Rows |-> RowCredits(r)],
  recorded <- RecordedRows,
  finished <- \E j \in Journals : Finished(journal[j])

(* The command implements the abstract payout: rows are credited once, are  *)
(* recorded after they are credited, and the run is reported finished only  *)
(* when all of them are recorded.                                           *)
ImplementsPayout == Abstract!Spec
=============================================================================
