# Formal models of `pay`

This directory holds TLA+ specifications of the parts of this repository where money moves and where
crashes, retries and concurrent actors make it hard to move it exactly once:

* payouts: the `pay fanout` command with its journal, and the code redemption endpoint of `pay-api`;
* payment channels: the settle-sessions worker and the session lifecycle embedded in the gateway;
* the connector's sell queue, where inference sellers earn what buyers pay;
* the daily allowance of hosted wallets, which limits what an agent may sign away.

The models are checked with TLC on small instances, and nearly all of their safety properties are
proved with TLAPS for every value of the constants.

Paths below are relative to `rust/crates/` in the repository. `fanout.rs` is
`cli/src/commands/fanout.rs`; `executor.rs`, `journal.rs` and `planner.rs` are in
`core/src/client/push/`; `redeem.rs` is `pay-api/src/endpoints/redeem.rs`; `settle_sessions.rs` is
`pay-worker/src/bin/settle_sessions.rs`; `session.rs`, `session_stream.rs` and `completion_stream.rs`
are in `core/src/server/`; `queue.rs` and `routes.rs` are in `connect/src/sell/`; `policy.rs` is
`mcp/src/policy.rs`; `tenants.rs`, `oauth.rs`, `privy.rs` and `wallet_api.rs` are in `connect/src/`.

## The system and its parts

| Part | Code | Here |
|---|---|---|
| Proof that a payout did not land | `types/src/landing.rs` | `Landing`, `LandingProofs` |
| Solana cluster behind JSON-RPC | external; client in `pay-api-core/src/rpc.rs` | `Ledger` |
| `pay fanout`: CSV payouts, resume | `fanout.rs`, `executor.rs`, `journal.rs`, `planner.rs` | `Fanout`, `FanoutProofs` |
| Journal file | `journal.rs` | `Journal`, `JournalProofs` |
| Code redemption | `redeem.rs`, Redis | `Redeem`, `RedeemProofs` |
| What a payout promises | both flows | `Payout` |
| Payment channel program | external; used by `pay-worker` and `session.rs` | `Channel` |
| Channel record, reservations, close claims | `types/src/deployment_policy.rs`, `session.rs`, `settle_sessions.rs` | `ChannelStore` |
| Settlement worker | `settle_sessions.rs`, `pay-worker/src/channel.rs` | `SettlementPass`, `SessionWorker`, `BatchWorker`, `Settlement`, `SettlementProofs` |
| Gateway session lifecycle | `session.rs` | `Lifecycle`, `LifecycleProofs` |
| Sell queue and streamed charges | `queue.rs`, `routes.rs`, `completion_stream.rs`, `session_stream.rs` | `SellQueue`, `SellProofs` |
| Hosted wallet allowance | `policy.rs`, `tenants.rs`, `oauth.rs`, `privy.rs`, `wallet_api.rs` | `Allowance`, `AllowanceProofs` |
| Everything else | see "Not modelled" | |

`PROJECT.json` lists every part with its sources, status and the reason when it is left out, and maps
every definition to the lines it models.

How the modelled parts interact. A payout flow signs a transaction against a recent block, makes a
durable record of it (a journal event, or a Redis claim), sends it, and watches the chain. After a
crash, a timeout or a lost answer it has only that record and the chain. It then asks
`confirm_not_landed`, which reads the finalized tip first and the signature statuses second, whether
the recorded transaction may still land. Only a negative answer allows another signature for the same
rows or code.

A payment channel escrows a payer's deposit. The gateway accepts vouchers on it off chain and keeps the
highest in a Redis record. Closing a channel means settling that voucher, sealing the channel and
distributing it, after which nothing more can be collected. A close is made by the scheduled
settle-sessions worker, by the runloop inside each gateway replica (where no worker is deployed), by a
client, or started by the payer on chain; all of them, and requests at work, meet in the record.

A seller's endpoint on the connector has an earn cap. A buyer's request reserves a share of it, is paid
for at the gate, waits in the queue for a worker of the seller, and is answered in one piece or as a
stream that is charged for at its end or as it goes.

A hosted wallet signs only what its owner's policy allows: no payment above a ceiling, and no more than
a cap in a day. A signing request reserves its amount in the process's spend ledger, then asks the
wallet provider for the signature, and commits or releases. The ledger is in memory: after a restart the
first sign-in of the owner counts what left the wallet on chain that day and puts it into the ledger
before the wallet is bound to the session and can be asked to sign.

## Modules

**`Ledger`** (external environment). Blocks are numbers; a prefix is confirmed, and a prefix of that
finalized. A transaction can be included until its expiry height. `Fork` drops blocks above the
finalized one (above the confirmed one when `ConfirmedIsFinal`). Slots without blocks are left out,
so slots and block heights coincide. `SendTx` may forward bytes even when the call fails. A node
that answers a status query may be behind; the commitment it reports is the cluster's.

**`Landing`** (`landing.rs`). `ConfirmNotLanded` is the second of the two reads, given the tip kept
from the first; `Classify` and `SignatureStatusFromRpc` are the functions of the same names.

**`Fanout`**. `Procs` are invocations of the command. `journal[j]` is the sequence of durable events
of a journal, and everything else belongs to a process and is lost when it stops. `pc` follows the
code:

| Step | Code |
|---|---|
| `StartFresh`, `CreateNew` | the check for existing runs, then creating the journal (`fanout.rs:156-188`) |
| `OpenExisting` | lock, load, `verify_resume_journal` |
| `ReadTip`, `PlanResume` | `resume_landings` and `plan_resume` |
| `RecordConfirmed`, `RecordedAll` | chunks found confirmed are journaled before planning |
| `PlanAndAuthorize` | `pack_chunks_from`, permit, `AuthorizationGranted` |
| `SignChunk`, `Send`, `AppendChunkBroadcast`, `AppendChunkFailed` | one turn of the executor loop, cut where a crash or another actor can come between |
| `PollStatuses`, `PollHeight`, `Drain` | `poll_pending` and the draining of the window |
| `AppendRunCompleted`, `AppendRunInterrupted` | how a run ends |
| `Crash` | the process is killed, or an error outside the executor ends the command |

`PackChunksFrom` is the set of plans the packer may return (all rows, in order, in non-empty chunks
of bounded size, numbered from an offset); which of them it returns depends on transaction sizes.

**`Journal`** is the file under one journal: writes, fsync, torn records, crashes, reopening.
`Fanout` takes from it that an acknowledged append survives. A later successful fsync is assumed to
cover earlier writes, and truncation on open is assumed ordered before later appends.

**`Redeem`**. Requests run concurrently on any number of replicas. `claim[c]` is the Redis value of a
code, changed by compare-and-set (`TransitionClaim`); each Redis call may fail, applied or not. `pc`
follows `redeem` and `reconcile_existing_claim`, one label per await. `Blind` says which RPC lookup
may miss a landed payout: the status lookup of a node without history, or the transaction lookup.
A request reconciles at most once, as in the code. Redis itself is external and does not lose data.

**`Payout`** is the abstract specification: rows are credited at most once, recorded after that, and
the payout is finished only when all are recorded. `Fanout` refines it with rows, and `Redeem` with
codes, through `INSTANCE Payout WITH`.

**`Channel`** (external environment). One channel account at confirmed (`chain`) and at finalized
(`fin`) commitment, and the transactions its senders wait for. A transaction is one close step and
possibly a distribution, atomically. The payer may request a close, anyone may seal after the grace
period or distribute, and blocks may be dropped once per `MaxForks`.

**`ChannelStore`** is the Redis record of the channel and the atomic updates of it that more than one
actor makes: the gateway's `Reserve`, `Commit` and `Drop`, and the worker's `ClaimDueClose`,
`RetainSealed`, `MarkFinalized` and `DeleteFencedChannel`. `mode` says whether the channel is a session
bound to a deployment policy (guarded by the reservation and the close lease of
`deployment_policy.rs`), a legacy session, or an x402 batch channel.

**`SettlementPass`** holds what `run_session` and `run_batch` share; **`SessionWorker`** and
**`BatchWorker`** are the two passes, with one label per point where another actor can come between:

| Label | Session pass | Batch pass |
|---|---|---|
| `idle` | `Scan`: list, observe a close on chain | `ScanBatch`: list, fetch accounts |
| `reconcile` | `Reconcile`: claim, read, plan | `ReconcileBatch`: fence, plan, record what was seen; `ReconcileAbsent` |
| `submit` | `Submit`: store action, hand over or go on to the guarded path | |
| `refresh`, `guard`, `send` | renewal, last ownership check, send of a bound close | `SendBatch` |
| `confirm`, `finalize` | `Confirm`: finished only when final | `ConfirmBatch`, `FinishBatch` |

`GiveUp` ends a pass anywhere: a failed call, a refused claim or guard, a timeout, or the death of the
worker. `Heartbeat` is the lease heartbeat of a bound close. **`Settlement`** composes both with the
gateway, the payer and the cluster. The settlement lock is left out on purpose: a pass does not notice
when its lease lapses, so passes of two workers may overlap, and they do here. Between its steps a
batch pass keeps only what a later step reads (`Listed`): the fence reads the record of a closing channel
again, and of a sealed or distributed account only the status counts.

**`Lifecycle`** is the runloop of `session.rs` on several gateway replicas that share one record. `pc`
of `<<g, "runloop">>` follows one `run_due_work`: `ReconcileOwnership`, `RetryDeferredPayouts` with
`DistributeDeferred`, `CloseDueChannels`, `PushWatermark`; the lane `<<g, "client">>` is a close on
behalf of a client. Both close through `RequestServerClose`, `SubmitSettlement`, `FinishClose` and
`CloseFails`. `slot` is the in-memory capacity slot, `current` tells whether the record still has the
lifecycle a scan saw. A `Restart` loses the memory and the owner id of a replica, not what it sent.

**`SellQueue`** is one endpoint. `stage` follows a buyer's request through `dispatch`,
`chat_completions` and the response; `waiting` and `claimed` are the queue; `wpc` follows a seller's
poll through `EndpointQueue::next`, with the semantics of tokio's `Notify` (`wakes`: a notification
wakes a sleeper, or one permit is stored). `due` is the gap between taking a request out of the queue
and accounting for it. `charging`, `recorded`, `paid` and `unconfirmed` separate what a buyer was
really charged from what the response knows of it. A receiver that goes takes with it what is still in
its channel (`Hangup`).

**`Allowance`** is one wallet. `call` follows a signing request: `AskFor` (policy, wallet lookup),
`ReadClock` and `CheckAndRecord` (the day is read before the ledger's lock is taken), then `Commit` or
`Release`, and `Land` when the payment reaches the chain. `login` follows a sign-in: `SignIn` or
`BindEarly`, `StartSeed` (the registry lock held across the reads), `ReadHistory` or
`ReadHistoryShort`, `Apply` and `Count`, `Bind`; `SignInFails` is a failing provider call. `Midnight`
changes the day, and a `Restart` loses `book`, the registry and everything at work, not what was signed.
`authorised`, `missed`, `blind`, `seed`, `past` and `turnedBack` are history variables.

The `MC*` modules give the constants that are functions or products, and the symmetries.

## Runs

| Run | Checks | Shows |
|---|---|---|
| `FanoutForks` | `JournaledBeforeSent ChunkSignedOnce JournalPaysOnce SnapshotIsCurrent ReplaceableForever` | two processes compete for a journal of two chunks, both in flight at once, and a reorganisation may drop confirmed blocks |
| `FanoutLive` | `ConfirmedHasLanded FinishedPaidEveryRow RowPaidOnce RunTerminates ImplementsPayout` | commands one after the other: every run ends, a finished journal paid every row, and the command refines `Payout` |
| `Journal` | `TypeOK AckedSurvives OnlyLastLineIsTorn` | torn writes, failing fsync and crashes |
| `JournalNewline` | `AckedSurvives` violated | a record cut before its newline (finding 1) |
| `JournalSync` | `LoadsAgain` violated | a reused sequence number (finding 2) |
| `Redeem` | `CodePaidOnce LivePayoutHoldsClaim RedeemedIsFinal AnswersAreTrue RedeemedForever ImplementsPayout` | two requests, status lookups without history, a reorganisation, a legacy claim |
| `SettleRace` | `TypeOK SealCoversAccepted NoForfeit LiveReservationHonoured ChargedOnce RecordOutlivesChannel ClaimFixesAmount` | two overlapping workers, a request, the payer and a reorganisation, for all three kinds of channel |
| `SettleLive` | `ChannelIsFinished` | one worker whose passes fail anywhere finishes every channel, unpayable refunds included |
| `Lifecycle` | `TypeOK SealedAtAccepted RecordFollowsChannel IdleCloseSparesRequests` | two replicas, one restart, a request that charges, vouches or closes |
| `LifecycleOrphan` | `CloseIsRetried` violated | a restart leaves a claimed close to nobody (finding 3) |
| `SellQueue` | `ReservationsAddUp CapHolds StreamEarnsWhatWasPaid NoLostWakeup NoReservationStranded` | two buyers, two polls, every kind of answer, payments that fail or stay unknown |
| `Allowance` | `DailyCapHolds MissedWasInFlight BookIsExact SpendsOnlyCounted` | two signing requests and two sign-ins, reads that fail or fall short, midnight, restarts |

**Bounds.** `Window = 1` lets a transaction be signed, expire, and the expiry be finalized while the
chain still grows (`MaxHeight` 2 or 3); a transaction valid to a later height and one already expired
both occur. Two runs (`MaxRuns = 2`) give one interruption and one resume, and two or three chunk
indexes leave room for the replacement of a chunk. `FanoutForks` has two rows, one per chunk, and two
chunks in flight, so that one fails while the other lands; `FanoutLive` has one row, as liveness and the
refinement are costly (three runs and three chunks took 1,083,040 states and 9½ minutes, without error).
Two processes, requests, workers, replicas, buyers or polls give every pairwise race.
`MaxForks = 1` is one reorganisation of any depth. Four journal events give a torn record, an event
behind it, and a reopening. A channel with `Deposit = 1` tells settled, accepted and paid apart, which
is what the properties compare; an amount lost anywhere is that unit. `MaxRestarts = 1` lets a close be
claimed by a replica that is gone. In `SellQueue` a price of 2 gives partial charges of a metered
stream, caps of 2 and 3 give one that is met exactly and one that is passed, and the queue limits 1 and
2 give a full queue and a free one. In `Allowance`, amounts of 1 to 3 against a ceiling and a cap of 2
give a payment above the ceiling, two that fit together and two that do not; two days and two restarts
let a payment of one process be missed by the next, on either side of midnight. The proofs remove the
bounds for the properties they cover.

Symmetry is used where the actors are interchangeable and no liveness is checked (`FanoutForks`,
`Redeem`, `SettleRace`, `Lifecycle`, `SellQueue`, `Allowance`). Deadlock checking is off everywhere but
in the `Journal*` runs: bounded chains, finished commands, ended channels and drained endpoints really stop.

**Fairness.**
`Fanout!FairSpec`: the executor is a loop without external waits other than RPC calls and timers, so
its steps are weakly fair. The cluster keeps producing and confirming blocks. A poll that is repeated
for ever is at some time answered by a node that is up to date (strong fairness of that answer).
Inclusion, success, crashes and errors are not assumed.
`Settlement!FairSpec`: the worker is a scheduled job. It runs again and again and may be cut short at
any step, so its steps are strongly fair: not every attempt fails at the same place, reads a lagging
node or finds the refund account unusable. Requests end (they have a deadline), leases and deadlines
pass, and confirmed blocks become final.
`Lifecycle!FairSpec`: every task of a replica keeps running (weak fairness); a close that is due is
looked at again after its back-off (strong fairness). The finding holds under all of it.
`Allowance` and `SellQueue` state no fairness. `NoReservationStranded` says instead that a held reservation can always
be given back by a step of its own request that waits for nobody; every such step moves the request
forward.

Each property has a mutant in `PROJECT.json`: an operator in the same module that changes a definition
as a slip in the code would, and violates the property under the same configuration.

## What is proved

All theorems hold for every value of the constants that satisfies the named assumptions:
`LedgerAssumption`, `FanoutAssumption`, `RedeemAssumption`, `JournalAssumption`, `ChannelAssumption`,
`StoreAssumption`, `RecordAssumption`, `PassAssumption`, `BatchAssumption`, `LifecycleAssumption`,
`SellAssumption`, `AllowanceAssumption`. They say that bounds are natural numbers, that names for
"nobody" and "nothing" are not names of somebody or something, and where it matters that rows and
requests are finitely many. TLC evaluates them in the runs.

| Module | Theorems |
|---|---|
| `LandingProofs` | `ReplaceableIsDead` |
| `FanoutProofs` | `TypeCorrect`, `SentIsJournaled`, `PaysOnce`, `SignedOnce`, `CurrentSnapshot`, `ReplaceableStays`, `RowOnce`, `ConfirmedIsLanded`, `FinishedIsPaid`, `FanoutImplementsPayout` |
| `JournalProofs` | `TypeCorrect`, `AckedAlwaysSurvives`, `OnlyLastLineTears` |
| `RedeemProofs` | `TypeCorrect`, `ClaimsAreHeld`, `PaidOnce`, `RedeemedByFinal`, `TrueAnswers`, `RedeemedStays`, `RedeemImplementsPayout` |
| `SettlementProofs` | `TypeCorrect`, `SealsEverything`, `NothingForfeited`, `ReservationsHonoured`, `NeverChargedTwice`, `RecordsOutlive`, `AmountIsFixed` |
| `LifecycleProofs` | `TypeCorrect`, `SealsWhatWasAccepted`, `RecordNeverAhead`, `IdleCloseSpares` |
| `SellProofs` | `ReservationsAlwaysAddUp`, `CapAlwaysHolds`, `StreamsEarnWhatWasPaid`, `WakesAreKept`, `HolderMayAdvance` |
| `AllowanceProofs` | `CapHoldsEveryDay`, `NothingUncounted`, `EntryIsExact`, `OnlyInFlightMissed` |

Each module with an invariant proves that it holds initially, that each action keeps it, and that it
implies the properties.

**`LandingProofs`.** If the tip was read at or before the statuses and the status node is not behind the
tip, then `Failed` and `Expired` imply `Dead`, which no later step of the cluster undoes
(`DeadStaysDead`). This is the argument in the comments of `landing.rs`.

**`FanoutProofs`.** `JournalPaysOnce` is not inductive: that two overlapping chunks have not both landed
says nothing about the next step. The strengthening `IInv` is that of two overlapping signed chunks the
earlier is dead (`JournalInv`), and that a process, wherever it is, holds its journal's lock, has all
signed indexes below its next one, and has left only rows whose earlier chunks are dead (`ProcInv`).
The rows become so in `PlanResume`, by `ReplaceableIsDead`, and stay so because death is stable and
nobody else can sign for the journal while it is locked. `QuietStepKeepsIInv` treats all steps that
sign and send nothing at once; `SignChunk` and `Send` have lemmas of their own.
Three more invariants build on it. `SoleInv` says that at most one journal has signatures and that a
running command works on that one; it holds under sequential use, the condition in `RowPaidOnce`.
`PaidInv` keeps the accounts of a run: every row is recorded as confirmed, still to be signed, or in
flight, unless some chunk failed (`AccountInv`), and what a journal or a poll calls confirmed has landed
in a confirmed block. It holds while confirmed blocks are kept (`ConfirmedIsFinal`), the condition in
`ConfirmedHasLanded` and `FinishedPaidEveryRow`. `FinalInv` says that a command which resumes a finished
run finds no row left, and that one which plans or executes is not on a finished run; hence no step
appends to a finished journal an event that makes `matching_run` call it unfinished (`FinishedStays`).

`FanoutImplementsPayout` is the step simulation of `Payout`. Its hypotheses are `ConfirmedIsFinal` and
`SequentialUse`, which the instance of `FanoutLive` satisfies; without the first a credited row may lose
its credit, without the second it may get two. What is signed, recorded and credited only grows
(`Grows`, `ProcGrows`), and a step changes at most one of the three variables of `Payout` (`Advances`): a
block or a signature changes the credits (`Pay`), a `ChunkConfirmed` the recorded rows (`Record`), a
clean completion the report (`Finish`); every other step is a stutter. That a change is one `Payout`
allows follows from what holds in the next state (`PromiseInv`): a row has one credit (`RowPaidOnce`), a
recorded row has one, and a finished payout is recorded in full (both from `PaidInv`).

**`JournalProofs`.** `LayoutInv` says how far the file consists of whole lines in each state of the
writer, and `AckedInv` that an acknowledged event is durable with nothing torn before it. The theorems
assume that no write is cut exactly before its newline (`~CutBeforeNewline`): finding 1 is that without
the assumption they are false.

**`RedeemProofs`.** A claim names a payout of its own code with its expiry (`Faithful`); a request that
has not signed is named by nobody (`Fresh`), so equal `Claimed` values of different requests do no
harm; `Knows` says what each label implies, such as that a request about to release a claim holds a dead
payout. With `LivePayoutHoldsClaim` two live payouts of a code would both be named by one claim, hence
are equal. `RedeemImplementsPayout` maps every step to a step of `Payout` or to a stutter: a payout that
becomes final credits its code, and the confirmed claim records it.

**`SettlementProofs`.** The invariant has a part for each place where a fact can go stale.
`StoreInv` is about the record and the requests: a live reservation excludes a claimed close. `Room` says
that the reservations of an unbound channel fit into what is left of its deposit; every step but a
reservation and a charge is `Sparing` and keeps it. `ChainInv` orders what is
finalized, confirmed and accepted, and gives every close a reason. `TxOK` is what makes a transaction
harmless whenever it lands: it settles no more than was accepted and, if it seals, all of it, at an
amount that is frozen. `SnapInv`, `PlanInv` and `SentInv` carry that from what a pass read to what it
planned and sent. The proof separates two concerns. `Onward` lists what no step of anybody undoes (the
record grows and, once frozen, stays; settled amounts grow; final states stay final unless there is a
reorganisation), and `WorkLasts` shows that an `Onward` step keeps the facts of every other pass. So a
step needs only a proof that it is `Onward` and that it establishes the facts of its own pass.
Reorganisations are allowed throughout; the parts of the properties that they void say `forks = 0`.

**`LifecycleProofs`.** `SlotInv` (a capacity slot has one holder), `ScanInv` (a scan that is current was
made by the owner of the lease), `TaskInv` (a close is on record before anything is sent for it),
`ChainInv` (the channel leaves "open" only at what was accepted) and `TxInv` (what may still land does
not change that).

**`SellProofs`.** The sum of the reservations is preserved only if each is held by one party at a time.
`OwnerInv` says, for every stage, which parties can hold it: a request before the queue is in no set of
it, one that is waiting is not claimed, a party that still has to account for a request has taken it out
of the queue, and so on. Then every step either keeps the set of holders (`KeepsAccounts`), adds one
(`ReservesOne`) or gives one back (`GivesBack`), and the count follows. `StreamInv` relates what a stream
was charged, what was recorded and what is in flight, from which the earnings of a finished stream
follow. The cap needs the reservation invariant: a new reservation is allowed by the sum, not by the
earnings alone. `WakeInv` says that an announced request has a notification on its way or a poll that is
about to look. `HolderMayAdvance` proves the guard of the step that `NoReservationStranded` calls
enabled.

**`AllowanceProofs`.** `ClockInv` (no clock that was read is ahead), `SeedInv` (ledger and registry agree
on whether the history was counted), `CountInv` (nothing is charged while a sign-in counts) and, until a
clock turns the book back, `BookInv`: the book covers what is charged to its day but for what a history
did not show. The two properties about totals need the accounts as well. An amount is a count of its
units, so the worth of a set of requests is a cardinality (`Worth`), and what a step adds to it follows
from the theorems on finite sets, without an induction. `AccInv` says what each total is worth: what is
authorised for a day are the requests charged to it and what left the wallet is no less than those of
them that landed (`OutInv`), an answer of the history is worth at least the payments it shows
(`ReadInv`), and the entry of the book is what was seeded plus what this process charged to its day
(`OpenInv`). `AllowanceAssumption` has that requests are finitely many and amounts natural numbers.

**Only model-checked.**

* Liveness (`RunTerminates`, `ChannelIsFinished`) and `NoReservationStranded`, which says `ENABLED`:
  fairness and `ENABLED` are out of the prover's reach.
* `LoadsAgain` and `CloseIsRetried`, which the code violates (findings 2 and 3), have no theorem.

Every other property of the runs is a theorem, for all values of the constants that satisfy the
assumptions and the conditions named above.

## Findings

1. `JournalNewline`: a record cut exactly before its newline parses and is kept without one; the next
   event is written on the same line and acknowledged, and the following open truncates both. The
   comment at `journal.rs:476-479` promises that the next event cannot merge into invalid JSON.
2. `JournalSync`: when `sync_data` fails after the write, the `RunInterrupted` that follows reuses the
   sequence number, and `load_events` rejects the journal that the error message tells the user to
   resume.
3. `LifecycleOrphan`: a replica claims a close and is restarted before the close lands. Its owner id was
   a fresh one of that process (`session.rs:1476`), `close_due_channels` retries only closes of its own,
   and `reconcile_persisted_ownership` skips records with a close on them (`session.rs:1707`). Nobody
   retries the close, although `session.rs:7337` says a claimed close is retried "rather than left open,
   holding the operator's rent, forever". A deployed settle-sessions worker would pick it up.

Observations made while modelling, each accepted by the models as what the code does:

* `RowPaidOnce` holds for commands started one after the other. Two fresh runs of one CSV started
  together both pass `refuse_existing_runs` before either has signed, and a run kept elsewhere with
  `--journal` is not found by a later run without it. A journal without a signature does not stop a
  fresh run either, and may still be resumed after that run paid (`fanout.rs:308`, `fanout.rs:661`);
  `ResumeUnsigned` says whether somebody does.
* A payer's close of a legacy session is settled at the amount the pass scanned; nothing stops the
  gateway from accepting more until the record is sealed (`settle_sessions.rs:3253`).
  `SealCoversAccepted` therefore leaves legacy channels the payer closed aside. The session pass also
  seals after the grace period without the check the batch pass makes (`require_settled_covers_accepted`).
* A payer's close of a bound channel is recorded while a reservation is live, and the charge of that
  request is then refused; `LiveReservationHonoured` leaves it aside.
* When a gateway close that deferred its payout is confirmed only after its wait timed out, the record
  is not marked deferred; each retry builds `settle_and_seal`, which a sealed channel refuses, so the
  gateway never pays it out.
* A gateway without a worker does not finish channels the payer closed on chain, and marks records
  sealed at confirmed commitment. Both are why `Lifecycle` has no payer and no reorganisations.
* `queue.rs:153` says "One permit per parked request", but `Notify` stores one permit in all: after two
  requests are parked between the look and the wait of two polls, the second poll sleeps until the next
  park or its timeout. `NoLostWakeup` is what holds: not all polls sleep.
* `Allowance`: a reservation reads the day before it waits for the ledger's lock (`policy.rs:150-151`,
  `policy.rs:184-185`). One that straddles midnight opens the old day again and the total of the new day
  is forgotten, although the total is documented as that of the day (`policy.rs:65`, `policy.rs:104`);
  `turnedBack` marks it, and `DailyCapHolds` leaves it aside. A payment signed before a restart that
  has not landed when the history is read is not counted, although `tenants.rs:171-172` says "a restart
  cannot hand out a second daily allowance"; `missed` measures it, and `MissedWasInFlight` says that nothing else is missed.
* A buffered answer is credited to the seller when it reaches the buyer's handler, before its payment is
  committed; only streams are credited what was paid.

## Not modelled

Left out of the modelled parts:

* `--new-run`, which asks for every row to be paid again; `PreflightCompleted` (no code reads it) and
  `ChunkPrepared` (appended by tests only); the signing permit, whose refusal is an executor error;
  balance and account preflight, whose failure ends the command like `Crash`.
* Contents of transactions, memo and token account derivation.
* `verify_prior_payout` and `is_hot_wallet_payout` in `redeem.rs`: the history scan finds a burn, finds
  none, or fails. A code whose replica died between claiming and recording stays `Claimed`; the code
  prefers that to a double payout, so no liveness property is stated for redemption.
* `settle_sessions.rs`: recovery of the deployment binding of a channel, expired vouchers (an error or a
  skip), release of leased resources (an outcome only), dry runs, metrics.
* `session.rs`: opening, top-up, adoption of channels from chain, challenges, the pull and voucher-store
  details inside `pay_kit`, which is not part of this repository.
* Allowance: guests linked to the owner's ledger key, rotation and rebinding of wallets, policies without
  limits, saturation of the 64-bit total, payments without a price and recurring ones, several gateway
  processes, a clock that is set back, the sell side's use of the same gate.
* Sell queue: byte budgets of pushed chunks, endpoint deletion, repricing, a reservation made by the
  handler because dispatch made none.

Not modelled at all, with the reason:

* Gasless transfer batches with their Redis store, the send endpoint, subscriptions: stateful, and the
  next candidates (below).
* Payment gate, proxy and client schemes: the order of verification, forwarding and settlement is worth
  a model; most of the code is header formatting, signing and HTTP.
* Operator tools of `pay-worker` (closing, rent recovery, resource cleanup): scans over all channels of a
  program; their fences are the ones in `ChannelStore`.
* Hosted connector sign-in and OAuth beyond the binding of a wallet: single use of authorization codes,
  link tickets and refresh tokens is a later candidate.
* MCP services and tools, the debugger: adapters of external services.
* Keystore, accounts, signers, CLI, TUI, catalog, web UI: I/O and presentation without shared state.
* Pricing, splits, metering and codecs: pure arithmetic and parsing, better served by the unit tests.

These make up most of the lines of the repository, so the share of lines that the map covers is small.

## Plan

1. `TransferBatch` and the Redis reservation store, with `GaslessApiBroadcaster` as client; an abstract
   reservation specification that the store implements.
2. The payment gate around `SellQueue` and the sessions; subscriptions; OAuth codes and tickets.
