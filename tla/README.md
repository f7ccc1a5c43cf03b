# A TLA+ model of the Open World Model coordinator

This directory holds TLA+ specifications of `owm-coordinator`, the Go service
that registers nodes, hands out tasks, pays for results over Lightning and runs
federated-learning rounds. TLC checks them on small instances; TLAPS proves the
safety results for every value of the parameters.

`PROJECT.json` is the index: components, runs, mutants, the map from definitions
to source lines, findings, hazards and theorems.

## 1. Inventory

| Component | State it keeps | Operations | Model |
|---|---|---|---|
| Payment dispatcher `internal/payment` | in memory: bounded channel `queue` (1000), ten workers; in the database: `tasks.payment_status` | `Start` (recovery scan), `Enqueue`, `worker`, `process` (four attempts) | `Payments` |
| Observer receipts `internal/observer` | `tasks.observer_receipt_id`; the registry has its own | receipt goroutine: check, `Submit` (one POST, no retries), UPDATE | `PaymentReceipts` |
| Task results `rpc.SubmitTaskResult` | a handler in flight | verify signature, `MarkComplete`, `UpdateReliability`, lookup, `Enqueue` | `Payments`, `TaskStream` |
| Task scheduler `internal/scheduler` | `tasks` | `Schedule`, `MarkComplete`, `MarkFailed` (no caller), `RequeueTimedOut` | `TaskStream`, `Payments` (rows only) |
| Task stream | a Redis channel per node; the channel of each subscription | `Publish`, `StreamTasks` | `TaskStream` |
| Process `cmd/coordinator`, `internal/config` | configuration, schema version, listeners, tickers, one background context | load and validate, migrate, open, serve Tor and clearnet, shut down | `Startup`, `TaskStream`; phases in `Payments` |
| FL orchestrator `internal/fl` | `fl_rounds`, `fl_participants`, objects in S3 | `OpenRound`, `SubmitGradient`, `TryAggregate`, `CloseExpired`, `stampOTS` | `FLRounds` |
| Registry `internal/registry` | `nodes`, `heartbeat_log`, a gauge | `Register`, `Activate`, `UpdateStatus`, `ListActive`, `RecordHeartbeat`, `UpdateReliability` | `NodeStake` (status, gauge), `TaskStream` (profile, reliability) |
| Stake verifier `internal/stake` | `node_stakes`, `misbehavior_signals`, `slashing_events` | `VerifyStake`, `PersistStake`, `VerifyAllActive`, `RecordMisbehaviorSignal`, `Slash`, `markDegraded` | `NodeStake` |
| Lightning clients `internal/lightning` | none of their own; the network has | `SendPayment`, `ListChannels`, `ForceCloseChan`, ... | by outcome, in `Payments` and `NodeStake` |
| Storage, pool HTTP API, generated gRPC code, `owm-pool` (a stub) | | | see section 7 |

How they interact. gRPC handlers and tickers run as goroutines of one process and
share nothing but the database, Redis and the dispatcher's channel. No transaction
spans two statements: every handler is a sequence of single statements, so any
other actor can act between any two of them. `SubmitTaskResult` hands a job to the
dispatcher through memory, and only the `tasks` table survives a restart. The FL
ticker and the stake ticker read a set of rows and then act on each of them, with
Lightning or S3 calls in between.

What is hard here: payments are external effects that cannot be rolled back and
whose outcome may be unknown; the process may end between such an effect and the
row that records it; rows are checked first and written later; several processes
may run (SRS-COORD-05) although the manifests deploy one replica; every call may
fail after it has taken effect. What makes each component correct:

- payments: pay only for completed tasks, at most once, say `paid` only if money
  moved, never lose a job silently, and resolve every payment in the end;
- FL rounds: one aggregator, a checkpoint only from enough accepted gradients, a
  recorded checkpoint that stays, final states that are final, every expired
  round closed;
- stake: active only with a stake, slashed only after enough signals, a
  force-close always logged, suspended until registering again; a gauge that tells
  how many nodes there are, and where it may go wrong;
- receipts: none without a payment, none lost silently, one id per task;
- tasks: given to a node that can do them, paid as offered, never running for ever;
- the process: serves only on the schema it needs, starts with every configuration
  that it has accepted, and stops when told to.

## 2. Modules

| Module | Role |
|---|---|
| `PaymentLedger` | abstract specification of the payment side: completed tasks, their payment status, settled payments |
| `Payments` | the payment path: rows, handlers, queue, workers, process life cycle, Lightning |
| `PaymentsInvariant` | the inductive invariant of `Payments` |
| `PaymentsProofs` | its theorems |
| `FLRounds` | federated-learning rounds, several coordinator processes |
| `FLRoundsProofs` | its inductive invariants and theorems |
| `RoundElection` | abstract specification of a round: one leader, once, and one checkpoint |
| `RoundElectionProofs` | `FLRounds` implements it; final states with one process |
| `PaymentReceipts` | `Payments` composed with the receipt goroutines and the Observer Registry |
| `PaymentReceiptsProofs` | its inductive invariant and theorems |
| `NodeStake` | registration, stake re-verification, slashing, the gauge of nodes |
| `NodeStakeProofs` | its theorems |
| `StakeLedger` | abstract specification of the standing and the stake of a node |
| `StakeLedgerProofs` | `NodeStake` implements it |
| `Startup` | configuration, migrations and the life of the process |
| `TaskStream` | a task from scheduler to node and back, composed with `Startup` |
| `TaskStreamProofs` | theorems about both |
| `TaskBoard` | abstract specification of a task: one offer, results, payments as offered |
| `TaskBoardProofs` | `TaskStream` implements it |
| `MCPayments`, `MCReceipts`, `MCFLRounds`, `MCNodeStake`, `MCTaskStream` | instances for TLC |

An operator that a comment calls a mutant is not part of the model: it is a
plausible error in the definition below it, and shows that a property notices it.

The four abstract specifications say what a component promises in the terms of its users,
without processes, statements or failures; what is hidden is every program counter and
all memory. Each is instantiated in the detailed module under a refinement mapping, most
of it the identity on the tables:

| Abstract variable | Detailed state |
|---|---|
| `RoundElection!leader[r]` | the processes past the compare-and-set on `r` and before its end (`Leader`) |
| `RoundElection!checkpoint` | `fl_rounds.checkpoint_hash` (`hash`) |
| `StakeLedger!signals` | all signals ever recorded (`total`), linked or not |
| `TaskBoard!offer[t]` | the `Assignment` of the `Schedule` call, once the row is there (`Offered`) |

### Payments

Durable: `status` and `pay` (columns `status`, `payment_status` of `tasks`),
`settled` and `orphans` (what the Lightning network did for a task, and payments
in flight that nobody waits for). Everything else is the memory of the process:
`phase`, `unread` (rows of the recovery scan not yet pushed), `queue`, the workers
(`wpc`, `job`, `attempt`) and the handlers (`ack`).

`phase` follows `main.run`: `down`; `serving` (only with Tor: `grpcSrv.Serve(torLis)`
at line 317 precedes `disp.Start` at 327); `recovering` (inside `Start`); `up`;
`draining` (after `bgCancel`, in `httpSrv.Shutdown` and `GracefulStop`, which have no
deadline). `Stop` and `Crash` lose the memory; the payment a worker was waiting for lives on.

`process` is the worker's steps: `Dequeue` and the outcomes of `SendPayment`
(`SendSucceeded`, `SendFailed`, and `SendUnknown` for an error or any other status),
the UPDATE (`RecordPaid`, `RecordError`), the delay (`Retry`, `Abandon`) and the end
(`GiveUp`, `GiveUpError`). A statement that returns an error may have been applied.
On a cancelled context statements fail: in phase `draining` the error actions are
enabled without any injected fault.

Two history variables carry the properties. `suspect` collects the tasks to which
one of four ambiguous events happened: a second result or a result before the
recovery scan, an unknown outcome, a failed UPDATE to `paid`, the end of the process
between `SendPayment` and that UPDATE. `lost` collects the tasks whose job the code
gives up: with a log at a full queue, a failed lookup, a failed UPDATE or a failed scan,
and without one in the middle of a scan (`RecoverError`: `Start` skips a row that
`rows.Scan` cannot read, and never asks `rows.Err`, so a cursor that breaks off takes all
the rows to come with it). A recovery scan clears it. They are never read by a guard.

Abstractions: amounts, preimages and URIs are left out; a job is its task. Deadlines
are abstract: any running task may time out.

### PaymentReceipts

`process` starts a goroutine after every UPDATE to `paid` that returned no error, whether
or not it changed the row. `checking`, `submitting` and `storing` count the goroutines of
a task by their next step: the SELECT of the existing id, the POST, the UPDATE of
`observer_receipt_id`. They run on `context.Background()`, so a shutdown does not cancel
them, and they end with the process. `issued` is what the registry has accepted; a POST
that reports an error, or is cut off by the end of the process, may have been accepted.
Every other step is a step of `Payments` that leaves the receipts alone (`RNext`).
`forgone` records where the code gives a receipt up, `overlapped` the tasks with a
goroutine that went past its check beside another.

Abstractions: a receipt is its number; hash, signature and amount bucket are left out.
An id is a non-empty string, so NULL, which `Scan` reports as an error, is 0.

### FLRounds

Tables: `status`, `parts`, `flagged`, `hash`, `ots`. S3: `blob` (the version of the
object of a node in a round: one key, overwritten in place) and `model` (the
checkpoint). A checkpoint is named by the versions averaged into it, so `hash = model`
says that the recorded hash is that of the stored object. Each process has its
in-flight `SubmitGradient` calls (`passed`) and one ticker (`pc`, `rows`, `cur`, `got`,
`judged`, `avg`), plus `stampOTS` goroutines.

`CheckOpen` and `Upsert` are the two statements of `SubmitGradient`. `SelectExpired`,
`Count`, `Transition`, `FetchGradients`, `AnomalyFilter`, `FedAvg`, `CompleteRound` and
`FailRound` follow `CloseExpired` and `TryAggregate`; `pc = "fail2"` is the `failRound`
inside `TryAggregate`, after which `CloseExpired` fails the round once more.
`AnomalyFilter` and `FedAvg` read several objects in one step: what matters to the
properties is that the two reads are apart.

Abstractions: which norms are outliers is a free choice of at most half of the readable
objects, because no more than half of a list exceeds its median: `FlaggedAreOutliers`
proves it of `TwiceMedian`, the formula of `medianFloat64`. Weights, clipping and
encodings are left out. Fault `ack` is a statement applied whose reply is lost.

### NodeStake

Tables: `status` (`nodes`), `stake`, `chanId`, `since` (`node_stakes`), `unlinked`
(`misbehavior_signals` with no event) and `events` (`slashing_events`, by channel; the
cooldown they hold is read by no code that runs). The channels of a node are numbered by
`opened`; `open` is the state of the latest. A stake row holds a channel number, 0 being
the empty id of a failed verification, which the UNIQUE constraint allows once.

A request is a call of `RegisterNode` or `DeregisterNode`; any number of them run at once,
for the same key too, since nothing in the code keeps them apart. `RegisterNode` is
`Register`, `Upsert`, `VerifyRegistration`, `PersistRegistration`, `Activate`. The first two
are one SQL statement: its CTE reads the prior status on the snapshot of the statement
(`prior`), while `ON CONFLICT DO UPDATE` waits for and changes the row as it is by then, so
other statements may commit in between. `DeregisterNode` is `Deregister` (the SELECT of
`UpdateStatus`) and `UpdateStatus` (its UPDATE). The ticker is `SelectActive`, `Reverify`,
`PersistRow`, `Degrade`, `DegradeStake`, with rows that `Scan` cannot read skipped and a
cursor that breaks off. Slashing is one action per statement of `Slash`, with the channel id
read before the close. `RecordMisbehaviorSignal` and `Slash` have no caller in this
repository except each other: the model lets concurrent callers make them.

The gauge `owm_nodes_total` is `gauge`, summed over the tiers; it moves with the statement
before it. The model starts from an empty database and follows one process: a restart sets
the real gauge to 0 whatever the table holds. History variables say how it goes wrong.
`drifted`: a status changed and the gauge did not follow, or followed from a status that was
no longer in the row (`markDegraded` and `Slash` never touch the gauge, a statement that
reports an error skips it, `UpdateStatus` and `Upsert` decrement the status they have read).
`skew`: nodes counted twice, by first registrations that overlapped, less nodes never
counted, whose first registration was applied and reported an error. `forced` holds the
channels of a node that were force-closed; `overtaken` the nodes whose row named another
channel when a slash marked it than the one that slash had read and closed.

### Startup

`step` is where the server and a `--migrate-only` job are in `run`; `version`, `dirty` and
`lock` are those of golang-migrate, which is external: it takes an advisory lock, refuses
a dirty version, and marks the version dirty around each migration. A configuration is the
set of its non-empty strings, its switches and its numbers; `Valid` is `validate`, rule by
rule; `LNDFiles`, `ObserverFiles` and `TLSFiles` are what `run` opens by name. Anything
that depends on the environment (a file that is not there, a port in use, a Lightning
node that does not answer `GetInfo`) is `EnvironmentFails`. A signal cancels the background
context (`Shutdown`); then `httpSrv.Shutdown(context.Background())` waits for HTTP requests
as long as they take (step `closing`, left by `CloseHTTP`) while gRPC still accepts calls,
and only then does `GracefulStop` begin (step `draining`).

### TaskStream

`registry`: the columns of `nodes` the scheduler reads. `rows`: `tasks`. `plan` is a
`Schedule` call between its statements: `Select` (ListActive and filterEligible), `Insert`,
`Publish`. A stream is opened before Redis knows its
subscription; `Publish` reaches the streams subscribed at that moment and nothing is kept;
go-redis may drop a message and renews lost connections. `SubmitTaskResult` is the
UPDATE of the row, `CountTasks` and `WriteReliability` (UpdateReliability), and
`EnqueuePayment`, or an error in place of each. The requeue ticker sets rows back to
`pending` without a node. `Stop` waits for every call and every stream, as `GracefulStop`
does; `Die` loses them.

Abstractions: any fit node may have the best score, which allows more than the reliability,
the tier and the jitter of `selectNode` do, and any member of `Rewards` may be what
`computeReward` returns: the properties are about who is told and paid what was computed,
not about the formula. The uptime of a node is any member of `Uptimes`, 150 being more
heartbeats than expected; the window of seven days makes any subset of the tasks of a node
count. `ChangeStatus` stands for what `NodeStake` does to a status, and the end of
`EnqueuePayment` is where `Payments` goes on. `Schedule` is called by tests only: the model
lets it be called whenever the server accepts calls.

## 3. Runs that pass

| Run | Instance | Shows |
|---|---|---|
| `payments_safety` | 2 tasks, 2 workers, 1 handler, queue 1, 2 attempts, all faults, Tor, 2 restarts | `TypeOK`, `AtMostOnce`, `RowTellsTruth`, `IndInv` |
| `payments_resubmit` | 1 task, 2 results, 2 handlers, 2 workers, queue 1, 2 attempts, receipts, all faults, Tor, 2 restarts, fair | `NoJobVanishes`, `ReceiptsArePaid`, `NoReceiptVanishes`, `ReceiptStays`, `ImplementsLedger`, `PaymentResolved` |
| `fl_two_processes` | 2 processes, 1 round, 3 nodes, quorum 2, all faults, 1 crash | `TypeOK`, `OneAggregator`, `CompleteIsSound`, `CheckpointIsFinal`, `ImplementsElection` |
| `fl_one_process` | 1 process, 2 rounds, 1 node, quorum 1, storage errors, 1 crash, fair | `TerminalIsFinal`, `ExpiredIsClosed` |
| `stake_safety` | 1 tier-1 node, 2 callers, threshold 1, database and Lightning errors, 2 requests that may overlap, 2 channels | `TypeOK`, `ForceClosedIsLogged`, `SlashNeedsSignals`, `GaugeConserved`, `GaugeTruthful`, `SuspendedOnlyReregisters`, `ImplementsStanding` |
| `stake_liveness` | 1 node of a higher tier, 1 caller, 2 requests that may overlap, 2 channels that lose their balance, fair | `UnstakedIsDegraded`, `ActiveRowRenewed` |
| `coordinator` | 2 valid and 17 invalid configurations, 2 migrations, 1 crash or signal, 2 nodes, 2 registrations, 1 task, 1 stream, 1 handler, 1 result, 1 reward, database and Redis errors, fair | `StreamTypeOK`, `ServesMigrated`, `ConfigSuffices`, `OfferIsKept`, `AssigneeIsFit`, `ImplementsBoard`, `RunningEnds` |

Why the bounds are enough. A queue of one with two tasks is full and dropped from;
two workers make two copies of a job run side by side, and two receipt goroutines of one
task; two attempts make a retry and a last attempt; two restarts make a recovery from a
recovery. Three nodes with quorum two leave room for a late joiner, and for the filter
to pass the quorum or to fall below it. Two callers are enough for a double slash; two
channels for a stake row that names a channel long gone; two requests for two first
registrations that overlap, for a registration beside a deregistration, and for one that
comes back in the middle of a slash. More calls per node take the run beyond five minutes,
and the theorems bound none. In `coordinator` a second node makes a result
come from somebody else than the assignee, and two profiles make one of them unfit; a
second registration changes the LN URI between selection and payment; two migrations make
one that is complete on a schema that is not. Tasks do not share rows, so one is enough;
several streams and handlers, and rewards other than the one of the run, are covered by the
proofs, which bound nothing. The one valid
configuration has Redis and no Tor, the other Tor and no Redis; each invalid one breaks one
rule of `validate`. What is not covered by bounds is covered for the safety properties by
the proofs. Deadlock is not checked: tasks,
results, restarts, uploads and signals are bounded, so behaviours end.

The mutants named in `PROJECT.json` break each of these properties under the same
configuration.

`HasStorage = FALSE` (no bucket configured, the placeholder hash) is modelled and not
part of a run: nothing is read or uploaded then.

## 4. Fairness

- `Payments!FairSpec`: each worker makes progress (every `SendPayment` runs under a
  deadline, delays are timers), a handler that recorded a result goes on, the start-up
  sequence goes on, and a process that is down is started (Kubernetes restarts it).
  Nothing is assumed of nodes, of the Lightning network or of faults, nor that a shutdown
  ends: neither of its two waits has a deadline, so `PaymentResolved` excepts a process that
  is draining (once it is gone, the next one owes the payment again). Restarts are
  bounded, which stands for "not forever crashing". Every fault may happen again and
  again in `payments_resubmit`, and `PaymentResolved` allows for a job that is given up.
- `FLRounds!FairSpec`: the ticker fires again and its goroutine runs. The
  run leaves database errors out: a ticker whose every statement fails closes nothing,
  and a `failRound` that fails after the transition leaves the round in `aggregating`
  for good. `ExpiredIsClosed` itself names the other way to get there, a process that
  dies in the middle: `CloseExpired` selects only open rounds.
- `NodeStake!FairSpec`: the ticker fires and runs, handlers and slashing calls that
  have started finish.
- `PaymentReceipts!RFairSpec`: that of `Payments`, and the goroutines run (the POST has a
  timeout of 15 seconds).
- `TaskStream!FairSpec`: weak fairness only. The server is started again, the server and the
  job proceed, the calls of a running process proceed (the database answers or fails), and
  the ticker sees the deadline of every task pass. Nothing is asked of the nodes, which may
  keep a stream open for ever, of HTTP clients, of Redis, or of `Schedule`. `RunningEnds`
  names the states in which a task does run on: a dirty schema, which only an operator can
  repair, and a shutdown that waits for an HTTP request or for a stream.

## 5. Runs that are violated: where documents and code disagree

| Run | Statement | What happens |
|---|---|---|
| `payments_double_shutdown` | ADR-003: ACID prevents double payment | the UPDATE runs on the cancelled context; the next process pays again |
| `fl_race` | `TryAggregate` is safe without locking | the loser of the compare-and-set fails the winner's round |
| `fl_reupload` | outliers are discarded | the object is read twice and may change in between |
| `stake_threshold` | architecture.md, third signal | the count leaves out the new row |
| `stake_conflict` | SRS-STAKE-02 | no stake row, no re-verification |

Three more ways to pay twice are behaviours of `Payments` and marked by `suspect`: a
result sent twice (`MarkComplete` looks at no status), a result on the Tor listener
before the recovery scan (main.go:317 serves, main.go:327 scans), and a retry after an
unknown outcome. `AtMostOnce` says that together with the end of the process between
payment and UPDATE, and a failed UPDATE, these are all.

Met on the way and not stated as a run: `RegisterNode` never looks at `StakeResult.OK`, so
a node without a channel becomes active (SRS-STAKE-01; the ticker degrades it later);
`IsSuspendedOrCoolingDown` has no caller, so a slashed node can register again at once
(SRS-STAKE-07); the status check and the upsert of `SubmitGradient` are two statements, so
a round that has been closed may take a gradient; `MarkFailed` has no caller; timed-out tasks go
back to `pending` without a node and nothing assigns them again (SRS-SCHED-02 says
re-assigned); `cfg.Server.ShutdownTimeout` is never used, `httpSrv.Shutdown` waits for HTTP
requests on `context.Background()` and `GracefulStop` for task streams as long as nodes keep
them open; `cfg.Stake` is validated and
never read, its values being constants in main.go:170; `markDegraded` and `Slash` leave the
gauge of nodes as it was; the proto comment calls
the payment status `dispatched`, the code `queued`; `GetCurrentModel`,
`ListModelVersions` and `GetStakeStatus` select columns the migrations do not create;
`VerifyStake` looks for channels by the Ed25519 key of the node.

Four more, each with its lines:

- The recovery scan can end early unnoticed: dispatcher.go:64-75 never looks at `rows.Err()`
  and skips a row that fails to scan (line 66) with a bare `continue`. The jobs wait for the
  next restart, and nothing in the log says so. `NoJobVanishes` and `PaymentResolved` count
  them as given up.
- The amount paid is the amount told. The comment of `computeReward` (scheduler.go:233-234)
  says "Uptime bonus and quality factor are applied post-completion", and the formula of
  SRS.md:349-355 has both factors; no code applies either. `OfferIsKept` and the payments of
  `TaskBoard` state what the code does, that `reward_sats` is never changed after the INSERT:
  whoever adds the two factors has to revise both.
- registry.go:115-116 captures the prior row "so re-registration can decrement the prior label
  and keep metrics symmetric". Two overlapping first registrations of a key both find no prior
  row and both increment; a registration that overlaps another change of status decrements
  the wrong label. `GaugeConserved` and `GaugeTruthful` say how far the comment holds.
- `RecordHeartbeat` "returns the number of pending tasks for that node" (registry.go:183-184)
  and architecture.md:126 shows it in the reply. A pending task has no `assigned_node`, so the
  count is always 0, and `Heartbeat` discards it (server.go:146).

## 6. Proofs

`PaymentsProofs` proves, for every set of tasks, workers (finite) and handlers, every
queue size and number of attempts, every set of faults:

| Theorem | Statement |
|---|---|
| `TypeCorrect` | `Spec => []TypeOK` |
| `InvariantHolds` | `Spec => []IndInv` |
| `AtMostOnceHolds` | `Spec => []AtMostOnce` |
| `RowTellsTruthHolds` | `Spec => []RowTellsTruth` |
| `NoJobVanishesHolds` | `Spec => []NoJobVanishes` |
| `LedgerImplemented` | `Spec => ImplementsLedger` |

The assumptions are those named in `Payments`: `NoTask` is no task, the workers are
finite, the numbers are naturals, at least one attempt.

The argument. `AtMostOnce` is not inductive: it says nothing about a second job still
in the queue. `ClearInv` says what keeps it true, for each task to which nothing
ambiguous has happened: one copy of its job at most, over queue, workers, handlers and
scan (`Single`); no payment out of sight; a job in memory only while the row is
`pending`; a settled payment recorded or being recorded. A second copy can only come
from a second result or from a result the scan also sees, and both make the task
suspect; a worker starts another attempt only after `FAILED` or after an unknown
outcome, which makes it suspect. `PhaseInv` supplies what is in memory in each phase,
`CompletedInv` that only completed tasks have jobs or payments, and `RecordInv` that a
worker about to write `paid` has seen money move; the last two give the refinement of
`PaymentLedger`, where `Complete`, `Settle`, `MarkPaid` and `MarkFailed` are the only
steps that are not stuttering. `NoJobVanishes` is inductive together with the rest: a row
that leaves the scan goes to the queue or to `lost`.

`PaymentReceiptsProofs` proves, with the same generality and whether or not the observer
is enabled:

| Theorem | Statement |
|---|---|
| `ReceiptsPreservePayments` | `RSpec => Spec` |
| `ReceiptInvariantHolds` | `RSpec => [](IndInv /\ ReceiptInv)` |
| `ReceiptsArePaidHolds` | `RSpec => []ReceiptsArePaid` |
| `NoReceiptVanishesHolds` | `RSpec => []NoReceiptVanishes` |
| `ReceiptStaysHolds` | `RSpec => ReceiptStays` |

The argument. Every step of the composition is a step of `Payments` or leaves it alone, so
`IndInv` carries over. `ReceiptsArePaid` is not inductive: a worker that records a payment
starts a goroutine, and what pays for it is the payment that worker saw settle. `CountInv`
counts those workers too; one joins them only when a payment settles. `IdsInv` says that
ids in the row and in memory come from the registry. `AloneInv` says that, unless
goroutines overlapped, at most one of a task's receipts is past the check for an existing
one. A replaced id therefore means an overlap and two receipts, hence two payments, hence a
suspect task by `ClearInv`.

`FLRoundsProofs` proves, for any rounds, processes and finite set of nodes, with or
without storage and with every set of faults:

| Theorem | Statement |
|---|---|
| `TypeCorrect` | `Spec => []TypeOK` |
| `InvariantHolds` | `Spec => []Inv` |
| `OneAggregatorHolds` | `Spec => []OneAggregator` |
| `CheckpointIsFinalHolds` | `Spec => CheckpointIsFinal` |
| `SoundHolds` | `Spec => []SoundInv` |
| `CompleteIsSoundHolds` | `Spec => []CompleteIsSound` |
| `FlaggedAreOutliers` | the norms above the median plus a margin belong to a member of `Outliers` |

The argument. `Inv` adds to `OneAggregator` that the round a process owns is no longer
`open` and has no checkpoint hash (`OwnerInv`), and that a round never aggregated has
none (`OpenInv`). No step puts a round back to `open`, so the compare-and-set
`WHERE status = 'open'` elects once, and `completeRound`, which looks at no status, runs
at most once for a round and finds the hash unset: that is `CheckpointIsFinal`.
`CompleteIsSound` needs what the owner knows at each of its steps (`Work`): nobody is
flagged before the filter, what it holds is a subset of the accepted participants
after it and large enough, and what it writes is what it stored. A round may gain
participants under the owner's hands (an upload that saw it open), which only enlarges
the set; and it may be failed by a process that lost the compare-and-set, so the owned
round is `aggregating` or `failed`, never `complete`. A complete round therefore has no
owner, and only an owner writes its flags and its checkpoint object.

`FlaggedAreOutliers` takes any finite set of gradients with natural norms and a listing of
them in ascending order; that the sort of `medianFloat64` makes such a listing is assumed.
An element above the median stands in the upper half of the listing (`UpperHalf`), and the
upper half has at most half of the elements.

`RoundElectionProofs` proves, with the same generality except where it says otherwise:

| Theorem | Statement |
|---|---|
| `KnownHolds` | `Spec => []KnownInv` |
| `ElectionImplemented` | `Spec => ImplementsElection` |
| `TerminalIsFinalHolds` | `Spec => TerminalIsFinal`, if there is one process and `ack` is no fault |

The argument. `Transition` is the abstract `Elect`, and by `OwnerInv` an open round has no
leader when it is taken; when the UPDATE was applied and its reply lost, the round is
elected away with nobody to lead it. `CompleteRound` is `Publish`: the hash is still unset
and, by `SoundInv`, the status is `aggregating` or, by the hand of a process that lost the
election, `failed`. The abstract `Fail` has no condition because `failRound` has none. That
it is taken only of rounds that exist needs `KnownInv`: rows selected by a ticker, and
the round it is working on, are in the table. Every other step is `Resign` or invisible.

`TerminalIsFinal` does not follow from the abstract specification, and is false of the
code with two processes (run `fl_race`) or with a lost reply to `completeRound`. Under the
two hypotheses `OneInv` is inductive: the rows still to be handled are open, the round at
work is `aggregating`, the round about to be failed is not complete. Crashes, storage errors
and database errors that leave the row unchanged are allowed.

`NodeStakeProofs` proves, for any finite set of nodes, any requests and callers, any threshold and
every set of faults:

| Theorem | Statement |
|---|---|
| `TypeCorrect` | `Spec => []TypeOK` |
| `InvariantHolds` | `Spec => []Inv` |
| `ForceClosedIsLoggedHolds` | `Spec => []ForceClosedIsLogged` |
| `SlashNeedsSignalsHolds` | `Spec => []SlashNeedsSignals` |
| `SuspendedOnlyReregistersHolds` | `Spec => SuspendedOnlyReregisters` |
| `GaugeInvariantHolds` | `Spec => []GaugeInv` |
| `GaugeConservedHolds` | `Spec => []GaugeConserved` |
| `GaugeTruthfulHolds` | `Spec => []GaugeTruthful` |

The argument. `SlashInv` says what a slashing call knows at each of its steps, of the very
channel it has read: closed before the event, logged before the rows are touched, and no
other call about to log the same one. That needs `ClosedInv`, that a channel once closed is
never the open one again. `LogInv` says that only closed channels are logged. The UPDATE of
`Slash` marks the row whatever channel it names, so the channel of a marked row is a logged
one, or the node is in `overtaken`.
`SignalInv` says that a caller that holds a tier-1 node has seen more signals than the
threshold; the number of unlinked signals never exceeds the number recorded, and linking
them only lowers it, so concurrent callers cannot slash on signals that were never
recorded. `TypeOK` is a conjunction of named parts, and the frame of an action (`Frames`)
says which of them it leaves alone.

For the gauge, every step leaves the statuses alone, or changes that of one node and either
moves the gauge from a status read before or does not move it (`StatusSteps`). Such a change
moves that node between two of the sets the gauge counts (`StatusCount`, from the cardinality
theorems for finite sets), and `CountMove` moves the same two numbers when the old status it
was given is the one in the row; when it is not, `drifted` holds. For the sum only the first
appearance of a node matters: a request that has read a status knows that its node is
registered and stays so (`PriorInv`), so its move keeps the sum; one that found no row adds
one node, which is right if there is still none and adds to `skew` if there is.

`StakeLedgerProofs` proves, with the same generality:

| Theorem | Statement |
|---|---|
| `KnownHolds` | `Spec => []KnownInv` |
| `StandingImplemented` | `Spec => ImplementsStanding` |

The argument. Each statement is one abstract step or none. What has to be carried across
statements is that the node a call works on still exists and still has a stake row
(`KnownInv`), that the force-close of a slashing call happened before its event and its
event before its mark (`SlashInv`), that it started with enough signals (`SignalInv`), and
that the channel it closes was not closed before (`ClosedInv`).
`KnownInv` is preserved because no step removes a node, a stake row or a signal
(`StepGrows`). The abstract ledger lets a stake go back from `force_closed` to `active`
without a new channel: the ticker does that when it verified before the slash.

`TaskStreamProofs` proves, for any configurations, number of migrations and faults, any
nodes, streams and handlers and a finite set of tasks:

| Theorem | Statement |
|---|---|
| `ImplementsStartup` | `Spec => StartupSpec` |
| `ProcessInvariantHolds` | `StartupSpec => []ProcessInv` |
| `ServesMigratedHolds` | `Spec => []ServesMigrated` |
| `ConfigSufficesHolds` | `Spec => []ConfigSuffices` |
| `StreamInvariantHolds` | `Spec => []StreamInv` |
| `OfferIsKeptHolds` | `Spec => []OfferIsKept` |
| `AssigneeIsFitHolds` | `Spec => []AssigneeIsFit` |
| `StreamTypeCorrect` | `Spec => []StreamTypeOK` |

The argument. The composed specification implements that of the process, so what holds
of the process alone holds of the whole. `ProcessInv`: past the migrations the version is
the last one and clean, and no other process can change that, for it would find nothing
to apply; a process that has started has a valid configuration, and `FilesNamed` says
that such a one names every file. `StreamInv` has the shapes of the state; `RowInv`, that a row
says what its plan said, a running one is with the node of the plan and a requeued one with
nobody; `FitInv`, that
a plan's node was fit when it was chosen and still is if it has not registered since;
`SentInv`, that every assignment on its way or received is that of the plan; `JobInv`, that
every job is for what the row says. The columns `node_ln_uri` and `reward_sats` are written
once, by the INSERT, and that is what makes `OfferIsKept` hold, whatever the reward. `StreamTypeOK` bounds the
reliability by 100. That is arithmetic (`ReliabilityBound`: the clamp on the uptime, a
weighted sum, a division) and one fact about state, in `NumberInv`: a handler between the
two statements of `UpdateReliability` never holds more completed tasks than tasks.

`TaskBoardProofs` proves, with the same generality:

| Theorem | Statement |
|---|---|
| `BoardImplemented` | `Spec => ImplementsBoard` |

The argument. The INSERT of `Schedule`, reported as failed or not, posts the task; what
comes before is not seen, because the offer of a task is that of its plan only once the row
is there, and `Select` plans only tasks without a row. What streams deliver is what was
posted (`SentInv`), what is enqueued is for a completed task as offered (`JobInv`, `RowInv`), and
the requeue ticker touches running tasks only. The life of the process is not seen at all.

Only model-checked: liveness (`PaymentResolved`, `ExpiredIsClosed`, `UnstakedIsDegraded`,
`ActiveRowRenewed`, `RunningEnds`), which is beyond the prover. Every invariant and action
property of a passing run is stated by a theorem.

## 7. Not modelled, and why

- Transports and I/O (gRPC, S3, Lightning JSON-RPC and gRPC, HTTP): the calls appear by
  their outcomes. The generated gRPC code, about a third of the Go lines, carries messages
  and keeps no state.
- Signatures and formats: a signature is valid or not; hashing, signing and the buckets of
  receipts, hex and PEM decoding, logging, the name of the hidden service (only logged).
- Read-only queries: `GetCurrentModel`, `ListModelVersions`, `GetStakeStatus`, the pool HTTP
  API. Code without a caller: `MarkFailed`, `AddInvoice`, `IsSuspendedOrCoolingDown`.
- A result for a task that has no row: the UPDATE changes nothing and the lookup fails.
- `total_tasks`, `last_heartbeat`, the count `RecordHeartbeat` returns and the counters of
  `internal/metrics`, which nothing reads; the heartbeat log, for which `Uptimes` stands.
- The amounts: `computeBonus`, the score of `selectNode` and the product in `computeReward`,
  pure arithmetic on which no state change depends.
- Floating-point arithmetic of norms and averages in `internal/fl`, abstracted to a choice of
  outliers; the exact reliability, kept in percent.
- `owm-pool`, which loads its configuration and has no behaviour yet; test helpers.

## 8. Plan

Done: the payment path with its ledger and receipts, the rounds with their election, stake
and slashing with the gauge and the stake ledger, the process with its configuration and
migrations, the task stream with its board; every safety property proved. Left:

1. That `NodeStake` justifies the free choice of a status in `TaskStream!ChangeStatus`, and
   that the end of `EnqueuePayment` is what `Payments` starts from: today both are stated
   in prose only.
2. The sort inside `medianFloat64` and the weighted average of `fedAvg` against reference
   definitions, on bounded inputs (induction over a list is beyond the prover).
