------------------------------ MODULE Payments ------------------------------
(***************************************************************************)
(* From a task result to its Lightning payment: the tasks table, the       *)
(* SubmitTaskResult handlers, the bounded in-memory queue and the workers  *)
(* of payment.Dispatcher, and the life of the coordinator process (start,  *)
(* recovery scan, graceful shutdown, crash).                               *)
(*                                                                         *)
(* Durable state is the tasks table (status, pay) and the Lightning        *)
(* network (settled, orphans); everything else dies with the process.      *)
(***************************************************************************)
EXTENDS Naturals, Sequences, SequencesExt, FiniteSets

CONSTANTS Tasks,        \* task ids
          NoTask,       \* marks a free worker or handler
          Workers,      \* goroutines of the dispatcher (numWorkers)
          Handlers,     \* concurrent SubmitTaskResult calls
          QueueSize,    \* capacity of Dispatcher.queue
          MaxAttempts,  \* SendPayment calls per job (4 in process)
          TorEnabled,   \* cfg.Tor.Enabled: a listener serves before Start
          Faults,       \* the failures the environment may inject
          MaxResults,   \* bound: results submitted per task
          MaxRestarts   \* bound: crashes and shutdowns

ASSUME TasksAssumption == NoTask \notin Tasks
ASSUME PoolAssumption == IsFiniteSet(Workers) /\ QueueSize \in Nat /\ MaxAttempts \in Nat \ {0}
ASSUME FaultsAssumption == TorEnabled \in BOOLEAN /\ Faults \subseteq {"unknown", "db", "crash", "stop"}
ASSUME BoundsAssumption == MaxResults \in Nat /\ MaxRestarts \in Nat

VARIABLES
  status,    \* tasks.status; "absent" before Schedule inserts the row
  pay,       \* tasks.payment_status
  settled,   \* Lightning: number of payments that reached the node
  orphans,   \* Lightning: payments nobody waits for any more, not yet resolved
  phase,     \* of the process: down, serving, recovering, up, draining
  unread,    \* rows of the recovery scan that Start has yet to push
  queue,     \* Dispatcher.queue; a job is named by its task
  wpc,       \* worker: idle, await (SendPayment), record, retry
  job,       \* worker: the job it processes
  attempt,   \* worker: SendPayment calls made for this job
  ack,       \* handler: the task it has marked complete and will enqueue
  results,   \* bound: results submitted so far
  restarts,  \* bound: crashes and shutdowns so far
  suspect,   \* history: tasks for which an ambiguous event happened
  lost       \* history: tasks whose job this process has given up

db        == <<status, pay>>
lightning == <<settled, orphans>>
pool      == <<wpc, job, attempt>>
bounds    == <<results, restarts>>
history   == <<suspect, lost>>
vars == <<db, lightning, phase, unread, queue, pool, ack, bounds, history>>

-----------------------------------------------------------------------------
TypeOK ==
  /\ status \in [Tasks -> {"absent", "running", "pending", "completed"}]
  /\ pay \in [Tasks -> {"pending", "paid", "failed"}]
  /\ settled \in [Tasks -> Nat] /\ orphans \in [Tasks -> Nat]
  /\ phase \in {"down", "serving", "recovering", "up", "draining"}
  /\ unread \in SUBSET Tasks
  /\ queue \in Seq(Tasks) /\ Len(queue) <= QueueSize
  /\ wpc \in [Workers -> {"idle", "await", "record", "retry"}]
  /\ job \in [Workers -> Tasks \cup {NoTask}]
  /\ attempt \in [Workers -> 0..MaxAttempts]
  /\ \A w \in Workers : (wpc[w] = "idle") <=> (job[w] = NoTask)
  /\ ack \in [Handlers -> Tasks \cup {NoTask}]
  /\ results \in [Tasks -> 0..MaxResults] /\ restarts \in 0..MaxRestarts
  /\ suspect \in SUBSET Tasks /\ lost \in SUBSET Tasks

Init ==
  /\ status = [t \in Tasks |-> "absent"]
  /\ pay = [t \in Tasks |-> "pending"]
  /\ settled = [t \in Tasks |-> 0]
  /\ orphans = [t \in Tasks |-> 0]
  /\ phase = "down"
  /\ unread = {}
  /\ queue = <<>>
  /\ wpc = [w \in Workers |-> "idle"]
  /\ job = [w \in Workers |-> NoTask]
  /\ attempt = [w \in Workers |-> 0]
  /\ ack = [h \in Handlers |-> NoTask]
  /\ results = [t \in Tasks |-> 0]
  /\ restarts = 0
  /\ suspect = {}
  /\ lost = {}

-----------------------------------------------------------------------------
(* The tasks table                                                         *)

\* persistAssignment inserts the row as 'running'; payment_status defaults
\* to 'pending'.
Schedule(t) ==
  /\ phase # "down"
  /\ status[t] = "absent"
  /\ status' = [status EXCEPT ![t] = "running"]
  /\ UNCHANGED <<pay, lightning, phase, unread, queue, pool, ack, bounds, history>>

\* One UPDATE requeues every running task past its deadline. Time is
\* abstract: any set of running tasks may be the expired one.
RequeueTimedOut(S) ==
  /\ phase = "up"
  /\ S # {} /\ \A t \in S : status[t] = "running"
  /\ status' = [t \in Tasks |-> IF t \in S THEN "pending" ELSE status[t]]
  /\ UNCHANGED <<pay, lightning, phase, unread, queue, pool, ack, bounds, history>>

-----------------------------------------------------------------------------
(* SubmitTaskResult                                                        *)

Serving == phase \in {"up", "draining"} \/ (TorEnabled /\ phase \in {"serving", "recovering"})

\* A result with a valid signature, from a node or from its retry. Nothing
\* checks the status of the task. A result recorded before the recovery scan
\* will be found by the scan as well as enqueued by its handler.
MarkComplete(h, t) ==
  /\ Serving
  /\ ack[h] = NoTask
  /\ status[t] # "absent" /\ results[t] < MaxResults
  /\ status' = [status EXCEPT ![t] = "completed"]
  /\ ack' = [ack EXCEPT ![h] = t]
  /\ results' = [results EXCEPT ![t] = @ + 1]
  /\ suspect' = IF status[t] = "completed" \/ phase = "serving"
                THEN suspect \cup {t} ELSE suspect
  /\ UNCHANGED <<pay, lightning, phase, unread, queue, pool, restarts, lost>>

\* The UPDATE commits and its acknowledgement is lost: the node is told
\* "internal error recording completion" and nothing is enqueued.
MarkCompleteError(t) ==
  /\ "db" \in Faults
  /\ Serving
  /\ status[t] # "absent" /\ results[t] < MaxResults
  /\ status' = [status EXCEPT ![t] = "completed"]
  /\ results' = [results EXCEPT ![t] = @ + 1]
  /\ lost' = lost \cup {t}
  /\ UNCHANGED <<pay, lightning, phase, unread, queue, pool, ack, restarts, suspect>>

\* Mutant: the send on the channel without its default case, unbounded.
EnqueueUnbounded(h) ==
  /\ ack[h] # NoTask
  /\ queue' = Append(queue, ack[h])
  /\ ack' = [ack EXCEPT ![h] = NoTask]
  /\ UNCHANGED <<db, lightning, phase, unread, pool, bounds, history>>

\* Enqueue never blocks: a full queue drops the job.
Enqueue(h) ==
  /\ ack[h] # NoTask
  /\ IF Len(queue) < QueueSize
     THEN queue' = Append(queue, ack[h]) /\ UNCHANGED lost
     ELSE lost' = lost \cup {ack[h]} /\ UNCHANGED queue
  /\ ack' = [ack EXCEPT ![h] = NoTask]
  /\ UNCHANGED <<db, lightning, phase, unread, pool, bounds, suspect>>

\* The lookup of node_ln_uri and reward_sats fails: nothing is enqueued.
LookupError(h) ==
  /\ "db" \in Faults
  /\ ack[h] # NoTask
  /\ lost' = lost \cup {ack[h]}
  /\ ack' = [ack EXCEPT ![h] = NoTask]
  /\ UNCHANGED <<db, lightning, phase, unread, queue, pool, bounds, suspect>>

-----------------------------------------------------------------------------
(* Dispatcher.worker and process                                           *)

\* A worker takes a job and calls SendPayment. After bgCancel its select may
\* still choose the queue. payment_status is not read.
Dequeue(w) ==
  /\ phase \in {"up", "draining"}
  /\ wpc[w] = "idle"
  /\ queue # <<>>
  /\ job' = [job EXCEPT ![w] = Head(queue)]
  /\ queue' = Tail(queue)
  /\ wpc' = [wpc EXCEPT ![w] = "await"]
  /\ attempt' = [attempt EXCEPT ![w] = 1]
  /\ UNCHANGED <<db, lightning, phase, unread, ack, bounds, history>>

\* Mutant: the status SUCCEEDED is not recognised and the job is retried.
SendSucceededUnrecognised(w) ==
  /\ wpc[w] = "await"
  /\ settled' = [settled EXCEPT ![job[w]] = @ + 1]
  /\ wpc' = [wpc EXCEPT ![w] = "retry"]
  /\ UNCHANGED <<db, orphans, phase, unread, queue, job, attempt, ack, bounds, history>>

\* SendPayment returns SUCCEEDED with a preimage.
SendSucceeded(w) ==
  /\ wpc[w] = "await"
  /\ settled' = [settled EXCEPT ![job[w]] = @ + 1]
  /\ wpc' = [wpc EXCEPT ![w] = "record"]
  /\ UNCHANGED <<db, orphans, phase, unread, queue, job, attempt, ack, bounds, history>>

\* SendPayment returns FAILED: the payment is over and moved no money.
SendFailed(w) ==
  /\ wpc[w] = "await"
  /\ wpc' = [wpc EXCEPT ![w] = "retry"]
  /\ UNCHANGED <<db, lightning, phase, unread, queue, job, attempt, ack, bounds, history>>

\* An error (timeout, broken stream, cancelled context) or any status other
\* than SUCCEEDED and FAILED: process tries again while the payment may live on.
\* The CLN client also says FAILED of an error body that may not be final; that
\* answer is this action too.
SendUnknown(w) ==
  /\ "unknown" \in Faults \/ phase = "draining"
  /\ wpc[w] = "await"
  /\ orphans' = [orphans EXCEPT ![job[w]] = @ + 1]
  /\ wpc' = [wpc EXCEPT ![w] = "retry"]
  /\ suspect' = suspect \cup {job[w]}
  /\ UNCHANGED <<db, settled, phase, unread, queue, job, attempt, ack, bounds, lost>>

Free(w) ==
  /\ wpc' = [wpc EXCEPT ![w] = "idle"]
  /\ job' = [job EXCEPT ![w] = NoTask]
  /\ attempt' = [attempt EXCEPT ![w] = 0]

\* Mutant: the UPDATE without its condition on payment_status.
SetPayUnconditional(t, s) == pay' = [pay EXCEPT ![t] = s]

\* UPDATE ... WHERE payment_status = 'pending'
SetPay(t, s) == pay' = IF pay[t] = "pending" THEN [pay EXCEPT ![t] = s] ELSE pay

\* Mutant: process does not return after a payment it has recorded.
RecordPaidNoReturn(w) ==
  /\ phase = "up"
  /\ wpc[w] = "record"
  /\ SetPay(job[w], "paid")
  /\ wpc' = [wpc EXCEPT ![w] = "retry"]
  /\ UNCHANGED <<status, lightning, phase, unread, queue, job, attempt, ack, bounds, history>>

RecordPaid(w) ==
  /\ phase = "up"
  /\ wpc[w] = "record"
  /\ SetPay(job[w], "paid")
  /\ Free(w)
  /\ UNCHANGED <<status, lightning, phase, unread, queue, ack, bounds, history>>

\* The UPDATE returns an error, applied or not: process returns.
RecordError(w) ==
  /\ "db" \in Faults \/ phase = "draining"
  /\ wpc[w] = "record"
  /\ SetPay(job[w], "paid") \/ UNCHANGED pay
  /\ Free(w)
  /\ suspect' = suspect \cup {job[w]}
  /\ lost' = lost \cup {job[w]}
  /\ UNCHANGED <<status, lightning, phase, unread, queue, ack, bounds>>

\* The next attempt, after its delay.
Retry(w) ==
  /\ phase = "up"
  /\ wpc[w] = "retry" /\ attempt[w] < MaxAttempts
  /\ wpc' = [wpc EXCEPT ![w] = "await"]
  /\ attempt' = [attempt EXCEPT ![w] = @ + 1]
  /\ UNCHANGED <<db, lightning, phase, unread, queue, job, ack, bounds, history>>

\* ctx.Done during the delay.
Abandon(w) ==
  /\ phase = "draining"
  /\ wpc[w] = "retry" /\ attempt[w] < MaxAttempts
  /\ Free(w)
  /\ UNCHANGED <<db, lightning, phase, unread, queue, ack, bounds, history>>

\* Mutant: the job ends after its last attempt and the row is not updated.
GiveUpSilently(w) ==
  /\ phase = "up"
  /\ wpc[w] = "retry" /\ attempt[w] = MaxAttempts
  /\ Free(w)
  /\ UNCHANGED <<db, lightning, phase, unread, queue, ack, bounds, history>>

GiveUp(w) ==
  /\ phase = "up"
  /\ wpc[w] = "retry" /\ attempt[w] = MaxAttempts
  /\ SetPay(job[w], "failed")
  /\ Free(w)
  /\ UNCHANGED <<status, lightning, phase, unread, queue, ack, bounds, history>>

\* The error of the last UPDATE is ignored; the row stays 'pending'.
GiveUpError(w) ==
  /\ "db" \in Faults \/ phase = "draining"
  /\ wpc[w] = "retry" /\ attempt[w] = MaxAttempts
  /\ Free(w)
  /\ lost' = lost \cup {job[w]}
  /\ UNCHANGED <<db, lightning, phase, unread, queue, ack, bounds, suspect>>

-----------------------------------------------------------------------------
(* The Lightning network resolves a payment that nobody waits for          *)

LateSettle(t) ==
  /\ orphans[t] > 0
  /\ orphans' = [orphans EXCEPT ![t] = @ - 1]
  /\ settled' = [settled EXCEPT ![t] = @ + 1]
  /\ UNCHANGED <<db, phase, unread, queue, pool, ack, bounds, history>>

LateFail(t) ==
  /\ orphans[t] > 0
  /\ orphans' = [orphans EXCEPT ![t] = @ - 1]
  /\ UNCHANGED <<db, settled, phase, unread, queue, pool, ack, bounds, history>>

-----------------------------------------------------------------------------
(* The process                                                             *)

\* With Tor enabled the gRPC server serves the Tor listener before Start.
ServeTor ==
  /\ TorEnabled
  /\ phase = "down"
  /\ phase' = "serving"
  /\ UNCHANGED <<db, lightning, unread, queue, pool, ack, bounds, history>>

Recoverable == {t \in Tasks : pay[t] = "pending" /\ status[t] = "completed"}

\* Mutant: the recovery scan selects the tasks that are still running.
StartScanRunning ==
  /\ phase = IF TorEnabled THEN "serving" ELSE "down"
  /\ phase' = "recovering"
  /\ unread' = {t \in Tasks : pay[t] = "pending" /\ status[t] = "running"}
  /\ lost' = {}
  /\ UNCHANGED <<db, lightning, queue, pool, ack, bounds, suspect>>

\* Start: the SELECT of the recovery scan, whose error is only logged.
StartScan ==
  /\ phase = IF TorEnabled THEN "serving" ELSE "down"
  /\ phase' = "recovering"
  /\ unread' = Recoverable
  /\ lost' = {}
  /\ UNCHANGED <<db, lightning, queue, pool, ack, bounds, suspect>>

StartScanError ==
  /\ "db" \in Faults
  /\ phase = IF TorEnabled THEN "serving" ELSE "down"
  /\ phase' = "recovering"
  /\ lost' = lost \cup Recoverable
  /\ UNCHANGED <<db, lightning, unread, queue, pool, ack, bounds, suspect>>

\* Start pushes one row, or skips it when the queue is full.
Recover(t) ==
  /\ phase = "recovering"
  /\ t \in unread
  /\ unread' = unread \ {t}
  /\ IF Len(queue) < QueueSize
     THEN queue' = Append(queue, t) /\ UNCHANGED lost
     ELSE lost' = lost \cup {t} /\ UNCHANGED queue
  /\ UNCHANGED <<db, lightning, phase, pool, ack, bounds, suspect>>

\* The cursor reports an error: a row that rows.Scan cannot read is skipped, and
\* one that ends rows.Next early leaves out all the rows to come, for rows.Err is
\* never asked. Start logs neither and goes on.
RecoverError(S) ==
  /\ "db" \in Faults
  /\ phase = "recovering"
  /\ S # {} /\ S \subseteq unread
  /\ unread' = unread \ S
  /\ lost' = lost \cup S
  /\ UNCHANGED <<db, lightning, phase, queue, pool, ack, bounds, suspect>>

\* Start launches the workers; main then serves the clearnet listener.
StartWorkers ==
  /\ phase = "recovering"
  /\ unread = {}
  /\ phase' = "up"
  /\ UNCHANGED <<db, lightning, unread, queue, pool, ack, bounds, history>>

\* SIGTERM: bgCancel, then httpSrv.Shutdown waits for HTTP requests, while gRPC
\* calls are still accepted, and GracefulStop for the handlers.
Shutdown ==
  /\ "stop" \in Faults /\ restarts < MaxRestarts
  /\ phase = "up"
  /\ phase' = "draining"
  /\ restarts' = restarts + 1
  /\ UNCHANGED <<db, lightning, unread, queue, pool, ack, results, history>>

\* The memory of the process is gone; a payment it was waiting for is not.
Die ==
  /\ phase' = "down"
  /\ unread' = {}
  /\ queue' = <<>>
  /\ wpc' = [w \in Workers |-> "idle"]
  /\ job' = [w \in Workers |-> NoTask]
  /\ attempt' = [w \in Workers |-> 0]
  /\ ack' = [h \in Handlers |-> NoTask]
  /\ orphans' = [t \in Tasks |->
                   orphans[t] + Cardinality({w \in Workers : wpc[w] = "await" /\ job[w] = t})]
  /\ suspect' = suspect \cup {job[w] : w \in {v \in Workers : wpc[v] \in {"await", "record"}}}
  /\ UNCHANGED <<db, settled, lost>>

\* main returns once no handler runs; nobody waits for the workers.
Stop ==
  /\ phase = "draining"
  /\ \A h \in Handlers : ack[h] = NoTask
  /\ Die
  /\ UNCHANGED bounds

Crash ==
  /\ "crash" \in Faults /\ restarts < MaxRestarts
  /\ phase # "down"
  /\ Die
  /\ restarts' = restarts + 1
  /\ UNCHANGED results

-----------------------------------------------------------------------------
SendPayment(w) == SendSucceeded(w) \/ SendFailed(w) \/ SendUnknown(w)

Process(w) ==
  \/ Dequeue(w)
  \/ SendPayment(w)
  \/ RecordPaid(w) \/ RecordError(w)
  \/ Retry(w) \/ Abandon(w)
  \/ GiveUp(w) \/ GiveUpError(w)

Start ==
  \/ StartScan \/ StartScanError
  \/ \E t \in Tasks : Recover(t)
  \/ \E S \in SUBSET Tasks : RecoverError(S)
  \/ StartWorkers

Next ==
  \/ \E t \in Tasks : Schedule(t) \/ LateSettle(t) \/ LateFail(t) \/ MarkCompleteError(t)
  \/ \E S \in SUBSET Tasks : RequeueTimedOut(S)
  \/ \E h \in Handlers, t \in Tasks : MarkComplete(h, t)
  \/ \E h \in Handlers : Enqueue(h) \/ LookupError(h)
  \/ \E w \in Workers : Process(w)
  \/ ServeTor \/ Start \/ Shutdown \/ Stop \/ Crash

Spec == Init /\ [][Next]_vars

(***************************************************************************)
(* Fairness: SendPayment returns (its context has a deadline), goroutines  *)
(* run, and the orchestrator restarts a process that is down. Nothing is   *)
(* asked of the nodes, of the network or of the failures, nor of the end   *)
(* of a shutdown: httpSrv.Shutdown and GracefulStop have no deadline.      *)
(***************************************************************************)
Fairness ==
  /\ \A w \in Workers : WF_vars(Process(w))
  /\ \A h \in Handlers : WF_vars(Enqueue(h) \/ LookupError(h))
  /\ WF_vars(ServeTor) /\ WF_vars(Start)

FairSpec == Spec /\ Fairness

-----------------------------------------------------------------------------
(* Properties                                                              *)

\* The places that hold a job of t in the memory of the process.
InQueue(t)    == Contains(queue, t)
WithWorker(t) == \E w \in Workers : job[w] = t
WithHandler(t) == \E h \in Handlers : ack[h] = t
Held(t) == InQueue(t) \/ WithWorker(t) \/ WithHandler(t) \/ t \in unread

\* A task is paid at most once unless one of the four ambiguous events has
\* happened to it: a second result (SubmitTaskResult checks no status), an
\* unknown SendPayment outcome that process retries, a lost UPDATE to 'paid',
\* or a process that ends between SendPayment and that UPDATE.
AtMostOnce == \A t \in Tasks : settled[t] > 1 => t \in suspect

\* Barring the same events the row tells the truth: a settled payment is
\* recorded as 'paid' or its worker is about to record it, and 'failed' means
\* that no money moved.
RowTellsTruth ==
  \A t \in Tasks \ suspect :
    settled[t] > 0 => \/ pay[t] = "paid"
                      \/ \E w \in Workers : job[w] = t /\ wpc[w] = "record"

\* No job vanishes: while the process is up or recovering, a completed task
\* with a pending payment is in the queue, with a worker, with a handler or
\* among the rows the recovery scan has yet to push, unless the code gave it up:
\* with a log at a full queue, a failed lookup, a failed UPDATE or a failed scan,
\* silently when the cursor of the scan or the last UPDATE reports an error.
NoJobVanishes ==
  phase \in {"recovering", "up"} =>
    \A t \in Tasks : t \in Recoverable /\ t \notin lost => Held(t)

\* The coordinator implements the ledger: it pays only for completed tasks,
\* says 'paid' only of a settled payment, and never leaves 'paid' or 'failed'.
Ledger == INSTANCE PaymentLedger WITH done <- {t \in Tasks : status[t] = "completed"}
ImplementsLedger == Ledger!LSpec

\* Every completed task has its payment settled one way or the other (across
\* retries, shutdowns, crashes and recovery scans) unless its job was given up
\* as above or the process has begun a shutdown, which nothing forces to end.
PaymentResolved ==
  \A t \in Tasks :
    (t \in Recoverable) ~> (pay[t] # "pending" \/ t \in lost \/ phase = "draining")

\* What docs/adr/ADR-003-state-storage.md promises: "ACID guarantees prevent
\* double-payment and double-task-assignment races".
NoDoublePayment == \A t \in Tasks : settled[t] <= 1
=============================================================================
