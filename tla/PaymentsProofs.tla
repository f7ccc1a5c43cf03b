--------------------------- MODULE PaymentsProofs ---------------------------
(***************************************************************************)
(* Safety of the payment path for every set of tasks, workers and handlers *)
(* and every queue size: IndInv is inductive, and the properties follow.   *)
(***************************************************************************)
EXTENDS PaymentsInvariant, FiniteSetTheorems, TLAPS

USE TasksAssumption, PoolAssumption, FaultsAssumption, BoundsAssumption

(***************************************************************************)
(* Types                                                                   *)
(***************************************************************************)

\* A worker that gives its job back is idle, and has no job.
LEMMA FreeType ==
  ASSUME TypeOK, NEW w \in Workers, Free(w)
  PROVE  /\ wpc' \in [Workers -> {"idle", "await", "record", "retry"}]
         /\ job' \in [Workers -> Tasks \cup {NoTask}]
         /\ attempt' \in [Workers -> 0..MaxAttempts]
         /\ \A v \in Workers : (wpc'[v] = "idle") <=> (job'[v] = NoTask)
  BY DEF TypeOK, Free

\* A worker that is not idle has a task's job.
LEMMA JobType ==
  ASSUME TypeOK, NEW w \in Workers, wpc[w] # "idle"
  PROVE  job[w] \in Tasks
  BY DEF TypeOK

\* A write of a payment row leaves a payment status in it.
LEMMA SetPayType ==
  ASSUME TypeOK, NEW t \in Tasks, NEW s \in {"paid", "failed"}, SetPay(t, s)
  PROVE  pay' \in [Tasks -> {"pending", "paid", "failed"}]
  BY DEF TypeOK, SetPay

\* A job enters the queue only where it has room.
LEMMA PushType ==
  ASSUME TypeOK, NEW t \in Tasks, Len(queue) < QueueSize
  PROVE  Append(queue, t) \in Seq(Tasks) /\ Len(Append(queue, t)) <= QueueSize
  BY DEF TypeOK

\* What a worker takes off the queue is a task's job.
LEMMA PopType ==
  ASSUME TypeOK, queue # <<>>
  PROVE  Head(queue) \in Tasks /\ Tail(queue) \in Seq(Tasks) /\ Len(Tail(queue)) <= QueueSize
  BY DEF TypeOK

\* The workers that wait for a payment of t can be counted.
LEMMA AwaitingIsNat ==
  ASSUME NEW t \in Tasks
  PROVE  Cardinality({w \in Workers : wpc[w] = "await" /\ job[w] = t}) \in Nat
<1>1. IsFiniteSet({w \in Workers : wpc[w] = "await" /\ job[w] = t})
  BY FS_Subset
<1> QED
  BY <1>1, FS_CardinalityType

\* The end of the process orphans a number of payments, and makes only tasks suspect.
LEMMA DieType ==
  ASSUME TypeOK, Die
  PROVE  /\ orphans' \in [Tasks -> Nat]
         /\ suspect' \in SUBSET Tasks
<1>1. \A t \in Tasks : orphans[t] + Cardinality({w \in Workers : wpc[w] = "await" /\ job[w] = t}) \in Nat
  <2> TAKE t \in Tasks
  <2>1. orphans[t] \in Nat
    BY DEF TypeOK
  <2> QED
    BY <2>1, AwaitingIsNat
<1>2. \A w \in Workers : wpc[w] \in {"await", "record"} => job[w] \in Tasks
  BY JobType
<1>3. orphans' \in [Tasks -> Nat]
  BY <1>1 DEF Die
<1>4. suspect' \in SUBSET Tasks
  BY <1>2 DEF Die, TypeOK
<1> QED
  BY <1>3, <1>4

\* The type invariant of Payments is inductive by itself.
LEMMA TypeInductive == TypeOK /\ [Next]_vars => TypeOK'
<1> SUFFICES ASSUME TypeOK, [Next]_vars PROVE TypeOK'
  OBVIOUS
<1>1. ASSUME NEW t \in Tasks, Schedule(t) PROVE TypeOK'
  BY <1>1 DEF TypeOK, Schedule, lightning, pool, bounds, history
<1>2. ASSUME NEW S \in SUBSET Tasks, RequeueTimedOut(S) PROVE TypeOK'
  BY <1>2 DEF TypeOK, RequeueTimedOut, lightning, pool, bounds, history
<1>3. ASSUME NEW h \in Handlers, NEW t \in Tasks, MarkComplete(h, t) PROVE TypeOK'
  BY <1>3 DEF TypeOK, MarkComplete, lightning, pool
<1>4. ASSUME NEW t \in Tasks, MarkCompleteError(t) PROVE TypeOK'
  BY SMTT(30), <1>4 DEF TypeOK, MarkCompleteError, lightning, pool
<1>5. ASSUME NEW h \in Handlers, Enqueue(h) PROVE TypeOK'
  <2>1. ack[h] \in Tasks
    BY <1>5 DEF TypeOK, Enqueue
  <2>2. queue' \in Seq(Tasks) /\ Len(queue') <= QueueSize /\ lost' \in SUBSET Tasks
    <3>1. CASE Len(queue) < QueueSize
      <4>1. queue' = Append(queue, ack[h]) /\ lost' = lost
        BY <1>5, <3>1 DEF Enqueue
      <4> QED
        BY <2>1, <3>1, <4>1, PushType DEF TypeOK
    <3>2. CASE ~(Len(queue) < QueueSize)
      BY <1>5, <2>1, <3>2 DEF Enqueue, TypeOK
    <3> QED
      BY <3>1, <3>2
  <2> QED
    BY <1>5, <2>2 DEF TypeOK, Enqueue, db, lightning, pool, bounds
<1>6. ASSUME NEW h \in Handlers, LookupError(h) PROVE TypeOK'
  BY <1>6 DEF TypeOK, LookupError, db, lightning, pool, bounds
<1>7. ASSUME NEW w \in Workers, Dequeue(w) PROVE TypeOK'
  <2>1. Head(queue) \in Tasks /\ queue' \in Seq(Tasks) /\ Len(queue') <= QueueSize
    BY <1>7, PopType DEF Dequeue
  <2>2. MaxAttempts \in Nat /\ 1 \in 0..MaxAttempts
    OBVIOUS
  <2>3. /\ job' = [job EXCEPT ![w] = Head(queue)]
        /\ wpc' = [wpc EXCEPT ![w] = "await"]
        /\ attempt' = [attempt EXCEPT ![w] = 1]
        /\ UNCHANGED <<status, pay, settled, orphans, phase, unread, ack, results, restarts, suspect, lost>>
    BY <1>7 DEF Dequeue, db, lightning, bounds, history
  <2> QED
    BY <2>1, <2>2, <2>3 DEF TypeOK
<1>8. ASSUME NEW w \in Workers, SendSucceeded(w) PROVE TypeOK'
  BY SMTT(30), <1>8, JobType DEF TypeOK, SendSucceeded, db, bounds, history
<1>9. ASSUME NEW w \in Workers, SendFailed(w) PROVE TypeOK'
  BY <1>9 DEF TypeOK, SendFailed, db, lightning, bounds, history
<1>10. ASSUME NEW w \in Workers, SendUnknown(w) PROVE TypeOK'
  <2>1. job[w] \in Tasks
    BY <1>10, JobType DEF SendUnknown
  <2> QED
    BY SMTT(30), <1>10, <2>1 DEF TypeOK, SendUnknown, db, bounds
<1>11. ASSUME NEW w \in Workers, RecordPaid(w) PROVE TypeOK'
  BY <1>11, JobType, FreeType, SetPayType DEF TypeOK, RecordPaid, lightning, bounds, history
<1>12. ASSUME NEW w \in Workers, RecordError(w) PROVE TypeOK'
  <2>1. job[w] \in Tasks
    BY <1>12, JobType DEF RecordError
  <2>2. pay' \in [Tasks -> {"pending", "paid", "failed"}]
    BY <1>12, <2>1, SetPayType DEF RecordError, TypeOK
  <2>3. /\ Free(w)
        /\ suspect' = suspect \cup {job[w]} /\ lost' = lost \cup {job[w]}
        /\ UNCHANGED <<status, settled, orphans, phase, unread, queue, ack, results, restarts>>
    BY <1>12 DEF RecordError, lightning, bounds
  <2> QED
    BY <2>1, <2>2, <2>3, FreeType DEF TypeOK
<1>13. ASSUME NEW w \in Workers, Retry(w) PROVE TypeOK'
  BY <1>13 DEF TypeOK, Retry, db, lightning, bounds, history
<1>14. ASSUME NEW w \in Workers, Abandon(w) PROVE TypeOK'
  BY <1>14, FreeType DEF TypeOK, Abandon, db, lightning, bounds, history
<1>15. ASSUME NEW w \in Workers, GiveUp(w) PROVE TypeOK'
  BY <1>15, JobType, FreeType, SetPayType DEF TypeOK, GiveUp, lightning, bounds, history
<1>16. ASSUME NEW w \in Workers, GiveUpError(w) PROVE TypeOK'
  BY SMTT(30), <1>16, JobType, FreeType DEF TypeOK, GiveUpError, db, lightning, bounds
<1>17. ASSUME NEW t \in Tasks, LateSettle(t) PROVE TypeOK'
  BY SMTT(30), <1>17 DEF TypeOK, LateSettle, db, pool, bounds, history
<1>18. ASSUME NEW t \in Tasks, LateFail(t) PROVE TypeOK'
  BY SMTT(30), <1>18 DEF TypeOK, LateFail, db, pool, bounds, history
<1>19. CASE ServeTor
  BY <1>19 DEF TypeOK, ServeTor, db, lightning, pool, bounds, history
<1>20. CASE StartScan
  BY <1>20 DEF TypeOK, StartScan, Recoverable, db, lightning, pool, bounds
<1>21. CASE StartScanError
  BY <1>21 DEF TypeOK, StartScanError, Recoverable, db, lightning, pool, bounds
<1>22. ASSUME NEW t \in Tasks, Recover(t) PROVE TypeOK'
  <2>1. queue' \in Seq(Tasks) /\ Len(queue') <= QueueSize /\ lost' \in SUBSET Tasks
    <3>1. CASE Len(queue) < QueueSize
      <4>1. queue' = Append(queue, t) /\ lost' = lost
        BY <1>22, <3>1 DEF Recover
      <4> QED
        BY <3>1, <4>1, PushType DEF TypeOK
    <3>2. CASE ~(Len(queue) < QueueSize)
      BY <1>22, <3>2 DEF Recover, TypeOK
    <3> QED
      BY <3>1, <3>2
  <2> QED
    BY <1>22, <2>1 DEF TypeOK, Recover, db, lightning, pool, bounds
<1>28. ASSUME NEW S \in SUBSET Tasks, RecoverError(S) PROVE TypeOK'
  BY <1>28 DEF TypeOK, RecoverError, db, lightning, pool, bounds
<1>23. CASE StartWorkers
  BY <1>23 DEF TypeOK, StartWorkers, db, lightning, pool, bounds, history
<1>24. CASE Shutdown
  BY <1>24 DEF TypeOK, Shutdown, db, lightning, pool, history
<1>25. CASE Stop
  BY <1>25, DieType DEF TypeOK, Stop, Die, db, bounds
<1>26. CASE Crash
  <2>1. restarts' \in 0..MaxRestarts
    BY <1>26 DEF TypeOK, Crash
  <2>2. Die /\ results' = results
    BY <1>26 DEF Crash
  <2> QED
    BY SMTT(30), <2>1, <2>2, DieType DEF TypeOK, Die, db
<1>27. CASE UNCHANGED vars
  BY <1>27 DEF TypeOK, vars, db, lightning, pool, bounds, history
<1> QED
  BY <1>1, <1>2, <1>3, <1>4, <1>5, <1>6, <1>7, <1>8, <1>9, <1>10, <1>11, <1>12, <1>13, <1>14,
     <1>15, <1>16, <1>17, <1>18, <1>19, <1>20, <1>21, <1>22, <1>23, <1>24, <1>25, <1>26, <1>27, <1>28
     DEF Next, Process, SendPayment, Start

\* Payments is type correct, the bound of the channel included: the queue of
\* Dispatcher never holds more than QueueSize jobs.
THEOREM TypeCorrect == Spec => []TypeOK
<1>1. Init => TypeOK
  BY DEF Init, TypeOK
<1> QED
  BY <1>1, TypeInductive, PTL DEF Spec

(***************************************************************************)
(* The queue                                                               *)
(***************************************************************************)

\* An append adds its job and no other, and no second copy of one already there once.
LEMMA PushContains ==
  ASSUME NEW q \in Seq(Tasks), NEW u \in Tasks, NEW t \in Tasks
  PROVE  /\ Contains(Append(q, u), t) <=> Contains(q, t) \/ t = u
         /\ Once(q, t) /\ (t = u => ~Contains(q, t)) => Once(Append(q, u), t)
<1>1. /\ Append(q, u) \in Seq(Tasks)
      /\ Len(Append(q, u)) = Len(q) + 1 /\ Len(q) \in Nat
      /\ \A i \in 1..Len(q) : Append(q, u)[i] = q[i]
      /\ Append(q, u)[Len(q) + 1] = u
  OBVIOUS
<1>2. \A i \in 1..(Len(q) + 1) : i \in 1..Len(q) \/ i = Len(q) + 1
  BY <1>1
<1> QED
  BY <1>1, <1>2 DEF Contains, Once

\* The head leaves the queue, with the only copy if there was one.
LEMMA PopContains ==
  ASSUME NEW q \in Seq(Tasks), q # <<>>, NEW t \in Tasks
  PROVE  /\ Contains(q, t) <=> Contains(Tail(q), t) \/ t = Head(q)
         /\ Once(q, t) => Once(Tail(q), t) /\ (t = Head(q) => ~Contains(Tail(q), t))
<1>1. /\ Len(q) \in Nat /\ Len(q) > 0 /\ Len(Tail(q)) = Len(q) - 1
      /\ Head(q) = q[1]
      /\ \A i \in 1..Len(Tail(q)) : Tail(q)[i] = q[i + 1]
  OBVIOUS
<1>2. \A i \in 1..Len(q) : i = 1 \/ (i - 1 \in 1..Len(Tail(q)) /\ q[i] = Tail(q)[i - 1])
  BY <1>1
<1>3. \A i \in 1..Len(Tail(q)) : i + 1 \in 1..Len(q) /\ i + 1 # 1
  BY <1>1
<1>4. Contains(q, t) <=> Contains(Tail(q), t) \/ t = Head(q)
  BY <1>1, <1>2, <1>3 DEF Contains
<1>5. ASSUME Once(q, t) PROVE Once(Tail(q), t)
  <2>1. ASSUME NEW i \in 1..Len(Tail(q)), NEW j \in 1..Len(Tail(q)), Tail(q)[i] = t, Tail(q)[j] = t
        PROVE  i = j
    <3>1. i + 1 = j + 1
      BY <1>1, <1>3, <1>5, <2>1 DEF Once
    <3> QED
      BY <3>1, <1>1
  <2> QED
    BY <2>1 DEF Once
<1>6. ASSUME Once(q, t), t = Head(q), Contains(Tail(q), t) PROVE FALSE
  BY <1>1, <1>3, <1>6 DEF Once, Contains
<1> QED
  BY <1>4, <1>5, <1>6

\* A push that keeps the bound of the queue and drops the job otherwise.
Push(u) == IF Len(queue) < QueueSize
           THEN queue' = Append(queue, u) /\ UNCHANGED lost
           ELSE lost' = lost \cup {u} /\ UNCHANGED queue

\* A push loses no job silently: it is in the queue or given up.
LEMMA PushEffect ==
  ASSUME TypeOK, NEW u \in Tasks, Push(u), NEW t \in Tasks
  PROVE  /\ Contains(queue', t) => Contains(queue, t) \/ t = u
         /\ Contains(queue, t) => Contains(queue', t)
         /\ Contains(queue', u) \/ u \in lost'
         /\ Once(queue, t) /\ (t = u => ~Contains(queue, t)) => Once(queue', t)
         /\ t \in lost => t \in lost'
<1>1. queue \in Seq(Tasks)
  BY DEF TypeOK
<1>2. CASE Len(queue) < QueueSize
  <2>1. queue' = Append(queue, u) /\ lost' = lost
    BY <1>2 DEF Push
  <2>2. /\ Contains(queue', t) <=> Contains(queue, t) \/ t = u
        /\ Once(queue, t) /\ (t = u => ~Contains(queue, t)) => Once(queue', t)
    BY <1>1, <2>1, PushContains
  <2>3. Contains(queue', u)
    BY <1>1, <2>1, PushContains
  <2> QED
    BY <2>1, <2>2, <2>3
<1>3. CASE ~(Len(queue) < QueueSize)
  BY <1>3 DEF Push
<1> QED
  BY <1>2, <1>3

\* The empty queue holds no job.
LEMMA EmptyContains ==
  ASSUME NEW t
  PROVE  ~Contains(<<>>, t) /\ Once(<<>>, t)
  BY DEF Contains, Once

\* A process that dies orphans exactly the payments its workers wait for.
LEMMA DieOrphans ==
  ASSUME TypeOK, Die, NEW t \in Tasks, orphans'[t] # orphans[t]
  PROVE  \E w \in Workers : wpc[w] = "await" /\ job[w] = t
<1> SUFFICES ASSUME ~ \E w \in Workers : wpc[w] = "await" /\ job[w] = t PROVE FALSE
  OBVIOUS
<1>1. {w \in Workers : wpc[w] = "await" /\ job[w] = t} = {}
  OBVIOUS
<1>2. orphans'[t] = orphans[t] + 0
  BY <1>1, FS_EmptySet DEF Die
<1>3. orphans[t] \in Nat
  BY DEF TypeOK
<1> QED
  BY <1>2, <1>3

(***************************************************************************)
(* Induction                                                               *)
(***************************************************************************)

\* No step makes a job vanish, given the invariant.
LEMMA VanishInductive == IndInv /\ [Next]_vars => NoJobVanishes'
<1> SUFFICES ASSUME IndInv, [Next]_vars, NEW u \in Tasks, phase' \in {"recovering", "up"},
                    pay'[u] = "pending", status'[u] = "completed", u \notin lost'
             PROVE  Held(u)'
  BY DEF NoJobVanishes, Recoverable
<1>a. TypeOK /\ PhaseInv
  BY DEF IndInv
<1>b. phase \in {"recovering", "up"} /\ pay[u] = "pending" /\ status[u] = "completed" /\ u \notin lost => Held(u)
  BY DEF IndInv, NoJobVanishes, Recoverable
<1>1. ASSUME NEW t \in Tasks, Schedule(t) PROVE Held(u)'
  BY <1>1, <1>a, <1>b
     DEF Schedule, lightning, pool, bounds, history, Held, InQueue, WithWorker, WithHandler, TypeOK, PhaseInv
<1>2. ASSUME NEW S \in SUBSET Tasks, RequeueTimedOut(S) PROVE Held(u)'
  BY <1>2, <1>a, <1>b
     DEF RequeueTimedOut, lightning, pool, bounds, history, Held, InQueue, WithWorker, WithHandler, TypeOK, PhaseInv
<1>3. ASSUME NEW h \in Handlers, NEW t \in Tasks, MarkComplete(h, t) PROVE Held(u)'
  BY <1>3, <1>a, <1>b
     DEF MarkComplete, Serving, lightning, pool, Held, InQueue, WithWorker, WithHandler, TypeOK, PhaseInv
<1>4. ASSUME NEW t \in Tasks, MarkCompleteError(t) PROVE Held(u)'
  BY <1>4, <1>a, <1>b
     DEF MarkCompleteError, lightning, pool, Held, InQueue, WithWorker, WithHandler, TypeOK, PhaseInv
<1>5. ASSUME NEW h \in Handlers, Enqueue(h) PROVE Held(u)'
  <2>1. ack[h] \in Tasks /\ Push(ack[h]) /\ UNCHANGED <<pay, status, phase, unread, job>>
        /\ ack' = [ack EXCEPT ![h] = NoTask]
    BY <1>5, <1>a DEF Enqueue, Push, TypeOK, db, pool
  <2>2. /\ Contains(queue, u) => Contains(queue', u)
        /\ Contains(queue', ack[h]) \/ ack[h] \in lost'
        /\ u \in lost => u \in lost'
    BY <2>1, <1>a, PushEffect
  <2>3. Held(u)
    BY <2>1, <2>2, <1>b
  <2> QED
    BY <2>1, <2>2, <2>3, <1>a DEF Held, InQueue, WithWorker, WithHandler, TypeOK
<1>6. ASSUME NEW h \in Handlers, LookupError(h) PROVE Held(u)'
  BY <1>6, <1>a, <1>b
     DEF LookupError, db, lightning, pool, bounds, Held, InQueue, WithWorker, WithHandler, TypeOK, PhaseInv
<1>7. ASSUME NEW w \in Workers, Dequeue(w) PROVE Held(u)'
  <2>1. /\ queue \in Seq(Tasks) /\ queue # <<>> /\ queue' = Tail(queue)
        /\ job[w] = NoTask /\ job' = [job EXCEPT ![w] = Head(queue)]
        /\ UNCHANGED <<status, pay, lost, phase, ack, unread>>
    BY <1>7, <1>a DEF Dequeue, TypeOK, db, history
  <2>2. Held(u)
    BY <2>1, <1>b
  <2>3. Contains(queue, u) => Contains(queue', u) \/ u = Head(queue)
    BY <2>1, PopContains
  <2> QED
    BY <2>1, <2>2, <2>3, <1>a, TasksAssumption DEF Held, InQueue, WithWorker, WithHandler, TypeOK
<1>8. ASSUME NEW w \in Workers, SendSucceeded(w) PROVE Held(u)'
  BY <1>8, <1>a, <1>b
     DEF SendSucceeded, db, bounds, history, Held, InQueue, WithWorker, WithHandler, TypeOK, PhaseInv
<1>9. ASSUME NEW w \in Workers, SendFailed(w) PROVE Held(u)'
  BY <1>9, <1>a, <1>b
     DEF SendFailed, db, lightning, bounds, history, Held, InQueue, WithWorker, WithHandler, TypeOK, PhaseInv
<1>10. ASSUME NEW w \in Workers, SendUnknown(w) PROVE Held(u)'
  BY <1>10, <1>a, <1>b
     DEF SendUnknown, db, bounds, Held, InQueue, WithWorker, WithHandler, TypeOK, PhaseInv
<1>11. ASSUME NEW w \in Workers, RecordPaid(w) PROVE Held(u)'
  BY <1>11, <1>a, <1>b
     DEF RecordPaid, Free, SetPay, lightning, bounds, history, Held, InQueue, WithWorker, WithHandler, TypeOK, PhaseInv
<1>12. ASSUME NEW w \in Workers, RecordError(w) PROVE Held(u)'
  BY <1>12, <1>a, <1>b
     DEF RecordError, Free, SetPay, lightning, bounds, Held, InQueue, WithWorker, WithHandler, TypeOK, PhaseInv
<1>13. ASSUME NEW w \in Workers, Retry(w) PROVE Held(u)'
  BY <1>13, <1>a, <1>b
     DEF Retry, db, lightning, bounds, history, Held, InQueue, WithWorker, WithHandler, TypeOK, PhaseInv
<1>14. ASSUME NEW w \in Workers, Abandon(w) PROVE Held(u)'
  BY <1>14, <1>a, <1>b
     DEF Abandon, Free, db, lightning, bounds, history, Held, InQueue, WithWorker, WithHandler, TypeOK, PhaseInv
<1>15. ASSUME NEW w \in Workers, GiveUp(w) PROVE Held(u)'
  BY <1>15, <1>a, <1>b
     DEF GiveUp, Free, SetPay, lightning, bounds, history, Held, InQueue, WithWorker, WithHandler, TypeOK, PhaseInv
<1>16. ASSUME NEW w \in Workers, GiveUpError(w) PROVE Held(u)'
  BY <1>16, <1>a, <1>b
     DEF GiveUpError, Free, db, lightning, bounds, Held, InQueue, WithWorker, WithHandler, TypeOK, PhaseInv
<1>17. ASSUME NEW t \in Tasks, LateSettle(t) PROVE Held(u)'
  BY <1>17, <1>a, <1>b
     DEF LateSettle, db, pool, bounds, history, Held, InQueue, WithWorker, WithHandler, TypeOK, PhaseInv
<1>18. ASSUME NEW t \in Tasks, LateFail(t) PROVE Held(u)'
  BY <1>18, <1>a, <1>b
     DEF LateFail, db, pool, bounds, history, Held, InQueue, WithWorker, WithHandler, TypeOK, PhaseInv
<1>19. CASE ServeTor
  BY <1>19, <1>a, <1>b, EmptyContains
     DEF ServeTor, db, lightning, pool, bounds, history, Held, InQueue, WithWorker, WithHandler, TypeOK, PhaseInv
<1>20. CASE StartScan
  BY <1>20, <1>a, <1>b, EmptyContains
     DEF StartScan, Recoverable, db, lightning, pool, bounds, Held, InQueue, WithWorker, WithHandler, TypeOK, PhaseInv
<1>21. CASE StartScanError
  BY <1>21, <1>a, <1>b
     DEF StartScanError, Recoverable, db, lightning, pool, bounds, Held, InQueue, WithWorker, WithHandler, TypeOK, PhaseInv
<1>22. ASSUME NEW t \in Tasks, Recover(t) PROVE Held(u)'
  <2>1. Push(t) /\ UNCHANGED <<pay, status, phase, job, ack>> /\ unread' = unread \ {t}
    BY <1>22 DEF Recover, Push, db, pool
  <2>2. /\ Contains(queue, u) => Contains(queue', u)
        /\ Contains(queue', t) \/ t \in lost'
        /\ u \in lost => u \in lost'
    BY <2>1, <1>a, PushEffect
  <2>3. Held(u)
    BY <2>1, <2>2, <1>b
  <2> QED
    BY <2>1, <2>2, <2>3 DEF Held, InQueue, WithWorker, WithHandler
<1>28. ASSUME NEW S \in SUBSET Tasks, RecoverError(S) PROVE Held(u)'
  <2>1. Held(u) /\ u \notin S
    BY <1>28, <1>b DEF RecoverError, db
  <2> QED
    BY <1>28, <2>1 DEF RecoverError, pool, Held, InQueue, WithWorker, WithHandler
<1>23. CASE StartWorkers
  BY <1>23, <1>a, <1>b
     DEF StartWorkers, db, lightning, pool, bounds, history, Held, InQueue, WithWorker, WithHandler, TypeOK, PhaseInv
<1>24. CASE Shutdown
  BY <1>24, <1>a, <1>b
     DEF Shutdown, db, lightning, pool, history, Held, InQueue, WithWorker, WithHandler, TypeOK, PhaseInv
<1>25. CASE Stop
  BY <1>25, <1>a, <1>b
     DEF Stop, Die
<1>26. CASE Crash
  BY <1>26, <1>a, <1>b
     DEF Crash, Die
<1>27. CASE UNCHANGED vars
  BY <1>27, <1>b DEF Held, InQueue, WithWorker, WithHandler, vars, db, pool, history
<1> QED
  BY <1>1, <1>2, <1>3, <1>4, <1>5, <1>6, <1>7, <1>8, <1>9, <1>10, <1>11, <1>12, <1>13, <1>14, <1>15, <1>16, <1>17, <1>18, <1>19, <1>20, <1>21, <1>22, <1>23, <1>24, <1>25, <1>26, <1>27, <1>28
     DEF Next, Process, SendPayment, Start

\* A death of the process leaves a clear task clear and everything completed.
LEMMA DieInductive ==
  ASSUME IndInv, Die, TypeOK'
  PROVE  PhaseInv' /\ CompletedInv' /\ RecordInv' /\ ClearInv'
<1>0. TypeOK /\ CompletedInv /\ ClearInv
  BY DEF IndInv
<1>a. /\ \A t \in Tasks : ~Held(t)'
      /\ \A t \in Tasks : Single(t)'
      /\ \A w \in Workers : job'[w] = NoTask /\ wpc'[w] = "idle"
  BY EmptyContains DEF Die, Held, Single, InQueue, WithWorker, WithHandler
<1>b. UNCHANGED <<status, pay, settled>>
  BY DEF Die, db
<1>1. PhaseInv'
  BY DEF Die, PhaseInv
<1>2. CompletedInv'
  <2> SUFFICES ASSUME NEW t \in Tasks, orphans'[t] > 0 \/ settled[t] > 0 \/ pay[t] # "pending"
               PROVE  status[t] = "completed"
    BY <1>a, <1>b DEF CompletedInv
  <2>1. CASE orphans'[t] = orphans[t]
    BY <2>1, <1>0 DEF CompletedInv
  <2>2. CASE orphans'[t] # orphans[t]
    BY <2>2, <1>0, DieOrphans DEF CompletedInv, Held, WithWorker
  <2> QED
    BY <2>1, <2>2
<1>3. RecordInv'
  BY <1>a DEF RecordInv
<1>4. ClearInv'
  <2> SUFFICES ASSUME NEW t \in Tasks, t \notin suspect' PROVE Clear(t)'
    BY DEF ClearInv
  <2>1. t \notin suspect /\ ~ \E w \in Workers : wpc[w] \in {"await", "record"} /\ job[w] = t
    BY DEF Die
  <2>2. Clear(t)
    BY <2>1, <1>0 DEF ClearInv
  <2>3. orphans'[t] = 0
    BY <2>1, <2>2, <1>0, DieOrphans DEF Clear
  <2> QED
    BY <1>a, <1>b, <2>1, <2>2, <2>3 DEF Clear
<1> QED
  BY <1>1, <1>2, <1>3, <1>4

\* The books of t stay clear in a step that adds no copy of its job, moves none
\* of its money, and leaves its row and a record under way alone.
LEMMA ClearKept ==
  ASSUME NEW t \in Tasks, Clear(t), queue' = queue,
         \A v \in Workers : job'[v] = t => job[v] = t,
         \A v \in Workers : job[v] = t /\ wpc[v] = "record" => job'[v] = t /\ wpc'[v] = "record",
         \A h \in Handlers : ack'[h] = t => ack[h] = t,
         t \in unread' => t \in unread,
         phase' = "serving" => phase = "serving",
         orphans'[t] = orphans[t], settled'[t] = settled[t], pay'[t] = pay[t]
  PROVE  Clear(t)'
<1>1. InQueue(t)' = InQueue(t)
  BY DEF InQueue
<1>2. (WithWorker(t)' => WithWorker(t)) /\ (WithHandler(t)' => WithHandler(t))
  BY DEF WithWorker, WithHandler
<1>3. Held(t)' => Held(t)
  BY <1>1, <1>2 DEF Held
<1>4. Single(t)'
  BY <1>1, <1>2 DEF Clear, Single
<1> QED
  BY <1>3, <1>4 DEF Clear

\* Every step preserves the inductive invariant.
LEMMA Inductive == IndInv /\ [Next]_vars => IndInv'
<1> SUFFICES ASSUME IndInv, [Next]_vars PROVE IndInv'
  OBVIOUS
<1>a. TypeOK /\ PhaseInv /\ CompletedInv /\ RecordInv /\ ClearInv /\ NoJobVanishes
  BY DEF IndInv
<1>b. TypeOK'
  BY TypeInductive, <1>a
<1>1. ASSUME NEW t \in Tasks, Schedule(t) PROVE IndInv'
  <2>1. PhaseInv'
    BY <1>1, <1>a, <1>b
       DEF PhaseInv, TypeOK, Schedule, lightning, pool, bounds, history
  <2>2. CompletedInv'
    BY <1>1, <1>a, <1>b
       DEF CompletedInv, Held, InQueue, WithWorker, WithHandler, TypeOK, Schedule, lightning, pool, bounds, history, PhaseInv
  <2>3. RecordInv'
    BY <1>1, <1>a, <1>b
       DEF RecordInv, TypeOK, Schedule, lightning, pool, bounds, history
  <2>4. ClearInv'
    <3> SUFFICES ASSUME NEW u \in Tasks \ suspect' PROVE Clear(u)'
      BY DEF ClearInv
    <3>1. u \notin suspect /\ Clear(u)
      BY <1>1, <1>a DEF ClearInv, Schedule, lightning, pool, bounds, history
    <3> QED
      BY <3>1, <1>1, <1>a, ClearKept DEF TypeOK, Schedule, lightning, pool, bounds, history
  <2> QED
    BY <1>b, <2>1, <2>2, <2>3, <2>4, VanishInductive DEF IndInv
<1>2. ASSUME NEW S \in SUBSET Tasks, RequeueTimedOut(S) PROVE IndInv'
  <2>1. PhaseInv'
    BY <1>2, <1>a, <1>b
       DEF PhaseInv, TypeOK, RequeueTimedOut, lightning, pool, bounds, history
  <2>2. CompletedInv'
    BY <1>2, <1>a, <1>b
       DEF CompletedInv, Held, InQueue, WithWorker, WithHandler, TypeOK, RequeueTimedOut, lightning, pool, bounds, history, PhaseInv
  <2>3. RecordInv'
    BY <1>2, <1>a, <1>b
       DEF RecordInv, TypeOK, RequeueTimedOut, lightning, pool, bounds, history
  <2>4. ClearInv'
    <3> SUFFICES ASSUME NEW u \in Tasks \ suspect' PROVE Clear(u)'
      BY DEF ClearInv
    <3>1. u \notin suspect /\ Clear(u)
      BY <1>2, <1>a DEF ClearInv, RequeueTimedOut, lightning, pool, bounds, history
    <3> QED
      BY <3>1, <1>2, <1>a, ClearKept DEF TypeOK, RequeueTimedOut, lightning, pool, bounds, history
  <2> QED
    BY <1>b, <2>1, <2>2, <2>3, <2>4, VanishInductive DEF IndInv
<1>3. ASSUME NEW h \in Handlers, NEW t \in Tasks, MarkComplete(h, t) PROVE IndInv'
  <2>1. PhaseInv'
    BY <1>3, <1>a, <1>b
       DEF PhaseInv, TypeOK, MarkComplete, Serving, lightning, pool
  <2>2. CompletedInv'
    BY <1>3, <1>a, <1>b
       DEF CompletedInv, Held, InQueue, WithWorker, WithHandler, TypeOK, MarkComplete, Serving, lightning, pool, PhaseInv
  <2>3. RecordInv'
    BY <1>3, <1>a, <1>b
       DEF RecordInv, TypeOK, MarkComplete, Serving, lightning, pool
  <2>4. ClearInv'
    BY SMTT(30), <1>3, <1>a, <1>b
       DEF ClearInv, Clear, Single, Held, InQueue, WithWorker, WithHandler, TypeOK, MarkComplete, Serving, lightning, pool, PhaseInv, CompletedInv, RecordInv
  <2> QED
    BY <1>b, <2>1, <2>2, <2>3, <2>4, VanishInductive DEF IndInv
<1>4. ASSUME NEW t \in Tasks, MarkCompleteError(t) PROVE IndInv'
  <2>1. PhaseInv'
    BY <1>4, <1>a, <1>b
       DEF PhaseInv, TypeOK, MarkCompleteError, lightning, pool
  <2>2. CompletedInv'
    BY <1>4, <1>a, <1>b
       DEF CompletedInv, Held, InQueue, WithWorker, WithHandler, TypeOK, MarkCompleteError, lightning, pool, PhaseInv
  <2>3. RecordInv'
    BY <1>4, <1>a, <1>b
       DEF RecordInv, TypeOK, MarkCompleteError, lightning, pool
  <2>4. ClearInv'
    BY SMTT(30), <1>4, <1>a, <1>b
       DEF ClearInv, Clear, Single, Held, InQueue, WithWorker, WithHandler, TypeOK, MarkCompleteError, lightning, pool, PhaseInv, CompletedInv, RecordInv
  <2> QED
    BY <1>b, <2>1, <2>2, <2>3, <2>4, VanishInductive DEF IndInv
<1>5. ASSUME NEW h \in Handlers, Enqueue(h) PROVE IndInv'
  <2>0. /\ ack[h] \in Tasks /\ Push(ack[h]) /\ ack' = [ack EXCEPT ![h] = NoTask]
        /\ UNCHANGED <<status, pay, settled, orphans, phase, unread, wpc, job, suspect>>
    BY <1>5, <1>a DEF Enqueue, Push, TypeOK, db, lightning, pool
  <2>a. phase # "down"
    BY <1>5, <1>a DEF Enqueue, PhaseInv
  <2>b. ack \in [Handlers -> Tasks \cup {NoTask}]
    BY <1>a DEF TypeOK
  <2>c. \A t \in Tasks : Held(t)' => Held(t)
    BY <2>0, <2>b, <1>a, PushEffect DEF Held, InQueue, WithWorker, WithHandler
  <2>1. PhaseInv'
    BY <2>0, <2>a, <1>a DEF PhaseInv
  <2>2. CompletedInv'
    BY <2>0, <2>c, <1>a DEF CompletedInv
  <2>3. RecordInv'
    BY <2>0, <1>a DEF RecordInv
  <2>4. ClearInv'
    <3> SUFFICES ASSUME NEW t \in Tasks, t \notin suspect PROVE Clear(t)'
      BY <2>0 DEF ClearInv
    <3>1. Clear(t)
      BY <1>a DEF ClearInv
    <3>2. Once(queue', t) /\ (Contains(queue', t) => Contains(queue, t) \/ t = ack[h])
      BY <2>0, <3>1, <1>a, PushEffect DEF Clear, Single, InQueue, WithHandler
    <3>3. Single(t)'
      BY <2>0, <2>b, <3>1, <3>2 DEF Clear, Single, InQueue, WithWorker, WithHandler
    <3> QED
      BY <2>0, <2>c, <3>1, <3>3 DEF Clear
  <2> QED
    BY <1>b, <2>1, <2>2, <2>3, <2>4, VanishInductive DEF IndInv
<1>6. ASSUME NEW h \in Handlers, LookupError(h) PROVE IndInv'
  <2>1. PhaseInv'
    BY <1>6, <1>a, <1>b
       DEF PhaseInv, TypeOK, LookupError, db, lightning, pool, bounds
  <2>2. CompletedInv'
    BY <1>6, <1>a, <1>b
       DEF CompletedInv, Held, InQueue, WithWorker, WithHandler, TypeOK, LookupError, db, lightning, pool, bounds, PhaseInv
  <2>3. RecordInv'
    BY <1>6, <1>a, <1>b
       DEF RecordInv, TypeOK, LookupError, db, lightning, pool, bounds
  <2>4. ClearInv'
    <3> SUFFICES ASSUME NEW u \in Tasks \ suspect' PROVE Clear(u)'
      BY DEF ClearInv
    <3>1. u \notin suspect /\ Clear(u)
      BY <1>6, <1>a DEF ClearInv, LookupError
    <3> QED
      BY <3>1, <1>6, <1>a, ClearKept DEF TypeOK, LookupError, db, lightning, pool, bounds
  <2> QED
    BY <1>b, <2>1, <2>2, <2>3, <2>4, VanishInductive DEF IndInv
<1>7. ASSUME NEW w \in Workers, Dequeue(w) PROVE IndInv'
  <2>1. PhaseInv'
    BY <1>7, <1>a, <1>b, PopContains
       DEF PhaseInv, TypeOK, Dequeue, db, lightning, bounds, history
  <2>2. CompletedInv'
    BY <1>7, <1>a, <1>b, PopContains
       DEF CompletedInv, Held, InQueue, WithWorker, WithHandler, TypeOK, Dequeue, db, lightning, bounds, history, PhaseInv
  <2>3. RecordInv'
    BY <1>7, <1>a, <1>b, PopContains
       DEF RecordInv, TypeOK, Dequeue, db, lightning, bounds, history
  <2>4. ClearInv'
    <3>0. /\ queue \in Seq(Tasks) /\ queue # <<>> /\ queue' = Tail(queue) /\ Head(queue) \in Tasks
          /\ phase # "serving" /\ job[w] = NoTask /\ wpc[w] = "idle"
          /\ job' = [job EXCEPT ![w] = Head(queue)] /\ wpc' = [wpc EXCEPT ![w] = "await"]
          /\ UNCHANGED <<status, pay, settled, orphans, phase, unread, ack, suspect>>
      BY <1>7, <1>a, PopType DEF Dequeue, TypeOK, db, lightning, history
    <3>a. job \in [Workers -> Tasks \cup {NoTask}] /\ wpc \in [Workers -> {"idle", "await", "record", "retry"}]
      BY <1>a DEF TypeOK
    <3> SUFFICES ASSUME NEW t \in Tasks, t \notin suspect PROVE Clear(t)'
      BY <3>0 DEF ClearInv
    <3>1. Clear(t)
      BY <1>a DEF ClearInv
    <3>2. /\ Once(queue', t) /\ (t = Head(queue) => ~Contains(queue', t))
          /\ Contains(queue, t) <=> Contains(queue', t) \/ t = Head(queue)
      BY <3>0, <3>1, PopContains DEF Clear, Single
    <3>3. Held(t)' => Held(t)
      BY <3>0, <3>a, <3>2 DEF Held, InQueue, WithWorker, WithHandler
    <3>4. Single(t)'
      BY <3>0, <3>a, <3>1, <3>2 DEF Clear, Single, InQueue, WithWorker, WithHandler
    <3>5. settled[t] = 1 => pay[t] = "paid" \/ \E v \in Workers : job'[v] = t /\ wpc'[v] = "record"
      BY <3>0, <3>a, <3>1 DEF Clear
    <3> QED
      BY <3>0, <3>1, <3>3, <3>4, <3>5 DEF Clear
  <2> QED
    BY <1>b, <2>1, <2>2, <2>3, <2>4, VanishInductive DEF IndInv
<1>8. ASSUME NEW w \in Workers, SendSucceeded(w) PROVE IndInv'
  <2>0. job[w] \in Tasks
    BY <1>8, <1>a, JobType DEF SendSucceeded
  <2>1. PhaseInv'
    BY <1>8, <1>a, <1>b, <2>0
       DEF PhaseInv, TypeOK, SendSucceeded, db, bounds, history
  <2>2. CompletedInv'
    BY <1>8, <1>a, <1>b, <2>0
       DEF CompletedInv, Held, InQueue, WithWorker, WithHandler, TypeOK, SendSucceeded, db, bounds, history, PhaseInv
  <2>3. RecordInv'
    BY <1>8, <1>a, <1>b, <2>0
       DEF RecordInv, TypeOK, SendSucceeded, db, bounds, history
  <2>4. ClearInv'
    <3>0. /\ wpc[w] = "await" /\ wpc' = [wpc EXCEPT ![w] = "record"]
          /\ settled' = [settled EXCEPT ![job[w]] = @ + 1]
          /\ UNCHANGED <<pay, orphans, phase, unread, queue, job, ack, suspect>>
      BY <1>8 DEF SendSucceeded, db, history
    <3>a. /\ wpc \in [Workers -> {"idle", "await", "record", "retry"}]
          /\ settled \in [Tasks -> Nat]
      BY <1>a DEF TypeOK
    <3> SUFFICES ASSUME NEW t \in Tasks, t \notin suspect PROVE Clear(t)'
      BY <3>0 DEF ClearInv
    <3>1. Clear(t)
      BY <1>a DEF ClearInv
    <3>2. Single(t)' /\ (Held(t)' <=> Held(t))
      BY <3>0, <3>1 DEF Clear, Single, Held, InQueue, WithWorker, WithHandler
    <3>3. CASE t = job[w]
      <4>1. settled[t] = 0
        BY <3>0, <3>a, <3>1, <3>3 DEF Clear, Single, Held, WithWorker
      <4>2. settled'[t] = 1 /\ job'[w] = t /\ wpc'[w] = "record"
        BY <3>0, <3>a, <3>3, <4>1
      <4> QED
        BY <3>0, <3>1, <3>2, <4>2 DEF Clear
    <3>4. CASE t # job[w]
      <4>1. settled'[t] = settled[t]
        BY <3>0, <3>a, <3>4, <2>0
      <4>2. \A v \in Workers : job[v] = t /\ wpc[v] = "record" => wpc'[v] = "record"
        BY <3>0, <3>a
      <4> QED
        BY <3>0, <3>1, <3>2, <4>1, <4>2 DEF Clear
    <3> QED
      BY <3>3, <3>4
  <2> QED
    BY <1>b, <2>1, <2>2, <2>3, <2>4, VanishInductive DEF IndInv
<1>9. ASSUME NEW w \in Workers, SendFailed(w) PROVE IndInv'
  <2>0. job[w] \in Tasks
    BY <1>9, <1>a, JobType DEF SendFailed
  <2>1. PhaseInv'
    BY <1>9, <1>a, <1>b, <2>0
       DEF PhaseInv, TypeOK, SendFailed, db, lightning, bounds, history
  <2>2. CompletedInv'
    BY <1>9, <1>a, <1>b, <2>0
       DEF CompletedInv, Held, InQueue, WithWorker, WithHandler, TypeOK, SendFailed, db, lightning, bounds, history, PhaseInv
  <2>3. RecordInv'
    BY <1>9, <1>a, <1>b, <2>0
       DEF RecordInv, TypeOK, SendFailed, db, lightning, bounds, history
  <2>4. ClearInv'
    <3> SUFFICES ASSUME NEW u \in Tasks \ suspect' PROVE Clear(u)'
      BY DEF ClearInv
    <3>1. u \notin suspect /\ Clear(u)
      BY <1>9, <1>a DEF ClearInv, SendFailed, db, lightning, bounds, history
    <3> QED
      BY <3>1, <1>9, <1>a, <2>0, ClearKept DEF TypeOK, SendFailed, db, lightning, bounds, history
  <2> QED
    BY <1>b, <2>1, <2>2, <2>3, <2>4, VanishInductive DEF IndInv
<1>10. ASSUME NEW w \in Workers, SendUnknown(w) PROVE IndInv'
  <2>0. job[w] \in Tasks
    BY <1>10, <1>a, JobType DEF SendUnknown
  <2>1. PhaseInv'
    BY <1>10, <1>a, <1>b, <2>0
       DEF PhaseInv, TypeOK, SendUnknown, db, bounds
  <2>2. CompletedInv'
    BY <1>10, <1>a, <1>b, <2>0
       DEF CompletedInv, Held, InQueue, WithWorker, WithHandler, TypeOK, SendUnknown, db, bounds, PhaseInv
  <2>3. RecordInv'
    BY <1>10, <1>a, <1>b, <2>0
       DEF RecordInv, TypeOK, SendUnknown, db, bounds
  <2>4. ClearInv'
    <3> SUFFICES ASSUME NEW u \in Tasks \ suspect' PROVE Clear(u)'
      BY DEF ClearInv
    <3>1. u \notin suspect /\ Clear(u)
      BY <1>10, <1>a DEF ClearInv, SendUnknown
    <3> QED
      BY <3>1, <1>10, <1>a, <2>0, ClearKept DEF TypeOK, SendUnknown, db, bounds
  <2> QED
    BY <1>b, <2>1, <2>2, <2>3, <2>4, VanishInductive DEF IndInv
<1>11. ASSUME NEW w \in Workers, RecordPaid(w) PROVE IndInv'
  <2>0. job[w] \in Tasks
    BY <1>11, <1>a, JobType DEF RecordPaid
  <2>1. PhaseInv'
    BY <1>11, <1>a, <1>b, <2>0
       DEF PhaseInv, TypeOK, RecordPaid, Free, SetPay, lightning, bounds, history
  <2>2. CompletedInv'
    BY <1>11, <1>a, <1>b, <2>0
       DEF CompletedInv, Held, InQueue, WithWorker, WithHandler, TypeOK, RecordPaid, Free, SetPay, lightning, bounds, history, PhaseInv
  <2>3. RecordInv'
    BY <1>11, <1>a, <1>b, <2>0
       DEF RecordInv, TypeOK, RecordPaid, Free, SetPay, lightning, bounds, history
  <2>4. ClearInv'
    BY <1>11, <1>a, <1>b, <2>0
       DEF ClearInv, Clear, Single, Held, InQueue, WithWorker, WithHandler, TypeOK, RecordPaid, Free, SetPay, lightning, bounds, history, PhaseInv, CompletedInv, RecordInv
  <2> QED
    BY <1>b, <2>1, <2>2, <2>3, <2>4, VanishInductive DEF IndInv
<1>12. ASSUME NEW w \in Workers, RecordError(w) PROVE IndInv'
  <2>0. job[w] \in Tasks
    BY <1>12, <1>a, JobType DEF RecordError
  <2>1. PhaseInv'
    BY <1>12, <1>a, <1>b, <2>0
       DEF PhaseInv, TypeOK, RecordError, Free, SetPay, lightning, bounds
  <2>2. CompletedInv'
    BY SMTT(30), <1>12, <1>a, <1>b, <2>0
       DEF CompletedInv, Held, InQueue, WithWorker, WithHandler, TypeOK, RecordError, Free, SetPay, lightning, bounds, PhaseInv
  <2>3. RecordInv'
    BY <1>12, <1>a, <1>b, <2>0
       DEF RecordInv, TypeOK, RecordError, Free, SetPay, lightning, bounds
  <2>4. ClearInv'
    <3> SUFFICES ASSUME NEW u \in Tasks \ suspect' PROVE Clear(u)'
      BY DEF ClearInv
    <3>1. u \notin suspect /\ Clear(u)
      BY <1>12, <1>a DEF ClearInv, RecordError
    <3>2. u # job[w]
      BY <1>12 DEF RecordError
    <3>3. pay'[u] = pay[u]
      BY <3>2, <1>12, <1>a, <2>0 DEF TypeOK, RecordError, SetPay
    <3>4. /\ \A v \in Workers : job'[v] = u => job[v] = u
          /\ \A v \in Workers : job[v] = u /\ wpc[v] = "record" => job'[v] = u /\ wpc'[v] = "record"
      BY <3>2, <1>12, <1>a, TasksAssumption DEF TypeOK, RecordError, Free
    <3>5. UNCHANGED <<queue, ack, unread, phase, orphans, settled>>
      BY <1>12 DEF RecordError, lightning
    <3> QED
      BY <3>1, <3>3, <3>4, <3>5, ClearKept
  <2> QED
    BY <1>b, <2>1, <2>2, <2>3, <2>4, VanishInductive DEF IndInv
<1>13. ASSUME NEW w \in Workers, Retry(w) PROVE IndInv'
  <2>0. job[w] \in Tasks
    BY <1>13, <1>a, JobType DEF Retry
  <2>1. PhaseInv'
    BY <1>13, <1>a, <1>b, <2>0
       DEF PhaseInv, TypeOK, Retry, db, lightning, bounds, history
  <2>2. CompletedInv'
    BY <1>13, <1>a, <1>b, <2>0
       DEF CompletedInv, Held, InQueue, WithWorker, WithHandler, TypeOK, Retry, db, lightning, bounds, history, PhaseInv
  <2>3. RecordInv'
    BY <1>13, <1>a, <1>b, <2>0
       DEF RecordInv, TypeOK, Retry, db, lightning, bounds, history
  <2>4. ClearInv'
    <3> SUFFICES ASSUME NEW u \in Tasks \ suspect' PROVE Clear(u)'
      BY DEF ClearInv
    <3>1. u \notin suspect /\ Clear(u)
      BY <1>13, <1>a DEF ClearInv, Retry, db, lightning, bounds, history
    <3> QED
      BY <3>1, <1>13, <1>a, <2>0, ClearKept DEF TypeOK, Retry, db, lightning, bounds, history
  <2> QED
    BY <1>b, <2>1, <2>2, <2>3, <2>4, VanishInductive DEF IndInv
<1>14. ASSUME NEW w \in Workers, Abandon(w) PROVE IndInv'
  <2>0. job[w] \in Tasks
    BY <1>14, <1>a, JobType DEF Abandon
  <2>1. PhaseInv'
    BY <1>14, <1>a, <1>b, <2>0
       DEF PhaseInv, TypeOK, Abandon, Free, db, lightning, bounds, history
  <2>2. CompletedInv'
    BY <1>14, <1>a, <1>b, <2>0
       DEF CompletedInv, Held, InQueue, WithWorker, WithHandler, TypeOK, Abandon, Free, db, lightning, bounds, history, PhaseInv
  <2>3. RecordInv'
    BY <1>14, <1>a, <1>b, <2>0
       DEF RecordInv, TypeOK, Abandon, Free, db, lightning, bounds, history
  <2>4. ClearInv'
    <3> SUFFICES ASSUME NEW u \in Tasks \ suspect' PROVE Clear(u)'
      BY DEF ClearInv
    <3>1. u \notin suspect /\ Clear(u)
      BY <1>14, <1>a DEF ClearInv, Abandon, Free, db, lightning, bounds, history
    <3> QED
      BY <3>1, <1>14, <1>a, <2>0, ClearKept DEF TypeOK, Abandon, Free, db, lightning, bounds, history
  <2> QED
    BY <1>b, <2>1, <2>2, <2>3, <2>4, VanishInductive DEF IndInv
<1>15. ASSUME NEW w \in Workers, GiveUp(w) PROVE IndInv'
  <2>0. job[w] \in Tasks
    BY <1>15, <1>a, JobType DEF GiveUp
  <2>1. PhaseInv'
    BY <1>15, <1>a, <1>b, <2>0
       DEF PhaseInv, TypeOK, GiveUp, Free, SetPay, lightning, bounds, history
  <2>2. CompletedInv'
    BY <1>15, <1>a, <1>b, <2>0
       DEF CompletedInv, Held, InQueue, WithWorker, WithHandler, TypeOK, GiveUp, Free, SetPay, lightning, bounds, history, PhaseInv
  <2>3. RecordInv'
    BY <1>15, <1>a, <1>b, <2>0
       DEF RecordInv, TypeOK, GiveUp, Free, SetPay, lightning, bounds, history
  <2>4. ClearInv'
    BY <1>15, <1>a, <1>b, <2>0
       DEF ClearInv, Clear, Single, Held, InQueue, WithWorker, WithHandler, TypeOK, GiveUp, Free, SetPay, lightning, bounds, history, PhaseInv, CompletedInv, RecordInv
  <2> QED
    BY <1>b, <2>1, <2>2, <2>3, <2>4, VanishInductive DEF IndInv
<1>16. ASSUME NEW w \in Workers, GiveUpError(w) PROVE IndInv'
  <2>0. job[w] \in Tasks
    BY <1>16, <1>a, JobType DEF GiveUpError
  <2>1. PhaseInv'
    BY <1>16, <1>a, <1>b, <2>0
       DEF PhaseInv, TypeOK, GiveUpError, Free, db, lightning, bounds
  <2>2. CompletedInv'
    BY <1>16, <1>a, <1>b, <2>0
       DEF CompletedInv, Held, InQueue, WithWorker, WithHandler, TypeOK, GiveUpError, Free, db, lightning, bounds, PhaseInv
  <2>3. RecordInv'
    BY <1>16, <1>a, <1>b, <2>0
       DEF RecordInv, TypeOK, GiveUpError, Free, db, lightning, bounds
  <2>4. ClearInv'
    <3> SUFFICES ASSUME NEW u \in Tasks \ suspect' PROVE Clear(u)'
      BY DEF ClearInv
    <3>1. u \notin suspect /\ Clear(u)
      BY <1>16, <1>a DEF ClearInv, GiveUpError
    <3> QED
      BY <3>1, <1>16, <1>a, <2>0, ClearKept DEF TypeOK, GiveUpError, Free, db, lightning, bounds
  <2> QED
    BY <1>b, <2>1, <2>2, <2>3, <2>4, VanishInductive DEF IndInv
<1>17. ASSUME NEW t \in Tasks, LateSettle(t) PROVE IndInv'
  <2>1. PhaseInv'
    BY <1>17, <1>a, <1>b
       DEF PhaseInv, TypeOK, LateSettle, db, pool, bounds, history
  <2>2. CompletedInv'
    BY <1>17, <1>a, <1>b
       DEF CompletedInv, Held, InQueue, WithWorker, WithHandler, TypeOK, LateSettle, db, pool, bounds, history, PhaseInv
  <2>3. RecordInv'
    BY <1>17, <1>a, <1>b
       DEF RecordInv, TypeOK, LateSettle, db, pool, bounds, history
  <2>4. ClearInv'
    <3> SUFFICES ASSUME NEW u \in Tasks \ suspect PROVE Clear(u)'
      BY <1>17 DEF ClearInv, LateSettle, history
    <3>1. Clear(u)
      BY <1>a DEF ClearInv
    <3>2. u # t
      BY <3>1, <1>17 DEF Clear, LateSettle
    <3> QED
      BY <3>1, <3>2, <1>17, <1>a, ClearKept DEF TypeOK, LateSettle, db, pool
  <2> QED
    BY <1>b, <2>1, <2>2, <2>3, <2>4, VanishInductive DEF IndInv
<1>18. ASSUME NEW t \in Tasks, LateFail(t) PROVE IndInv'
  <2>1. PhaseInv'
    BY <1>18, <1>a, <1>b
       DEF PhaseInv, TypeOK, LateFail, db, pool, bounds, history
  <2>2. CompletedInv'
    BY <1>18, <1>a, <1>b
       DEF CompletedInv, Held, InQueue, WithWorker, WithHandler, TypeOK, LateFail, db, pool, bounds, history, PhaseInv
  <2>3. RecordInv'
    BY <1>18, <1>a, <1>b
       DEF RecordInv, TypeOK, LateFail, db, pool, bounds, history
  <2>4. ClearInv'
    <3> SUFFICES ASSUME NEW u \in Tasks \ suspect PROVE Clear(u)'
      BY <1>18 DEF ClearInv, LateFail, history
    <3>1. Clear(u)
      BY <1>a DEF ClearInv
    <3>2. u # t
      BY <3>1, <1>18 DEF Clear, LateFail
    <3> QED
      BY <3>1, <3>2, <1>18, <1>a, ClearKept DEF TypeOK, LateFail, db, pool
  <2> QED
    BY <1>b, <2>1, <2>2, <2>3, <2>4, VanishInductive DEF IndInv
<1>19. CASE ServeTor
  <2>1. PhaseInv'
    BY <1>19, <1>a, <1>b, EmptyContains
       DEF PhaseInv, TypeOK, ServeTor, db, lightning, pool, bounds, history
  <2>2. CompletedInv'
    BY <1>19, <1>a, <1>b, EmptyContains
       DEF CompletedInv, Held, InQueue, WithWorker, WithHandler, TypeOK, ServeTor, db, lightning, pool, bounds, history, PhaseInv
  <2>3. RecordInv'
    BY <1>19, <1>a, <1>b, EmptyContains
       DEF RecordInv, TypeOK, ServeTor, db, lightning, pool, bounds, history
  <2>4. ClearInv'
    BY <1>19, <1>a, <1>b, EmptyContains
       DEF ClearInv, Clear, Single, Held, InQueue, WithWorker, WithHandler, TypeOK, ServeTor, db, lightning, pool, bounds, history, PhaseInv, CompletedInv, RecordInv
  <2> QED
    BY <1>b, <2>1, <2>2, <2>3, <2>4, VanishInductive DEF IndInv
<1>20. CASE StartScan
  <2>1. PhaseInv'
    BY <1>20, <1>a, <1>b, EmptyContains
       DEF PhaseInv, TypeOK, StartScan, Recoverable, db, lightning, pool, bounds
  <2>2. CompletedInv'
    BY <1>20, <1>a, <1>b, EmptyContains
       DEF CompletedInv, Held, InQueue, WithWorker, WithHandler, TypeOK, StartScan, Recoverable, db, lightning, pool, bounds, PhaseInv
  <2>3. RecordInv'
    BY <1>20, <1>a, <1>b, EmptyContains
       DEF RecordInv, TypeOK, StartScan, Recoverable, db, lightning, pool, bounds
  <2>4. ClearInv'
    BY <1>20, <1>a, <1>b, EmptyContains
       DEF ClearInv, Clear, Single, Held, InQueue, WithWorker, WithHandler, TypeOK, StartScan, Recoverable, db, lightning, pool, bounds, PhaseInv, CompletedInv, RecordInv
  <2> QED
    BY <1>b, <2>1, <2>2, <2>3, <2>4, VanishInductive DEF IndInv
<1>21. CASE StartScanError
  <2>1. PhaseInv'
    BY <1>21, <1>a, <1>b
       DEF PhaseInv, TypeOK, StartScanError, Recoverable, db, lightning, pool, bounds
  <2>2. CompletedInv'
    BY <1>21, <1>a, <1>b
       DEF CompletedInv, Held, InQueue, WithWorker, WithHandler, TypeOK, StartScanError, Recoverable, db, lightning, pool, bounds, PhaseInv
  <2>3. RecordInv'
    BY <1>21, <1>a, <1>b
       DEF RecordInv, TypeOK, StartScanError, Recoverable, db, lightning, pool, bounds
  <2>4. ClearInv'
    BY <1>21, <1>a, <1>b
       DEF ClearInv, Clear, Single, Held, InQueue, WithWorker, WithHandler, TypeOK, StartScanError, Recoverable, db, lightning, pool, bounds, PhaseInv, CompletedInv, RecordInv
  <2> QED
    BY <1>b, <2>1, <2>2, <2>3, <2>4, VanishInductive DEF IndInv
<1>22. ASSUME NEW u \in Tasks, Recover(u) PROVE IndInv'
  <2>0. /\ phase = "recovering" /\ u \in unread /\ unread' = unread \ {u} /\ Push(u)
        /\ UNCHANGED <<status, pay, settled, orphans, phase, wpc, job, ack, suspect>>
    BY <1>22 DEF Recover, Push, db, lightning, pool
  <2>c. \A t \in Tasks : Held(t)' => Held(t)
    BY <2>0, <1>a, PushEffect DEF Held, InQueue, WithWorker, WithHandler
  <2>1. PhaseInv'
    BY <2>0, <1>a DEF PhaseInv
  <2>2. CompletedInv'
    BY <2>0, <2>c, <1>a DEF CompletedInv
  <2>3. RecordInv'
    BY <2>0, <1>a DEF RecordInv
  <2>4. ClearInv'
    <3> SUFFICES ASSUME NEW t \in Tasks, t \notin suspect PROVE Clear(t)'
      BY <2>0 DEF ClearInv
    <3>1. Clear(t)
      BY <1>a DEF ClearInv
    <3>2. Once(queue', t) /\ (Contains(queue', t) => Contains(queue, t) \/ t = u)
      BY <2>0, <3>1, <1>a, PushEffect DEF Clear, Single, InQueue
    <3>3. Single(t)'
      BY <2>0, <3>1, <3>2 DEF Clear, Single, InQueue, WithWorker, WithHandler
    <3> QED
      BY <2>0, <2>c, <3>1, <3>3 DEF Clear
  <2> QED
    BY <1>b, <2>1, <2>2, <2>3, <2>4, VanishInductive DEF IndInv
<1>28. ASSUME NEW S \in SUBSET Tasks, RecoverError(S) PROVE IndInv'
  <2>0. /\ phase = "recovering" /\ unread' = unread \ S
        /\ UNCHANGED <<status, pay, settled, orphans, phase, queue, wpc, job, ack, suspect>>
    BY <1>28 DEF RecoverError, db, lightning, pool
  <2>c. \A t \in Tasks : Held(t)' => Held(t)
    BY <2>0 DEF Held, InQueue, WithWorker, WithHandler
  <2>1. PhaseInv'
    BY <2>0, <1>a DEF PhaseInv
  <2>2. CompletedInv'
    BY <2>0, <2>c, <1>a DEF CompletedInv
  <2>3. RecordInv'
    BY <2>0, <1>a DEF RecordInv
  <2>4. ClearInv'
    <3> SUFFICES ASSUME NEW t \in Tasks, t \notin suspect PROVE Clear(t)'
      BY <2>0 DEF ClearInv
    <3>1. Clear(t)
      BY <1>a DEF ClearInv
    <3>2. Single(t)'
      BY <2>0, <3>1 DEF Clear, Single, InQueue, WithWorker, WithHandler
    <3> QED
      BY <2>0, <2>c, <3>1, <3>2 DEF Clear
  <2> QED
    BY <1>b, <2>1, <2>2, <2>3, <2>4, VanishInductive DEF IndInv
<1>23. CASE StartWorkers
  <2>1. PhaseInv'
    BY <1>23, <1>a, <1>b
       DEF PhaseInv, TypeOK, StartWorkers, db, lightning, pool, bounds, history
  <2>2. CompletedInv'
    BY <1>23, <1>a, <1>b
       DEF CompletedInv, Held, InQueue, WithWorker, WithHandler, TypeOK, StartWorkers, db, lightning, pool, bounds, history, PhaseInv
  <2>3. RecordInv'
    BY <1>23, <1>a, <1>b
       DEF RecordInv, TypeOK, StartWorkers, db, lightning, pool, bounds, history
  <2>4. ClearInv'
    BY <1>23, <1>a, <1>b
       DEF ClearInv, Clear, Single, Held, InQueue, WithWorker, WithHandler, TypeOK, StartWorkers, db, lightning, pool, bounds, history, PhaseInv, CompletedInv, RecordInv
  <2> QED
    BY <1>b, <2>1, <2>2, <2>3, <2>4, VanishInductive DEF IndInv
<1>24. CASE Shutdown
  <2>1. PhaseInv'
    BY <1>24, <1>a, <1>b
       DEF PhaseInv, TypeOK, Shutdown, db, lightning, pool, history
  <2>2. CompletedInv'
    BY <1>24, <1>a, <1>b
       DEF CompletedInv, Held, InQueue, WithWorker, WithHandler, TypeOK, Shutdown, db, lightning, pool, history, PhaseInv
  <2>3. RecordInv'
    BY <1>24, <1>a, <1>b
       DEF RecordInv, TypeOK, Shutdown, db, lightning, pool, history
  <2>4. ClearInv'
    BY <1>24, <1>a, <1>b
       DEF ClearInv, Clear, Single, Held, InQueue, WithWorker, WithHandler, TypeOK, Shutdown, db, lightning, pool, history, PhaseInv, CompletedInv, RecordInv
  <2> QED
    BY <1>b, <2>1, <2>2, <2>3, <2>4, VanishInductive DEF IndInv
<1>25. CASE Stop
  BY <1>25, <1>b, DieInductive, VanishInductive DEF Stop, IndInv
<1>26. CASE Crash
  BY <1>26, <1>b, DieInductive, VanishInductive DEF Crash, IndInv
<1>27. CASE UNCHANGED vars
  BY <1>27, <1>a, <1>b DEF IndInv, PhaseInv, CompletedInv, RecordInv, ClearInv, NoJobVanishes, Clear, Single, Recoverable, Held, InQueue, WithWorker, WithHandler, vars, db, lightning, pool, bounds, history
<1> QED
  BY <1>1, <1>2, <1>3, <1>4, <1>5, <1>6, <1>7, <1>8, <1>9, <1>10, <1>11, <1>12, <1>13, <1>14, <1>15, <1>16, <1>17, <1>18, <1>19, <1>20, <1>21, <1>22, <1>23, <1>24, <1>25, <1>26, <1>27, <1>28
     DEF Next, Process, SendPayment, Start

(***************************************************************************)
(* The theorems                                                            *)
(***************************************************************************)

\* The inductive invariant holds in every reachable state, whatever the
\* number of tasks, workers, handlers, attempts, restarts and results.
THEOREM InvariantHolds == Spec => []IndInv
<1>1. Init => IndInv
  <2> SUFFICES ASSUME Init PROVE IndInv
    OBVIOUS
  <2>1. TypeOK
    BY DEF Init, TypeOK
  <2>2. \A t \in Tasks : ~Held(t) /\ Single(t)
    BY EmptyContains DEF Init, Held, Single, InQueue, WithWorker, WithHandler
  <2>3. PhaseInv /\ RecordInv
    BY DEF Init, PhaseInv, RecordInv
  <2>4. CompletedInv /\ ClearInv
    BY <2>2 DEF Init, CompletedInv, ClearInv, Clear
  <2>5. NoJobVanishes
    BY DEF Init, NoJobVanishes
  <2> QED
    BY <2>1, <2>3, <2>4, <2>5 DEF IndInv
<1> QED
  BY <1>1, Inductive, PTL DEF Spec

\* A task to which none of the four ambiguous events has happened is paid at
\* most once by process, across retries, crashes and recovery scans.
THEOREM AtMostOnceHolds == Spec => []AtMostOnce
<1>1. IndInv => AtMostOnce
  BY DEF IndInv, TypeOK, ClearInv, Clear, AtMostOnce
<1> QED
  BY <1>1, InvariantHolds, PTL

\* Of such a task the row says 'paid' once the money has moved, and never
\* 'failed'.
THEOREM RowTellsTruthHolds == Spec => []RowTellsTruth
<1>1. IndInv => RowTellsTruth
  BY DEF IndInv, TypeOK, ClearInv, Clear, RowTellsTruth
<1> QED
  BY <1>1, InvariantHolds, PTL

\* A completed task with a pending payment is held in memory by a process
\* that has finished its recovery scan, unless the code dropped the job.
THEOREM NoJobVanishesHolds == Spec => []NoJobVanishes
<1>1. IndInv => NoJobVanishes
  BY DEF IndInv
<1> QED
  BY <1>1, InvariantHolds, PTL

(***************************************************************************)
(* Refinement                                                              *)
(***************************************************************************)

Done == {t \in Tasks : status[t] = "completed"}

\* A recorded outcome of a completed task is MarkPaid or MarkFailed of the ledger.
LEMMA SetPayStep ==
  ASSUME TypeOK, NEW t \in Tasks, NEW s \in {"paid", "failed"}, SetPay(t, s),
         status[t] = "completed", s = "paid" => settled[t] > 0,
         UNCHANGED <<status, settled>>
  PROVE  Ledger!MarkPaid(t) \/ Ledger!MarkFailed(t) \/ UNCHANGED <<Done, pay, settled>>
<1>1. CASE pay[t] # "pending"
  BY <1>1 DEF SetPay, Done
<1>2. CASE pay[t] = "pending"
  BY <1>2 DEF SetPay, Ledger!MarkPaid, Ledger!MarkFailed
<1> QED
  BY <1>1, <1>2

\* A result for an assigned task is the ledger's Complete.
LEMMA CompleteStep ==
  ASSUME NEW t \in Tasks, TypeOK, status' = [status EXCEPT ![t] = "completed"], UNCHANGED <<pay, settled>>
  PROVE  Ledger!Complete(t)
  BY DEF Ledger!Complete, TypeOK

\* Every step of the payment path is a step of the ledger or leaves it alone.
LEMMA StepRefines == IndInv /\ [Next]_vars => [Ledger!LNext]_(Ledger!lvars)
<1> SUFFICES ASSUME IndInv, [Next]_vars PROVE Ledger!LNext \/ UNCHANGED <<Done, pay, settled>>
  BY DEF Ledger!lvars, Done
<1>a. TypeOK /\ CompletedInv /\ RecordInv
  BY DEF IndInv
<1>b. \A w \in Workers : wpc[w] # "idle" => job[w] \in Tasks /\ status[job[w]] = "completed"
  BY <1>a, JobType DEF CompletedInv, Held, WithWorker
<1>1. ASSUME NEW t \in Tasks, Schedule(t) PROVE UNCHANGED <<Done, pay, settled>>
  BY <1>1, <1>a DEF Schedule, Done, TypeOK, lightning
<1>2. ASSUME NEW S \in SUBSET Tasks, RequeueTimedOut(S) PROVE UNCHANGED <<Done, pay, settled>>
  BY <1>2, <1>a DEF RequeueTimedOut, Done, TypeOK, lightning
<1>3. ASSUME NEW h \in Handlers, NEW t \in Tasks, MarkComplete(h, t) PROVE Ledger!Complete(t)
  BY <1>3, <1>a, CompleteStep DEF MarkComplete, lightning
<1>4. ASSUME NEW t \in Tasks, MarkCompleteError(t) PROVE Ledger!Complete(t)
  BY <1>4, <1>a, CompleteStep DEF MarkCompleteError, lightning
<1>5. ASSUME NEW w \in Workers, SendSucceeded(w) PROVE Ledger!Settle(job[w]) /\ job[w] \in Tasks
  BY <1>5, <1>a, <1>b DEF SendSucceeded, Ledger!Settle, db
<1>6. ASSUME NEW w \in Workers, RecordPaid(w)
      PROVE  job[w] \in Tasks /\ (Ledger!MarkPaid(job[w]) \/ Ledger!MarkFailed(job[w]) \/ UNCHANGED <<Done, pay, settled>>)
  BY <1>6, <1>a, <1>b, SetPayStep DEF RecordPaid, RecordInv, lightning
<1>7. ASSUME NEW w \in Workers, RecordError(w)
      PROVE  job[w] \in Tasks /\ (Ledger!MarkPaid(job[w]) \/ Ledger!MarkFailed(job[w]) \/ UNCHANGED <<Done, pay, settled>>)
  <2>1. /\ job[w] \in Tasks /\ status[job[w]] = "completed" /\ settled[job[w]] > 0
        /\ UNCHANGED <<status, settled>>
    BY <1>7, <1>a, <1>b DEF RecordError, RecordInv, lightning
  <2>2. CASE SetPay(job[w], "paid")
    BY <2>1, <2>2, <1>a, SetPayStep
  <2>3. CASE UNCHANGED pay
    BY <2>1, <2>3 DEF Done
  <2> QED
    BY <1>7, <2>1, <2>2, <2>3 DEF RecordError
<1>8. ASSUME NEW w \in Workers, GiveUp(w)
      PROVE  job[w] \in Tasks /\ (Ledger!MarkPaid(job[w]) \/ Ledger!MarkFailed(job[w]) \/ UNCHANGED <<Done, pay, settled>>)
  BY <1>8, <1>a, <1>b, SetPayStep DEF GiveUp, lightning
<1>9. ASSUME NEW t \in Tasks, LateSettle(t) PROVE Ledger!Settle(t)
  BY <1>9, <1>a DEF LateSettle, Ledger!Settle, CompletedInv, db
<1>10. ASSUME NEW t \in Tasks, LateFail(t) PROVE UNCHANGED <<Done, pay, settled>>
  BY <1>10 DEF LateFail, Done, db
<1>11. ASSUME NEW h \in Handlers, Enqueue(h) \/ LookupError(h) PROVE UNCHANGED <<Done, pay, settled>>
  BY <1>11 DEF Enqueue, LookupError, Done, db, lightning
<1>12. ASSUME NEW w \in Workers,
              Dequeue(w) \/ SendFailed(w) \/ SendUnknown(w) \/ Retry(w) \/ Abandon(w) \/ GiveUpError(w)
       PROVE  UNCHANGED <<Done, pay, settled>>
  BY <1>12 DEF Dequeue, SendFailed, SendUnknown, Retry, Abandon, GiveUpError, Done, db, lightning
<1>13. CASE ServeTor \/ Start \/ Shutdown
  BY <1>13 DEF ServeTor, Start, StartScan, StartScanError, Recover, RecoverError, StartWorkers, Shutdown, Done, db, lightning
<1>14. CASE Stop \/ Crash
  BY <1>14 DEF Stop, Crash, Die, Done, db
<1>15. CASE UNCHANGED vars
  BY <1>15 DEF vars, db, lightning, Done
<1> QED
  BY <1>1, <1>2, <1>3, <1>4, <1>5, <1>6, <1>7, <1>8, <1>9, <1>10, <1>11, <1>12, <1>13, <1>14, <1>15
     DEF Next, Process, SendPayment, Ledger!LNext

\* The coordinator implements the ledger: SubmitTaskResult, process and the
\* recovery scan never pay for an unfinished task, never write 'paid' without
\* a settled payment, and never change a final payment_status.
THEOREM LedgerImplemented == Spec => ImplementsLedger
<1>1. Init => Ledger!LInit
  BY DEF Init, Ledger!LInit
<1> QED
  BY <1>1, StepRefines, InvariantHolds, PTL DEF Spec, ImplementsLedger, Ledger!LSpec
=============================================================================
