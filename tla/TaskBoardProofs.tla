-------------------------- MODULE TaskBoardProofs --------------------------
(***************************************************************************)
(* TaskStream implements TaskBoard, for any number of tasks, nodes,        *)
(* streams and handlers, and any failures.                                 *)
(***************************************************************************)
EXTENDS TaskStreamProofs

\* What TaskBoard speaks of.
Public == <<status, Offered, told, jobs>>

-----------------------------------------------------------------------------
(* The offer of a task                                                     *)

\* A step that adds no row and replaces no plan of one leaves the offers alone.
LEMMA OfferedStays ==
  ASSUME \A t \in Tasks : (status'[t] = "absent") <=> (status[t] = "absent"),
         \A t \in Tasks : status[t] # "absent" => plan'[t].of = plan[t].of
  PROVE  Offered' = Offered
BY DEF Offered

\* Such a step that changes no status, tells nothing and orders no payment
\* is not seen on the board.
LEMMA Unseen ==
  ASSUME UNCHANGED <<status, told, jobs>>,
         \A t \in Tasks : status[t] # "absent" => plan'[t].of = plan[t].of
  PROVE  UNCHANGED Public
BY OfferedStays DEF Public

-----------------------------------------------------------------------------
(* Step by step                                                            *)

\* Schedule: choosing a node is not seen; the INSERT, whether or not it reports
\* an error, posts the task.
LEMMA ScheduleRefines ==
  ASSUME Shape, RowInv, NEW t \in Tasks, PlanStep(t) \/ \E k \in Kinds : Select(t, k)
  PROVE  Board!Post(t) \/ UNCHANGED Public
<1>0. plan \in [Tasks -> Plans] /\ plan[t] \in Plans /\ status \in [Tasks -> {"absent", "running", "pending", "completed"}]
  BY DEF Shape, PlanShape, RowShape
<1>1. CASE \E k \in Kinds : Select(t, k)
  <2>1. status[t] = "absent" /\ UNCHANGED <<status, told, jobs>>
    BY <1>1 DEF Select, rows, history
  <2>2. \A u \in Tasks : u # t => plan'[u] = plan[u]
    BY <1>0, <1>1 DEF Select
  <2> QED BY <2>1, <2>2, Unseen
<1>2. ASSUME PlanStep(t)
      PROVE  \E x \in {"publish", "done"} : plan' = [plan EXCEPT ![t].step = x]
  BY <1>2 DEF PlanStep, Insert, InsertFails, Publish, PublishFails
<1>3. ASSUME PlanStep(t) PROVE \A u \in Tasks : plan'[u].of = plan[u].of
  <2>1. PICK x \in {"publish", "done"} : plan' = [plan EXCEPT ![t].step = x]
    BY <1>2, <1>3
  <2> QED BY <1>0, <2>1 DEF Plans
<1>4. CASE PlanStep(t) /\ UNCHANGED rows
  <2>1. UNCHANGED <<status, told, jobs>>
    BY <1>4 DEF PlanStep, Insert, InsertFails, Publish, PublishFails, rows, history
  <2> QED BY <1>3, <1>4, <2>1, Unseen
<1>5. CASE (Insert(t) \/ InsertFails(t)) /\ InsertRow(t)
  <2>1. plan[t].step = "insert" /\ UNCHANGED <<told, jobs>> /\ status' = [status EXCEPT ![t] = "running"]
    BY <1>5 DEF Insert, InsertFails, InsertRow, history
  <2>2. status[t] = "absent" /\ plan[t].of \in Offers /\ plan[t].of.task = t
    BY <2>1 DEF RowInv
  <2>3. \A u \in Tasks : plan'[u].of = plan[u].of
    BY <1>3, <1>5 DEF PlanStep
  <2>4. Offered'[t] = plan[t].of
    BY <1>0, <2>1, <2>3 DEF Offered
  <2>5. Offered' = [Offered EXCEPT ![t] = plan[t].of]
    BY <1>0, <2>1, <2>3 DEF Offered
  <2>6. plan[t].of \in Assignment
    BY <2>2 DEF Offers, Assignment
  <2> QED BY <2>1, <2>2, <2>4, <2>5, <2>6 DEF Board!Post
<1> QED BY <1>1, <1>4, <1>5 DEF PlanStep, Insert, InsertFails, Publish, PublishFails

\* A stream tells a node the offer of a row, or nothing.
LEMMA StreamRefines ==
  ASSUME Shape, SentInv, NEW s \in Streams,
         StreamStep(s) \/ Disconnect(s) \/ CloseStream(s) \/ \E n \in Nodes : OpenStream(s, n)
  PROVE  (\E t \in Tasks : Board!Tell(t)) \/ UNCHANGED Public
<1>1. UNCHANGED <<status, plan, jobs>>
  BY DEF StreamStep, Subscribed, Send, Disconnect, CloseStream, OpenStream, Set, rows, history
<1>2. CASE UNCHANGED told
  BY <1>1, <1>2, Unseen
<1>3. CASE Send(s)
  <2> DEFINE a == Head(stream[s].channel)
  <2>1. stream[s].channel \in Seq(Offers) /\ stream[s].channel # <<>> /\ told' = told \cup {a}
    BY <1>3 DEF Send, Shape, StreamShape, Calling
  <2>2. a = stream[s].channel[1] /\ 1 \in 1..Len(stream[s].channel)
    BY <2>1
  <2>3. a \in Queued
    BY <2>2 DEF Queued
  <2>4. a.task \in Tasks /\ plan[a.task].of = a /\ status[a.task] # "absent"
    BY <2>3 DEF SentInv, Offers
  <2>5. Offered[a.task] = a
    BY <2>4 DEF Offered
  <2>6. Offered' = Offered
    BY <1>1, OfferedStays
  <2>7. Board!Tell(a.task)
    BY <1>1, <2>1, <2>4, <2>5, <2>6 DEF Board!Tell
  <2> QED BY <2>4, <2>7
<1> QED BY <1>2, <1>3 DEF StreamStep, Subscribed, Disconnect, CloseStream, OpenStream, history

\* A result completes its task, whatever the status of the task.
LEMMA ResultRefines ==
  ASSUME Shape, NEW t \in Tasks,
         SubmitFails(t) \/ \E h \in Handlers, n \in Nodes, valid \in BOOLEAN : SubmitTaskResult(h, n, t, valid)
  PROVE  Board!Complete(t) \/ UNCHANGED Public
<1>1. UNCHANGED <<plan, told, jobs>> /\ status[t] # "absent"
  BY DEF SubmitFails, SubmitTaskResult, Move, memory
<1>2. status' = status \/ status' = [status EXCEPT ![t] = "completed"]
  BY DEF SubmitFails, SubmitTaskResult
<1>3. CASE status' = status
  BY <1>1, <1>3, Unseen
<1>4. CASE status' = [status EXCEPT ![t] = "completed"]
  <2>1. \A u \in Tasks : (status'[u] = "absent") <=> (status[u] = "absent")
    BY <1>1, <1>4 DEF Shape, RowShape
  <2>2. Offered' = Offered
    BY <1>1, <2>1, OfferedStays
  <2> QED BY <1>1, <1>4, <2>2 DEF Board!Complete
<1> QED BY <1>2, <1>3, <1>4

\* A call of SubmitTaskResult orders the payment that was offered, or none.
LEMMA CallRefines ==
  ASSUME Shape, RowInv, JobInv, NEW h \in Handlers, CallStep(h)
  PROVE  (\E t \in Tasks : Board!Pay(t)) \/ UNCHANGED Public
<1>1. UNCHANGED <<status, plan, told>>
  BY DEF CallStep, CountTasks, WriteReliability, ReliabilityFails, EnqueuePayment, LookupFails, Proceed, Move, rows
<1>2. CASE UNCHANGED jobs
  BY <1>1, <1>2, Unseen
<1>3. CASE EnqueuePayment(h)
  <2> DEFINE t == call[h].task
  <2>1. t \in Tasks /\ status[t] = "completed"
    BY <1>3 DEF EnqueuePayment, JobInv
  <2>2. pays[t] = [uri |-> plan[t].of.uri, sats |-> plan[t].of.sats] /\ Offered[t] = plan[t].of
    BY <2>1 DEF RowInv, Offered
  <2>3. jobs' = jobs \cup {[task |-> t, uri |-> Offered[t].uri, sats |-> Offered[t].sats]}
    BY <1>3, <2>2 DEF EnqueuePayment
  <2>4. Offered' = Offered
    BY <1>1, OfferedStays
  <2> HIDE DEF t
  <2>5. Board!Pay(t)
    BY <1>1, <2>1, <2>3, <2>4 DEF Board!Pay
  <2> QED BY <2>1, <2>5
<1> QED BY <1>2, <1>3 DEF CallStep, CountTasks, WriteReliability, ReliabilityFails, LookupFails

\* The ticker requeues running tasks.
LEMMA RequeueRefines ==
  ASSUME Shape, NEW S \in SUBSET Tasks, RequeueTimedOut(S)
  PROVE  Board!Requeue(S)
<1>1. /\ \A t \in S : status[t] = "running"
      /\ status' = [t \in Tasks |-> IF t \in S THEN "pending" ELSE status[t]]
      /\ UNCHANGED <<plan, told, jobs>>
  BY DEF RequeueTimedOut, memory, history
<1>2. \A u \in Tasks : (status'[u] = "absent") <=> (status[u] = "absent")
  BY <1>1
<1>3. Offered' = Offered
  BY <1>1, <1>2, OfferedStays
<1> QED BY <1>1, <1>3 DEF Board!Requeue

\* The end of a process, in the middle of anything, is not seen.
LEMMA EndRefines ==
  ASSUME Shape, Stop \/ \E p \in Procs : Die(p)
  PROVE  UNCHANGED Public
<1>1. UNCHANGED <<status, told, jobs>>
  BY DEF Stop, Die, Forget, rows, history
<1>2. \A t \in Tasks : plan'[t].of = plan[t].of
  <2>1. CASE UNCHANGED plan
    BY <2>1
  <2>2. CASE Forget
    BY <2>2 DEF Forget, Shape, PlanShape, Plans
  <2> QED BY <2>1, <2>2 DEF Stop, Die, memory
<1> QED BY <1>1, <1>2, Unseen

\* TaskStream implements TaskBoard: a task is posted once, its offer never
\* changes, and nodes are told, and the dispatcher is asked to pay, that offer
\* and no other, across lost messages, late results, crashes and restarts.
THEOREM BoardImplemented == Spec => ImplementsBoard
<1>1. Init => Board!TInit
  BY DEF Init, Board!TInit, Offered
<1>2. StreamInv /\ [Next]_vars => [Board!TNext]_(Board!tvars)
  <2> SUFFICES ASSUME StreamInv, [Next]_vars PROVE Board!TNext \/ UNCHANGED Public
    BY DEF Board!tvars, Public
  <2> DEFINE Goal == Board!TNext \/ UNCHANGED Public
  <2>0. Shape /\ RowInv /\ SentInv /\ JobInv
    BY DEF StreamInv
  <2>1. ASSUME UNCHANGED vars PROVE Goal
    BY <2>1, Unseen DEF vars, rows, memory, history
  <2>2. ASSUME StartupStep /\ UNCHANGED <<registry, rows, memory, history>> PROVE Goal
    BY <2>2, Unseen DEF rows, memory, history
  <2>3. ASSUME Stop \/ \E p \in Procs : Die(p) PROVE Goal
    BY <2>0, <2>3, EndRefines
  <2>4. ASSUME NEW n \in Nodes, ChangeStatus(n) \/ \E p \in Profiles : Register(n, p) PROVE Goal
    BY <2>4, Unseen DEF ChangeStatus, Register, rows, memory, history
  <2>5. ASSUME NEW t \in Tasks, PlanStep(t) \/ \E k \in Kinds : Select(t, k) PROVE Goal
    BY <2>0, <2>5, ScheduleRefines DEF Board!TNext
  <2>6. ASSUME NEW t \in Tasks,
               SubmitFails(t) \/ \E h \in Handlers, n \in Nodes, valid \in BOOLEAN : SubmitTaskResult(h, n, t, valid)
        PROVE  Goal
    BY <2>0, <2>6, ResultRefines DEF Board!TNext
  <2>7. ASSUME NEW S \in SUBSET Tasks, RequeueTimedOut(S) PROVE Goal
    BY <2>0, <2>7, RequeueRefines DEF Board!TNext
  <2>8. ASSUME NEW s \in Streams,
               StreamStep(s) \/ Disconnect(s) \/ CloseStream(s) \/ \E n \in Nodes : OpenStream(s, n)
        PROVE  Goal
    BY <2>0, <2>8, StreamRefines DEF Board!TNext
  <2>9. ASSUME NEW h \in Handlers, CallStep(h) PROVE Goal
    BY <2>0, <2>9, CallRefines DEF Board!TNext
  <2> HIDE DEF Goal
  <2>10. Goal
    BY <2>1, <2>2, <2>3, <2>4, <2>5, <2>6, <2>7, <2>8, <2>9 DEF Next
  <2> QED BY <2>10 DEF Goal
<1> QED BY <1>1, <1>2, StreamInvariantHolds, PTL DEF Spec, ImplementsBoard, Board!TSpec
=============================================================================
