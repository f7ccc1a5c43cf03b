------------------------- MODULE PaymentsInvariant -------------------------
(* The inductive invariant behind the safety properties of Payments.       *)
EXTENDS Payments

\* What each phase of the process leaves in memory.
PhaseInv ==
  /\ phase # "recovering" => unread = {}
  /\ phase \notin {"up", "draining"} => \A w \in Workers : job[w] = NoTask
  /\ phase = "down" => queue = <<>> /\ \A h \in Handlers : ack[h] = NoTask

\* Whatever concerns a payment concerns a completed task.
CompletedInv ==
  \A t \in Tasks :
    Held(t) \/ orphans[t] > 0 \/ settled[t] > 0 \/ pay[t] # "pending" => status[t] = "completed"

\* A worker that records a payment has seen one settle.
RecordInv == \A w \in Workers : wpc[w] = "record" => settled[job[w]] > 0

\* t occurs at most once in the sequence q.
Once(q, t) == \A i, j \in 1..Len(q) : q[i] = t /\ q[j] = t => i = j

\* At most one copy of the job of t is in memory.
Single(t) ==
  /\ Once(queue, t)
  /\ \A v, w \in Workers : job[v] = t /\ job[w] = t => v = w
  /\ \A g, h \in Handlers : ack[g] = t /\ ack[h] = t => g = h
  /\ InQueue(t) => ~WithWorker(t) /\ ~WithHandler(t) /\ t \notin unread
  /\ WithWorker(t) => ~WithHandler(t) /\ t \notin unread
  /\ WithHandler(t) => t \notin unread

\* The books of a task to which nothing ambiguous has happened: no payment
\* is out of sight, one job at most, and a settled payment is either being
\* recorded or recorded and finished with.
Clear(t) ==
  /\ orphans[t] = 0
  /\ settled[t] <= 1
  /\ Single(t)
  /\ Held(t) => pay[t] = "pending" /\ phase # "serving"
  /\ settled[t] = 1 => \/ pay[t] = "paid"
                       \/ \E w \in Workers : job[w] = t /\ wpc[w] = "record"

ClearInv == \A t \in Tasks \ suspect : Clear(t)

IndInv == TypeOK /\ PhaseInv /\ CompletedInv /\ RecordInv /\ ClearInv /\ NoJobVanishes
=============================================================================
