----------------------- MODULE PaymentReceiptsProofs -----------------------
(***************************************************************************)
(* Safety of the receipts for every set of tasks, workers and handlers.    *)
(* With receipts the payment path does nothing it could not do without     *)
(* them (RSpec => Spec), so its invariant carries over; ReceiptInv adds    *)
(* what the goroutines rely on.                                            *)
(***************************************************************************)
EXTENDS PaymentReceipts, PaymentsProofs

USE TasksAssumption, PoolAssumption, FaultsAssumption, BoundsAssumption, ObserverAssumption

\* The workers that have seen a payment of t settle and have yet to record it.
Recorders(t) == {w \in Workers : wpc[w] = "record" /\ job[w] = t}

\* Every settled payment is the source of one receipt at most: the one its
\* worker will start, one under way, or one the registry holds.
CountInv ==
  \A t \in Tasks :
    issued[t] + checking[t] + submitting[t] + Cardinality(Recorders(t)) <= settled[t]

\* The ids in the row and in memory were issued by the registry.
IdsInv == \A t \in Tasks : storing[t] \subseteq 1..issued[t] /\ receiptId[t] <= issued[t]

\* At most one receipt of t is past the check for an existing one.
Alone(t) ==
  \/ submitting[t] = 0 /\ storing[t] = {}
  \/ receiptId[t] = 0 /\ submitting[t] = 1 /\ storing[t] = {}
  \/ receiptId[t] = 0 /\ submitting[t] = 0 /\ \E id \in storing[t] : storing[t] = {id}

AloneInv == \A t \in Tasks \ overlapped : Alone(t)

ReceiptInv == ReceiptTypeOK /\ CountInv /\ IdsInv /\ AloneInv /\ NoReceiptVanishes

(***************************************************************************)
(* What a step of the payment path means to the receipts                   *)
(***************************************************************************)

\* The workers about to record a payment can be counted.
LEMMA RecordersFinite ==
  ASSUME NEW t
  PROVE  IsFiniteSet(Recorders(t)) /\ Cardinality(Recorders(t)) \in Nat
<1>1. IsFiniteSet(Recorders(t))
  BY FS_Subset DEF Recorders
<1> QED
  BY <1>1, FS_CardinalityType

\* The same in the next state.
LEMMA RecordersFinitePrime ==
  ASSUME NEW t
  PROVE  IsFiniteSet(Recorders(t)') /\ Cardinality(Recorders(t)') \in Nat
<1>1. IsFiniteSet(Recorders(t)')
  BY FS_Subset DEF Recorders
<1> QED
  BY <1>1, FS_CardinalityType

\* A worker joins the recorders of t only with a payment that has just settled.
Funded(t) ==
  \/ Recorders(t)' \subseteq Recorders(t) /\ settled'[t] >= settled[t]
  \/ \E w \in Workers : Recorders(t)' \subseteq Recorders(t) \cup {w} /\ settled'[t] = settled[t] + 1

\* No step but the recording of a payment makes a row 'paid', and every
\* recorder is paid for.
LEMMA PaymentEffect ==
  ASSUME TypeOK, PaymentStep, NEW t \in Tasks
  PROVE  Funded(t) /\ (pay'[t] = "paid" => pay[t] = "paid")
<1>0. /\ settled[t] \in Nat
      /\ UNCHANGED <<wpc, job>> /\ settled'[t] >= settled[t] => Funded(t)
  BY DEF TypeOK, Funded, Recorders
<1>1. ASSUME NEW u \in Tasks, Schedule(u) \/ LateSettle(u) \/ LateFail(u) \/ MarkCompleteError(u)
      PROVE  Funded(t) /\ pay' = pay
  <2>1. UNCHANGED <<wpc, job, pay>>
    BY <1>1 DEF Schedule, LateSettle, LateFail, MarkCompleteError, pool, db
  <2>2. settled'[t] >= settled[t]
    <3>1. CASE LateSettle(u)
      BY <3>1, <1>0 DEF TypeOK, LateSettle
    <3>2. CASE Schedule(u) \/ LateFail(u) \/ MarkCompleteError(u)
      BY <3>2, <1>0 DEF Schedule, LateFail, MarkCompleteError, lightning
    <3> QED
      BY <1>1, <3>1, <3>2
  <2> QED
    BY <1>0, <2>1, <2>2
<1>2. ASSUME NEW S \in SUBSET Tasks, RequeueTimedOut(S)
      PROVE  Funded(t) /\ pay' = pay
  BY <1>0, <1>2 DEF RequeueTimedOut, lightning, pool
<1>3. ASSUME NEW h \in Handlers, NEW u \in Tasks, MarkComplete(h, u)
      PROVE  Funded(t) /\ pay' = pay
  BY <1>0, <1>3 DEF MarkComplete, lightning, pool
<1>4. ASSUME NEW h \in Handlers, Enqueue(h) \/ LookupError(h)
      PROVE  Funded(t) /\ pay' = pay
  BY <1>0, <1>4 DEF Enqueue, LookupError, lightning, pool, db
<1>5. ASSUME ServeTor \/ Start \/ Shutdown
      PROVE  Funded(t) /\ pay' = pay
  BY <1>0, <1>5 DEF ServeTor, Start, StartScan, StartScanError, Recover, RecoverError, StartWorkers,
                    Shutdown, lightning, pool, db
<1>6. ASSUME NEW w \in Workers, WorkerStep(w)
      PROVE  Funded(t) /\ (pay'[t] = "paid" => pay[t] = "paid")
  <2>1. CASE Dequeue(w) \/ SendFailed(w) \/ SendUnknown(w) \/ Retry(w) \/ Abandon(w) \/ GiveUpError(w)
    <3>1. /\ wpc'[w] # "record"
          /\ \A v \in Workers \ {w} : wpc'[v] = wpc[v] /\ job'[v] = job[v]
          /\ UNCHANGED <<settled, pay>>
      BY <2>1 DEF TypeOK, Dequeue, SendFailed, SendUnknown, Retry, Abandon, GiveUpError, Free,
                  lightning, db
    <3>2. Recorders(t)' \subseteq Recorders(t)
      BY <3>1 DEF Recorders
    <3> QED
      BY <1>0, <3>1, <3>2 DEF Funded
  <2>2. CASE SendSucceeded(w)
    <3>1. CASE job[w] = t
      <4>1. Recorders(t)' \subseteq Recorders(t) \cup {w} /\ settled'[t] = settled[t] + 1
        BY <2>2, <3>1 DEF Recorders, TypeOK, SendSucceeded
      <4> QED
        BY <4>1, <2>2 DEF Funded, SendSucceeded, db
    <3>2. CASE job[w] # t
      BY <2>2, <3>2 DEF Funded, Recorders, TypeOK, SendSucceeded, db
    <3> QED
      BY <3>1, <3>2
  <2>3. CASE GiveUp(w)
    <3>1. Funded(t)
      BY <2>3 DEF Funded, Recorders, TypeOK, GiveUp, Free, lightning
    <3>2. pay'[t] = "paid" => pay[t] = "paid"
      BY <2>3 DEF TypeOK, GiveUp, SetPay
    <3> QED
      BY <3>1, <3>2
  <2> QED
    BY <1>6, <2>1, <2>2, <2>3 DEF WorkerStep, SendPayment
<1> QED
  BY <1>1, <1>2, <1>3, <1>4, <1>5, <1>6 DEF PaymentStep

\* Counting what the recorders stand for.
LEMMA FundedCount ==
  ASSUME TypeOK, TypeOK', NEW t \in Tasks, Funded(t)
  PROVE  Cardinality(Recorders(t)') + settled[t] <= Cardinality(Recorders(t)) + settled'[t]
<1> USE RecordersFinite, RecordersFinitePrime
<1>0. settled[t] \in Nat /\ settled'[t] \in Nat
  BY DEF TypeOK
<1>1. CASE Recorders(t)' \subseteq Recorders(t) /\ settled'[t] >= settled[t]
  <2>1. Cardinality(Recorders(t)') <= Cardinality(Recorders(t))
    BY <1>1, FS_Subset
  <2> QED
    BY <1>0, <1>1, <2>1
<1>2. ASSUME NEW w \in Workers, Recorders(t)' \subseteq Recorders(t) \cup {w}, settled'[t] = settled[t] + 1
      PROVE  Cardinality(Recorders(t)') + settled[t] <= Cardinality(Recorders(t)) + settled'[t]
  <2>1. /\ IsFiniteSet(Recorders(t) \cup {w})
        /\ Cardinality(Recorders(t) \cup {w}) <= Cardinality(Recorders(t)) + 1
        /\ Cardinality(Recorders(t) \cup {w}) \in Nat
    <3> DEFINE R == Recorders(t)
    <3>1. IsFiniteSet(R) /\ Cardinality(R) \in Nat
      OBVIOUS
    <3>2. /\ IsFiniteSet(R \cup {w})
          /\ Cardinality(R \cup {w}) = IF w \in R THEN Cardinality(R) ELSE Cardinality(R) + 1
      BY <3>1, FS_AddElement
    <3> QED
      BY <3>1, <3>2
  <2>2. Cardinality(Recorders(t)') <= Cardinality(Recorders(t) \cup {w})
    BY <1>2, <2>1, FS_Subset
  <2> QED
    BY <1>0, <1>2, <2>1, <2>2
<1> QED
  BY <1>1, <1>2 DEF Funded

\* A receipt is in flight when a goroutine is at one of its three steps.
LEMMA InFlightMeans ==
  ASSUME ReceiptTypeOK, NEW t \in Tasks
  PROVE  InFlight(t) > 0 <=> checking[t] > 0 \/ submitting[t] > 0 \/ storing[t] # {}
<1>1. IsFiniteSet(storing[t]) /\ checking[t] \in Nat /\ submitting[t] \in Nat
  BY DEF ReceiptTypeOK
<1>2. Cardinality(storing[t]) \in Nat /\ (Cardinality(storing[t]) = 0 <=> storing[t] = {})
  BY <1>1, FS_CardinalityType, FS_EmptySet
<1> QED
  BY <1>1, <1>2 DEF InFlight

\* The same in the next state.
LEMMA InFlightMeansPrime ==
  ASSUME ReceiptTypeOK', NEW t \in Tasks
  PROVE  InFlight(t)' > 0 <=> checking'[t] > 0 \/ submitting'[t] > 0 \/ storing'[t] # {}
<1>1. IsFiniteSet(storing'[t]) /\ checking'[t] \in Nat /\ submitting'[t] \in Nat
  BY DEF ReceiptTypeOK
<1>2. Cardinality(storing'[t]) \in Nat /\ (Cardinality(storing'[t]) = 0 <=> storing'[t] = {})
  BY <1>1, FS_CardinalityType, FS_EmptySet
<1> QED
  BY <1>1, <1>2 DEF InFlight

(***************************************************************************)
(* The receipts leave the payment path alone                               *)
(***************************************************************************)

\* Every step of the composition is a step of the payment path or leaves it
\* alone.
LEMMA StepIsPaymentStep == [RNext]_allVars => [Next]_vars
<1> SUFFICES ASSUME [RNext]_allVars PROVE [Next]_vars
  OBVIOUS
<1>1. CASE PaymentStep
  BY <1>1 DEF PaymentStep, WorkerStep, Next, Process
<1>2. ASSUME NEW w \in Workers, Recording(w) PROVE Next
  BY <1>2 DEF Recording, Next, Process
<1>3. CASE Stop \/ Crash
  BY <1>3 DEF Next
<1>4. ASSUME NEW t \in Tasks, ReceiptStep(t) PROVE UNCHANGED vars
  BY <1>4 DEF ReceiptStep, CheckExisting, Submit, SubmitFails, Store, StoreFails
<1>5. CASE UNCHANGED allVars
  BY <1>5 DEF allVars
<1> QED
  BY <1>1, <1>2, <1>3, <1>4, <1>5 DEF RNext

\* What the coordinator does to its tasks with receipts it could do without
\* them: submitObserverReceipt writes nothing the payment path reads.
THEOREM ReceiptsPreservePayments == RSpec => Spec
<1>1. RInit => Init
  BY DEF RInit
<1> QED
  BY <1>1, StepIsPaymentStep, PTL DEF RSpec, Spec

(***************************************************************************)
(* ReceiptInv is inductive                                                 *)
(***************************************************************************)

\* A step of the payment path other than the recording of a payment.
LEMMA PaymentStepKeeps ==
  ASSUME TypeOK, TypeOK', ReceiptInv, PaymentStep, UNCHANGED rvars
  PROVE  ReceiptInv'
<1>0. UNCHANGED <<receiptId, issued, checking, submitting, storing, forgone, overlapped>>
  BY DEF rvars, goroutines, notes
<1>1. ReceiptTypeOK' /\ IdsInv' /\ AloneInv'
  BY <1>0 DEF ReceiptInv, ReceiptTypeOK, IdsInv, AloneInv, Alone
<1>2. CountInv'
  <2> SUFFICES ASSUME NEW t \in Tasks
               PROVE  issued'[t] + checking'[t] + submitting'[t] + Cardinality(Recorders(t)') <= settled'[t]
    BY DEF CountInv
  <2>1. issued[t] \in Nat /\ checking[t] \in Nat /\ submitting[t] \in Nat
        /\ settled[t] \in Nat /\ settled'[t] \in Nat
    BY DEF ReceiptInv, ReceiptTypeOK, TypeOK
  <2>2. Cardinality(Recorders(t)') + settled[t] <= Cardinality(Recorders(t)) + settled'[t]
    BY PaymentEffect, FundedCount
  <2>3. issued[t] + checking[t] + submitting[t] + Cardinality(Recorders(t)) <= settled[t]
    BY DEF ReceiptInv, CountInv
  <2> QED
    BY <1>0, <2>1, <2>2, <2>3, RecordersFinite, RecordersFinitePrime
<1>3. NoReceiptVanishes'
  BY <1>0, PaymentEffect DEF ReceiptInv, NoReceiptVanishes, InFlight
<1> QED
  BY <1>1, <1>2, <1>3 DEF ReceiptInv

\* A worker that ends its job leaves the recorders of its task by one.
LEMMA RecorderLeaves ==
  ASSUME TypeOK, NEW w \in Workers, wpc[w] = "record", Free(w), NEW t \in Tasks
  PROVE  /\ t = job[w] => Cardinality(Recorders(t)') = Cardinality(Recorders(t)) - 1
         /\ t # job[w] => Recorders(t)' = Recorders(t)
<1>1. CASE t = job[w]
  <2>1. w \in Recorders(t) /\ Recorders(t)' = Recorders(t) \ {w}
    BY <1>1 DEF Recorders, TypeOK, Free
  <2>2. IsFiniteSet(Recorders(t))
    BY RecordersFinite
  <2>3. Cardinality(Recorders(t) \ {w}) = Cardinality(Recorders(t)) - 1
    BY <2>1, <2>2, FS_RemoveElement
  <2> QED
    BY <1>1, <2>1, <2>3
<1>2. CASE t # job[w]
  BY <1>2 DEF Recorders, TypeOK, Free
<1> QED
  BY <1>1, <1>2

\* The recording of a payment, which starts a goroutine or gives it up.
LEMMA RecordingKeeps ==
  ASSUME TypeOK, ReceiptInv, NEW w \in Workers, Recording(w)
  PROVE  ReceiptInv'
<1>0. /\ wpc[w] = "record" /\ Free(w) /\ job[w] \in Tasks /\ settled' = settled
      /\ UNCHANGED <<receiptId, issued, submitting, storing, overlapped>>
  BY JobType DEF Recording, RecordPaid, RecordError, Observe, PaidUnobserved, lightning, notes, goroutines
<1>1. /\ ReceiptTypeOK /\ CountInv /\ IdsInv /\ AloneInv /\ NoReceiptVanishes
  BY DEF ReceiptInv
<1>2. checking' \in [Tasks -> Nat] /\ forgone' \in SUBSET Tasks
      /\ \A t \in Tasks : checking'[t] <= checking[t] + (IF t = job[w] THEN 1 ELSE 0)
  BY <1>0, <1>1 DEF ReceiptTypeOK, Recording, Observe, PaidUnobserved, notes, goroutines
<1>3. ReceiptTypeOK' /\ IdsInv' /\ AloneInv'
  BY <1>0, <1>1, <1>2 DEF ReceiptTypeOK, IdsInv, AloneInv, Alone
<1>4. CountInv'
  <2> SUFFICES ASSUME NEW t \in Tasks
               PROVE  issued'[t] + checking'[t] + submitting'[t] + Cardinality(Recorders(t)') <= settled'[t]
    BY DEF CountInv
  <2>1. issued[t] \in Nat /\ checking[t] \in Nat /\ submitting[t] \in Nat
        /\ settled[t] \in Nat /\ checking'[t] \in Nat
    BY <1>1, <1>2 DEF ReceiptTypeOK, TypeOK
  <2>2. issued[t] + checking[t] + submitting[t] + Cardinality(Recorders(t)) <= settled[t]
    BY <1>1 DEF CountInv
  <2>3. checking'[t] <= checking[t] + (IF t = job[w] THEN 1 ELSE 0)
    BY <1>2
  <2>4. /\ t = job[w] => Cardinality(Recorders(t)') = Cardinality(Recorders(t)) - 1
        /\ t # job[w] => Cardinality(Recorders(t)') = Cardinality(Recorders(t))
    BY <1>0, RecorderLeaves
  <2> QED
    BY <1>0, <2>1, <2>2, <2>3, <2>4, RecordersFinite
<1>5. NoReceiptVanishes'
  <2> SUFFICES ASSUME NEW t \in Tasks, ObserverEnabled, pay'[t] = "paid", receiptId'[t] = 0
               PROVE  InFlight(t)' > 0 \/ t \in forgone'
    BY DEF NoReceiptVanishes
  <2>1. InFlight(t)' > 0 <=> checking'[t] > 0 \/ submitting'[t] > 0 \/ storing'[t] # {}
    BY <1>3, InFlightMeansPrime
  <2>2. pay[t] = "paid" => checking[t] > 0 \/ submitting[t] > 0 \/ storing[t] # {} \/ t \in forgone
    BY <1>0, <1>1, InFlightMeans DEF NoReceiptVanishes
  <2>3. CASE RecordPaid(w) /\ Observe(job[w])
    <3>1. CASE t = job[w]
      BY <2>1, <2>3, <3>1, <1>1 DEF Observe, ReceiptTypeOK
    <3>2. CASE t # job[w]
      <4>1. pay[t] = "paid" /\ checking'[t] = checking[t] /\ forgone' = forgone
        BY <1>0, <1>1, <2>3, <3>2 DEF RecordPaid, SetPay, Observe, notes, ReceiptTypeOK, TypeOK
      <4> QED
        BY <4>1, <2>1, <2>2, <1>0
    <3> QED
      BY <3>1, <3>2
  <2>4. CASE RecordError(w) /\ PaidUnobserved
    <3>1. checking' = checking /\ forgone \subseteq forgone' /\ (pay[t] # "paid" => t \in forgone')
      BY <2>4 DEF PaidUnobserved, goroutines
    <3> QED
      BY <3>1, <2>1, <2>2, <1>0
  <2> QED
    BY <2>3, <2>4 DEF Recording
<1> QED
  BY <1>3, <1>4, <1>5 DEF ReceiptInv

\* The end of the process takes its goroutines along, and notes whose.
LEMMA DeathKeeps ==
  ASSUME TypeOK, ReceiptInv, Die, LoseGoroutines
  PROVE  ReceiptInv'
<1>1. ReceiptTypeOK /\ CountInv /\ IdsInv /\ AloneInv /\ NoReceiptVanishes
  BY DEF ReceiptInv
<1>2. /\ issued' \in [Tasks -> Nat]
      /\ \A t \in Tasks : issued[t] <= issued'[t] /\ issued'[t] <= issued[t] + submitting[t]
  BY <1>1 DEF LoseGoroutines, ReceiptTypeOK
<1>3. /\ \A t \in Tasks : checking'[t] = 0 /\ submitting'[t] = 0 /\ storing'[t] = {}
      /\ receiptId' = receiptId /\ overlapped' = overlapped
      /\ \A t \in Tasks : t \in forgone \/ InFlight(t) > 0 => t \in forgone'
  BY DEF LoseGoroutines
<1>4. ReceiptTypeOK'
  <2>1. IsFiniteSet({})
    BY FS_EmptySet
  <2>2. forgone' \in SUBSET Tasks
    BY <1>1 DEF LoseGoroutines, ReceiptTypeOK
  <2>3. /\ checking' \in [Tasks -> Nat] /\ submitting' \in [Tasks -> Nat]
        /\ storing' \in [Tasks -> SUBSET Nat]
    BY DEF LoseGoroutines
  <2> QED
    BY <1>1, <1>2, <1>3, <2>1, <2>2, <2>3 DEF ReceiptTypeOK
<1>5. IdsInv' /\ AloneInv'
  BY <1>1, <1>2, <1>3 DEF ReceiptTypeOK, IdsInv, AloneInv, Alone
<1>6. CountInv'
  <2> SUFFICES ASSUME NEW t \in Tasks
               PROVE  issued'[t] + checking'[t] + submitting'[t] + Cardinality(Recorders(t)') <= settled'[t]
    BY DEF CountInv
  <2>1. Recorders(t)' = {}
    BY DEF Recorders, Die
  <2>2. Cardinality(Recorders(t)') = 0
    BY <2>1, FS_EmptySet
  <2>3. /\ issued[t] \in Nat /\ checking[t] \in Nat /\ submitting[t] \in Nat
        /\ settled[t] \in Nat /\ issued'[t] \in Nat /\ settled' = settled
    BY <1>1, <1>2 DEF ReceiptTypeOK, TypeOK, Die
  <2>4. issued[t] + checking[t] + submitting[t] + Cardinality(Recorders(t)) <= settled[t]
    BY <1>1 DEF CountInv
  <2> QED
    BY <1>2, <1>3, <2>2, <2>3, <2>4, RecordersFinite
<1>7. NoReceiptVanishes'
  BY <1>1, <1>3 DEF NoReceiptVanishes, Die, db
<1> QED
  BY <1>4, <1>5, <1>6, <1>7 DEF ReceiptInv

\* The bookkeeping of one receipt: the count of a task does not grow while
\* the payment path stands still.
LEMMA CountKept ==
  ASSUME TypeOK, ReceiptTypeOK, ReceiptTypeOK', CountInv, UNCHANGED vars,
         \A t \in Tasks : issued'[t] + checking'[t] + submitting'[t]
                            <= issued[t] + checking[t] + submitting[t]
  PROVE  CountInv'
<1> SUFFICES ASSUME NEW t \in Tasks
             PROVE  issued'[t] + checking'[t] + submitting'[t] + Cardinality(Recorders(t)') <= settled'[t]
  BY DEF CountInv
<1>1. Recorders(t)' = Recorders(t) /\ settled' = settled
  BY DEF vars, pool, lightning, Recorders
<1>2. /\ issued[t] \in Nat /\ checking[t] \in Nat /\ submitting[t] \in Nat
      /\ issued'[t] \in Nat /\ checking'[t] \in Nat /\ submitting'[t] \in Nat /\ settled[t] \in Nat
  BY DEF TypeOK, ReceiptTypeOK
<1>3. /\ issued[t] + checking[t] + submitting[t] + Cardinality(Recorders(t)) <= settled[t]
      /\ issued'[t] + checking'[t] + submitting'[t] <= issued[t] + checking[t] + submitting[t]
  BY DEF CountInv
<1> QED
  BY <1>1, <1>2, <1>3, RecordersFinite

\* A receipt that vanishes from memory leaves its id in the row or is given up.
LEMMA VanishKept ==
  ASSUME ReceiptTypeOK, ReceiptTypeOK', NoReceiptVanishes, UNCHANGED vars, NEW u \in Tasks,
         \A t \in Tasks \ {u} :
           /\ receiptId'[t] = receiptId[t] /\ checking'[t] = checking[t]
           /\ submitting'[t] = submitting[t] /\ storing'[t] = storing[t],
         forgone \subseteq forgone',
         \/ receiptId'[u] # 0 \/ submitting'[u] > 0 \/ storing'[u] # {} \/ u \in forgone'
  PROVE  NoReceiptVanishes'
<1> SUFFICES ASSUME NEW t \in Tasks, ObserverEnabled, pay'[t] = "paid", receiptId'[t] = 0
             PROVE  InFlight(t)' > 0 \/ t \in forgone'
  BY DEF NoReceiptVanishes
<1>1. CASE t = u
  BY <1>1, InFlightMeansPrime
<1>2. CASE t # u
  <2>1. pay[t] = "paid" /\ receiptId[t] = 0
    BY <1>2 DEF vars, db
  <2>2. InFlight(t) > 0 \/ t \in forgone
    BY <2>1 DEF NoReceiptVanishes
  <2> QED
    BY <1>2, <2>2, InFlightMeans, InFlightMeansPrime
<1> QED
  BY <1>1, <1>2

\* The check for an existing receipt.
LEMMA CheckKeeps ==
  ASSUME TypeOK, ReceiptInv, NEW u \in Tasks, CheckExisting(u)
  PROVE  ReceiptInv'
<1>0. ReceiptTypeOK /\ CountInv /\ IdsInv /\ AloneInv /\ NoReceiptVanishes /\ UNCHANGED vars
  BY DEF ReceiptInv, CheckExisting
<1>1. ReceiptTypeOK'
  BY <1>0 DEF ReceiptTypeOK, CheckExisting, notes
<1>2. CountInv'
  <2>1. \A t \in Tasks : issued'[t] + checking'[t] + submitting'[t]
                           <= issued[t] + checking[t] + submitting[t]
    BY <1>0 DEF ReceiptTypeOK, CheckExisting, notes
  <2> QED
    BY <1>0, <1>1, <2>1, CountKept
<1>3. IdsInv'
  BY <1>0 DEF IdsInv, ReceiptTypeOK, CheckExisting, notes
<1>4. AloneInv'
  <2> SUFFICES ASSUME NEW t \in Tasks, t \notin overlapped' PROVE Alone(t)'
    BY DEF AloneInv
  <2>1. t \notin overlapped /\ Alone(t)
    BY <1>0 DEF AloneInv, CheckExisting, notes
  <2>2. CASE t # u
    BY <1>0, <2>1, <2>2 DEF Alone, ReceiptTypeOK, CheckExisting
  <2>3. CASE t = u
    BY <1>0, <2>1, <2>3 DEF Alone, ReceiptTypeOK, CheckExisting, Beside
  <2> QED
    BY <2>2, <2>3
<1>5. NoReceiptVanishes'
  <2>1. /\ \A t \in Tasks \ {u} :
             /\ receiptId'[t] = receiptId[t] /\ checking'[t] = checking[t]
             /\ submitting'[t] = submitting[t] /\ storing'[t] = storing[t]
        /\ forgone \subseteq forgone'
    BY <1>0 DEF ReceiptTypeOK, CheckExisting, notes
  <2>2. receiptId'[u] # 0 \/ submitting'[u] > 0 \/ storing'[u] # {} \/ u \in forgone'
    BY <1>0 DEF ReceiptTypeOK, IdsInv, CheckExisting
  <2> QED
    BY <1>0, <1>1, <2>1, <2>2, VanishKept
<1> QED
  BY <1>1, <1>2, <1>3, <1>4, <1>5 DEF ReceiptInv

\* A receipt the registry has taken and answered.
LEMMA SubmitKeeps ==
  ASSUME TypeOK, ReceiptInv, NEW u \in Tasks, Submit(u)
  PROVE  ReceiptInv'
<1>0. ReceiptTypeOK /\ CountInv /\ IdsInv /\ AloneInv /\ NoReceiptVanishes /\ UNCHANGED vars
  BY DEF ReceiptInv, Submit
<1>1. ReceiptTypeOK'
  <2>1. IsFiniteSet(storing[u]) /\ issued[u] + 1 \in Nat
    BY <1>0 DEF ReceiptTypeOK
  <2>2. IsFiniteSet(storing[u] \cup {issued[u] + 1})
    BY <2>1, FS_AddElement
  <2> QED
    BY <1>0, <2>1, <2>2 DEF ReceiptTypeOK, Submit, notes
<1>2. CountInv'
  <2>1. \A t \in Tasks : issued'[t] + checking'[t] + submitting'[t]
                           <= issued[t] + checking[t] + submitting[t]
    BY <1>0 DEF ReceiptTypeOK, Submit, notes
  <2> QED
    BY <1>0, <1>1, <2>1, CountKept
<1>3. IdsInv'
  BY <1>0 DEF IdsInv, ReceiptTypeOK, Submit, notes
<1>4. AloneInv'
  <2> SUFFICES ASSUME NEW t \in Tasks, t \notin overlapped' PROVE Alone(t)'
    BY DEF AloneInv
  <2>1. t \notin overlapped /\ Alone(t)
    BY <1>0 DEF AloneInv, Submit, notes
  <2>2. CASE t # u
    BY <1>0, <2>1, <2>2 DEF Alone, ReceiptTypeOK, Submit
  <2>3. CASE t = u
    BY <1>0, <2>1, <2>3 DEF Alone, ReceiptTypeOK, Submit
  <2> QED
    BY <2>2, <2>3
<1>5. NoReceiptVanishes'
  <2>1. /\ \A t \in Tasks \ {u} :
             /\ receiptId'[t] = receiptId[t] /\ checking'[t] = checking[t]
             /\ submitting'[t] = submitting[t] /\ storing'[t] = storing[t]
        /\ forgone \subseteq forgone'
    BY <1>0 DEF ReceiptTypeOK, Submit, notes
  <2>2. receiptId'[u] # 0 \/ submitting'[u] > 0 \/ storing'[u] # {} \/ u \in forgone'
    BY <1>0 DEF ReceiptTypeOK, IdsInv, Submit
  <2> QED
    BY <1>0, <1>1, <2>1, <2>2, VanishKept
<1> QED
  BY <1>1, <1>2, <1>3, <1>4, <1>5 DEF ReceiptInv

\* A receipt that is given up.
LEMMA SubmitFailsKeeps ==
  ASSUME TypeOK, ReceiptInv, NEW u \in Tasks, SubmitFails(u)
  PROVE  ReceiptInv'
<1>0. ReceiptTypeOK /\ CountInv /\ IdsInv /\ AloneInv /\ NoReceiptVanishes /\ UNCHANGED vars
  BY DEF ReceiptInv, SubmitFails
<1>1. ReceiptTypeOK'
  BY <1>0 DEF ReceiptTypeOK, SubmitFails, notes
<1>2. CountInv'
  <2>1. \A t \in Tasks : issued'[t] + checking'[t] + submitting'[t]
                           <= issued[t] + checking[t] + submitting[t]
    BY <1>0 DEF ReceiptTypeOK, SubmitFails, notes
  <2> QED
    BY <1>0, <1>1, <2>1, CountKept
<1>3. IdsInv'
  BY <1>0 DEF IdsInv, ReceiptTypeOK, SubmitFails, notes
<1>4. AloneInv'
  <2> SUFFICES ASSUME NEW t \in Tasks, t \notin overlapped' PROVE Alone(t)'
    BY DEF AloneInv
  <2>1. t \notin overlapped /\ Alone(t)
    BY <1>0 DEF AloneInv, SubmitFails, notes
  <2>2. CASE t # u
    BY <1>0, <2>1, <2>2 DEF Alone, ReceiptTypeOK, SubmitFails
  <2>3. CASE t = u
    BY <1>0, <2>1, <2>3 DEF Alone, ReceiptTypeOK, SubmitFails
  <2> QED
    BY <2>2, <2>3
<1>5. NoReceiptVanishes'
  <2>1. /\ \A t \in Tasks \ {u} :
             /\ receiptId'[t] = receiptId[t] /\ checking'[t] = checking[t]
             /\ submitting'[t] = submitting[t] /\ storing'[t] = storing[t]
        /\ forgone \subseteq forgone'
    BY <1>0 DEF ReceiptTypeOK, SubmitFails, notes
  <2>2. receiptId'[u] # 0 \/ submitting'[u] > 0 \/ storing'[u] # {} \/ u \in forgone'
    BY <1>0 DEF ReceiptTypeOK, IdsInv, SubmitFails
  <2> QED
    BY <1>0, <1>1, <2>1, <2>2, VanishKept
<1> QED
  BY <1>1, <1>2, <1>3, <1>4, <1>5 DEF ReceiptInv

\* An id that reaches the row.
LEMMA StoreKeeps ==
  ASSUME TypeOK, ReceiptInv, NEW u \in Tasks, Store(u)
  PROVE  ReceiptInv'
<1>0. ReceiptTypeOK /\ CountInv /\ IdsInv /\ AloneInv /\ NoReceiptVanishes /\ UNCHANGED vars
  BY DEF ReceiptInv, Store
<1>1. ReceiptTypeOK'
  <2>1. IsFiniteSet(storing[u])
    BY <1>0 DEF ReceiptTypeOK
  <2>2. \A id \in storing[u] : IsFiniteSet(storing[u] \ {id}) /\ id \in Nat
    BY <1>0, <2>1, FS_RemoveElement DEF ReceiptTypeOK
  <2> QED
    BY <1>0, <2>1, <2>2 DEF ReceiptTypeOK, Store, notes
<1>2. CountInv'
  <2>1. \A t \in Tasks : issued'[t] + checking'[t] + submitting'[t]
                           <= issued[t] + checking[t] + submitting[t]
    BY <1>0 DEF ReceiptTypeOK, Store, notes
  <2> QED
    BY <1>0, <1>1, <2>1, CountKept
<1>3. IdsInv'
  BY <1>0 DEF IdsInv, ReceiptTypeOK, Store, notes
<1>4. AloneInv'
  <2> SUFFICES ASSUME NEW t \in Tasks, t \notin overlapped' PROVE Alone(t)'
    BY DEF AloneInv
  <2>1. t \notin overlapped /\ Alone(t)
    BY <1>0 DEF AloneInv, Store, notes
  <2>2. CASE t # u
    BY <1>0, <2>1, <2>2 DEF Alone, ReceiptTypeOK, Store
  <2>3. CASE t = u
    BY <1>0, <2>1, <2>3 DEF Alone, ReceiptTypeOK, Store
  <2> QED
    BY <2>2, <2>3
<1>5. NoReceiptVanishes'
  <2>1. /\ \A t \in Tasks \ {u} :
             /\ receiptId'[t] = receiptId[t] /\ checking'[t] = checking[t]
             /\ submitting'[t] = submitting[t] /\ storing'[t] = storing[t]
        /\ forgone \subseteq forgone'
    BY <1>0 DEF ReceiptTypeOK, Store, notes
  <2>2. receiptId'[u] # 0 \/ submitting'[u] > 0 \/ storing'[u] # {} \/ u \in forgone'
    BY <1>0 DEF ReceiptTypeOK, IdsInv, Store
  <2> QED
    BY <1>0, <1>1, <2>1, <2>2, VanishKept
<1> QED
  BY <1>1, <1>2, <1>3, <1>4, <1>5 DEF ReceiptInv

\* An id whose UPDATE reports an error.
LEMMA StoreFailsKeeps ==
  ASSUME TypeOK, ReceiptInv, NEW u \in Tasks, StoreFails(u)
  PROVE  ReceiptInv'
<1>0. ReceiptTypeOK /\ CountInv /\ IdsInv /\ AloneInv /\ NoReceiptVanishes /\ UNCHANGED vars
  BY DEF ReceiptInv, StoreFails
<1>1. ReceiptTypeOK'
  <2>1. IsFiniteSet(storing[u])
    BY <1>0 DEF ReceiptTypeOK
  <2>2. \A id \in storing[u] : IsFiniteSet(storing[u] \ {id}) /\ id \in Nat
    BY <1>0, <2>1, FS_RemoveElement DEF ReceiptTypeOK
  <2> QED
    BY <1>0, <2>1, <2>2 DEF ReceiptTypeOK, StoreFails, notes
<1>2. CountInv'
  <2>1. \A t \in Tasks : issued'[t] + checking'[t] + submitting'[t]
                           <= issued[t] + checking[t] + submitting[t]
    BY <1>0 DEF ReceiptTypeOK, StoreFails, notes
  <2> QED
    BY <1>0, <1>1, <2>1, CountKept
<1>3. IdsInv'
  BY <1>0 DEF IdsInv, ReceiptTypeOK, StoreFails, notes
<1>4. AloneInv'
  <2> SUFFICES ASSUME NEW t \in Tasks, t \notin overlapped' PROVE Alone(t)'
    BY DEF AloneInv
  <2>1. t \notin overlapped /\ Alone(t)
    BY <1>0 DEF AloneInv, StoreFails, notes
  <2>2. CASE t # u
    BY <1>0, <2>1, <2>2 DEF Alone, ReceiptTypeOK, StoreFails
  <2>3. CASE t = u
    BY <1>0, <2>1, <2>3 DEF Alone, ReceiptTypeOK, StoreFails
  <2> QED
    BY <2>2, <2>3
<1>5. NoReceiptVanishes'
  <2>1. /\ \A t \in Tasks \ {u} :
             /\ receiptId'[t] = receiptId[t] /\ checking'[t] = checking[t]
             /\ submitting'[t] = submitting[t] /\ storing'[t] = storing[t]
        /\ forgone \subseteq forgone'
    BY <1>0 DEF ReceiptTypeOK, StoreFails, notes
  <2>2. receiptId'[u] # 0 \/ submitting'[u] > 0 \/ storing'[u] # {} \/ u \in forgone'
    BY <1>0 DEF ReceiptTypeOK, IdsInv, StoreFails
  <2> QED
    BY <1>0, <1>1, <2>1, <2>2, VanishKept
<1> QED
  BY <1>1, <1>2, <1>3, <1>4, <1>5 DEF ReceiptInv

\* ReceiptInv is inductive beside the invariant of the payment path.
LEMMA ReceiptInductive == IndInv /\ IndInv' /\ ReceiptInv /\ [RNext]_allVars => ReceiptInv'
<1> SUFFICES ASSUME IndInv, IndInv', ReceiptInv, [RNext]_allVars PROVE ReceiptInv'
  OBVIOUS
<1>0. TypeOK /\ TypeOK'
  BY DEF IndInv
<1>1. CASE PaymentStep /\ UNCHANGED rvars
  BY <1>0, <1>1, PaymentStepKeeps
<1>2. ASSUME NEW w \in Workers, Recording(w) PROVE ReceiptInv'
  BY <1>0, <1>2, RecordingKeeps
<1>3. CASE (Stop \/ Crash) /\ LoseGoroutines
  BY <1>0, <1>3, DeathKeeps DEF Stop, Crash
<1>4. ASSUME NEW t \in Tasks, ReceiptStep(t) PROVE ReceiptInv'
  BY <1>0, <1>4, CheckKeeps, SubmitKeeps, SubmitFailsKeeps, StoreKeeps, StoreFailsKeeps DEF ReceiptStep
<1>5. CASE UNCHANGED allVars
  BY <1>5 DEF allVars, rvars, goroutines, notes, vars, db, lightning, pool, ReceiptInv, ReceiptTypeOK,
              CountInv, Recorders, IdsInv, AloneInv, Alone, NoReceiptVanishes, InFlight
<1> QED
  BY <1>1, <1>2, <1>3, <1>4, <1>5 DEF RNext

\* The invariants of the payment path and of the receipts hold together.
THEOREM ReceiptInvariantHolds == RSpec => [](IndInv /\ ReceiptInv)
<1>1. RInit => ReceiptInv
  <2> SUFFICES ASSUME RInit PROVE ReceiptInv
    OBVIOUS
  <2>1. ReceiptTypeOK /\ IdsInv /\ AloneInv
    BY FS_EmptySet DEF RInit, ReceiptTypeOK, IdsInv, AloneInv, Alone
  <2>2. CountInv
    <3>1. \A t \in Tasks : Recorders(t) = {}
      BY DEF RInit, Init, Recorders
    <3>2. \A t \in Tasks : Cardinality(Recorders(t)) = 0
      BY <3>1, FS_EmptySet
    <3> QED
      BY <3>2 DEF RInit, Init, CountInv
  <2>3. NoReceiptVanishes
    BY DEF RInit, Init, NoReceiptVanishes
  <2> QED
    BY <2>1, <2>2, <2>3 DEF ReceiptInv
<1> QED
  BY <1>1, ReceiptInductive, ReceiptsPreservePayments, InvariantHolds, PTL DEF RSpec

(***************************************************************************)
(* The properties                                                          *)
(***************************************************************************)

\* No receipt without a payment: what the registry holds and may still be
\* sent for a task never exceeds the payments of that task that settled.
THEOREM ReceiptsArePaidHolds == RSpec => []ReceiptsArePaid
<1>1. IndInv /\ ReceiptInv => ReceiptsArePaid
  <2> SUFFICES ASSUME IndInv, ReceiptInv, NEW t \in Tasks
               PROVE  issued[t] + checking[t] + submitting[t] <= settled[t]
    BY DEF ReceiptsArePaid
  <2>1. issued[t] \in Nat /\ checking[t] \in Nat /\ submitting[t] \in Nat /\ settled[t] \in Nat
    BY DEF IndInv, TypeOK, ReceiptInv, ReceiptTypeOK
  <2>2. issued[t] + checking[t] + submitting[t] + Cardinality(Recorders(t)) <= settled[t]
    BY DEF ReceiptInv, CountInv
  <2> QED
    BY <2>1, <2>2, RecordersFinite
<1> QED
  BY <1>1, ReceiptInvariantHolds, PTL

\* A task recorded as paid has its receipt id, a goroutine that is getting it,
\* or a receipt that submitObserverReceipt gave up or the process took along.
THEOREM NoReceiptVanishesHolds == RSpec => []NoReceiptVanishes
<1>1. ReceiptInv => NoReceiptVanishes
  BY DEF ReceiptInv
<1> QED
  BY <1>1, ReceiptInvariantHolds, PTL

\* A receipt id in the row is replaced only by a second receipt that went on
\* beside the first, and only for a task that may have been paid twice.
LEMMA RowChangesBesides ==
  IndInv /\ ReceiptInv /\ [RNext]_allVars =>
    \A t \in Tasks : receiptId[t] # 0 /\ receiptId'[t] # receiptId[t] => t \in suspect \cap overlapped
<1> SUFFICES ASSUME IndInv, ReceiptInv, [RNext]_allVars, NEW t \in Tasks,
                    receiptId[t] # 0, receiptId'[t] # receiptId[t]
             PROVE  t \in suspect \cap overlapped
  OBVIOUS
<1>0. ReceiptTypeOK /\ CountInv /\ IdsInv /\ AloneInv /\ TypeOK
  BY DEF ReceiptInv, IndInv
<1>1. \E u \in Tasks : Store(u) \/ StoreFails(u)
  BY DEF RNext, allVars, rvars, Recording, Observe, PaidUnobserved, LoseGoroutines, ReceiptStep,
         CheckExisting, Submit, SubmitFails
<1>2. \E id \in storing[t] : id # receiptId[t]
  BY <1>0, <1>1 DEF ReceiptTypeOK, Store, StoreFails
<1>3. t \in overlapped
  BY <1>0, <1>2 DEF AloneInv, Alone
<1>4. issued[t] > 1
  BY <1>0, <1>2 DEF IdsInv, ReceiptTypeOK
<1>5. settled[t] > 1
  <2>1. /\ issued[t] \in Nat /\ checking[t] \in Nat /\ submitting[t] \in Nat /\ settled[t] \in Nat
        /\ issued[t] + checking[t] + submitting[t] + Cardinality(Recorders(t)) <= settled[t]
    BY <1>0 DEF ReceiptTypeOK, TypeOK, CountInv
  <2> QED
    BY <1>4, <2>1, RecordersFinite
<1>6. t \in suspect
  BY <1>0, <1>5 DEF IndInv, TypeOK, ClearInv, Clear
<1> QED
  BY <1>3, <1>6

\* A receipt id in the row stays, except where two payments of one task and
\* two goroutines past the check for an existing receipt meet.
THEOREM ReceiptStaysHolds == RSpec => ReceiptStays
<1>1. IndInv /\ ReceiptInv /\ [RNext]_allVars =>
        [\A t \in Tasks :
           receiptId[t] # 0 /\ receiptId'[t] # receiptId[t] => t \in suspect \cap overlapped]_allVars
  BY RowChangesBesides
<1> QED
  BY <1>1, ReceiptInvariantHolds, PTL DEF RSpec, ReceiptStays
=============================================================================
