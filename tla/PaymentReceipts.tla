-------------------------- MODULE PaymentReceipts --------------------------
(***************************************************************************)
(* Payments composed with the Observer Protocol: every payment a worker    *)
(* records starts a goroutine that looks for an earlier receipt, submits a *)
(* signed one to the registry and stores the id it gets back. The          *)
(* goroutines run on context.Background(): a shutdown does not cancel      *)
(* them, but nobody waits for them either, and they end with the process.  *)
(***************************************************************************)
EXTENDS PaymentsInvariant

CONSTANT ObserverEnabled    \* cfg.Observer.Enabled: the dispatcher has an observer client

ASSUME ObserverAssumption == ObserverEnabled \in BOOLEAN

VARIABLES
  receiptId,   \* tasks.observer_receipt_id: the number of a receipt, 0 for NULL
  issued,      \* Observer Registry: receipts it has accepted for a task
  checking,    \* goroutines about to read observer_receipt_id
  submitting,  \* goroutines about to POST
  storing,     \* ids that goroutines are about to store
  forgone,     \* history: tasks for which a receipt, or its id, was given up
  overlapped   \* history: tasks with a goroutine that went on beside another one

goroutines == <<checking, submitting, storing>>
notes == <<forgone, overlapped>>
rvars == <<receiptId, issued, goroutines, notes>>
allVars == <<vars, rvars>>

InFlight(t) == checking[t] + submitting[t] + Cardinality(storing[t])

ReceiptTypeOK ==
  /\ receiptId \in [Tasks -> Nat] /\ issued \in [Tasks -> Nat]
  /\ checking \in [Tasks -> Nat] /\ submitting \in [Tasks -> Nat]
  /\ storing \in [Tasks -> SUBSET Nat] /\ \A t \in Tasks : IsFiniteSet(storing[t])
  /\ forgone \in SUBSET Tasks /\ overlapped \in SUBSET Tasks

RInit ==
  /\ Init
  /\ receiptId = [t \in Tasks |-> 0]
  /\ issued = [t \in Tasks |-> 0]
  /\ checking = [t \in Tasks |-> 0]
  /\ submitting = [t \in Tasks |-> 0]
  /\ storing = [t \in Tasks |-> {}]
  /\ forgone = {} /\ overlapped = {}

-----------------------------------------------------------------------------
(* submitObserverReceipt                                                   *)

\* The goroutine is started after the UPDATE whether or not it changed a row.
Observe(t) ==
  /\ checking' = IF ObserverEnabled THEN [checking EXCEPT ![t] = @ + 1] ELSE checking
  /\ UNCHANGED <<receiptId, issued, submitting, storing, notes>>

\* Mutant: a NULL id is taken for an existing receipt.
CheckExistingNull(t) ==
  /\ checking[t] > 0
  /\ checking' = [checking EXCEPT ![t] = @ - 1]
  /\ UNCHANGED <<vars, receiptId, issued, submitting, storing, notes>>

\* Mutant: an id that is already in the row does not end the goroutine.
CheckExistingIgnored(t) ==
  /\ checking[t] > 0
  /\ checking' = [checking EXCEPT ![t] = @ - 1]
  /\ submitting' = [submitting EXCEPT ![t] = @ + 1]
  /\ UNCHANGED <<vars, receiptId, issued, storing, notes>>

\* Another goroutine of t is past its check, or has finished (the read failed).
Beside(t) == receiptId[t] # 0 \/ submitting[t] > 0 \/ storing[t] # {}

\* An id in the row ends the goroutine; NULL, or an error, lets it go on.
CheckExisting(t) ==
  /\ checking[t] > 0
  /\ checking' = [checking EXCEPT ![t] = @ - 1]
  /\ \/ /\ receiptId[t] # 0
        /\ UNCHANGED <<submitting, overlapped>>
     \/ /\ receiptId[t] = 0 \/ "db" \in Faults
        /\ submitting' = [submitting EXCEPT ![t] = @ + 1]
        /\ overlapped' = IF Beside(t) THEN overlapped \cup {t} ELSE overlapped
  /\ UNCHANGED <<vars, receiptId, issued, storing, forgone>>

\* Mutant: a refused receipt is posted again.
SubmitFailsRetried(t) ==
  /\ submitting[t] > 0
  /\ issued' = [issued EXCEPT ![t] = @ + 1]
  /\ issued[t] < MaxResults + 1
  /\ UNCHANGED <<vars, receiptId, checking, submitting, storing, notes>>

\* Client.Submit returns an error, or the registry answers without an id: the
\* receipt is logged and given up, whether or not the registry has taken it.
SubmitFails(t) ==
  /\ submitting[t] > 0
  /\ submitting' = [submitting EXCEPT ![t] = @ - 1]
  /\ issued' = issued \/ issued' = [issued EXCEPT ![t] = @ + 1]
  /\ forgone' = forgone \cup {t}
  /\ UNCHANGED <<vars, receiptId, checking, storing, overlapped>>

Submit(t) ==
  /\ submitting[t] > 0
  /\ submitting' = [submitting EXCEPT ![t] = @ - 1]
  /\ issued' = [issued EXCEPT ![t] = @ + 1]
  /\ storing' = [storing EXCEPT ![t] = @ \cup {issued[t] + 1}]
  /\ UNCHANGED <<vars, receiptId, checking, notes>>

\* UPDATE tasks SET observer_receipt_id, with no condition on the old value.
Store(t) ==
  \E id \in storing[t] :
    /\ receiptId' = [receiptId EXCEPT ![t] = id]
    /\ storing' = [storing EXCEPT ![t] = @ \ {id}]
    /\ UNCHANGED <<vars, issued, checking, submitting, notes>>

\* The UPDATE returns an error, applied or not.
StoreFails(t) ==
  \E id \in storing[t] :
    /\ "db" \in Faults
    /\ receiptId' = receiptId \/ receiptId' = [receiptId EXCEPT ![t] = id]
    /\ storing' = [storing EXCEPT ![t] = @ \ {id}]
    /\ forgone' = forgone \cup {t}
    /\ UNCHANGED <<vars, issued, checking, submitting, overlapped>>

-----------------------------------------------------------------------------
\* A POST under way when the process ends may still reach the registry.
LoseGoroutines ==
  /\ forgone' = forgone \cup {t \in Tasks : InFlight(t) > 0}
  /\ checking' = [t \in Tasks |-> 0]
  /\ submitting' = [t \in Tasks |-> 0]
  /\ storing' = [t \in Tasks |-> {}]
  /\ \/ issued' = issued
     \/ issued' = [t \in Tasks |-> issued[t] + submitting[t]]
  /\ UNCHANGED <<receiptId, overlapped>>

\* The UPDATE to 'paid' was applied and its reply lost: no goroutine starts.
PaidUnobserved ==
  /\ forgone' = forgone \cup {t \in Tasks : pay'[t] = "paid" /\ pay[t] # "paid"}
  /\ UNCHANGED <<receiptId, issued, goroutines, overlapped>>

WorkerStep(w) == Dequeue(w) \/ SendPayment(w) \/ Retry(w) \/ Abandon(w) \/ GiveUp(w) \/ GiveUpError(w)

PaymentStep ==
  \/ \E t \in Tasks : Schedule(t) \/ LateSettle(t) \/ LateFail(t) \/ MarkCompleteError(t)
  \/ \E S \in SUBSET Tasks : RequeueTimedOut(S)
  \/ \E h \in Handlers, t \in Tasks : MarkComplete(h, t)
  \/ \E h \in Handlers : Enqueue(h) \/ LookupError(h)
  \/ \E w \in Workers : WorkerStep(w)
  \/ ServeTor \/ Start \/ Shutdown

Recording(w) == (RecordPaid(w) /\ Observe(job[w])) \/ (RecordError(w) /\ PaidUnobserved)

ReceiptStep(t) == CheckExisting(t) \/ Submit(t) \/ SubmitFails(t) \/ Store(t) \/ StoreFails(t)

RNext ==
  \/ PaymentStep /\ UNCHANGED rvars
  \/ \E w \in Workers : Recording(w)
  \/ (Stop \/ Crash) /\ LoseGoroutines
  \/ \E t \in Tasks : ReceiptStep(t)

RSpec == RInit /\ [][RNext]_allVars

(***************************************************************************)
(* Fairness: that of Payments, and the goroutines run (the POST has a      *)
(* timeout of 15 seconds).                                                 *)
(***************************************************************************)
RFairSpec ==
  /\ RSpec
  /\ \A w \in Workers : WF_allVars((WorkerStep(w) /\ UNCHANGED rvars) \/ Recording(w))
  /\ \A h \in Handlers : WF_allVars((Enqueue(h) \/ LookupError(h)) /\ UNCHANGED rvars)
  /\ WF_allVars(ServeTor /\ UNCHANGED rvars) /\ WF_allVars(Start /\ UNCHANGED rvars)
  /\ \A t \in Tasks : WF_allVars(ReceiptStep(t))

-----------------------------------------------------------------------------
(* Properties                                                              *)

\* No receipt without a payment: what the registry holds for a task and what
\* goroutines may still send it never exceeds the payments that settled, however
\* often a job was retried, recovered or submitted again.
ReceiptsArePaid == \A t \in Tasks : issued[t] + checking[t] + submitting[t] <= settled[t]

\* A task recorded as paid has its receipt id, or a goroutine that is getting
\* it, unless the receipt was given up where the code logs a failure, lost with
\* the process, or never started because the UPDATE reported an error.
NoReceiptVanishes ==
  \A t \in Tasks :
    (ObserverEnabled /\ pay[t] = "paid" /\ receiptId[t] = 0) => InFlight(t) > 0 \/ t \in forgone

\* A receipt id in the row is replaced only for a task that may have been paid
\* twice, and only when two of its goroutines were past the check for an
\* existing receipt together, or the check could not read the row.
ReceiptStays ==
  [][\A t \in Tasks :
       receiptId[t] # 0 /\ receiptId'[t] # receiptId[t] => t \in suspect \cap overlapped]_allVars
=============================================================================
