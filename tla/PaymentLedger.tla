--------------------------- MODULE PaymentLedger ---------------------------
(***************************************************************************)
(* What the payment side of the coordinator promises about the reward of a *)
(* task, with no queue, worker, process or retry in sight: the treasury    *)
(* only ever pays for a completed task, the row says 'paid' only if a      *)
(* payment has settled, and 'paid' and 'failed' are final.                 *)
(***************************************************************************)
EXTENDS Naturals

CONSTANT Tasks

VARIABLES done,     \* the tasks with a recorded result
          pay,      \* column payment_status of every task
          settled   \* how many Lightning payments have settled for it

lvars == <<done, pay, settled>>

LInit ==
  /\ done = {}
  /\ pay = [t \in Tasks |-> "pending"]
  /\ settled = [t \in Tasks |-> 0]

Complete(t) ==
  /\ done' = done \cup {t}
  /\ UNCHANGED <<pay, settled>>

Settle(t) ==
  /\ t \in done
  /\ settled' = [settled EXCEPT ![t] = @ + 1]
  /\ UNCHANGED <<done, pay>>

MarkPaid(t) ==
  /\ pay[t] = "pending"
  /\ settled[t] > 0
  /\ pay' = [pay EXCEPT ![t] = "paid"]
  /\ UNCHANGED <<done, settled>>

MarkFailed(t) ==
  /\ t \in done
  /\ pay[t] = "pending"
  /\ pay' = [pay EXCEPT ![t] = "failed"]
  /\ UNCHANGED <<done, settled>>

LNext == \E t \in Tasks : Complete(t) \/ Settle(t) \/ MarkPaid(t) \/ MarkFailed(t)

LSpec == LInit /\ [][LNext]_lvars
=============================================================================
