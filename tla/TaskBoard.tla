----------------------------- MODULE TaskBoard -----------------------------
(***************************************************************************)
(* What the coordinator promises about a task, with no scheduler, stream,  *)
(* handler or process in sight: a task is posted once, with one offer that *)
(* never changes; nodes are told nothing but offers that are posted; a     *)
(* task that runs may be requeued, and a result completes it whatever its  *)
(* status; and a payment is for a completed task and is the offered one,   *)
(* with nothing added or taken off after completion.                       *)
(***************************************************************************)
CONSTANTS Tasks,
          Offers,   \* records with at least a task, an uri and sats
          NoOffer

VARIABLES status,   \* the status of every task
          offer,    \* what was offered for it
          told,     \* the offers that nodes have been told
          jobs      \* the payments ordered

tvars == <<status, offer, told, jobs>>

TInit ==
  /\ status = [t \in Tasks |-> "absent"]
  /\ offer = [t \in Tasks |-> NoOffer]
  /\ told = {} /\ jobs = {}

Post(t) ==
  /\ status[t] = "absent"
  /\ status' = [status EXCEPT ![t] = "running"]
  /\ offer'[t] \in Offers /\ offer'[t].task = t
  /\ offer' = [offer EXCEPT ![t] = offer'[t]]
  /\ UNCHANGED <<told, jobs>>

Tell(t) ==
  /\ status[t] # "absent"
  /\ told' = told \cup {offer[t]}
  /\ UNCHANGED <<status, offer, jobs>>

Requeue(S) ==
  /\ \A t \in S : status[t] = "running"
  /\ status' = [t \in Tasks |-> IF t \in S THEN "pending" ELSE status[t]]
  /\ UNCHANGED <<offer, told, jobs>>

Complete(t) ==
  /\ status[t] # "absent"
  /\ status' = [status EXCEPT ![t] = "completed"]
  /\ UNCHANGED <<offer, told, jobs>>

Pay(t) ==
  /\ status[t] = "completed"
  /\ jobs' = jobs \cup {[task |-> t, uri |-> offer[t].uri, sats |-> offer[t].sats]}
  /\ UNCHANGED <<status, offer, told>>

TNext ==
  \/ \E t \in Tasks : Post(t) \/ Tell(t) \/ Complete(t) \/ Pay(t)
  \/ \E S \in SUBSET Tasks : Requeue(S)

TSpec == TInit /\ [][TNext]_tvars
=============================================================================
