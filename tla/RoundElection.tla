--------------------------- MODULE RoundElection ---------------------------
(***************************************************************************)
(* What the orchestrators promise about a federated-learning round, with   *)
(* no ticker, table, object store or gradient in sight: an open round      *)
(* elects at most one leader, once; only the leader publishes, and the     *)
(* checkpoint it publishes is the only one of the round; and a round may   *)
(* be declared failed at any time, by anyone, its leader unaware.          *)
(***************************************************************************)
CONSTANTS Rounds,
          Instances,     \* who may lead
          Checkpoints,   \* what a leader may publish
          NoCheckpoint   \* what is recorded before that

VARIABLES status,      \* the status of every round
          leader,      \* the members at work on it: none or one
          checkpoint   \* its recorded checkpoint

evars == <<status, leader, checkpoint>>

EInit ==
  /\ status = [r \in Rounds |-> "absent"]
  /\ leader = [r \in Rounds |-> {}]
  /\ checkpoint = [r \in Rounds |-> NoCheckpoint]

Open(r) ==
  /\ status[r] = "absent"
  /\ status' = [status EXCEPT ![r] = "open"]
  /\ UNCHANGED <<leader, checkpoint>>

\* W is the winner, or empty: the election was held and nobody learned of it.
Elect(r, W) ==
  /\ status[r] = "open" /\ leader[r] = {}
  /\ status' = [status EXCEPT ![r] = "aggregating"]
  /\ leader' = [leader EXCEPT ![r] = W]
  /\ UNCHANGED checkpoint

Resign(r) ==
  /\ leader' = [leader EXCEPT ![r] = {}]
  /\ UNCHANGED <<status, checkpoint>>

Publish(r, c) ==
  /\ leader[r] # {} /\ status[r] \in {"aggregating", "failed"} /\ checkpoint[r] = NoCheckpoint
  /\ status' = [status EXCEPT ![r] = "complete"]
  /\ checkpoint' = [checkpoint EXCEPT ![r] = c]
  /\ leader' = [leader EXCEPT ![r] = {}]

Fail(r) ==
  /\ status[r] # "absent"
  /\ status' = [status EXCEPT ![r] = "failed"]
  /\ UNCHANGED <<leader, checkpoint>>

ENext ==
  \E r \in Rounds :
    \/ Open(r) \/ Resign(r) \/ Fail(r)
    \/ \E W \in {{}} \cup {{i} : i \in Instances} : Elect(r, W)
    \/ \E c \in Checkpoints : Publish(r, c)

ESpec == EInit /\ [][ENext]_evars
=============================================================================
