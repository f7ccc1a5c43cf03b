---------------------------- MODULE StakeLedger ----------------------------
(***************************************************************************)
(* What the coordinator promises about the standing of a node and its      *)
(* stake, with no handler, ticker, slashing call or channel in sight: only *)
(* a registered node has a stake or is accused; only a stake that is on    *)
(* record is force-closed, and only with enough signals; a channel is      *)
(* closed once, logged once and after it was closed, and a stake is marked *)
(* after that; and what leads out of 'suspended' is to join again.         *)
(***************************************************************************)
EXTENDS Naturals

CONSTANTS Nodes,
          Channels,       \* the ids of the channels of a node
          T1,             \* the nodes that are slashed without a maintainer
          SlashThreshold  \* the signals such a node is allowed

VARIABLES status,   \* the standing of every node
          stake,    \* what is on record of its stake
          signals,  \* the signals recorded against it
          forced,   \* the channels of it that were force-closed
          events    \* the channels of it in the log of slashing events

svars == <<status, stake, signals, forced, events>>

SInit ==
  /\ status = [n \in Nodes |-> "absent"]
  /\ stake = [n \in Nodes |-> "none"]
  /\ signals = [n \in Nodes |-> 0]
  /\ forced = [n \in Nodes |-> {}]
  /\ events = [n \in Nodes |-> {}]

\* The standing of n changes from one of the statuses in From.
Stand(n, From, s) ==
  /\ status[n] \in From
  /\ status' = [status EXCEPT ![n] = s]
  /\ UNCHANGED <<stake, signals, forced, events>>

Join(n)    == Stand(n, {"absent", "pending", "active", "degraded", "suspended"}, "pending")
Admit(n)   == Stand(n, {"pending"}, "active")
Demote(n)  == Stand(n, {"active"}, "degraded")
Suspend(n) == Stand(n, {"pending", "active", "degraded", "suspended"}, "suspended")

\* What is on record of the stake of n changes.
Record(n, s) ==
  /\ stake' = [stake EXCEPT ![n] = s]
  /\ UNCHANGED <<status, signals, forced, events>>

Deposit(n) == status[n] # "absent" /\ Record(n, "active")
Weaken(n)  == stake[n] # "none" /\ Record(n, "degraded")
Seize(n)   == stake[n] # "none" /\ events[n] # {} /\ Record(n, "force_closed")

Accuse(n) ==
  /\ status[n] # "absent"
  /\ signals' = [signals EXCEPT ![n] = @ + 1]
  /\ UNCHANGED <<status, stake, forced, events>>

ForceClose(n, k) ==
  /\ k \notin forced[n]
  /\ stake[n] # "none"
  /\ signals[n] > (IF n \in T1 THEN SlashThreshold ELSE 0)
  /\ forced' = [forced EXCEPT ![n] = @ \cup {k}]
  /\ UNCHANGED <<status, stake, signals, events>>

LogEvent(n, k) ==
  /\ k \in forced[n] \ events[n]
  /\ events' = [events EXCEPT ![n] = @ \cup {k}]
  /\ UNCHANGED <<status, stake, signals, forced>>

SNext ==
  \E n \in Nodes :
    \/ Join(n) \/ Admit(n) \/ Demote(n) \/ Suspend(n)
    \/ Deposit(n) \/ Weaken(n) \/ Seize(n)
    \/ Accuse(n)
    \/ \E k \in Channels : ForceClose(n, k) \/ LogEvent(n, k)

SSpec == SInit /\ [][SNext]_svars
=============================================================================
