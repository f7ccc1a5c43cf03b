------------------------ MODULE RoundElectionProofs ------------------------
(***************************************************************************)
(* FLRounds implements RoundElection, for any number of rounds, nodes and  *)
(* processes and any failures; and with one process whose statements are   *)
(* answered, the end of a round is final.                                  *)
(***************************************************************************)
EXTENDS FLRoundsProofs

\* The ticker handles rounds that exist.
KnownInv ==
  \A i \in Instances :
    /\ \A r \in rows[i] : status[r] # "absent"
    /\ cur[i] # NoRound => status[cur[i]] # "absent"

-----------------------------------------------------------------------------
(* Rounds in hand                                                          *)

\* What a step does to the status of the rounds and to the rounds in hand: a
\* round never disappears, and a process takes a new round in hand only from
\* the rows it has selected, which exist.
LEMMA KnownStep ==
  ASSUME TypeOK, KnownInv,
         \A r \in Rounds : status'[r] # status[r] => status'[r] # "absent",
         \A i \in Instances : /\ rows'[i] \subseteq rows[i] \cup {r \in Rounds : status[r] = "open"}
                              /\ cur'[i] \in {cur[i], NoRound} \cup rows[i]
  PROVE  KnownInv'
<1>1. \A r \in Rounds : status[r] # "absent" => status'[r] # "absent"
  OBVIOUS
<1>2. \A i \in Instances : rows[i] \subseteq Rounds /\ (cur[i] # NoRound => cur[i] \in Rounds)
  BY DEF TypeOK
<1> SUFFICES ASSUME NEW i \in Instances
             PROVE  /\ \A r \in rows'[i] : status'[r] # "absent"
                    /\ cur'[i] # NoRound => status'[cur'[i]] # "absent"
  BY DEF KnownInv
<1>3. ASSUME NEW r \in rows'[i] PROVE status'[r] # "absent"
  <2>1. r \in Rounds /\ status[r] # "absent"
    BY <1>2, <1>3 DEF KnownInv
  <2> QED BY <1>1, <2>1
<1>4. ASSUME cur'[i] # NoRound PROVE status'[cur'[i]] # "absent"
  <2>1. cur'[i] \in Rounds /\ status[cur'[i]] # "absent"
    BY <1>2, <1>4 DEF KnownInv
  <2> QED BY <1>1, <2>1
<1> QED BY <1>3, <1>4

\* Every step keeps KnownInv.
LEMMA StepKnown == TypeOK /\ KnownInv /\ [Next]_vars => KnownInv'
<1> SUFFICES ASSUME TypeOK, KnownInv, [Next]_vars PROVE KnownInv'
  OBVIOUS
<1> DEFINE Kept == UNCHANGED <<status, rows, cur>>
<1>0. ASSUME Kept PROVE KnownInv'
  BY <1>0, KnownStep
<1>1. CASE UNCHANGED vars
  BY <1>0, <1>1 DEF vars, table, local
<1>2. ASSUME NEW r \in Rounds, OpenRound(r) PROVE KnownInv'
  BY <1>2, KnownStep DEF OpenRound, local, TypeOK
<1>3. ASSUME NEW r \in Rounds, Expire(r) PROVE KnownInv'
  BY <1>0, <1>3 DEF Expire, table, local
<1>4. ASSUME NEW r \in Rounds, NEW n \in Nodes, Upload(r, n) PROVE KnownInv'
  BY <1>0, <1>4 DEF Upload, table, local
<1>5. ASSUME NEW i \in Instances, NEW r \in Rounds, NEW n \in Nodes, CheckOpen(i, r, n) \/ Upsert(i, r, n)
      PROVE  KnownInv'
  BY <1>0, <1>5 DEF CheckOpen, Upsert, table, local
<1>6. ASSUME NEW i \in Instances, NEW r \in Rounds, StampOTS(i, r) PROVE KnownInv'
  BY <1>0, <1>6 DEF StampOTS, local
<1>7. ASSUME NEW i \in Instances, SelectExpired(i) \/ Crash(i) PROVE KnownInv'
  BY <1>7, KnownStep DEF SelectExpired, Crash, table, TypeOK
<1>8. ASSUME NEW i \in Instances, NEW r \in Rounds, Count(i, r) PROVE KnownInv'
  BY <1>8, KnownStep DEF Count, table, TypeOK
<1>9. ASSUME NEW i \in Instances,
             FetchGradients(i) \/ (\E F, X \in SUBSET Nodes : AnomalyFilter(i, F, X)) \/ FedAvg(i)
      PROVE  KnownInv'
  BY <1>0, <1>9 DEF FetchGradients, AnomalyFilter, FedAvg, table
<1>10. ASSUME NEW i \in Instances, Transition(i) PROVE KnownInv'
  BY <1>10, KnownStep DEF Transition, TypeOK
<1>11. ASSUME NEW i \in Instances, CompleteRound(i) \/ FailRound(i) PROVE KnownInv'
  BY <1>11, KnownStep DEF CompleteRound, FailRound, Finish, TypeOK
<1> QED
  BY <1>1, <1>2, <1>3, <1>4, <1>5, <1>6, <1>7, <1>8, <1>9, <1>10, <1>11 DEF Next, Aggregate

\* The ticker handles only rounds that exist, always.
THEOREM KnownHolds == Spec => []KnownInv
<1>1. Init => KnownInv
  BY DEF Init, KnownInv
<1>2. TypeOK /\ KnownInv /\ [Next]_vars => KnownInv'
  BY StepKnown
<1> QED BY <1>1, <1>2, TypeCorrect, PTL DEF Spec

-----------------------------------------------------------------------------
(* The leader of a round                                                   *)

\* A process that stays at work on its round, or stays out of work, changes no
\* leader.
LEMMA LeaderStays ==
  ASSUME NEW i \in Instances,
         \A j \in Instances \ {i} : pc'[j] = pc[j] /\ cur'[j] = cur[j],
         \/ pc[i] \in Owning /\ pc'[i] \in Owning /\ cur'[i] = cur[i]
         \/ pc[i] \notin Owning /\ pc'[i] \notin Owning
  PROVE  Leader' = Leader
<1>1. \A j \in Instances : pc'[j] \in Owning <=> pc[j] \in Owning
  OBVIOUS
<1>2. \A j \in Instances : pc[j] \in Owning => cur'[j] = cur[j]
  OBVIOUS
<1> QED BY <1>1, <1>2 DEF Leader

\* A process that stops working on its round was the only one at it, and
\* leaves it without a leader.
LEMMA LeaderLeaves ==
  ASSUME Inv, NEW i \in Instances,
         \A j \in Instances \ {i} : pc'[j] = pc[j] /\ cur'[j] = cur[j],
         pc[i] \in Owning, pc'[i] \notin Owning
  PROVE  /\ cur[i] \in Rounds /\ Leader[cur[i]] = {i}
         /\ Leader' = [Leader EXCEPT ![cur[i]] = {}]
<1>1. cur[i] \in Rounds /\ \A j \in Instances \ {i} : pc[j] \in Owning => cur[j] # cur[i]
  BY OwnersHaveRounds DEF Inv, OneAggregator
<1>2. Leader[cur[i]] = {i}
  BY <1>1 DEF Leader
<1>3. ASSUME NEW r \in Rounds
      PROVE  {j \in Instances : pc'[j] \in Owning /\ cur'[j] = r} = IF r = cur[i] THEN {} ELSE Leader[r]
  BY <1>1 DEF Leader
<1>4. Leader' = [r \in Rounds |-> IF r = cur[i] THEN {} ELSE Leader[r]]
  BY <1>3 DEF Leader
<1>5. [Leader EXCEPT ![cur[i]] = {}] = [r \in Rounds |-> IF r = cur[i] THEN {} ELSE Leader[r]]
  BY DEF Leader
<1> QED BY <1>1, <1>2, <1>4, <1>5

\* A process that starts work on an open round becomes its only leader.
LEMMA LeaderEnters ==
  ASSUME Inv, NEW i \in Instances,
         \A j \in Instances \ {i} : pc'[j] = pc[j] /\ cur'[j] = cur[j],
         pc[i] \notin Owning, pc'[i] \in Owning, cur'[i] = cur[i],
         cur[i] \in Rounds, status[cur[i]] = "open"
  PROVE  Leader' = [Leader EXCEPT ![cur[i]] = {i}]
<1>1. \A j \in Instances : pc[j] \in Owning => cur[j] # cur[i]
  BY DEF Inv, OwnerInv
<1>2. ASSUME NEW r \in Rounds
      PROVE  {j \in Instances : pc'[j] \in Owning /\ cur'[j] = r} = IF r = cur[i] THEN {i} ELSE Leader[r]
  BY <1>1 DEF Leader
<1> QED BY <1>2 DEF Leader

\* An open round has no leader.
LEMMA OpenHasNoLeader ==
  ASSUME Inv, NEW r \in Rounds, status[r] = "open"
  PROVE  Leader[r] = {}
BY DEF Inv, OwnerInv, Leader

-----------------------------------------------------------------------------
(* Step by step                                                            *)

\* A process that gives up its round, or does not work on one, and changes no
\* row: a resignation, or nothing.
LEMMA LeaveRefines ==
  ASSUME Inv, NEW i \in Instances, UNCHANGED <<status, hash>>,
         \A j \in Instances \ {i} : pc'[j] = pc[j] /\ cur'[j] = cur[j],
         pc'[i] \in Owning => pc[i] \in Owning /\ cur'[i] = cur[i]
  PROVE  (\E r \in Rounds : Election!Resign(r)) \/ UNCHANGED <<status, Leader, hash>>
<1>1. CASE pc[i] \in Owning /\ pc'[i] \notin Owning
  <2>1. cur[i] \in Rounds /\ Leader' = [Leader EXCEPT ![cur[i]] = {}]
    BY <1>1, LeaderLeaves
  <2>2. Election!Resign(cur[i])
    BY <2>1 DEF Election!Resign
  <2> QED BY <2>1, <2>2
<1>2. CASE ~(pc[i] \in Owning /\ pc'[i] \notin Owning)
  <2>1. Leader' = Leader
    BY <1>2, LeaderStays
  <2> QED BY <2>1
<1> QED BY <1>1, <1>2

\* The compare-and-set is the election: one process wins, or the database has
\* applied the statement and nobody knows.
LEMMA TransitionRefines ==
  ASSUME Inv, NEW i \in Instances, Transition(i)
  PROVE  \/ \E r \in Rounds : \E W \in {{}} \cup {{j} : j \in Instances} : Election!Elect(r, W)
         \/ UNCHANGED <<status, Leader, hash>>
<1>0. /\ cur[i] \in Rounds /\ pc[i] \notin Owning /\ UNCHANGED <<cur, hash>>
      /\ \A j \in Instances \ {i} : pc'[j] = pc[j] /\ cur'[j] = cur[j]
  BY DEF Inv, TypeOK, Transition, Owning
<1>1. CASE UNCHANGED status
  <2>1. pc'[i] \notin Owning
    BY <1>0, <1>1 DEF Transition, Inv, TypeOK, Owning
  <2>2. Leader' = Leader
    BY <1>0, <2>1, LeaderStays
  <2> QED BY <1>0, <1>1, <2>2
<1>2. CASE status' # status
  <2>1. status[cur[i]] = "open" /\ status' = [status EXCEPT ![cur[i]] = "aggregating"]
    BY <1>2 DEF Transition
  <2>2. Leader[cur[i]] = {} /\ Leader \in [Rounds -> SUBSET Instances]
    BY <1>0, <2>1, OpenHasNoLeader DEF Leader
  <2>3. CASE pc'[i] \in Owning
    <3>1. Leader' = [Leader EXCEPT ![cur[i]] = {i}]
      BY <1>0, <2>1, <2>3, LeaderEnters
    <3>2. Election!Elect(cur[i], {i})
      BY <1>0, <2>1, <2>2, <3>1 DEF Election!Elect
    <3> QED BY <1>0, <3>2
  <2>4. CASE pc'[i] \notin Owning
    <3>1. Leader' = Leader
      BY <1>0, <2>4, LeaderStays
    <3>2. Leader' = [Leader EXCEPT ![cur[i]] = {}]
      BY <2>2, <3>1
    <3>3. Election!Elect(cur[i], {})
      BY <1>0, <2>1, <2>2, <3>2 DEF Election!Elect
    <3> QED BY <1>0, <3>3
  <2> QED BY <2>3, <2>4
<1> QED BY <1>1, <1>2

\* completeRound publishes; when the database refuses, the leader resigns.
LEMMA CompleteRefines ==
  ASSUME Inv, SoundInv, NEW i \in Instances, CompleteRound(i)
  PROVE  \/ \E r \in Rounds : Election!Resign(r) \/ \E c \in Versions : Election!Publish(r, c)
         \/ UNCHANGED <<status, Leader, hash>>
<1>1. /\ pc[i] \in Owning /\ pc'[i] \notin Owning
      /\ \A j \in Instances \ {i} : pc'[j] = pc[j] /\ cur'[j] = cur[j]
  BY DEF CompleteRound, Finish, Inv, TypeOK, Owning
<1>2. CASE UNCHANGED <<status, hash>>
  BY <1>1, <1>2, LeaveRefines
<1>3. CASE status' = [status EXCEPT ![cur[i]] = "complete"] /\ hash' = [hash EXCEPT ![cur[i]] = avg[i]]
  <2>1. /\ cur[i] \in Rounds /\ Leader[cur[i]] = {i}
        /\ Leader' = [Leader EXCEPT ![cur[i]] = {}]
    BY <1>1, LeaderLeaves
  <2>2. status[cur[i]] \in {"aggregating", "failed"} /\ hash[cur[i]] = NoVersions
    BY <1>1, OwnerAlone DEF Inv, OwnerInv
  <2>3. avg[i] \in Versions
    BY DEF Inv, TypeOK
  <2>4. Election!Publish(cur[i], avg[i])
    BY <1>3, <2>1, <2>2 DEF Election!Publish
  <2> QED BY <2>1, <2>3, <2>4
<1> QED BY <1>2, <1>3 DEF CompleteRound

\* failRound fails the round, whoever leads it.
LEMMA FailRefines ==
  ASSUME Inv, KnownInv, NEW i \in Instances, FailRound(i)
  PROVE  (\E r \in Rounds : Election!Fail(r)) \/ UNCHANGED <<status, Leader, hash>>
<1>1. /\ cur[i] \in Rounds /\ status[cur[i]] # "absent"
      /\ pc[i] \notin Owning /\ pc'[i] \notin Owning /\ UNCHANGED hash
      /\ \A j \in Instances \ {i} : pc'[j] = pc[j] /\ cur'[j] = cur[j]
  BY RoundsAssumption DEF FailRound, Finish, Inv, TypeOK, KnownInv, Owning
<1>2. Leader' = Leader
  BY <1>1, LeaderStays
<1>3. CASE status' = [status EXCEPT ![cur[i]] = "failed"]
  BY <1>1, <1>2, <1>3 DEF Election!Fail
<1>4. CASE UNCHANGED status
  BY <1>1, <1>2, <1>4
<1> QED BY <1>3, <1>4 DEF FailRound

\* Every step is a step of the election, or changes nothing of it.
LEMMA StepRefines ==
  ASSUME Inv, SoundInv, KnownInv, [Next]_vars
  PROVE  Election!ENext \/ UNCHANGED <<status, Leader, hash>>
<1> DEFINE Goal == Election!ENext \/ UNCHANGED <<status, Leader, hash>>
<1>0. ASSUME UNCHANGED <<status, hash, pc, cur>> PROVE Goal
  BY <1>0 DEF Leader
<1>1. ASSUME UNCHANGED vars PROVE Goal
  BY <1>0, <1>1 DEF vars, table, local
<1>2. ASSUME NEW r \in Rounds, OpenRound(r) PROVE Goal
  <2>1. Leader' = Leader
    BY <1>2 DEF OpenRound, local, Leader
  <2>2. Election!Open(r)
    BY <1>2, <2>1 DEF OpenRound, Election!Open
  <2> QED BY <2>2 DEF Election!ENext
<1>3. ASSUME NEW r \in Rounds, Expire(r) PROVE Goal
  BY <1>0, <1>3 DEF Expire, table, local
<1>4. ASSUME NEW r \in Rounds, NEW n \in Nodes, Upload(r, n) PROVE Goal
  BY <1>0, <1>4 DEF Upload, table, local
<1>5. ASSUME NEW i \in Instances, NEW r \in Rounds, NEW n \in Nodes, CheckOpen(i, r, n) \/ Upsert(i, r, n)
      PROVE  Goal
  BY <1>0, <1>5 DEF CheckOpen, Upsert, table, local
<1>6. ASSUME NEW i \in Instances, NEW r \in Rounds, StampOTS(i, r) PROVE Goal
  BY <1>0, <1>6 DEF StampOTS, local
<1>7. ASSUME NEW i \in Instances, SelectExpired(i) \/ Crash(i) \/ (\E r \in Rounds : Count(i, r)) PROVE Goal
  <2>1. /\ UNCHANGED <<status, hash>>
        /\ \A j \in Instances \ {i} : pc'[j] = pc[j] /\ cur'[j] = cur[j]
        /\ pc'[i] \notin Owning
    BY <1>7 DEF SelectExpired, Crash, Count, table, Inv, TypeOK, Owning
  <2> QED BY <2>1, LeaveRefines DEF Election!ENext
<1>8. ASSUME NEW i \in Instances,
             FetchGradients(i) \/ (\E F, X \in SUBSET Nodes : AnomalyFilter(i, F, X)) \/ FedAvg(i)
      PROVE  Goal
  <2>1. UNCHANGED <<status, hash, cur>> /\ pc[i] \in Owning
    BY <1>8 DEF FetchGradients, AnomalyFilter, FedAvg, table, Owning
  <2>2. \A j \in Instances \ {i} : pc'[j] = pc[j]
    BY ZenonT(40), <1>8 DEF FetchGradients, AnomalyFilter, FedAvg, Abort, Inv, TypeOK
  <2> QED BY <2>1, <2>2, LeaveRefines DEF Election!ENext
<1>9. ASSUME NEW i \in Instances, Transition(i) PROVE Goal
  BY <1>9, TransitionRefines DEF Election!ENext
<1>10. ASSUME NEW i \in Instances, CompleteRound(i) PROVE Goal
  BY <1>10, CompleteRefines DEF Election!ENext
<1>11. ASSUME NEW i \in Instances, FailRound(i) PROVE Goal
  BY <1>11, FailRefines DEF Election!ENext
<1> HIDE DEF Goal
<1>12. Goal
  BY <1>1, <1>2, <1>3, <1>4, <1>5, <1>6, <1>7, <1>8, <1>9, <1>10, <1>11 DEF Next, Aggregate
<1> QED BY <1>12 DEF Goal

\* FLRounds implements RoundElection: at most one leader per round, elected
\* once; the only checkpoint of a round comes from its leader; any process may
\* fail a round, and a failed one can still be published.
THEOREM ElectionImplemented == Spec => ImplementsElection
<1>1. Init => Election!EInit
  BY DEF Init, Election!EInit, Leader, Owning
<1>2. Inv /\ SoundInv /\ KnownInv /\ [Next]_vars => [Election!ENext]_(Election!evars)
  BY StepRefines DEF Election!evars
<1> QED
  BY <1>1, <1>2, InvariantHolds, SoundHolds, KnownHolds, PTL DEF Spec, ImplementsElection, Election!ESpec
-----------------------------------------------------------------------------
(* One process                                                             *)

\* With one process whose statements are answered, the rows still to be handled
\* are open, the round before the compare-and-set too, the round at work is
\* 'aggregating', and a round about to be failed is not complete.
OneInv ==
  \A i \in Instances :
    /\ cur[i] \notin rows[i]
    /\ \A r \in rows[i] : status[r] = "open"
    /\ pc[i] = "cas" => status[cur[i]] = "open"
    /\ pc[i] \in Owning \cup {"fail2"} => status[cur[i]] = "aggregating"
    /\ pc[i] = "fail" => status[cur[i]] \in {"open", "aggregating", "failed"}

\* What TerminalIsFinal asks of a step.
EndKept == \A r \in Rounds : status[r] \in {"complete", "failed"} => status'[r] = status[r]

\* A step that leaves the rounds and the ticker alone keeps both.
LEMMA OneFrame ==
  ASSUME OneInv, UNCHANGED <<status, pc, cur, rows>>
  PROVE  OneInv' /\ EndKept
BY DEF OneInv, EndKept

\* A step that keeps the round in hand and all rows, and stays at work on the
\* round or gives it up, keeps both.
LEMMA OneWork ==
  ASSUME OneInv, NEW i \in Instances, UNCHANGED <<status, cur, rows>>,
         \A j \in Instances \ {i} : pc'[j] = pc[j],
         pc[i] \in Owning, pc'[i] \in Owning \cup {"fail2"}
  PROVE  OneInv' /\ EndKept
<1>1. pc'[i] \notin {"cas", "fail"}
  BY DEF Owning
<1> QED BY <1>1 DEF OneInv, EndKept

\* Opening a round keeps both.
LEMMA OneOpen ==
  ASSUME TypeOK, KnownInv, OneInv, NEW r \in Rounds, OpenRound(r)
  PROVE  OneInv' /\ EndKept
<1>1. /\ status[r] = "absent" /\ UNCHANGED <<pc, cur, rows>>
      /\ \A q \in Rounds : q # r => status'[q] = status[q]
  BY DEF OpenRound, local, TypeOK
<1>2. ASSUME NEW i \in Instances
      PROVE  /\ r \notin rows[i] /\ rows[i] \subseteq Rounds
             /\ pc[i] \notin {"idle", "next"} => cur[i] \in Rounds /\ cur[i] # r
  BY <1>1, RoundsAssumption DEF KnownInv, TypeOK
<1>3. EndKept
  BY <1>1 DEF EndKept
<1>4. OneInv'
  <2> SUFFICES ASSUME NEW i \in Instances
               PROVE  /\ cur[i] \notin rows[i]
                      /\ \A q \in rows[i] : status'[q] = "open"
                      /\ pc[i] = "cas" => status'[cur[i]] = "open"
                      /\ pc[i] \in Owning \cup {"fail2"} => status'[cur[i]] = "aggregating"
                      /\ pc[i] = "fail" => status'[cur[i]] \in {"open", "aggregating", "failed"}
    BY <1>1 DEF OneInv
  <2>1. \A q \in rows[i] : status'[q] = status[q]
    BY <1>1, <1>2
  <2>2. pc[i] \notin {"idle", "next"} => status'[cur[i]] = status[cur[i]]
    BY <1>1, <1>2
  <2> QED BY <2>1, <2>2 DEF OneInv, Owning
<1> QED BY <1>3, <1>4

\* The steps of the only process, if every statement is answered, keep both.
LEMMA OneTicker ==
  ASSUME TypeOK, OneInv, NEW i \in Instances, \A j \in Instances : j = i, "ack" \notin Faults,
         SelectExpired(i) \/ Crash(i) \/ Aggregate(i)
  PROVE  OneInv' /\ EndKept
<1> USE RoundsAssumption
<1>0. rows[i] \subseteq Rounds /\ NoRound \notin rows[i] /\ (pc[i] \notin {"idle", "next"} => cur[i] \in Rounds)
  BY DEF TypeOK
<1>1. CASE SelectExpired(i)
  <2>1. /\ status' = status /\ cur' = cur /\ cur[i] = NoRound /\ pc'[i] = "next"
        /\ rows'[i] \subseteq Rounds /\ \A r \in rows'[i] : status[r] = "open"
    BY <1>1 DEF SelectExpired, table, TypeOK
  <2> QED BY <2>1 DEF OneInv, EndKept, Owning
<1>2. CASE Crash(i)
  <2>1. status' = status /\ rows'[i] = {} /\ pc'[i] = "idle"
    BY <1>2 DEF Crash, table, TypeOK
  <2> QED BY <2>1 DEF OneInv, EndKept, Owning
<1>3. ASSUME NEW r \in Rounds, Count(i, r) PROVE OneInv' /\ EndKept
  <2>1. /\ status' = status /\ r \in rows[i] /\ rows'[i] = rows[i] \ {r} /\ cur'[i] = r
        /\ pc'[i] \in {"cas", "fail"}
    BY <1>3 DEF Count, table, TypeOK
  <2>2. status[r] = "open"
    BY <2>1 DEF OneInv
  <2> QED BY <2>1, <2>2 DEF OneInv, EndKept, Owning
<1>4. CASE Transition(i)
  <2>1. status[cur[i]] = "open" /\ cur[i] \in Rounds /\ UNCHANGED <<cur, rows>> /\ cur[i] \notin rows[i]
    BY <1>0, <1>4 DEF Transition, OneInv
  <2>2. \/ status'[cur[i]] = "aggregating" /\ pc'[i] = "fetch"
        \/ status' = status /\ pc'[i] = "fail"
    BY <1>4, <2>1 DEF Transition, TypeOK
  <2>3. \A q \in Rounds : q # cur[i] => status'[q] = status[q]
    BY <1>4 DEF Transition, TypeOK
  <2> QED BY <1>0, <2>1, <2>2, <2>3 DEF OneInv, EndKept, Owning
<1>5. CASE FetchGradients(i) \/ (\E F, X \in SUBSET Nodes : AnomalyFilter(i, F, X)) \/ FedAvg(i)
  <2>1. UNCHANGED <<status, cur, rows>> /\ pc[i] \in Owning
    BY <1>5 DEF FetchGradients, AnomalyFilter, FedAvg, table, Owning
  <2>2. pc'[i] \in {"filter", "avg", "complete", "fail2"}
    BY ZenonT(40), <1>5 DEF FetchGradients, AnomalyFilter, FedAvg, Abort, TypeOK
  <2> QED BY <2>1, <2>2, OneWork DEF Owning
<1>6. CASE CompleteRound(i)
  <2>1. status[cur[i]] = "aggregating" /\ cur[i] \in Rounds /\ rows' = rows /\ cur[i] \notin rows[i]
    BY <1>0, <1>6 DEF CompleteRound, OneInv, Owning
  <2>2. \/ cur'[i] = NoRound /\ pc'[i] \in {"idle", "next"}
        \/ status' = status /\ cur' = cur /\ pc'[i] = "fail"
    BY <1>6 DEF CompleteRound, Finish, TypeOK
  <2>3. \A q \in Rounds : q # cur[i] => status'[q] = status[q]
    BY <1>6 DEF CompleteRound, TypeOK
  <2> QED BY <1>0, <2>1, <2>2, <2>3 DEF OneInv, EndKept, Owning
<1>7. CASE FailRound(i)
  <2>1. /\ status[cur[i]] \in {"open", "aggregating", "failed"} /\ cur[i] \in Rounds
        /\ rows' = rows /\ cur[i] \notin rows[i]
    BY <1>0, <1>7 DEF FailRound, OneInv
  <2>2. \/ cur'[i] = NoRound /\ pc'[i] \in {"idle", "next"}
        \/ cur' = cur /\ pc'[i] = "fail"
    BY <1>7 DEF FailRound, Finish, TypeOK
  <2>3. /\ status'[cur[i]] \in {status[cur[i]], "failed"}
        /\ \A q \in Rounds : q # cur[i] => status'[q] = status[q]
    BY <1>7, <2>1 DEF FailRound, TypeOK
  <2> QED BY <1>0, <2>1, <2>2, <2>3 DEF OneInv, EndKept, Owning
<1> QED BY <1>1, <1>2, <1>3, <1>4, <1>5, <1>6, <1>7 DEF Aggregate

\* Every step keeps both.
LEMMA OneStep ==
  ASSUME TypeOK, KnownInv, OneInv, [Next]_vars, \A i, j \in Instances : i = j, "ack" \notin Faults
  PROVE  OneInv' /\ EndKept
<1> DEFINE Goal == OneInv' /\ EndKept
<1>1. ASSUME UNCHANGED vars PROVE Goal
  BY <1>1, OneFrame DEF vars, table, local
<1>2. ASSUME NEW r \in Rounds, OpenRound(r) PROVE Goal
  BY <1>2, OneOpen
<1>3. ASSUME NEW r \in Rounds, Expire(r) PROVE Goal
  BY <1>3, OneFrame DEF Expire, table, local
<1>4. ASSUME NEW r \in Rounds, NEW n \in Nodes, Upload(r, n) PROVE Goal
  BY <1>4, OneFrame DEF Upload, table, local
<1>5. ASSUME NEW i \in Instances, NEW r \in Rounds, NEW n \in Nodes, CheckOpen(i, r, n) \/ Upsert(i, r, n)
      PROVE  Goal
  BY <1>5, OneFrame DEF CheckOpen, Upsert, table, local
<1>6. ASSUME NEW i \in Instances, NEW r \in Rounds, StampOTS(i, r) PROVE Goal
  BY <1>6, OneFrame DEF StampOTS, local
<1>7. ASSUME NEW i \in Instances, SelectExpired(i) \/ Aggregate(i) \/ Crash(i) PROVE Goal
  <2>1. \A j \in Instances : j = i
    OBVIOUS
  <2> QED BY <1>7, <2>1, OneTicker
<1> HIDE DEF Goal
<1>8. Goal
  BY <1>1, <1>2, <1>3, <1>4, <1>5, <1>6, <1>7 DEF Next
<1> QED BY <1>8 DEF Goal

\* TerminalIsFinal: with one coordinator process, and statements that are
\* answered when they are applied, no ticker changes a round that is complete
\* or failed, through crashes and the other failures.
THEOREM TerminalIsFinalHolds ==
  ASSUME \A i, j \in Instances : i = j, "ack" \notin Faults
  PROVE  Spec => TerminalIsFinal
<1>1. Init => OneInv
  BY DEF Init, OneInv, Owning
<1>2. TypeOK /\ KnownInv /\ OneInv /\ [Next]_vars => OneInv' /\ EndKept
  BY OneStep
<1>3. EndKept => [EndKept]_status
  OBVIOUS
<1>4. Spec => [][EndKept]_status
  BY <1>1, <1>2, <1>3, TypeCorrect, KnownHolds, PTL DEF Spec
<1> QED BY <1>4 DEF TerminalIsFinal, EndKept
=============================================================================
