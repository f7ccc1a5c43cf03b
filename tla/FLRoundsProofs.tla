--------------------------- MODULE FLRoundsProofs ---------------------------
(***************************************************************************)
(* Theorems about FLRounds, for any number of rounds, nodes and processes  *)
(* and any failures.                                                       *)
(***************************************************************************)
EXTENDS FLRounds, Integers, FiniteSetTheorems, TLAPS

\* A process between the compare-and-set and completeRound owns a round that
\* is no longer open and has no checkpoint yet.
OwnerInv ==
  \A i \in Instances : pc[i] \in Owning =>
    status[cur[i]] \notin {"absent", "open"} /\ hash[cur[i]] = NoVersions

\* A round that was never aggregated has no checkpoint.
OpenInv == \A r \in Rounds : status[r] \in {"absent", "open"} => hash[r] = NoVersions

Inv == TypeOK /\ OneAggregator /\ OwnerInv /\ OpenInv

-----------------------------------------------------------------------------
(* The median                                                              *)

\* Of a list in ascending order at most the upper half is above the median, and
\* so above any threshold that is at least the median.
LEMMA UpperHalf ==
  ASSUME NEW len \in Nat \ {0}, NEW b \in [1..len -> Nat],
         \A i, j \in 1..len : i <= j => b[i] <= b[j],
         NEW i \in 1..len, 2 * b[i] > TwiceMedian(b, len)
  PROVE  i \in (len - len \div 2 + 1)..len
<1> DEFINE mid == len \div 2
<1>1. mid \in Nat /\ (len = 2 * mid \/ len = 2 * mid + 1) /\ (len % 2 = 1 <=> len = 2 * mid + 1)
  OBVIOUS
<1>2. TwiceMedian(b, len) = IF len % 2 = 1 THEN 2 * b[mid + 1] ELSE b[mid] + b[mid + 1]
  BY DEF TwiceMedian
<1> HIDE DEF mid
<1>3. SUFFICES ASSUME i <= len - mid PROVE FALSE
  BY <1>1 DEF mid
<1>4. CASE len % 2 = 1
  <2>1. mid + 1 \in 1..len /\ i <= mid + 1
    BY <1>1, <1>3, <1>4
  <2>2. b[i] <= b[mid + 1] /\ b[i] \in Nat /\ b[mid + 1] \in Nat
    BY <2>1
  <2> QED BY <1>2, <1>4, <2>2
<1>5. CASE ~(len % 2 = 1)
  <2>1. mid \in 1..len /\ mid + 1 \in 1..len /\ i <= mid
    BY <1>1, <1>3, <1>5
  <2>2. b[i] <= b[mid] /\ b[mid] <= b[mid + 1] /\ b[i] \in Nat /\ b[mid] \in Nat /\ b[mid + 1] \in Nat
    BY <2>1
  <2> QED BY <1>2, <1>5, <2>2
<1> QED BY <1>4, <1>5

\* Why Outliers has every set that anomalyFilter can flag: whatever the norms of
\* the readable gradients S, listed in ascending order, the nodes above their
\* median plus a margin, which is a multiple of a standard deviation, are at most
\* half of S.
THEOREM FlaggedAreOutliers ==
  ASSUME NEW S, IsFiniteSet(S), S # {}, NEW norm \in [S -> Nat],
         NEW list \in Bijection(1..Cardinality(S), S),
         \A i, j \in 1..Cardinality(S) : i <= j => norm[list[i]] <= norm[list[j]],
         NEW margin \in Nat
  PROVE  LET b == [i \in 1..Cardinality(S) |-> norm[list[i]]]
         IN  {n \in S : 2 * norm[n] > TwiceMedian(b, Cardinality(S)) + margin} \in Outliers(S)
<1> DEFINE len == Cardinality(S)
           b == [i \in 1..len |-> norm[list[i]]]
           X == {n \in S : 2 * norm[n] > TwiceMedian(b, len) + margin}
           U == (len - len \div 2 + 1)..len
           I == {i \in 1..len : list[i] \in X}
<1>1. len \in Nat \ {0} /\ list \in [1..len -> S] /\ \A n \in S : \E i \in 1..len : list[i] = n
  BY FS_CardinalityType, FS_EmptySet DEF Bijection, Surjection
<1>2. b \in [1..len -> Nat] /\ \A i, j \in 1..len : i <= j => b[i] <= b[j]
  BY <1>1
<1>3. TwiceMedian(b, len) \in Nat
  <2>1. CASE len = 1
    BY <1>2, <2>1 DEF TwiceMedian
  <2>2. CASE len # 1
    <3>1. len \div 2 \in 1..len /\ len \div 2 + 1 \in 1..len
      BY <1>1, <2>2
    <3>2. b[len \div 2] \in Nat /\ b[len \div 2 + 1] \in Nat
      BY <1>2, <3>1
    <3> HIDE DEF b, len
    <3> QED BY <3>2 DEF TwiceMedian
  <2> QED BY <2>1, <2>2
<1>4. I \subseteq U
  <2> SUFFICES ASSUME NEW i \in 1..len, list[i] \in X PROVE i \in U
    OBVIOUS
  <2>1. 2 * b[i] > TwiceMedian(b, len)
    <3>1. b[i] = norm[list[i]] /\ b[i] \in Nat
      BY <1>2
    <3> HIDE DEF b, len
    <3> QED BY <1>3, <3>1
  <2> HIDE DEF b, len
  <2> QED BY <1>1, <1>2, <2>1, UpperHalf
<1>5. IsFiniteSet(U) /\ Cardinality(U) = len \div 2
  <2> DEFINE low == len - len \div 2 + 1
  <2>1. len \div 2 \in Nat /\ low \in Int /\ len \in Int /\ 2 * (len \div 2) <= len
    BY <1>1
  <2>2. IsFiniteSet(low..len) /\ Cardinality(low..len) = IF low > len THEN 0 ELSE len - low + 1
    BY ONLY <2>1, FS_Interval
  <2>3. (IF low > len THEN 0 ELSE len - low + 1) = len \div 2
    BY ONLY <2>1
  <2> QED BY <2>2, <2>3
<1>6. IsFiniteSet(I) /\ Cardinality(I) <= len \div 2
  BY <1>4, <1>5, FS_Subset
<1>7. Cardinality(X) <= Cardinality(I) /\ IsFiniteSet(X)
  <2> DEFINE f == [i \in I |-> list[i]]
  <2>1. f \in Surjection(I, X)
    BY <1>1 DEF Surjection
  <2> QED BY <1>6, <2>1, FS_Surjection
<1>8. Cardinality(X) \in Nat /\ Cardinality(I) \in Nat
  BY <1>6, <1>7, FS_CardinalityType
<1>9. 2 * Cardinality(X) <= len
  <2> HIDE DEF len, X, I
  <2> QED BY <1>1, <1>6, <1>7, <1>8
<1> QED BY <1>9 DEF Outliers

-----------------------------------------------------------------------------
\* The initial state has the declared types.
LEMMA InitTypes == Init => TypeOK
BY NodesAssumption, CrashAssumption DEF Init, TypeOK, Versions, NoVersions, Steps

\* An upload keeps the types.
LEMMA UploadTypes ==
  ASSUME TypeOK, NEW r \in Rounds, NEW n \in Nodes, Upload(r, n)
  PROVE  TypeOK'
<1>1. blob[r] \in Versions /\ blob[r][n] \in 0..MaxUploads /\ blob[r][n] < MaxUploads
  BY DEF TypeOK, Upload, Versions
<1>2. blob[r][n] + 1 \in 0..MaxUploads
  BY <1>1, NodesAssumption
<1>3. [blob[r] EXCEPT ![n] = blob[r][n] + 1] \in Versions
  BY <1>1, <1>2 DEF Versions
<1>4. blob' = [blob EXCEPT ![r] = [blob[r] EXCEPT ![n] = blob[r][n] + 1]]
  BY DEF Upload
<1>5. blob' \in [Rounds -> Versions]
  BY <1>3, <1>4 DEF TypeOK
<1> QED BY <1>5 DEF TypeOK, Upload, table, local

\* A step of the ticker of one process keeps the types.
LEMMA TickerTypes ==
  ASSUME TypeOK, NEW i \in Instances,
         SelectExpired(i) \/ Aggregate(i) \/ Crash(i) \/ (\E r \in Rounds : StampOTS(i, r))
  PROVE  TypeOK'
<1> USE NodesAssumption, CrashAssumption, RoundsAssumption
<1>0. pc[i] \notin {"idle", "next"} => cur[i] \in Rounds
  BY DEF TypeOK
<1>z. NoVersions \in Versions
  BY DEF NoVersions, Versions
<1>1. CASE SelectExpired(i)
  BY <1>1 DEF TypeOK, SelectExpired, table, store, Steps
<1>2. ASSUME NEW r \in Rounds, Count(i, r) PROVE TypeOK'
  BY <1>2 DEF TypeOK, Count, table, store, Steps
<1>3. CASE Transition(i)
  BY <1>0, <1>3 DEF TypeOK, Transition, store, Steps
<1>4. CASE FetchGradients(i)
  BY SMTT(30), <1>0, <1>4 DEF TypeOK, FetchGradients, Abort, table, store, Steps
<1>5. ASSUME NEW F \in SUBSET Nodes, NEW X \in SUBSET Nodes, AnomalyFilter(i, F, X) PROVE TypeOK'
  <2> DEFINE v == [n \in Nodes |-> IF n \in Readable(i, F) THEN blob[cur[i]][n] ELSE 0]
  <2>1. v \in Versions
    BY <1>0, <1>5 DEF TypeOK, AnomalyFilter, Versions, Steps
  <2>2. judged' = [judged EXCEPT ![i] = v]
    BY <1>5 DEF AnomalyFilter
  <2>3. judged' \in [Instances -> Versions]
    BY <2>1, <2>2 DEF TypeOK
  <2>4. flagged' \in [Rounds -> SUBSET Nodes]
    BY <1>0, <1>5 DEF TypeOK, AnomalyFilter, Outliers, Steps
  <2>5. pc' \in [Instances -> Steps] /\ pc'[i] \in {"avg", "fail2"} /\ \A j \in Instances \ {i} : pc'[j] = pc[j]
    BY <1>5 DEF TypeOK, AnomalyFilter, Abort, Steps
  <2>6. got' \in [Instances -> SUBSET Nodes]
    BY <1>5 DEF TypeOK, AnomalyFilter
  <2>7. cur' = cur /\ pc[i] = "filter"
    BY <1>5 DEF AnomalyFilter
  <2> QED BY <1>5, <1>0, <2>3, <2>4, <2>5, <2>6, <2>7 DEF TypeOK, AnomalyFilter, store
<1>6. CASE FedAvg(i)
  <2>1. WeightedAverage(i) \in Versions
    BY <1>0, <1>6 DEF TypeOK, FedAvg, Versions, WeightedAverage
  <2>2. avg' \in [Instances -> Versions] /\ model' \in [Rounds -> Versions]
    BY <2>1, <1>0, <1>6 DEF TypeOK, FedAvg
  <2>3. pc' \in [Instances -> Steps] /\ pc'[i] \in {"complete", "fail2"} /\ \A j \in Instances \ {i} : pc'[j] = pc[j]
    BY <1>6 DEF TypeOK, FedAvg, Abort, Steps
  <2>4. cur' = cur /\ pc[i] = "avg"
    BY <1>6 DEF FedAvg
  <2> QED BY <1>6, <1>0, <2>2, <2>3, <2>4 DEF TypeOK, FedAvg, table
<1>7. CASE CompleteRound(i)
  BY SMTT(30), <1>0, <1>7 DEF TypeOK, CompleteRound, Finish, store, Steps
<1>8. CASE FailRound(i)
  BY SMTT(30), <1>0, <1>8 DEF TypeOK, FailRound, Finish, store, Steps
<1>9. CASE Crash(i)
  BY <1>9, <1>z DEF TypeOK, Crash, table, store, Steps
<1>10. ASSUME NEW r \in Rounds, StampOTS(i, r) PROVE TypeOK'
  BY <1>10 DEF TypeOK, StampOTS, store, local
<1> QED BY <1>1, <1>2, <1>3, <1>4, <1>5, <1>6, <1>7, <1>8, <1>9, <1>10 DEF Aggregate

\* Every step keeps the types.
LEMMA StepTypes == TypeOK /\ [Next]_vars => TypeOK'
<1> SUFFICES ASSUME TypeOK, [Next]_vars PROVE TypeOK'
  OBVIOUS
<1>1. CASE UNCHANGED vars
  BY <1>1 DEF vars, table, store, local, TypeOK
<1>2. ASSUME NEW r \in Rounds, OpenRound(r) PROVE TypeOK'
  BY <1>2, NodesAssumption, CrashAssumption DEF TypeOK, OpenRound, store, local, Versions
<1>3. ASSUME NEW r \in Rounds, Expire(r) PROVE TypeOK'
  BY <1>3, NodesAssumption, CrashAssumption DEF TypeOK, Expire, table, store, local, Versions
<1>4. ASSUME NEW r \in Rounds, NEW n \in Nodes, Upload(r, n) PROVE TypeOK'
  BY <1>4, UploadTypes
<1>5. ASSUME NEW i \in Instances, NEW r \in Rounds, NEW n \in Nodes,
             CheckOpen(i, r, n) \/ Upsert(i, r, n)
      PROVE  TypeOK'
  <2>1. CASE CheckOpen(i, r, n)
    BY <2>1, NodesAssumption, CrashAssumption DEF TypeOK, CheckOpen, table, store, local, Versions
  <2>2. CASE Upsert(i, r, n)
    BY <2>2, NodesAssumption, CrashAssumption DEF TypeOK, Upsert, store, local, Versions
  <2> QED BY <1>5, <2>1, <2>2
<1>6. ASSUME NEW i \in Instances, SelectExpired(i) \/ Aggregate(i) \/ Crash(i) PROVE TypeOK'
  BY <1>6, TickerTypes
<1>7. ASSUME NEW i \in Instances, NEW r \in Rounds, StampOTS(i, r) PROVE TypeOK'
  BY <1>7, TickerTypes
<1> QED BY <1>1, <1>2, <1>3, <1>4, <1>5, <1>6, <1>7 DEF Next

\* Types: FLRounds keeps the declared types, whatever fails.
THEOREM TypeCorrect == Spec => []TypeOK
BY InitTypes, StepTypes, PTL DEF Spec

-----------------------------------------------------------------------------
\* A process in one of the owning steps has a round in hand.
LEMMA OwnersHaveRounds == TypeOK => \A j \in Instances : pc[j] \in Owning => cur[j] \in Rounds
BY DEF TypeOK, Owning

\* A step that leaves status, hash, pc and cur alone keeps the invariant.
LEMMA FrameInv ==
  ASSUME Inv, TypeOK', UNCHANGED <<status, hash, pc, cur>>
  PROVE  Inv'
BY DEF Inv, OneAggregator, OwnerInv, OpenInv

\* A process that goes from one step to another after the compare-and-set, or
\* leaves it, with the rows unchanged, keeps the invariant.
LEMMA MoveInv ==
  ASSUME Inv, TypeOK', NEW i \in Instances,
         UNCHANGED <<status, hash>>,
         \A j \in Instances \ {i} : pc'[j] = pc[j] /\ cur'[j] = cur[j],
         pc'[i] \in Owning => pc[i] \in Owning /\ cur'[i] = cur[i]
  PROVE  Inv'
BY DEF Inv, OneAggregator, OwnerInv, OpenInv

\* A step that takes the round of process i out of 'open' for good, keeps its
\* checkpoint, and leaves process i outside the owning steps.
LEMMA SettleInv ==
  ASSUME Inv, TypeOK', NEW i \in Instances, NEW r \in Rounds,
         NEW s \in {"aggregating", "complete", "failed"},
         status' = [status EXCEPT ![r] = s],
         UNCHANGED hash,
         \A j \in Instances \ {i} : pc'[j] = pc[j] /\ cur'[j] = cur[j],
         pc'[i] \notin Owning
  PROVE  Inv'
<1>1. OneAggregator'
  BY DEF Inv, OneAggregator
<1>2. \A q \in Rounds : status'[q] = status[q] \/ status'[q] \notin {"absent", "open"}
  BY DEF Inv, TypeOK
<1>3. \A j \in Instances : pc[j] \in Owning => cur[j] \in Rounds
  BY OwnersHaveRounds DEF Inv
<1>4. OwnerInv'
  <2> SUFFICES ASSUME NEW j \in Instances, pc'[j] \in Owning
               PROVE  status'[cur'[j]] \notin {"absent", "open"} /\ hash'[cur'[j]] = NoVersions
    BY DEF OwnerInv
  <2>1. j # i /\ pc[j] \in Owning /\ cur'[j] = cur[j] /\ cur[j] \in Rounds
    BY <1>3
  <2>2. status[cur[j]] \notin {"absent", "open"} /\ hash[cur[j]] = NoVersions
    BY <2>1 DEF Inv, OwnerInv
  <2> QED BY <1>2, <2>1, <2>2
<1>5. OpenInv'
  BY <1>2 DEF Inv, OpenInv
<1> QED BY <1>1, <1>4, <1>5 DEF Inv

\* The step of the compare-and-set: the round was open, so nobody owns it.
LEMMA TransitionInv ==
  ASSUME Inv, TypeOK', NEW i \in Instances, Transition(i)
  PROVE  Inv'
<1>1. cur[i] \in Rounds
  BY DEF Inv, TypeOK, Transition
<1>2. CASE status' = status
  <2>1. pc' = [pc EXCEPT ![i] = "fail"] /\ UNCHANGED <<hash, cur>>
    BY <1>1, <1>2 DEF Transition, Inv, TypeOK
  <2> QED BY <1>2, <2>1, MoveInv DEF Inv, TypeOK, Owning
<1>3. CASE status' # status
  <2>1. status[cur[i]] = "open" /\ status' = [status EXCEPT ![cur[i]] = "aggregating"]
    BY <1>3 DEF Transition
  <2>2. \A j \in Instances : pc[j] \in Owning => cur[j] # cur[i]
    BY <2>1 DEF Inv, OwnerInv
  <2>3. \A j \in Instances : pc[j] \in Owning => cur[j] \in Rounds
    BY OwnersHaveRounds DEF Inv
  <2>4. UNCHANGED <<hash, cur>> /\ pc' \in {[pc EXCEPT ![i] = "fetch"], [pc EXCEPT ![i] = "fail"]}
    BY DEF Transition
  <2>5. \A j \in Instances \ {i} : pc'[j] = pc[j]
    BY <2>4 DEF Inv, TypeOK
  <2>6. hash[cur[i]] = NoVersions
    BY <1>1, <2>1 DEF Inv, OpenInv
  <2>7. OneAggregator'
    BY <2>2, <2>4, <2>5 DEF Inv, OneAggregator
  <2>8. OwnerInv'
    BY ZenonT(40), <1>1, <2>1, <2>2, <2>3, <2>4, <2>5, <2>6 DEF Inv, TypeOK, OwnerInv
  <2>9. OpenInv'
    BY <1>1, <2>1, <2>4 DEF Inv, TypeOK, OpenInv
  <2> QED BY <2>7, <2>8, <2>9 DEF Inv
<1> QED BY <1>2, <1>3

\* completeRound: only its owner writes the checkpoint of a round.
LEMMA CompleteInv ==
  ASSUME Inv, TypeOK', NEW i \in Instances, CompleteRound(i)
  PROVE  Inv' /\ (\A r \in Rounds : hash[r] # NoVersions => hash'[r] = hash[r])
<1>1. cur[i] \in Rounds /\ pc[i] \in Owning
  BY DEF Inv, TypeOK, CompleteRound, Owning
<1>2. \A j \in Instances \ {i} : /\ pc'[j] = pc[j] /\ cur'[j] = cur[j]
                                 /\ pc[j] \in Owning => cur[j] # cur[i] /\ cur[j] \in Rounds
  BY <1>1 DEF Inv, TypeOK, OneAggregator, CompleteRound, Finish, Owning
<1>3. pc'[i] \notin Owning
  BY DEF Inv, TypeOK, CompleteRound, Finish, Owning
<1>4. hash[cur[i]] = NoVersions
  BY <1>1 DEF Inv, OwnerInv
<1>5. CASE UNCHANGED <<status, hash>>
  BY <1>2, <1>3, <1>5, MoveInv
<1>6. CASE status' = [status EXCEPT ![cur[i]] = "complete"] /\ hash' = [hash EXCEPT ![cur[i]] = avg[i]]
  <2>1. OneAggregator'
    BY <1>2, <1>3 DEF Inv, OneAggregator
  <2>2. OwnerInv'
    <3> SUFFICES ASSUME NEW j \in Instances, pc'[j] \in Owning
                 PROVE  status'[cur'[j]] \notin {"absent", "open"} /\ hash'[cur'[j]] = NoVersions
      BY DEF OwnerInv
    <3>1. j # i /\ pc[j] \in Owning /\ cur'[j] = cur[j] /\ cur[j] \in Rounds /\ cur[j] # cur[i]
      BY <1>2, <1>3
    <3>2. status'[cur[j]] = status[cur[j]] /\ hash'[cur[j]] = hash[cur[j]]
      BY <3>1, <1>6 DEF Inv, TypeOK
    <3> QED BY <3>1, <3>2 DEF Inv, OwnerInv
  <2>3. OpenInv'
    BY <1>1, <1>6 DEF Inv, TypeOK, OpenInv
  <2>4. \A r \in Rounds : hash[r] # NoVersions => hash'[r] = hash[r]
    BY <1>1, <1>4, <1>6 DEF Inv, TypeOK
  <2> QED BY <2>1, <2>2, <2>3, <2>4 DEF Inv
<1> QED BY <1>5, <1>6 DEF CompleteRound

\* failRound leaves the round out of 'open' or as it is.
LEMMA FailInv ==
  ASSUME Inv, TypeOK', NEW i \in Instances, FailRound(i)
  PROVE  Inv'
<1>1. cur[i] \in Rounds
  BY DEF Inv, TypeOK, FailRound
<1>2. /\ \A j \in Instances \ {i} : pc'[j] = pc[j] /\ cur'[j] = cur[j]
      /\ pc'[i] \notin Owning /\ UNCHANGED hash
  BY DEF Inv, TypeOK, FailRound, Finish, Owning
<1>3. CASE UNCHANGED status
  BY <1>2, <1>3, MoveInv
<1>4. CASE status' = [status EXCEPT ![cur[i]] = "failed"]
  BY <1>1, <1>2, <1>4, SettleInv
<1> QED BY <1>3, <1>4 DEF FailRound

\* Every step keeps the invariant and every checkpoint.
LEMMA StepInv ==
  ASSUME Inv, [Next]_vars
  PROVE  Inv' /\ (\A r \in Rounds : hash[r] # NoVersions => hash'[r] = hash[r])
<1>t. TypeOK'
  BY StepTypes DEF Inv
<1> DEFINE Kept == \A r \in Rounds : hash[r] # NoVersions => hash'[r] = hash[r]
<1>1. CASE UNCHANGED vars
  BY <1>1, <1>t, FrameInv DEF vars, table, local
<1>2. ASSUME NEW r \in Rounds, OpenRound(r) PROVE Inv' /\ Kept
  <2>1. status[r] = "absent" /\ status' = [status EXCEPT ![r] = "open"] /\ UNCHANGED <<hash, pc, cur>>
    BY <1>2 DEF OpenRound, local
  <2>2. OneAggregator'
    BY <2>1 DEF Inv, OneAggregator
  <2>3. OwnerInv'
    BY <2>1 DEF Inv, TypeOK, OwnerInv, Owning
  <2>4. OpenInv'
    BY <2>1 DEF Inv, TypeOK, OpenInv
  <2> QED BY <1>t, <2>1, <2>2, <2>3, <2>4 DEF Inv
<1>3. ASSUME NEW r \in Rounds, Expire(r) PROVE Inv' /\ Kept
  BY <1>3, <1>t, FrameInv DEF Expire, table, local
<1>4. ASSUME NEW r \in Rounds, NEW n \in Nodes, Upload(r, n) PROVE Inv' /\ Kept
  BY <1>4, <1>t, FrameInv DEF Upload, table, local
<1>5. ASSUME NEW i \in Instances, NEW r \in Rounds, NEW n \in Nodes,
             CheckOpen(i, r, n) \/ Upsert(i, r, n)
      PROVE  Inv' /\ Kept
  BY <1>5, <1>t, FrameInv DEF CheckOpen, Upsert, table, local
<1>6. ASSUME NEW i \in Instances, NEW r \in Rounds, StampOTS(i, r) PROVE Inv' /\ Kept
  BY <1>6, <1>t, FrameInv DEF StampOTS, local
<1>7. ASSUME NEW i \in Instances, SelectExpired(i) \/ Crash(i) \/ (\E r \in Rounds : Count(i, r)) PROVE Inv' /\ Kept
  <2>1. /\ UNCHANGED <<status, hash>>
        /\ \A j \in Instances \ {i} : pc'[j] = pc[j] /\ cur'[j] = cur[j]
        /\ pc'[i] \notin Owning
    BY <1>7 DEF SelectExpired, Crash, Count, table, Inv, TypeOK, Owning
  <2> QED BY <2>1, <1>t, MoveInv
<1>8. ASSUME NEW i \in Instances,
             FetchGradients(i) \/ (\E F, X \in SUBSET Nodes : AnomalyFilter(i, F, X)) \/ FedAvg(i)
      PROVE  Inv' /\ Kept
  <2>1. UNCHANGED <<status, hash, cur>> /\ pc[i] \in Owning
    BY <1>8 DEF FetchGradients, AnomalyFilter, FedAvg, table, Owning
  <2>2. \A j \in Instances \ {i} : pc'[j] = pc[j]
    BY ZenonT(40), <1>8 DEF FetchGradients, AnomalyFilter, FedAvg, Abort, Inv, TypeOK
  <2> QED BY <2>1, <2>2, <1>t, MoveInv
<1>9. ASSUME NEW i \in Instances, Transition(i) PROVE Inv' /\ Kept
  BY <1>9, <1>t, TransitionInv DEF Transition
<1>10. ASSUME NEW i \in Instances, CompleteRound(i) PROVE Inv' /\ Kept
  BY <1>10, <1>t, CompleteInv
<1>11. ASSUME NEW i \in Instances, FailRound(i) PROVE Inv' /\ Kept
  BY <1>11, <1>t, FailInv DEF FailRound
<1> QED
  BY <1>1, <1>2, <1>3, <1>4, <1>5, <1>6, <1>7, <1>8, <1>9, <1>10, <1>11 DEF Next, Aggregate

\* The invariant holds initially.
LEMMA InitInv == Init => Inv
BY InitTypes DEF Init, Inv, OneAggregator, OwnerInv, OpenInv, Owning

\* The invariant holds always.
THEOREM InvariantHolds == Spec => []Inv
<1>1. Inv /\ [Next]_vars => Inv'
  BY StepInv
<1> QED BY <1>1, InitInv, PTL DEF Spec

\* The compare-and-set in TryAggregate elects one aggregator per round, however
\* many processes run the ticker and whatever fails.
THEOREM OneAggregatorHolds == Spec => []OneAggregator
<1>1. Inv => OneAggregator
  BY DEF Inv
<1> QED BY <1>1, InvariantHolds, PTL

\* completeRound never replaces a recorded checkpoint, although its UPDATE has
\* no condition.
THEOREM CheckpointIsFinalHolds == Spec => CheckpointIsFinal
<1>1. Inv /\ [Next]_vars => [\A r \in Rounds : hash[r] # NoVersions => hash'[r] = hash[r]]_hash
  BY StepInv
<1> QED BY <1>1, InvariantHolds, PTL DEF Spec, CheckpointIsFinal

-----------------------------------------------------------------------------
(* The checkpoint of a complete round                                      *)

\* What process i knows of its round on the way from the compare-and-set to
\* completeRound.
Work(i) ==
  /\ pc[i] \in Owning => status[cur[i]] \in {"aggregating", "failed"}
  /\ pc[i] \in {"fetch", "filter"} => flagged[cur[i]] = {}
  /\ pc[i] = "filter" => got[i] \subseteq parts[cur[i]]
  /\ pc[i] \in {"avg", "complete"} => /\ got[i] \subseteq parts[cur[i]] \ flagged[cur[i]]
                                      /\ Cardinality(got[i]) >= MinParticipants
  /\ pc[i] = "complete" => /\ avg[i] = model[cur[i]]
                           /\ HasStorage => {n \in Nodes : avg[i][n] > 0} = got[i]

\* Nobody is flagged in a round before it is aggregated, and without storage
\* there is no checkpoint object.
Fresh(r) ==
  /\ status[r] \in {"absent", "open"} => flagged[r] = {}
  /\ ~HasStorage => model[r] = NoVersions

SoundInv == (\A i \in Instances : Work(i)) /\ (\A r \in Rounds : Fresh(r)) /\ CompleteIsSound

\* A step that changes none of the variables SoundInv speaks of, except that a
\* round may gain participants, keeps it.
LEMMA FrameSound ==
  ASSUME Inv, SoundInv, UNCHANGED <<status, flagged, hash, model, pc, cur, got, avg>>,
         \A r \in Rounds : parts[r] \subseteq parts'[r]
  PROVE  SoundInv'
<1>1. \A i \in Instances : Work(i)'
  <2> TAKE i \in Instances
  <2>1. Work(i)
    BY DEF SoundInv
  <2>2. pc[i] \in Owning => cur[i] \in Rounds
    BY OwnersHaveRounds DEF Inv
  <2> QED BY <2>1, <2>2 DEF Work, Owning
<1>2. \A r \in Rounds : Fresh(r)'
  BY DEF SoundInv, Fresh
<1>3. CompleteIsSound'
  BY DEF SoundInv, CompleteIsSound
<1> QED BY <1>1, <1>2, <1>3 DEF SoundInv

\* A process that takes up or puts down a round, outside the owning steps, with
\* tables and storage unchanged, keeps it.
LEMMA LeaveSound ==
  ASSUME SoundInv, NEW i \in Instances,
         UNCHANGED <<status, flagged, hash, model, parts>>,
         \A j \in Instances \ {i} : pc'[j] = pc[j] /\ cur'[j] = cur[j] /\ got'[j] = got[j] /\ avg'[j] = avg[j],
         pc'[i] \notin Owning
  PROVE  SoundInv'
<1>1. \A j \in Instances : Work(j)'
  <2> TAKE j \in Instances
  <2>1. CASE j = i
    BY <2>1 DEF Work, Owning
  <2>2. CASE j # i
    BY <2>2 DEF SoundInv, Work
  <2> QED BY <2>1, <2>2
<1>2. \A r \in Rounds : Fresh(r)'
  BY DEF SoundInv, Fresh
<1>3. CompleteIsSound'
  BY DEF SoundInv, CompleteIsSound
<1> QED BY <1>1, <1>2, <1>3 DEF SoundInv

\* OpenRound keeps it.
LEMMA OpenSound ==
  ASSUME Inv, SoundInv, NEW r \in Rounds, OpenRound(r)
  PROVE  SoundInv'
<1>1. /\ status[r] = "absent" /\ status' = [status EXCEPT ![r] = "open"]
      /\ UNCHANGED <<parts, flagged, hash, model, pc, cur, got, avg>>
  BY DEF OpenRound, store, local
<1>2. \A q \in Rounds : q # r => status'[q] = status[q]
  BY <1>1 DEF Inv, TypeOK
<1>3. status'[r] = "open"
  BY <1>1 DEF Inv, TypeOK
<1>4. \A i \in Instances : Work(i)'
  <2> TAKE i \in Instances
  <2>1. Work(i)
    BY DEF SoundInv
  <2>2. pc[i] \in Owning => cur[i] \in Rounds /\ cur[i] # r
    BY <1>1, OwnersHaveRounds DEF Inv, OwnerInv
  <2> QED BY <1>1, <1>2, <2>1, <2>2 DEF Work
<1>5. \A q \in Rounds : Fresh(q)'
  BY <1>1, <1>2 DEF SoundInv, Fresh
<1>6. CompleteIsSound'
  BY <1>1, <1>2, <1>3 DEF SoundInv, CompleteIsSound
<1> QED BY <1>4, <1>5, <1>6 DEF SoundInv

\* The compare-and-set keeps it: a round that was open has nobody flagged.
LEMMA TransitionSound ==
  ASSUME Inv, SoundInv, NEW i \in Instances, Transition(i)
  PROVE  SoundInv'
<1>0. cur[i] \in Rounds
  BY DEF Inv, TypeOK, Transition
<1>1. UNCHANGED <<parts, flagged, hash, model, cur, got, avg>>
  BY DEF Transition, store
<1>2. \A j \in Instances \ {i} : pc'[j] = pc[j]
  BY DEF Transition, Inv, TypeOK
<1>3. CASE UNCHANGED status
  <2>1. pc'[i] = "fail"
    BY <1>0, <1>3 DEF Transition, Inv, TypeOK
  <2> QED BY <1>1, <1>2, <1>3, <2>1, LeaveSound DEF Owning
<1>4. CASE status' # status
  <2>1. /\ status[cur[i]] = "open" /\ status' = [status EXCEPT ![cur[i]] = "aggregating"]
        /\ pc' \in {[pc EXCEPT ![i] = "fetch"], [pc EXCEPT ![i] = "fail"]}
    BY <1>4 DEF Transition
  <2>2. pc'[i] \in {"fetch", "fail"}
    BY <2>1 DEF Inv, TypeOK
  <2>3. status'[cur[i]] = "aggregating" /\ \A q \in Rounds : q # cur[i] => status'[q] = status[q]
    BY <1>0, <2>1 DEF Inv, TypeOK
  <2>4. flagged[cur[i]] = {}
    BY <1>0, <2>1 DEF SoundInv, Fresh
  <2>5. \A j \in Instances : Work(j)'
    <3> TAKE j \in Instances
    <3>1. CASE j = i
      BY <3>1, <1>1, <2>2, <2>3, <2>4 DEF Work, Owning
    <3>2. CASE j # i
      <4>1. Work(j) /\ pc'[j] = pc[j]
        BY <3>2, <1>2 DEF SoundInv
      <4>2. pc[j] \in Owning => cur[j] \in Rounds
        BY OwnersHaveRounds DEF Inv
      <4> QED BY <4>1, <4>2, <1>1, <2>3 DEF Work
    <3> QED BY <3>1, <3>2
  <2>6. \A q \in Rounds : Fresh(q)'
    BY <1>1, <2>3 DEF SoundInv, Fresh
  <2>7. CompleteIsSound'
    BY <1>1, <2>3 DEF SoundInv, CompleteIsSound
  <2> QED BY <2>5, <2>6, <2>7 DEF SoundInv
<1> QED BY <1>3, <1>4

\* fetchGradientHashes keeps it.
LEMMA FetchSound ==
  ASSUME Inv, SoundInv, NEW i \in Instances, FetchGradients(i)
  PROVE  SoundInv'
<1>1. UNCHANGED <<status, parts, flagged, hash, model, cur, avg>> /\ pc[i] = "fetch"
  BY DEF FetchGradients, table, store
<1>2. \A j \in Instances \ {i} : pc'[j] = pc[j] /\ got'[j] = got[j]
  BY DEF FetchGradients, Abort, Inv, TypeOK
<1>3. CASE pc'[i] = "fail2"
  BY <1>1, <1>2, <1>3, LeaveSound DEF Owning
<1>4. CASE pc'[i] = "filter" /\ got'[i] = parts[cur[i]]
  <2>1. \A j \in Instances : Work(j)'
    <3> TAKE j \in Instances
    <3>1. Work(j)
      BY DEF SoundInv
    <3>2. CASE j = i
      BY <3>1, <3>2, <1>1, <1>4 DEF Work, Owning
    <3>3. CASE j # i
      BY <3>1, <3>3, <1>1, <1>2 DEF Work
    <3> QED BY <3>2, <3>3
  <2>2. \A q \in Rounds : Fresh(q)'
    BY <1>1 DEF SoundInv, Fresh
  <2>3. CompleteIsSound'
    BY <1>1 DEF SoundInv, CompleteIsSound
  <2> QED BY <2>1, <2>2, <2>3 DEF SoundInv
<1> QED BY <1>3, <1>4 DEF FetchGradients, Abort, Inv, TypeOK

\* A process that owns a round is the only one, and the round is not complete.
LEMMA OwnerAlone ==
  ASSUME Inv, SoundInv, NEW i \in Instances, pc[i] \in Owning
  PROVE  /\ cur[i] \in Rounds
         /\ status[cur[i]] \in {"aggregating", "failed"}
         /\ \A j \in Instances \ {i} : pc[j] \in Owning => cur[j] # cur[i] /\ cur[j] \in Rounds
<1>1. cur[i] \in Rounds /\ \A j \in Instances : pc[j] \in Owning => cur[j] \in Rounds
  BY OwnersHaveRounds DEF Inv
<1>2. status[cur[i]] \in {"aggregating", "failed"}
  BY DEF SoundInv, Work
<1> QED BY <1>1, <1>2 DEF Inv, OneAggregator

\* anomalyFilter keeps it: flagged nodes are no longer accepted, and the quorum
\* is checked again.
LEMMA FilterSound ==
  ASSUME Inv, SoundInv, NEW i \in Instances,
         NEW F \in SUBSET Nodes, NEW X \in SUBSET Nodes, AnomalyFilter(i, F, X)
  PROVE  SoundInv'
<1>1. UNCHANGED <<status, parts, hash, model, cur, avg>> /\ pc[i] = "filter"
  BY DEF AnomalyFilter, store
<1>2. pc[i] \in Owning
  BY <1>1 DEF Owning
<1>3. got'[i] = got[i] \ X /\ \A j \in Instances \ {i} : pc'[j] = pc[j] /\ got'[j] = got[j]
  BY DEF AnomalyFilter, Abort, Inv, TypeOK
<1>4. PICK Y \in SUBSET X : flagged' = [flagged EXCEPT ![cur[i]] = @ \cup Y]
  BY DEF AnomalyFilter
<1>5. flagged'[cur[i]] = flagged[cur[i]] \cup Y /\ \A q \in Rounds : q # cur[i] => flagged'[q] = flagged[q]
  BY <1>2, <1>4, OwnerAlone DEF Inv, TypeOK
<1>6. pc'[i] = "fail2" \/ (pc'[i] = "avg" /\ Cardinality(got[i] \ X) >= MinParticipants)
  <2>1. CASE Cardinality(got[i] \ X) < MinParticipants
    BY <2>1 DEF AnomalyFilter, Abort, Inv, TypeOK
  <2>2. CASE ~(Cardinality(got[i] \ X) < MinParticipants)
    <3>1. pc'[i] = "avg"
      BY <2>2 DEF AnomalyFilter, Inv, TypeOK
    <3>2. got[i] \ X \subseteq Nodes
      BY DEF Inv, TypeOK
    <3>3. Cardinality(got[i] \ X) \in Nat
      BY <3>2, NodesAssumption, FS_Subset, FS_CardinalityType
    <3> QED BY <2>2, <3>1, <3>3, NodesAssumption
  <2> QED BY <2>1, <2>2
<1>7. \A j \in Instances : Work(j)'
  <2> TAKE j \in Instances
  <2>1. Work(j)
    BY DEF SoundInv
  <2>2. CASE j = i
    <3>1. flagged'[cur[i]] \subseteq X /\ got'[i] \subseteq parts[cur[i]] \ flagged'[cur[i]]
      BY <2>1, <2>2, <1>1, <1>3, <1>5 DEF Work
    <3> QED BY <2>1, <2>2, <3>1, <1>1, <1>3, <1>6 DEF Work, Owning
  <2>3. CASE j # i
    BY <2>1, <2>3, <1>1, <1>2, <1>3, <1>5, OwnerAlone DEF Work, Owning
  <2> QED BY <2>2, <2>3
<1>8. \A q \in Rounds : Fresh(q)'
  BY <1>1, <1>2, <1>5, OwnerAlone DEF SoundInv, Fresh
<1>9. CompleteIsSound'
  BY <1>1, <1>2, <1>5, OwnerAlone DEF SoundInv, CompleteIsSound
<1> QED BY <1>7, <1>8, <1>9 DEF SoundInv

\* fedAvg keeps it: what it averages are the accepted gradients.
LEMMA FedAvgSound ==
  ASSUME Inv, SoundInv, NEW i \in Instances, FedAvg(i)
  PROVE  SoundInv'
<1> DEFINE v == WeightedAverage(i)
<1>1. UNCHANGED <<status, parts, flagged, hash, cur, got>> /\ pc[i] = "avg"
  BY DEF FedAvg, table
<1>2. pc[i] \in Owning
  BY <1>1 DEF Owning
<1>3. \A j \in Instances \ {i} : pc'[j] = pc[j] /\ avg'[j] = avg[j]
  BY DEF FedAvg, Abort, Inv, TypeOK
<1>4. \A q \in Rounds : q # cur[i] => model'[q] = model[q]
  BY <1>2, OwnerAlone DEF FedAvg, Inv, TypeOK
<1>5. ~HasStorage => model' = model
  BY DEF FedAvg
<1>6. pc'[i] = "fail2"
      \/ /\ pc'[i] = "complete" /\ avg'[i] = v
         /\ HasStorage => model'[cur[i]] = v /\ \A n \in got[i] : blob[cur[i]][n] > 0
  BY <1>2, OwnerAlone DEF FedAvg, Abort, Inv, TypeOK
<1>7. \A j \in Instances : Work(j)'
  <2> TAKE j \in Instances
  <2>1. Work(j)
    BY DEF SoundInv
  <2>2. CASE j = i /\ pc'[i] = "fail2"
    BY <2>2 DEF Work, Owning
  <2>3. CASE j = i /\ pc'[i] # "fail2"
    <3>1. avg'[i] = model'[cur[i]]
      <4>1. CASE HasStorage
        BY <4>1, <2>3, <1>6
      <4>2. CASE ~HasStorage
        <5>1. v = NoVersions
          BY <4>2 DEF WeightedAverage, NoVersions
        <5>2. model'[cur[i]] = NoVersions
          BY <4>2, <1>2, <1>5, OwnerAlone DEF SoundInv, Fresh
        <5> QED BY <5>1, <5>2, <2>3, <1>6
      <4> QED BY <4>1, <4>2
    <3>2. HasStorage => {n \in Nodes : avg'[i][n] > 0} = got[i]
      <4> SUFFICES ASSUME HasStorage PROVE {n \in Nodes : v[n] > 0} = got[i]
        BY <2>3, <1>6
      <4>1. got[i] \subseteq Nodes
        BY DEF Inv, TypeOK
      <4>2. \A n \in Nodes : v[n] = IF n \in got[i] THEN blob[cur[i]][n] ELSE 0
        BY DEF WeightedAverage
      <4>3. \A n \in got[i] : blob[cur[i]][n] > 0
        BY <2>3, <1>6
      <4> QED BY <4>1, <4>2, <4>3
    <3> QED BY <2>1, <2>3, <3>1, <3>2, <1>1, <1>6 DEF Work, Owning
  <2>4. CASE j # i
    BY <2>1, <2>4, <1>1, <1>2, <1>3, <1>4, OwnerAlone DEF Work, Owning
  <2> QED BY <2>2, <2>3, <2>4
<1>8. \A q \in Rounds : Fresh(q)'
  BY <1>1, <1>5 DEF SoundInv, Fresh
<1>9. CompleteIsSound'
  BY <1>1, <1>2, <1>4, OwnerAlone DEF SoundInv, CompleteIsSound
<1> QED BY <1>7, <1>8, <1>9 DEF SoundInv

\* completeRound keeps it: this is where a round becomes complete.
LEMMA CompleteSound ==
  ASSUME Inv, SoundInv, NEW i \in Instances, CompleteRound(i)
  PROVE  SoundInv'
<1>1. UNCHANGED <<parts, flagged, model, got, avg>> /\ pc[i] = "complete"
  BY DEF CompleteRound, store
<1>2. pc[i] \in Owning
  BY <1>1 DEF Owning
<1>3. pc'[i] \notin Owning /\ \A j \in Instances \ {i} : pc'[j] = pc[j] /\ cur'[j] = cur[j]
  BY DEF CompleteRound, Finish, Inv, TypeOK, Owning
<1>4. CASE UNCHANGED <<status, hash>>
  BY <1>1, <1>3, <1>4, LeaveSound
<1>5. CASE status' = [status EXCEPT ![cur[i]] = "complete"] /\ hash' = [hash EXCEPT ![cur[i]] = avg[i]]
  <2>1. /\ status'[cur[i]] = "complete" /\ hash'[cur[i]] = avg[i]
        /\ \A q \in Rounds : q # cur[i] => status'[q] = status[q] /\ hash'[q] = hash[q]
    BY <1>2, <1>5, OwnerAlone DEF Inv, TypeOK
  <2>2. \A j \in Instances : Work(j)'
    <3> TAKE j \in Instances
    <3>1. CASE j = i
      BY <3>1, <1>3 DEF Work, Owning
    <3>2. CASE j # i
      <4>1. Work(j)
        BY DEF SoundInv
      <4> QED BY <3>2, <4>1, <1>1, <1>2, <1>3, <2>1, OwnerAlone DEF Work, Owning
    <3> QED BY <3>1, <3>2
  <2>3. \A q \in Rounds : Fresh(q)'
    BY <1>1, <2>1 DEF SoundInv, Fresh
  <2>4. CompleteIsSound'
    <3>1. Work(i)
      BY DEF SoundInv
    <3>2. avg[i] = model[cur[i]] /\ (HasStorage => {n \in Nodes : avg[i][n] > 0} = got[i])
      BY <3>1, <1>1 DEF Work
    <3>3. got[i] \subseteq parts[cur[i]] \ flagged[cur[i]] /\ Cardinality(got[i]) >= MinParticipants
      BY <3>1, <1>1 DEF Work
    <3>4. cur[i] \in Rounds
      BY <1>2, OwnerAlone
    <3> SUFFICES ASSUME NEW q \in Rounds, status'[q] = "complete"
                 PROVE  /\ hash'[q] = model[q]
                        /\ HasStorage =>
                             /\ Cardinality({n \in Nodes : hash'[q][n] > 0}) >= MinParticipants
                             /\ {n \in Nodes : hash'[q][n] > 0} \subseteq parts[q] \ flagged[q]
      BY <1>1 DEF CompleteIsSound
    <3>5. CASE q = cur[i]
      <4>1. hash'[q] = avg[i]
        BY <3>5, <2>1
      <4>2. HasStorage => {n \in Nodes : hash'[q][n] > 0} = got[i]
        BY <4>1, <3>2
      <4> QED BY <4>1, <4>2, <3>2, <3>3, <3>5
    <3>6. CASE q # cur[i]
      <4>1. hash'[q] = hash[q] /\ status[q] = "complete"
        BY <3>6, <2>1
      <4> QED BY <4>1 DEF SoundInv, CompleteIsSound
    <3> QED BY <3>5, <3>6
  <2> QED BY <2>2, <2>3, <2>4 DEF SoundInv
<1> QED BY <1>4, <1>5 DEF CompleteRound

\* failRound keeps it, even for a round that another process owns.
LEMMA FailSound ==
  ASSUME Inv, SoundInv, NEW i \in Instances, FailRound(i)
  PROVE  SoundInv'
<1>1. UNCHANGED <<parts, flagged, hash, model, got, avg>>
  BY DEF FailRound, store
<1>2. pc'[i] \notin Owning /\ \A j \in Instances \ {i} : pc'[j] = pc[j] /\ cur'[j] = cur[j]
  BY DEF FailRound, Finish, Inv, TypeOK, Owning
<1>3. CASE UNCHANGED status
  BY <1>1, <1>2, <1>3, LeaveSound
<1>4. CASE status' = [status EXCEPT ![cur[i]] = "failed"]
  <2>1. \A q \in Rounds : status'[q] = status[q] \/ status'[q] = "failed"
    BY <1>4 DEF Inv, TypeOK
  <2>2. \A j \in Instances : Work(j)'
    <3> TAKE j \in Instances
    <3>1. CASE j = i
      BY <3>1, <1>2 DEF Work, Owning
    <3>2. CASE j # i
      <4>1. Work(j) /\ (pc[j] \in Owning => cur[j] \in Rounds)
        BY OwnersHaveRounds DEF SoundInv, Inv
      <4> QED BY <3>2, <4>1, <1>1, <1>2, <2>1 DEF Work
    <3> QED BY <3>1, <3>2
  <2>3. \A q \in Rounds : Fresh(q)'
    BY <1>1, <2>1 DEF SoundInv, Fresh
  <2>4. CompleteIsSound'
    BY <1>1, <2>1 DEF SoundInv, CompleteIsSound
  <2> QED BY <2>2, <2>3, <2>4 DEF SoundInv
<1> QED BY <1>3, <1>4 DEF FailRound

\* Every step keeps it.
LEMMA StepSound ==
  ASSUME Inv, SoundInv, [Next]_vars
  PROVE  SoundInv'
<1>1. CASE UNCHANGED vars
  BY <1>1, FrameSound DEF vars, table, store, local
<1>2. ASSUME NEW r \in Rounds, OpenRound(r) PROVE SoundInv'
  BY <1>2, OpenSound
<1>3. ASSUME NEW r \in Rounds, Expire(r) PROVE SoundInv'
  BY <1>3, FrameSound DEF Expire, table, store, local
<1>4. ASSUME NEW r \in Rounds, NEW n \in Nodes, Upload(r, n) PROVE SoundInv'
  BY <1>4, FrameSound DEF Upload, table, local
<1>5. ASSUME NEW i \in Instances, NEW r \in Rounds, NEW n \in Nodes, CheckOpen(i, r, n) PROVE SoundInv'
  BY <1>5, FrameSound DEF CheckOpen, table, store, local
<1>6. ASSUME NEW i \in Instances, NEW r \in Rounds, NEW n \in Nodes, Upsert(i, r, n) PROVE SoundInv'
  <2>1. \A q \in Rounds : parts[q] \subseteq parts'[q]
    BY <1>6 DEF Upsert, Inv, TypeOK
  <2> QED BY <1>6, <2>1, FrameSound DEF Upsert, store, local
<1>7. ASSUME NEW i \in Instances, NEW r \in Rounds, StampOTS(i, r) PROVE SoundInv'
  BY <1>7, FrameSound DEF StampOTS, store, local
<1>8. ASSUME NEW i \in Instances, SelectExpired(i) \/ Crash(i) \/ (\E r \in Rounds : Count(i, r))
      PROVE  SoundInv'
  <2>1. /\ UNCHANGED <<status, flagged, hash, model, parts>>
        /\ \A j \in Instances \ {i} : pc'[j] = pc[j] /\ cur'[j] = cur[j] /\ got'[j] = got[j] /\ avg'[j] = avg[j]
        /\ pc'[i] \notin Owning
    BY <1>8 DEF SelectExpired, Crash, Count, table, store, Inv, TypeOK, Owning
  <2> QED BY <2>1, LeaveSound
<1>9. ASSUME NEW i \in Instances, Transition(i) \/ FetchGradients(i) PROVE SoundInv'
  BY <1>9, TransitionSound, FetchSound
<1>10. ASSUME NEW i \in Instances, NEW F \in SUBSET Nodes, NEW X \in SUBSET Nodes, AnomalyFilter(i, F, X)
       PROVE  SoundInv'
  BY <1>10, FilterSound
<1>11. ASSUME NEW i \in Instances, FedAvg(i) \/ CompleteRound(i) \/ FailRound(i) PROVE SoundInv'
  BY <1>11, FedAvgSound, CompleteSound, FailSound
<1> QED
  BY <1>1, <1>2, <1>3, <1>4, <1>5, <1>6, <1>7, <1>8, <1>9, <1>10, <1>11 DEF Next, Aggregate

\* The work on a round is sound, always.
THEOREM SoundHolds == Spec => []SoundInv
<1>1. Init => SoundInv
  BY DEF Init, SoundInv, Work, Fresh, CompleteIsSound, Owning
<1>2. Inv /\ SoundInv /\ [Next]_vars => SoundInv'
  BY StepSound
<1> QED BY <1>1, <1>2, InvariantHolds, PTL DEF Spec

\* A complete round has averaged the gradients of a quorum of participants, none
\* of them flagged, and its recorded hash is that of the stored checkpoint, for
\* any number of processes and whatever fails.
THEOREM CompleteIsSoundHolds == Spec => []CompleteIsSound
<1>1. SoundInv => CompleteIsSound
  BY DEF SoundInv
<1> QED BY <1>1, SoundHolds, PTL
=============================================================================
