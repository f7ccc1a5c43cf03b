------------------------------ MODULE FLRounds ------------------------------
(***************************************************************************)
(* Federated-learning rounds: the tables fl_rounds and fl_participants,    *)
(* the SubmitGradient calls, and the CloseExpired ticker of each           *)
(* coordinator process, which runs TryAggregate on every expired round.    *)
(* Every statement against the database is a step of its own.              *)
(***************************************************************************)
EXTENDS Naturals, FiniteSets

CONSTANTS Rounds,           \* round numbers
          NoRound,          \* marks an idle orchestrator
          Nodes,            \* participating nodes
          Instances,        \* coordinator processes on one database
          MinParticipants,  \* Orchestrator.minParticipants (3)
          HasStorage,       \* an S3 bucket is configured
          Faults,           \* failures the environment may inject; "ack" is a
                            \* statement applied whose reply is lost
          MaxUploads,       \* bound: uploads per node and round
          MaxCrashes        \* bound: crashes of coordinator processes

ASSUME RoundsAssumption == NoRound \notin Rounds
ASSUME NodesAssumption == IsFiniteSet(Nodes) /\ MinParticipants \in Nat \ {0} /\ MaxUploads \in Nat
ASSUME CrashAssumption == MaxCrashes \in Nat /\ HasStorage \in BOOLEAN
                          /\ Faults \subseteq {"db", "ack", "storage", "crash"}

VARIABLES
  status,    \* fl_rounds.status; "absent" before OpenRound
  expired,   \* rounds whose deadline has passed
  parts,     \* fl_participants: the nodes with a row, per round
  flagged,   \* fl_participants.anomaly_flagged
  blob,      \* S3: version of the gradient object of a node, 0 if none
  model,     \* S3: the versions averaged in the uploaded checkpoint
  hash,      \* fl_rounds.checkpoint_hash: the versions it stands for
  ots,       \* rounds with fl_rounds.ots_proof_path
  passed,    \* per process: SubmitGradient calls that have seen 'open'
  pc,        \* per process: where CloseExpired is
  rows,      \* per process: rows of its SELECT still to be handled
  cur,       \* per process: the round in hand
  got,       \* per process: the participants fetched, then the accepted ones
  judged,    \* per process: versions read by anomalyFilter
  avg,       \* per process: versions read by fedAvg
  stamping,  \* per process: rounds whose stampOTS goroutine runs
  crashes    \* bound: crashes so far

table == <<status, parts, flagged, hash, ots>>
store == <<blob, model>>
local == <<pc, rows, cur, got, judged, avg>>
vars  == <<table, store, expired, passed, local, stamping, crashes>>

Versions == [Nodes -> 0..MaxUploads]
NoVersions == [n \in Nodes |-> 0]
Steps == {"idle", "next", "cas", "fetch", "filter", "avg", "complete", "fail2", "fail"}

\* The steps after the compare-and-set, in which a process owns its round.
Owning == {"fetch", "filter", "avg", "complete"}

TypeOK ==
  /\ status \in [Rounds -> {"absent", "open", "aggregating", "complete", "failed"}]
  /\ expired \in SUBSET Rounds /\ ots \in SUBSET Rounds
  /\ parts \in [Rounds -> SUBSET Nodes] /\ flagged \in [Rounds -> SUBSET Nodes]
  /\ blob \in [Rounds -> Versions]
  /\ model \in [Rounds -> Versions] /\ hash \in [Rounds -> Versions]
  /\ passed \in [Instances -> SUBSET (Rounds \X Nodes)]
  /\ pc \in [Instances -> Steps]
  /\ rows \in [Instances -> SUBSET Rounds]
  /\ cur \in [Instances -> Rounds \cup {NoRound}]
  /\ got \in [Instances -> SUBSET Nodes]
  /\ judged \in [Instances -> Versions] /\ avg \in [Instances -> Versions]
  /\ stamping \in [Instances -> SUBSET Rounds]
  /\ crashes \in 0..MaxCrashes
  /\ \A i \in Instances : (pc[i] \in {"idle", "next"}) <=> (cur[i] = NoRound)

Init ==
  /\ status = [r \in Rounds |-> "absent"]
  /\ expired = {} /\ ots = {}
  /\ parts = [r \in Rounds |-> {}] /\ flagged = [r \in Rounds |-> {}]
  /\ blob = [r \in Rounds |-> NoVersions]
  /\ model = [r \in Rounds |-> NoVersions] /\ hash = [r \in Rounds |-> NoVersions]
  /\ passed = [i \in Instances |-> {}]
  /\ pc = [i \in Instances |-> "idle"]
  /\ rows = [i \in Instances |-> {}]
  /\ cur = [i \in Instances |-> NoRound]
  /\ got = [i \in Instances |-> {}]
  /\ judged = [i \in Instances |-> NoVersions] /\ avg = [i \in Instances |-> NoVersions]
  /\ stamping = [i \in Instances |-> {}]
  /\ crashes = 0

-----------------------------------------------------------------------------
(* Rounds, deadlines and gradients                                         *)

OpenRound(r) ==
  /\ status[r] = "absent"
  /\ status' = [status EXCEPT ![r] = "open"]
  /\ UNCHANGED <<parts, flagged, hash, ots, store, expired, passed, local, stamping, crashes>>

\* started_at + roundDurationSecs < now()
Expire(r) ==
  /\ status[r] # "absent" /\ r \notin expired
  /\ expired' = expired \cup {r}
  /\ UNCHANGED <<table, store, passed, local, stamping, crashes>>

\* A node puts its gradient under the one key it has for the round.
Upload(r, n) ==
  /\ status[r] # "absent" /\ blob[r][n] < MaxUploads
  /\ blob' = [blob EXCEPT ![r][n] = @ + 1]
  /\ UNCHANGED <<table, model, expired, passed, local, stamping, crashes>>

\* SubmitGradient reads the status of the round ...
CheckOpen(i, r, n) ==
  /\ status[r] = "open"
  /\ passed' = [passed EXCEPT ![i] = @ \cup {<<r, n>>}]
  /\ UNCHANGED <<table, store, expired, local, stamping, crashes>>

\* ... and then upserts the row, whatever the status is by now.
Upsert(i, r, n) ==
  /\ <<r, n>> \in passed[i]
  /\ parts' = [parts EXCEPT ![r] = @ \cup {n}]
  /\ passed' = [passed EXCEPT ![i] = @ \ {<<r, n>>}]
  /\ UNCHANGED <<status, flagged, hash, ots, store, expired, local, stamping, crashes>>

-----------------------------------------------------------------------------
(* CloseExpired and TryAggregate                                           *)

\* The SELECT of the ticker.
SelectExpired(i) ==
  /\ pc[i] = "idle"
  /\ {r \in expired : status[r] = "open"} # {}
  /\ rows' = [rows EXCEPT ![i] = {r \in expired : status[r] = "open"}]
  /\ pc' = [pc EXCEPT ![i] = "next"]
  /\ UNCHANGED <<table, store, expired, passed, cur, got, judged, avg, stamping, crashes>>

\* Mutant: the ticker does not fail a round that lacks participants.
CountNoFail(i, r) ==
  /\ pc[i] = "next" /\ r \in rows[i]
  /\ rows' = [rows EXCEPT ![i] = @ \ {r}]
  /\ \/ /\ Cardinality(parts[r]) >= MinParticipants
        /\ cur' = [cur EXCEPT ![i] = r]
        /\ pc' = [pc EXCEPT ![i] = "cas"]
     \/ /\ Cardinality(parts[r]) < MinParticipants
        /\ pc' = [pc EXCEPT ![i] = IF rows[i] = {r} THEN "idle" ELSE "next"]
        /\ UNCHANGED cur
  /\ UNCHANGED <<table, store, expired, passed, got, judged, avg, stamping, crashes>>

\* TryAggregate counts the submissions. Too few, or an error: CloseExpired
\* fails the round.
Count(i, r) ==
  /\ pc[i] = "next" /\ r \in rows[i]
  /\ rows' = [rows EXCEPT ![i] = @ \ {r}]
  /\ cur' = [cur EXCEPT ![i] = r]
  /\ \/ /\ Cardinality(parts[r]) >= MinParticipants
        /\ pc' = [pc EXCEPT ![i] = "cas"]
     \/ /\ Cardinality(parts[r]) < MinParticipants \/ "db" \in Faults
        /\ pc' = [pc EXCEPT ![i] = "fail"]
  /\ UNCHANGED <<table, store, expired, passed, got, judged, avg, stamping, crashes>>

\* Mutant: the UPDATE to 'aggregating' without its condition on the status.
TransitionUnconditional(i) ==
  /\ pc[i] = "cas"
  /\ status' = [status EXCEPT ![cur[i]] = "aggregating"]
  /\ pc' = [pc EXCEPT ![i] = "fetch"]
  /\ UNCHANGED <<parts, flagged, hash, ots, store, expired, passed, rows, cur, got, judged, avg, stamping, crashes>>

\* Mutant: the UPDATE to 'aggregating' also takes a failed round.
TransitionRetries(i) ==
  /\ pc[i] = "cas"
  /\ IF status[cur[i]] \in {"open", "failed"}
     THEN /\ status' = [status EXCEPT ![cur[i]] = "aggregating"]
          /\ pc' = [pc EXCEPT ![i] = "fetch"]
     ELSE pc' = [pc EXCEPT ![i] = "fail"] /\ UNCHANGED status
  /\ UNCHANGED <<parts, flagged, hash, ots, store, expired, passed, rows, cur, got, judged, avg, stamping, crashes>>

\* UPDATE ... SET status = 'aggregating' WHERE status = 'open'. The loser of
\* the race returns no summary, and its CloseExpired goes on to fail the round.
Transition(i) ==
  /\ pc[i] = "cas"
  /\ \/ /\ status[cur[i]] = "open"
        /\ status' = [status EXCEPT ![cur[i]] = "aggregating"]
        /\ \/ pc' = [pc EXCEPT ![i] = "fetch"]
           \/ "ack" \in Faults /\ pc' = [pc EXCEPT ![i] = "fail"]
     \/ /\ status[cur[i]] # "open" \/ "db" \in Faults
        /\ pc' = [pc EXCEPT ![i] = "fail"]
        /\ UNCHANGED status
  /\ UNCHANGED <<parts, flagged, hash, ots, store, expired, passed, rows, cur, got, judged, avg, stamping, crashes>>

\* An error after the transition: TryAggregate fails the round itself, and
\* CloseExpired fails it again on the error it gets back.
Abort(i) == pc' = [pc EXCEPT ![i] = "fail2"]

FetchGradients(i) ==
  /\ pc[i] = "fetch"
  /\ \/ /\ got' = [got EXCEPT ![i] = parts[cur[i]]]
        /\ pc' = [pc EXCEPT ![i] = "filter"]
     \/ "db" \in Faults /\ Abort(i) /\ UNCHANGED got
  /\ UNCHANGED <<table, store, expired, passed, rows, cur, judged, avg, stamping, crashes>>

\* The objects that anomalyFilter can read: an unreadable one is not judged.
Readable(i, F) ==
  IF HasStorage THEN {n \in got[i] : blob[cur[i]][n] > 0} \ F ELSE {}

\* medianFloat64 of the norms in ascending order, doubled to stay with integers.
TwiceMedian(b, len) ==
  LET mid == len \div 2
  IN  IF len % 2 = 1 THEN 2 * b[mid + 1] ELSE b[mid] + b[mid + 1]

\* The sets that may be above median + k * stddev of the norms of S: at most
\* half of the norms exceed their median.
Outliers(S) == {X \in SUBSET S : 2 * Cardinality(X) <= Cardinality(S)}

\* Mutant: the quorum is not checked again after the filter.
AnomalyFilterNoRecheck(i, F, X) ==
  /\ pc[i] = "filter"
  /\ F \subseteq got[i] /\ (F # {} => "storage" \in Faults)
  /\ X \in Outliers(Readable(i, F))
  /\ judged' = [judged EXCEPT ![i] = [n \in Nodes |-> IF n \in Readable(i, F) THEN blob[cur[i]][n] ELSE 0]]
  /\ \E Y \in SUBSET X : /\ Y # X => "db" \in Faults
                         /\ flagged' = [flagged EXCEPT ![cur[i]] = @ \cup Y]
  /\ got' = [got EXCEPT ![i] = @ \ X]
  /\ pc' = [pc EXCEPT ![i] = "avg"]
  /\ UNCHANGED <<status, parts, hash, ots, store, expired, passed, rows, cur, avg, stamping, crashes>>

\* anomalyFilter flags the nodes X whose norm is out of line. F are reads that
\* fail, Y the flags that the database takes. Too few accepted gradients fail
\* the round.
AnomalyFilter(i, F, X) ==
  /\ pc[i] = "filter"
  /\ F \subseteq got[i] /\ (F # {} => "storage" \in Faults)
  /\ X \in Outliers(Readable(i, F))
  /\ judged' = [judged EXCEPT ![i] = [n \in Nodes |-> IF n \in Readable(i, F) THEN blob[cur[i]][n] ELSE 0]]
  /\ \E Y \in SUBSET X : /\ Y # X => "db" \in Faults
                         /\ flagged' = [flagged EXCEPT ![cur[i]] = @ \cup Y]
  /\ got' = [got EXCEPT ![i] = @ \ X]
  /\ IF Cardinality(got[i] \ X) < MinParticipants
     THEN Abort(i)
     ELSE pc' = [pc EXCEPT ![i] = "avg"]
  /\ UNCHANGED <<status, parts, hash, ots, store, expired, passed, rows, cur, avg, stamping, crashes>>

\* The weighted average of the clipped gradients, named by what goes into it.
WeightedAverage(i) ==
  [n \in Nodes |-> IF HasStorage /\ n \in got[i] THEN blob[cur[i]][n] ELSE 0]

\* fedAvg reads every accepted object again, averages them and uploads the
\* checkpoint; one object it cannot read, or an upload that reports an error,
\* applied or not, fails the round. Without storage it returns a placeholder.
FedAvg(i) ==
  /\ pc[i] = "avg"
  /\ LET r == cur[i]
         v == WeightedAverage(i)
         readable == HasStorage => \A n \in got[i] : blob[r][n] > 0
     IN \/ /\ readable
           /\ avg' = [avg EXCEPT ![i] = v]
           /\ model' = IF HasStorage THEN [model EXCEPT ![r] = v] ELSE model
           /\ pc' = [pc EXCEPT ![i] = "complete"]
        \/ /\ HasStorage
           /\ "storage" \in Faults \/ ~readable
           /\ \/ UNCHANGED model
              \/ readable /\ model' = [model EXCEPT ![r] = v]
           /\ Abort(i)
           /\ UNCHANGED avg
  /\ UNCHANGED <<table, blob, expired, passed, rows, cur, got, judged, stamping, crashes>>

\* Mutant: the ticker keeps the round it has finished with.
FinishKeepsRound(i) ==
  /\ pc' = [pc EXCEPT ![i] = IF rows[i] = {} THEN "idle" ELSE "next"]
  /\ UNCHANGED cur

\* On to the next row, or back to the ticker.
Finish(i) ==
  /\ cur' = [cur EXCEPT ![i] = NoRound]
  /\ pc' = [pc EXCEPT ![i] = IF rows[i] = {} THEN "idle" ELSE "next"]

\* completeRound, unconditional, and the stampOTS goroutine. On an error, the
\* UPDATE applied or not, the round is failed by CloseExpired alone.
CompleteRound(i) ==
  /\ pc[i] = "complete"
  /\ \/ /\ status' = [status EXCEPT ![cur[i]] = "complete"]
        /\ hash' = [hash EXCEPT ![cur[i]] = avg[i]]
        /\ stamping' = [stamping EXCEPT ![i] = @ \cup {cur[i]}]
        /\ Finish(i)
     \/ /\ \/ "db" \in Faults /\ UNCHANGED <<status, hash>>
           \/ /\ "ack" \in Faults
              /\ status' = [status EXCEPT ![cur[i]] = "complete"]
              /\ hash' = [hash EXCEPT ![cur[i]] = avg[i]]
        /\ pc' = [pc EXCEPT ![i] = "fail"]
        /\ UNCHANGED <<stamping, cur>>
  /\ UNCHANGED <<parts, flagged, ots, store, expired, passed, rows, got, judged, avg, crashes>>

\* Mutant: the second failRound of an error path reopens the round.
FailRoundReopen(i) ==
  /\ pc[i] \in {"fail2", "fail"}
  /\ status' = [status EXCEPT ![cur[i]] = IF pc[i] = "fail" THEN "open" ELSE "failed"]
  /\ IF pc[i] = "fail2"
     THEN pc' = [pc EXCEPT ![i] = "fail"] /\ UNCHANGED cur
     ELSE Finish(i)
  /\ UNCHANGED <<parts, flagged, hash, ots, store, expired, passed, rows, got, judged, avg, stamping, crashes>>

\* failRound, unconditional; its error is ignored.
FailRound(i) ==
  /\ pc[i] \in {"fail2", "fail"}
  /\ \/ status' = [status EXCEPT ![cur[i]] = "failed"]
     \/ "db" \in Faults /\ UNCHANGED status
  /\ IF pc[i] = "fail2"
     THEN pc' = [pc EXCEPT ![i] = "fail"] /\ UNCHANGED cur
     ELSE Finish(i)
  /\ UNCHANGED <<parts, flagged, hash, ots, store, expired, passed, rows, got, judged, avg, stamping, crashes>>

\* stampOTS ends: with a calendar's proof the path is recorded. A placeholder
\* is no SHA-256 and is refused.
StampOTS(i, r) ==
  /\ r \in stamping[i]
  /\ stamping' = [stamping EXCEPT ![i] = @ \ {r}]
  /\ ots' \in {ots, IF HasStorage THEN ots \cup {r} ELSE ots}
  /\ UNCHANGED <<status, parts, flagged, hash, store, expired, passed, local, crashes>>

\* A process ends in the middle of anything and is restarted.
Crash(i) ==
  /\ "crash" \in Faults /\ crashes < MaxCrashes
  /\ crashes' = crashes + 1
  /\ passed' = [passed EXCEPT ![i] = {}]
  /\ pc' = [pc EXCEPT ![i] = "idle"]
  /\ rows' = [rows EXCEPT ![i] = {}]
  /\ cur' = [cur EXCEPT ![i] = NoRound]
  /\ got' = [got EXCEPT ![i] = {}]
  /\ judged' = [judged EXCEPT ![i] = NoVersions]
  /\ avg' = [avg EXCEPT ![i] = NoVersions]
  /\ stamping' = [stamping EXCEPT ![i] = {}]
  /\ UNCHANGED <<table, store, expired>>

-----------------------------------------------------------------------------
Aggregate(i) ==
  \/ \E r \in Rounds : Count(i, r)
  \/ Transition(i)
  \/ FetchGradients(i)
  \/ \E F, X \in SUBSET Nodes : AnomalyFilter(i, F, X)
  \/ FedAvg(i)
  \/ CompleteRound(i)
  \/ FailRound(i)

Next ==
  \/ \E r \in Rounds : OpenRound(r) \/ Expire(r)
  \/ \E r \in Rounds, n \in Nodes : Upload(r, n)
  \/ \E i \in Instances, r \in Rounds, n \in Nodes : CheckOpen(i, r, n) \/ Upsert(i, r, n)
  \/ \E i \in Instances : SelectExpired(i) \/ Aggregate(i) \/ Crash(i)
  \/ \E i \in Instances, r \in Rounds : StampOTS(i, r)

Spec == Init /\ [][Next]_vars

(***************************************************************************)
(* Fairness: the ticker fires again and again and its goroutine runs;      *)
(* nothing is asked of the nodes, of time or of the failures.              *)
(***************************************************************************)
FairSpec == Spec /\ \A i \in Instances : WF_vars(SelectExpired(i)) /\ WF_vars(Aggregate(i))

-----------------------------------------------------------------------------
(* Properties                                                              *)

\* The compare-and-set elects: whatever the number of processes, at most one
\* of them ever aggregates a given round.
OneAggregator ==
  \A i, j \in Instances :
    pc[i] \in Owning /\ pc[j] \in Owning /\ cur[i] = cur[j] => i = j

\* A complete round has averaged the gradients of at least MinParticipants of
\* its participants, none of them flagged, and the recorded hash is that of
\* the checkpoint in storage.
CompleteIsSound ==
  \A r \in Rounds : status[r] = "complete" =>
    /\ hash[r] = model[r]
    /\ HasStorage => /\ Cardinality({n \in Nodes : hash[r][n] > 0}) >= MinParticipants
                     /\ {n \in Nodes : hash[r][n] > 0} \subseteq parts[r] \ flagged[r]

\* The checkpoint of a round, once recorded, is never replaced.
CheckpointIsFinal ==
  [][\A r \in Rounds : hash[r] # NoVersions => hash'[r] = hash[r]]_hash

\* The processes that work on a round, from the compare-and-set on.
Leader == [r \in Rounds |-> {i \in Instances : pc[i] \in Owning /\ cur[i] = r}]

\* Seen from outside, the processes hold an election per round: whatever the
\* tickers, failures and crashes, TryAggregate, completeRound and failRound do
\* nothing that the abstract specification RoundElection does not allow.
Election == INSTANCE RoundElection WITH
              leader <- Leader, checkpoint <- hash, Checkpoints <- Versions, NoCheckpoint <- NoVersions
ImplementsElection == Election!ESpec

\* With one coordinator process and no lost reply 'complete' and 'failed' are
\* final, through crashes, restarts and repeated tickers.
TerminalIsFinal ==
  [][\A r \in Rounds : status[r] \in {"complete", "failed"} => status'[r] = status[r]]_status

\* An expired round is closed: the ticker completes it or fails it, and only a
\* process that dies in the middle can leave it 'aggregating'.
ExpiredIsClosed ==
  \A r \in Rounds :
    (r \in expired /\ status[r] = "open")
      ~> (status[r] \in {"complete", "failed"} \/ (status[r] = "aggregating" /\ crashes > 0))

\* What the comment on TryAggregate says, "safe to call from a ticker without
\* external locking": a round that one caller completed stays complete.
CompleteIsFinal ==
  [][\A r \in Rounds : status[r] = "complete" => status'[r] = "complete"]_status

\* What fedAvg averages is what anomalyFilter has judged: "Anomaly detection,
\* discard outliers" holds of the checkpoint only if both read the same object.
JudgedIsAveraged ==
  \A i \in Instances : pc[i] = "complete" =>
    \A n \in got[i] : judged[i][n] > 0 => avg[i][n] = judged[i][n]
=============================================================================
