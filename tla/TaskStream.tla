----------------------------- MODULE TaskStream -----------------------------
(***************************************************************************)
(* A task from the scheduler to a node and back, inside a process that     *)
(* starts, crashes and shuts down (Startup): Schedule chooses a node,      *)
(* inserts the row and publishes the assignment on Redis; the StreamTasks  *)
(* calls of that node forward it; a result comes back to SubmitTaskResult, *)
(* which updates the node's reliability and hands the payment on; a ticker *)
(* requeues what timed out. NodeStake has the details of the registry and  *)
(* Payments those of the payment.                                          *)
(***************************************************************************)
EXTENDS Startup, Sequences

CONSTANTS Nodes, None,       \* None: no node, no task
          Tasks,             \* a task is identified with its one Schedule call
          Streams,           \* StreamTasks calls that may be open at a time
          Handlers,          \* concurrent SubmitTaskResult calls
          Profiles,          \* what a node may register: tier, task types, LN URI
          Kinds,             \* the task types that are scheduled
          Uptimes,           \* heartbeats received of those expected, in percent
          Rewards,           \* what computeReward may return, in satoshis
          Faults,            \* "db", "redis": the calls that may fail
          MaxRegistrations,  \* bound: registrations
          MaxResults         \* bound: results submitted

ASSUME TaskStreamAssumption ==
  /\ None \notin Nodes \cup Tasks /\ IsFiniteSet(Tasks)
  /\ Kinds \subseteq {"inference", "fl_round", "gradient_agg", "data_ingest", "audit_repo", "embed_data"}
  /\ Profiles # {} /\ \A p \in Profiles : p.tier \in 1..3
  /\ Uptimes \subseteq Nat /\ Rewards \subseteq Nat
  /\ MaxRegistrations \in Nat /\ MaxResults \in Nat

VARIABLES
  profile,      \* nodes: the columns tier, supported_task_types, ln_node_uri
  active,       \* nodes: status = 'active'
  reliability,  \* nodes.reliability, in percent
  registered,   \* nodes.registered_at: the number of its last registration, or 0
  registrations,  \* bound: registrations so far
  status,       \* tasks.status; "absent" before the INSERT
  assigned,     \* tasks.assigned_node; None for NULL
  pays,         \* tasks: the columns node_ln_uri and reward_sats
  plan,         \* Schedule calls in progress: the step and the Assignment
  stream,       \* StreamTasks calls: state, node, messages in the channel
  call,         \* SubmitTaskResult calls: step, node, task, counts it has read
  results,      \* bound: results submitted so far
  told,         \* history: assignments sent to a node
  jobs          \* history: payments handed to the dispatcher

registry == <<profile, active, reliability, registered, registrations>>
rows     == <<status, assigned, pays>>
memory   == <<plan, stream, call>>
history  == <<results, told, jobs>>
vars == <<svars, registry, rows, memory, history>>

-----------------------------------------------------------------------------
(* filterEligible and selectNode                                           *)

TaskMinTier(k) == IF k \in {"gradient_agg", "data_ingest"} THEN 2 ELSE 1

\* An empty list of task types accepts all.
Fit(p, k) == p.tier >= TaskMinTier(k) /\ (p.types = {} \/ k \in p.types)

\* Mutant: the list of active nodes is not filtered.
SelectableUnfiltered(k) == {n \in Nodes : active[n]}

\* The active nodes that are fit for the task. Which of them has the best score,
\* and the reward that goes with it, are left open.
Selectable(k) == {n \in Nodes : active[n] /\ Fit(profile[n], k)}

-----------------------------------------------------------------------------
Assignment == [task : Tasks, node : Nodes, kind : Kinds, uri : {p.uri : p \in Profiles}, sats : Nat]

NoPays == [uri |-> "", sats |-> 0]
NoPlan == [step |-> "none", since |-> 0, of |-> None]
Closed == [state |-> "closed", node |-> None, channel |-> <<>>]
Free   == [step |-> "free", node |-> None, task |-> None, valid |-> FALSE, counts |-> <<0, 0>>]

StreamTypeOK ==
  /\ TypeOK
  /\ profile \in [Nodes -> Profiles] /\ active \in [Nodes -> BOOLEAN]
  /\ reliability \in [Nodes -> 0..100] /\ registrations \in 0..MaxRegistrations
  /\ registered \in [Nodes -> 0..registrations]
  /\ status \in [Tasks -> {"absent", "running", "pending", "completed"}]
  /\ assigned \in [Tasks -> Nodes \cup {None}]
  /\ told \subseteq Assignment

Init ==
  /\ StartupInit
  /\ profile = [n \in Nodes |-> CHOOSE p \in Profiles : TRUE]
  /\ active = [n \in Nodes |-> FALSE]
  /\ reliability = [n \in Nodes |-> 100]
  /\ registered = [n \in Nodes |-> 0] /\ registrations = 0
  /\ status = [t \in Tasks |-> "absent"]
  /\ assigned = [t \in Tasks |-> None]
  /\ pays = [t \in Tasks |-> NoPays]
  /\ plan = [t \in Tasks |-> NoPlan]
  /\ stream = [s \in Streams |-> Closed]
  /\ call = [h \in Handlers |-> Free]
  /\ results = 0
  /\ told = {} /\ jobs = {}

\* gRPC accepts new calls until GracefulStop.
Accepting == Serving /\ step["server"] # "draining"

-----------------------------------------------------------------------------
(* The registry, as far as the scheduler can see it                        *)

\* Registry.Register: the upsert sets the node to 'pending' and keeps its
\* reliability.
Register(n, p) ==
  /\ Accepting
  /\ registrations < MaxRegistrations
  /\ registrations' = registrations + 1
  /\ registered' = [registered EXCEPT ![n] = registrations + 1]
  /\ profile' = [profile EXCEPT ![n] = p]
  /\ active' = [active EXCEPT ![n] = FALSE]
  /\ UNCHANGED <<svars, reliability, rows, memory, history>>

\* Activate, DeregisterNode, markDegraded or Slash: NodeStake says when. A
\* call that is under way when the shutdown begins may still do it.
ChangeStatus(n) ==
  /\ Serving
  /\ registered[n] > 0
  /\ active' = [active EXCEPT ![n] = ~@]
  /\ UNCHANGED <<svars, profile, reliability, registered, registrations, rows, memory, history>>

-----------------------------------------------------------------------------
(* Schedule                                                                *)

\* Mutant: the scheduler takes a requeued task again and keeps its row.
SelectAgain(t, k) ==
  /\ Accepting
  /\ status[t] \in {"absent", "pending"} /\ plan[t].step \in {"none", "done"}
  /\ \E n \in Selectable(k), sats \in Rewards :
       plan' = [plan EXCEPT ![t] =
                 [step |-> IF status[t] = "absent" THEN "insert" ELSE "publish", since |-> registered[n],
                  of |-> [task |-> t, node |-> n, kind |-> k, uri |-> profile[n].uri, sats |-> sats]]]
  /\ UNCHANGED <<svars, registry, rows, stream, call, history>>

Select(t, k) ==
  /\ Accepting
  /\ status[t] = "absent" /\ plan[t].step = "none"
  /\ \E n \in Selectable(k), sats \in Rewards :
       plan' = [plan EXCEPT ![t] =
                 [step |-> "insert", since |-> registered[n],
                  of |-> [task |-> t, node |-> n, kind |-> k, uri |-> profile[n].uri, sats |-> sats]]]
  /\ UNCHANGED <<svars, registry, rows, stream, call, history>>

InsertRow(t) ==
  /\ status' = [status EXCEPT ![t] = "running"]
  /\ assigned' = [assigned EXCEPT ![t] = plan[t].of.node]
  /\ pays' = [pays EXCEPT ![t] = [uri |-> plan[t].of.uri, sats |-> plan[t].of.sats]]

Insert(t) ==
  /\ plan[t].step = "insert"
  /\ InsertRow(t)
  /\ plan' = [plan EXCEPT ![t].step = "publish"]
  /\ UNCHANGED <<svars, registry, stream, call, history>>

\* The INSERT reports an error, applied or not, and nothing is published.
InsertFails(t) ==
  /\ "db" \in Faults
  /\ plan[t].step = "insert"
  /\ InsertRow(t) \/ UNCHANGED rows
  /\ plan' = [plan EXCEPT ![t].step = "done"]
  /\ UNCHANGED <<svars, registry, stream, call, history>>

HasRedis == "redis" \in conf.strings

Subscriptions(n) == {s \in Streams : stream[s].state = "open" /\ stream[s].node = n}

\* Redis hands a message to the subscriptions it has at that moment and keeps
\* nothing. go-redis drops it when the channel of a subscription stays full.
Publish(t) ==
  /\ plan[t].step = "publish"
  /\ \E dropped \in SUBSET (IF "redis" \in Faults THEN Subscriptions(plan[t].of.node) ELSE {}) :
       stream' = [s \in Streams |->
                    IF s \in Subscriptions(plan[t].of.node) \ dropped
                    THEN [stream[s] EXCEPT !.channel = Append(@, plan[t].of)]
                    ELSE stream[s]]
  /\ plan' = [plan EXCEPT ![t].step = "done"]
  /\ UNCHANGED <<svars, registry, rows, call, history>>

\* The error of Publish is only logged.
PublishFails(t) ==
  /\ "redis" \in Faults /\ HasRedis
  /\ plan[t].step = "publish"
  /\ plan' = [plan EXCEPT ![t].step = "done"]
  /\ UNCHANGED <<svars, registry, rows, stream, call, history>>

\* Mutant: the ticker looks for tasks that are pending.
RequeuePendingOnly(S) ==
  /\ step["server"] = "up"
  /\ S # {} /\ \A t \in S : status[t] = "pending"
  /\ status' = [t \in Tasks |-> IF t \in S THEN "pending" ELSE status[t]]
  /\ assigned' = [t \in Tasks |-> IF t \in S THEN None ELSE assigned[t]]
  /\ UNCHANGED <<svars, registry, pays, memory, history>>

\* Any set of running tasks may be the expired one; nothing schedules a
\* pending task again.
RequeueTimedOut(S) ==
  /\ step["server"] = "up"
  /\ S # {} /\ \A t \in S : status[t] = "running"
  /\ status' = [t \in Tasks |-> IF t \in S THEN "pending" ELSE status[t]]
  /\ assigned' = [t \in Tasks |-> IF t \in S THEN None ELSE assigned[t]]
  /\ UNCHANGED <<svars, registry, pays, memory, history>>

-----------------------------------------------------------------------------
(* StreamTasks                                                             *)

Set(s, v) == stream' = [stream EXCEPT ![s] = v] /\ UNCHANGED <<svars, registry, rows, plan, call>>

\* The call does not wait for Redis to confirm the subscription. Without
\* Redis it waits for the end of the stream.
OpenStream(s, n) ==
  /\ Accepting
  /\ stream[s] = Closed /\ registered[n] > 0
  /\ Set(s, [Closed EXCEPT !.state = IF HasRedis THEN "opening" ELSE "idle", !.node = n])
  /\ UNCHANGED history

Subscribed(s) ==
  /\ stream[s].state = "opening"
  /\ Set(s, [stream[s] EXCEPT !.state = "open"])
  /\ UNCHANGED history

Send(s) ==
  /\ stream[s].channel # <<>>
  /\ Set(s, [stream[s] EXCEPT !.channel = Tail(@)])
  /\ told' = told \cup {Head(stream[s].channel)}
  /\ UNCHANGED <<results, jobs>>

\* The connection to Redis breaks: go-redis subscribes again, and what it has
\* received stays in the channel.
Disconnect(s) ==
  /\ "redis" \in Faults
  /\ stream[s].state = "open"
  /\ Set(s, [stream[s] EXCEPT !.state = "opening"])
  /\ UNCHANGED history

\* The node ends the stream, or stream.Send fails.
CloseStream(s) ==
  /\ stream[s] # Closed
  /\ Set(s, Closed)
  /\ UNCHANGED history

-----------------------------------------------------------------------------
(* SubmitTaskResult and UpdateReliability                                  *)

Move(h, v) == call' = [call EXCEPT ![h] = v] /\ UNCHANGED <<svars, profile, active, registered, registrations, plan, stream, told>>

\* A result of any registered node, whatever the status of the task. With an
\* invalid signature only the reliability of the node is computed again.
SubmitTaskResult(h, n, t, valid) ==
  /\ Accepting
  /\ call[h] = Free /\ results < MaxResults
  /\ registered[n] > 0 /\ status[t] # "absent"
  /\ status' = IF valid THEN [status EXCEPT ![t] = "completed"] ELSE status
  /\ Move(h, [step |-> "count", node |-> n, task |-> t, valid |-> valid, counts |-> <<0, 0>>])
  /\ results' = results + 1
  /\ UNCHANGED <<reliability, assigned, pays, jobs>>

\* MarkComplete reports an error, applied or not, and the result is refused.
SubmitFails(t) ==
  /\ Accepting /\ "db" \in Faults
  /\ results < MaxResults /\ status[t] # "absent"
  /\ status' = status \/ status' = [status EXCEPT ![t] = "completed"]
  /\ results' = results + 1
  /\ UNCHANGED <<svars, registry, assigned, pays, memory, told, jobs>>

\* The tasks of the node and the completed ones. Those submitted before its
\* last registration, or more than seven days ago, are not in the window, and a
\* requeued task is nobody's.
CountTasks(h) ==
  /\ call[h].step = "count"
  /\ \E mine \in SUBSET {t \in Tasks : assigned[t] = call[h].node} :
       LET done == {t \in mine : status[t] = "completed"}
       IN  Move(h, [call[h] EXCEPT !.step = "write", !.counts = <<Cardinality(done), Cardinality(mine)>>])
  /\ UNCHANGED <<reliability, rows, results, jobs>>

\* Mutant: more heartbeats than one a minute count in full.
ComputeReliabilityUnclamped(counts, uptime) ==
  IF counts[2] = 0 THEN uptime ELSE (counts[1] * uptime) \div counts[2]

\* In percent; the uptime, which the heartbeat log gives, counts at most 100.
ComputeReliability(counts, uptime) ==
  LET up == IF uptime > 100 THEN 100 ELSE uptime
  IN  IF counts[2] = 0 THEN up ELSE (counts[1] * up) \div counts[2]

Proceed(h) == Move(h, IF call[h].valid THEN [call[h] EXCEPT !.step = "enqueue", !.counts = <<0, 0>>] ELSE Free)

WriteReliability(h) ==
  /\ call[h].step = "write"
  /\ \E uptime \in Uptimes :
       reliability' = [reliability EXCEPT ![call[h].node] = ComputeReliability(call[h].counts, uptime)]
  /\ Proceed(h)
  /\ UNCHANGED <<rows, results, jobs>>

\* An error of UpdateReliability is logged or ignored.
ReliabilityFails(h) ==
  /\ "db" \in Faults
  /\ call[h].step \in {"count", "write"}
  /\ Proceed(h)
  /\ UNCHANGED <<reliability, rows, results, jobs>>

\* Mutant: the payment goes to the present LN URI of the node that submitted.
EnqueuePaymentToSubmitter(h) ==
  /\ call[h].step = "enqueue"
  /\ jobs' = jobs \cup {[task |-> call[h].task, uri |-> profile[call[h].node].uri, sats |-> pays[call[h].task].sats]}
  /\ Move(h, Free)
  /\ UNCHANGED <<reliability, rows, results>>

\* The payment of what the row says.
EnqueuePayment(h) ==
  /\ call[h].step = "enqueue"
  /\ jobs' = jobs \cup {[task |-> call[h].task, uri |-> pays[call[h].task].uri, sats |-> pays[call[h].task].sats]}
  /\ Move(h, Free)
  /\ UNCHANGED <<reliability, rows, results>>

\* The SELECT of the row fails: the result is accepted and nothing is queued.
LookupFails(h) ==
  /\ "db" \in Faults
  /\ call[h].step = "enqueue"
  /\ Move(h, Free)
  /\ UNCHANGED <<reliability, rows, results, jobs>>

-----------------------------------------------------------------------------
(* The process ends                                                        *)

Forget ==
  /\ plan' = [t \in Tasks |-> IF plan[t].step \in {"insert", "publish"} THEN [plan[t] EXCEPT !.step = "done"] ELSE plan[t]]
  /\ stream' = [s \in Streams |-> Closed]
  /\ call' = [h \in Handlers |-> Free]
  /\ UNCHANGED <<registry, rows, history>>

\* GracefulStop waits for every call, the task streams included; nothing
\* cancels them and cfg.Server.ShutdownTimeout is not used, here or for the wait
\* in CloseHTTP before it.
Stop ==
  /\ \A s \in Streams : stream[s] = Closed
  /\ \A h \in Handlers : call[h] = Free
  /\ Stopped
  /\ Forget

Die(p) ==
  /\ EnvironmentFails(p) \/ Kill(p)
  /\ IF p = "server" THEN Forget ELSE UNCHANGED <<registry, rows, memory, history>>

-----------------------------------------------------------------------------
PlanStep(t) == Insert(t) \/ InsertFails(t) \/ Publish(t) \/ PublishFails(t)
CallStep(h) == CountTasks(h) \/ WriteReliability(h) \/ ReliabilityFails(h) \/ EnqueuePayment(h) \/ LookupFails(h)
StreamStep(s) == Subscribed(s) \/ Send(s)

Next ==
  \/ StartupStep /\ UNCHANGED <<registry, rows, memory, history>>
  \/ Stop \/ \E p \in Procs : Die(p)
  \/ \E n \in Nodes : ChangeStatus(n) \/ \E p \in Profiles : Register(n, p)
  \/ \E t \in Tasks : PlanStep(t) \/ SubmitFails(t) \/ \E k \in Kinds : Select(t, k)
  \/ \E S \in SUBSET Tasks : RequeueTimedOut(S)
  \/ \E s \in Streams : StreamStep(s) \/ Disconnect(s) \/ CloseStream(s) \/ \E n \in Nodes : OpenStream(s, n)
  \/ \E h \in Handlers : CallStep(h) \/ \E n \in Nodes, t \in Tasks, valid \in BOOLEAN : SubmitTaskResult(h, n, t, valid)

Spec == Init /\ [][Next]_vars

(***************************************************************************)
(* Fairness: the orchestrator restarts the server, processes run, the      *)
(* calls of a running process proceed, and the ticker sees the deadline of *)
(* every task pass. Nothing is asked of the nodes, which may keep a stream *)
(* open for ever, of HTTP clients (CloseHTTP) or of Redis.                 *)
(***************************************************************************)
Idle == UNCHANGED <<registry, rows, memory, history>>

ServerStep == ((Launch("server") \/ Run) /\ Idle) \/ Stop

Fairness ==
  /\ WF_vars(ServerStep)
  /\ WF_vars(Migrate("job") /\ Idle)
  /\ \A t \in Tasks : WF_vars(\E S \in SUBSET Tasks : t \in S /\ RequeueTimedOut(S))
  /\ \A h \in Handlers : WF_vars(CallStep(h))

FairSpec == Spec /\ Fairness

-----------------------------------------------------------------------------
(* Properties                                                              *)

\* What a node was told is what the row says and what is paid: every
\* assignment it received, or will receive, has its row, and every payment
\* handed to the dispatcher goes to the LN URI the node had when it was chosen
\* and for the reward it was told, whoever submitted the result, however late,
\* and whatever the node has registered since. (The comment of computeReward has
\* an uptime bonus and a quality factor "applied post-completion"; no code does.)
OfferIsKept ==
  /\ \A a \in told \cup UNION {{stream[s].channel[i] : i \in 1..Len(stream[s].channel)} : s \in Streams} :
       /\ status[a.task] # "absent"
       /\ \A j \in jobs : j.task = a.task => j.uri = a.uri /\ j.sats = a.sats
  /\ \A j \in jobs : status[j.task] = "completed" /\ pays[j.task] = [uri |-> j.uri, sats |-> j.sats]

\* What was offered for a task: the Assignment of its Schedule call, once the
\* row is there.
Offered == [t \in Tasks |-> IF status[t] = "absent" THEN None ELSE plan[t].of]

\* Whatever Schedule, the streams, the results, the ticker, crashes and restarts
\* do between each other's statements, what they do to the tasks, to what nodes
\* are told and to the payments is allowed by TaskBoard.
Board == INSTANCE TaskBoard WITH offer <- Offered, Offers <- Assignment, NoOffer <- None
ImplementsBoard == Board!TSpec

\* A running task is with a node that can do it, unless the node registered
\* again after the scheduler had read its row.
AssigneeIsFit ==
  \A t \in Tasks :
    (status[t] = "running" /\ registered[assigned[t]] = plan[t].since) =>
       Fit(profile[assigned[t]], plan[t].of.kind)

\* No task runs for ever, whether its assignment was lost on the way or its
\* node is silent: it is completed or requeued, across crashes and restarts,
\* unless the schema is dirty (no server starts) or a shutdown, which has
\* cancelled the tickers and has no deadline, waits: in httpSrv.Shutdown for an
\* HTTP request, or in GracefulStop for a node to end its task stream.
Stuck ==
  \/ dirty
  \/ step["server"] = "closing"
  \/ step["server"] = "draining" /\ \E s \in Streams : stream[s] # Closed
RunningEnds == \A t \in Tasks : (status[t] = "running") ~> (status[t] # "running" \/ Stuck)
=============================================================================
