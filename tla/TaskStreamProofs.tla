-------------------------- MODULE TaskStreamProofs --------------------------
(***************************************************************************)
(* Theorems about Startup and TaskStream, for any configuration, any       *)
(* number of migrations, nodes, tasks, streams and handlers, and any       *)
(* failures.                                                               *)
(***************************************************************************)
EXTENDS TaskStream, FiniteSetTheorems, TLAPS

-----------------------------------------------------------------------------
(* The process                                                             *)

Migrated == {"open", "start", "up", "closing", "draining"}

\* What the server knows once it is past the migrations, and of its
\* configuration once it has started.
ProcessInv ==
  /\ TypeOK
  /\ step["server"] \in Migrated => version = Latest /\ ~dirty
  /\ step["server"] # "off" => Valid(conf)
  /\ failure # "missing"

\* A valid configuration names every file that run opens.
LEMMA FilesNamed ==
  ASSUME NEW c, Valid(c)
  PROVE  LNDFiles(c) \cup ObserverFiles(c) \cup TLSFiles(c) \subseteq c.strings
<1>1. LNDFiles(c) \subseteq c.strings
  BY DEF Valid, LightningValid, LNDFiles, LNDFields
<1>2. ObserverFiles(c) \subseteq c.strings
  BY DEF Valid, ObserverFiles, ObserverFields
<1>3. TLSFiles(c) \subseteq c.strings
  BY DEF Valid, TLSFiles
<1> QED BY <1>1, <1>2, <1>3

\* The initial state.
LEMMA ProcessInit == StartupInit => ProcessInv
<1> SUFFICES ASSUME StartupInit PROVE ProcessInv
  OBVIOUS
<1>1. dirty \in BOOLEAN
  BY Zenon DEF StartupInit
<1> QED BY <1>1, StartupAssumption DEF StartupInit, ProcessInv, TypeOK, Procs, Steps, Migrated

\* A step of either process.
LEMMA ProcessStep == ProcessInv /\ [StartupNext]_svars => ProcessInv'
<1> SUFFICES ASSUME ProcessInv, [StartupNext]_svars PROVE ProcessInv'
  OBVIOUS
<1> USE StartupAssumption DEF ProcessInv, TypeOK
<1>0. {"server", "job"} = Procs /\ Migrated \subseteq Steps /\ {"off", "migrate", "version", "apply"} \subseteq Steps
  BY DEF Procs, Steps, Migrated
<1>1. CASE UNCHANGED svars
  BY <1>1 DEF svars
<1>2. ASSUME NEW p \in Procs, Launch(p) PROVE ProcessInv'
  BY <1>0, <1>2 DEF Launch, Report, Migrated
<1>3. ASSUME NEW p \in Procs, LockMigrations(p) PROVE ProcessInv'
  BY <1>0, <1>3 DEF LockMigrations, Goto, Migrated
<1>4. ASSUME NEW p \in Procs, NextMigration(p) PROVE ProcessInv'
  <2>1. CASE dirty
    BY <1>0, <1>4, <2>1 DEF NextMigration, Fail, Report, Migrated
  <2>2. CASE ~dirty /\ version < Latest
    <3>1. dirty' \in BOOLEAN
      BY <1>4, <2>2, Zenon DEF NextMigration
    <3>2. step[p] = "version" /\ version' = version + 1 /\ step' = [step EXCEPT ![p] = "apply"] /\ UNCHANGED <<conf, failure, lock, faults>>
      BY <1>4, <2>2 DEF NextMigration, Goto
    <3> QED BY <1>0, <2>2, <3>1, <3>2 DEF Migrated
  <2>3. CASE ~dirty /\ version = Latest
    BY <1>0, <1>4, <2>3 DEF NextMigration, Goto, Migrated
  <2> QED BY <2>1, <2>2, <2>3
<1>5. ASSUME NEW p \in Procs, ApplyMigration(p) PROVE ProcessInv'
  BY <1>0, <1>5 DEF ApplyMigration, Goto, Migrated
<1>6. CASE OpenServices
  <2>1. LNDFiles(conf) \cup ObserverFiles(conf) \cup TLSFiles(conf) \subseteq conf.strings
    BY <1>6, FilesNamed DEF OpenServices
  <2> QED BY <1>0, <1>6, <2>1 DEF OpenServices, Goto, Migrated
<1>7. CASE StartServing \/ Shutdown \/ CloseHTTP \/ Stopped
  BY <1>0, <1>7 DEF StartServing, Shutdown, CloseHTTP, Stopped, Goto, Migrated
<1>8. ASSUME NEW p \in Procs, EnvironmentFails(p) \/ Kill(p) PROVE ProcessInv'
  BY <1>0, <1>8 DEF EnvironmentFails, Kill, Fail, Report, Migrated
<1> QED
  BY <1>1, <1>2, <1>3, <1>4, <1>5, <1>6, <1>7, <1>8 DEF StartupNext, StartupStep, Migrate

\* TaskStream implements Startup: every step of the composed system is a step
\* of a process, or leaves the processes alone.
THEOREM ImplementsStartup == Spec => StartupSpec
<1>1. Init => StartupInit
  BY DEF Init
<1>2. [Next]_vars => [StartupNext]_svars
  <2>1. ASSUME Next PROVE StartupNext \/ UNCHANGED svars
    <3>1. CASE Stop \/ \E p \in Procs : Die(p)
      BY <3>1 DEF Stop, Die, StartupNext
    <3>2. CASE \E n \in Nodes : ChangeStatus(n) \/ \E p \in Profiles : Register(n, p)
      BY <3>2 DEF ChangeStatus, Register
    <3>3. CASE \E t \in Tasks : PlanStep(t) \/ SubmitFails(t) \/ \E k \in Kinds : Select(t, k)
      BY <3>3 DEF PlanStep, Insert, InsertFails, Publish, PublishFails, SubmitFails, Select
    <3>4. CASE \E S \in SUBSET Tasks : RequeueTimedOut(S)
      BY <3>4 DEF RequeueTimedOut
    <3>5. CASE \E s \in Streams : StreamStep(s) \/ Disconnect(s) \/ CloseStream(s) \/ \E n \in Nodes : OpenStream(s, n)
      BY <3>5 DEF StreamStep, Subscribed, Send, Disconnect, CloseStream, OpenStream, Set
    <3>6. CASE \E h \in Handlers : CallStep(h) \/ \E n \in Nodes, t \in Tasks, valid \in BOOLEAN : SubmitTaskResult(h, n, t, valid)
      BY <3>6 DEF CallStep, CountTasks, WriteReliability, ReliabilityFails, EnqueuePayment, LookupFails, SubmitTaskResult, Proceed, Move
    <3>7. CASE StartupStep
      BY <3>7 DEF StartupNext
    <3> QED BY <2>1, <3>1, <3>2, <3>3, <3>4, <3>5, <3>6, <3>7 DEF Next
  <2>2. CASE UNCHANGED vars
    BY <2>2 DEF vars
  <2> QED BY <2>1, <2>2
<1> QED BY <1>1, <1>2, PTL DEF Spec, StartupSpec

\* ProcessInv, for the processes alone and so for the composed system.
THEOREM ProcessInvariantHolds == StartupSpec => []ProcessInv
<1>1. StartupInit => ProcessInv
  BY ProcessInit
<1>2. ProcessInv /\ [StartupNext]_svars => ProcessInv'
  BY ProcessStep
<1> QED BY <1>1, <1>2, PTL DEF StartupSpec

\* ServesMigrated: no request is served on a schema that is not the latest, or
\* dirty, whichever process migrated it and wherever one of them died.
THEOREM ServesMigratedHolds == Spec => []ServesMigrated
<1>1. ProcessInv => ServesMigrated
  BY DEF ProcessInv, ServesMigrated, Serving, Migrated
<1> QED BY <1>1, ImplementsStartup, ProcessInvariantHolds, PTL

\* ConfigSuffices: whatever the configuration, once validate accepts it no file
\* that run opens is left without a name.
THEOREM ConfigSufficesHolds == Spec => []ConfigSuffices
<1>1. ProcessInv => ConfigSuffices
  BY DEF ProcessInv, ConfigSuffices
<1> QED BY <1>1, ImplementsStartup, ProcessInvariantHolds, PTL

-----------------------------------------------------------------------------
(* Assignments, rows and payments                                          *)

Offers == [task : Tasks, node : Nodes, kind : Kinds, uri : {p.uri : p \in Profiles}, sats : Nat]
Plans == [step : {"none", "insert", "publish", "done"}, since : Nat, of : Offers \cup {None}]
Calls == [step : {"free", "count", "write", "enqueue"}, node : Nodes \cup {None}, task : Tasks \cup {None},
          valid : BOOLEAN, counts : Nat \X Nat]
Calling == [state : {"closed", "opening", "open", "idle"}, node : Nodes \cup {None}, channel : Seq(Offers)]

\* The types that the arguments below need.
RegistryShape ==
  profile \in [Nodes -> Profiles] /\ registered \in [Nodes -> Nat] /\ registrations \in Nat
RowShape ==
  /\ status \in [Tasks -> {"absent", "running", "pending", "completed"}]
  /\ assigned \in [Tasks -> Nodes \cup {None}]
  /\ pays \in [Tasks -> [uri : {p.uri : p \in Profiles} \cup {""}, sats : Nat]]
PlanShape == plan \in [Tasks -> Plans]
StreamShape == stream \in [Streams -> Calling]
CallShape == call \in [Handlers -> Calls]
Shape == RegistryShape /\ RowShape /\ PlanShape /\ StreamShape /\ CallShape

\* A row is what its Schedule call planned; before the INSERT there is none.
RowInv ==
  \A t \in Tasks :
    /\ plan[t].step # "none" => plan[t].of \in Offers /\ plan[t].of.task = t
    /\ plan[t].step \in {"none", "insert"} => status[t] = "absent"
    /\ plan[t].step = "publish" => status[t] # "absent"
    /\ status[t] = "running" => assigned[t] = plan[t].of.node
    /\ status[t] = "pending" => assigned[t] = None
    /\ status[t] # "absent" => pays[t] = [uri |-> plan[t].of.uri, sats |-> plan[t].of.sats]

\* The node that was chosen is fit as long as it has not registered again,
\* which would give it a higher number.
FitInv ==
  /\ \A n \in Nodes : registered[n] <= registrations
  /\ \A t \in Tasks : plan[t].step # "none" =>
       /\ plan[t].since <= registrations
       /\ registered[plan[t].of.node] = plan[t].since => Fit(profile[plan[t].of.node], plan[t].of.kind)

Queued == UNION {{stream[s].channel[i] : i \in 1..Len(stream[s].channel)} : s \in Streams}

\* What was published is the plan of a row.
SentInv ==
  \A a \in told \cup Queued :
    a \in Offers /\ plan[a.task].step = "done" /\ plan[a.task].of = a /\ status[a.task] # "absent"

\* A payment, and a call that is going to make one, has a completed row.
JobInv ==
  /\ \A h \in Handlers : (call[h].step = "enqueue" \/ (call[h].step # "free" /\ call[h].valid)) =>
       call[h].task \in Tasks /\ status[call[h].task] = "completed"
  /\ \A j \in jobs : j.task \in Tasks /\ status[j.task] = "completed" /\ pays[j.task] = [uri |-> j.uri, sats |-> j.sats]

StreamInv == Shape /\ RowInv /\ FitInv /\ SentInv /\ JobInv

\* The initial state.
LEMMA StreamInit == Init => StreamInv
<1> SUFFICES ASSUME Init PROVE StreamInv
  OBVIOUS
<1>1. (CHOOSE p \in Profiles : TRUE) \in Profiles
  BY TaskStreamAssumption
<1>2. <<>> \in Seq(Offers) /\ Len(<<>>) = 0 /\ <<0, 0>> \in Nat \X Nat
  OBVIOUS
<1>3. Shape
  <2>1. NoPlan \in Plans
    BY DEF NoPlan, Plans
  <2>2. Free \in Calls
    BY DEF Free, Calls
  <2>3. Closed \in Calling
    BY <1>2 DEF Closed, Calling
  <2>4. NoPays \in [uri : {p.uri : p \in Profiles} \cup {""}, sats : Nat]
    BY DEF NoPays
  <2>5. RegistryShape
    BY <1>1 DEF Init, RegistryShape
  <2>6. RowShape
    BY <2>4 DEF Init, RowShape
  <2>7. PlanShape /\ StreamShape /\ CallShape
    BY <2>1, <2>2, <2>3 DEF Init, PlanShape, StreamShape, CallShape
  <2> QED BY <2>5, <2>6, <2>7 DEF Shape
<1>4. RowInv /\ FitInv
  BY DEF Init, RowInv, FitInv, NoPlan
<1>5. SentInv
  BY <1>2 DEF Init, SentInv, Queued, Closed
<1>6. JobInv
  BY DEF Init, JobInv, Free
<1> QED BY <1>3, <1>4, <1>5, <1>6 DEF StreamInv

\* A change of status or a registration.
LEMMA RegistryKeeps ==
  ASSUME StreamInv, NEW n \in Nodes, ChangeStatus(n) \/ \E p \in Profiles : Register(n, p)
  PROVE  StreamInv'
<1> USE DEF StreamInv, Shape
<1>0. UNCHANGED <<rows, memory, history>>
  BY DEF ChangeStatus, Register
<1>1. RowInv' /\ SentInv' /\ JobInv'
  BY <1>0 DEF RowInv, SentInv, Queued, JobInv, rows, memory, history
<1>2. RowShape' /\ PlanShape' /\ StreamShape' /\ CallShape'
  BY <1>0 DEF RowShape, PlanShape, StreamShape, CallShape, rows, memory
<1>3. CASE ChangeStatus(n)
  <2>1. UNCHANGED <<profile, registered, registrations>>
    BY <1>3 DEF ChangeStatus
  <2>2. RegistryShape' /\ FitInv'
    BY <1>0, <2>1 DEF RegistryShape, FitInv, memory
  <2> QED BY <1>1, <1>2, <2>2
<1>4. ASSUME NEW p \in Profiles, Register(n, p) PROVE StreamInv'
  <2>1. /\ registrations' = registrations + 1 /\ registered' = [registered EXCEPT ![n] = registrations + 1]
        /\ profile' = [profile EXCEPT ![n] = p]
    BY <1>4 DEF Register
  <2>2. RegistryShape'
    BY <2>1 DEF RegistryShape
  <2>3. \A m \in Nodes : registered'[m] <= registrations'
    BY <2>1 DEF FitInv, RegistryShape
  <2>4. ASSUME NEW t \in Tasks, plan[t].step # "none"
        PROVE  /\ plan[t].since <= registrations'
               /\ registered'[plan[t].of.node] = plan[t].since => Fit(profile'[plan[t].of.node], plan[t].of.kind)
    <3>1. plan[t].of.node \in Nodes
      BY <2>4 DEF RowInv, Offers
    <3>2. plan[t].since \in Nat /\ plan[t].since <= registrations /\ registrations \in Nat
      BY <2>4 DEF FitInv, RegistryShape, PlanShape, Plans
    <3>3. CASE plan[t].of.node = n
      BY <2>1, <3>2, <3>3 DEF RegistryShape
    <3>4. CASE plan[t].of.node # n
      BY <2>1, <2>4, <3>1, <3>2, <3>4 DEF FitInv, RegistryShape
    <3> QED BY <3>3, <3>4
  <2>5. FitInv'
    BY <1>0, <2>3, <2>4 DEF FitInv, memory
  <2> QED BY <1>1, <1>2, <2>2, <2>5
<1> QED BY <1>3, <1>4

\* Schedule chooses a node.
LEMMA SelectKeeps ==
  ASSUME StreamInv, NEW t \in Tasks, NEW k \in Kinds, Select(t, k)
  PROVE  StreamInv'
<1> USE DEF StreamInv, Shape
<1>1. PICK n \in Selectable(k), sats \in Rewards :
        plan' = [plan EXCEPT ![t] =
                  [step |-> "insert", since |-> registered[n],
                   of |-> [task |-> t, node |-> n, kind |-> k, uri |-> profile[n].uri, sats |-> sats]]]
  BY DEF Select
<1>2. UNCHANGED <<registry, rows, stream, call, history>> /\ status[t] = "absent" /\ plan[t].step = "none"
  BY DEF Select
<1>3. n \in Nodes /\ Fit(profile[n], k)
  BY DEF Selectable
<1>4. sats \in Nat
  BY TaskStreamAssumption
<1> DEFINE o == [task |-> t, node |-> n, kind |-> k, uri |-> profile[n].uri, sats |-> sats]
           q == [step |-> "insert", since |-> registered[n], of |-> o]
<1>5. o \in Offers /\ o.task = t /\ o.node = n /\ o.kind = k
  BY <1>3, <1>4 DEF Offers, RegistryShape
<1>6. q.step = "insert" /\ q.since = registered[n] /\ q.of = o /\ plan' = [plan EXCEPT ![t] = q]
  BY <1>1
<1>7. q \in Plans
  BY <1>3, <1>5 DEF Plans, RegistryShape
<1> HIDE DEF o, q
<1>8. plan'[t] = q /\ \A u \in Tasks \ {t} : plan'[u] = plan[u]
  BY <1>6 DEF PlanShape
<1>9. Shape'
  BY <1>2, <1>6, <1>7 DEF RegistryShape, RowShape, PlanShape, StreamShape, CallShape, registry, rows
<1>10. RowInv'
  BY <1>2, <1>5, <1>6, <1>8 DEF RowInv, rows
<1>11. FitInv'
  BY <1>2, <1>3, <1>5, <1>6, <1>8 DEF FitInv, registry
<1>12. SentInv'
  <2>1. \A a \in told \cup Queued : a.task # t /\ a.task \in Tasks
    BY <1>2 DEF SentInv, Offers
  <2> QED BY <1>2, <1>8, <2>1 DEF SentInv, Queued, rows, history
<1>13. JobInv'
  BY <1>2 DEF JobInv, rows, history
<1> QED BY <1>9, <1>10, <1>11, <1>12, <1>13

\* A plan moves on to step "publish" or "done".
LEMMA PlanMoves ==
  ASSUME PlanShape, NEW t \in Tasks, NEW next \in {"publish", "done"}, plan' = [plan EXCEPT ![t].step = next]
  PROVE  /\ PlanShape'
         /\ plan'[t].step = next /\ plan'[t].since = plan[t].since /\ plan'[t].of = plan[t].of
         /\ \A u \in Tasks \ {t} : plan'[u] = plan[u]
BY DEF PlanShape, Plans

\* What was sent stays the plan of a row when the plan of a task moves on.
LEMMA SentStays ==
  ASSUME SentInv, NEW t \in Tasks,
         UNCHANGED <<told, stream>>,
         \A u \in Tasks : status[u] # "absent" => status'[u] # "absent",
         \A u \in Tasks \ {t} : plan'[u] = plan[u],
         plan'[t].of = plan[t].of /\ (plan[t].step = "done" => plan'[t].step = "done")
  PROVE  SentInv'
<1>1. (told \cup Queued)' = told \cup Queued
  BY DEF Queued
<1> SUFFICES ASSUME NEW a \in told \cup Queued
             PROVE  a \in Offers /\ plan'[a.task].step = "done" /\ plan'[a.task].of = a /\ status'[a.task] # "absent"
  BY <1>1 DEF SentInv
<1>2. a \in Offers /\ plan[a.task].step = "done" /\ plan[a.task].of = a /\ status[a.task] # "absent" /\ a.task \in Tasks
  BY DEF SentInv, Offers
<1>3. CASE a.task = t
  BY <1>2, <1>3
<1>4. CASE a.task # t
  BY <1>2, <1>4
<1> QED BY <1>3, <1>4

\* The row of a task is inserted.
LEMMA InsertKeeps ==
  ASSUME StreamInv, NEW t \in Tasks, Insert(t) \/ InsertFails(t)
  PROVE  StreamInv'
<1> USE DEF StreamInv, Shape
<1>0. plan[t].step = "insert" /\ UNCHANGED <<registry, stream, call, history>> /\ (InsertRow(t) \/ UNCHANGED rows)
  BY DEF Insert, InsertFails
<1>1. PICK next \in {"publish", "done"} :
        plan' = [plan EXCEPT ![t].step = next] /\ (next = "publish" => InsertRow(t))
  BY DEF Insert, InsertFails
<1>2. /\ PlanShape'
      /\ plan'[t].step = next /\ plan'[t].since = plan[t].since /\ plan'[t].of = plan[t].of
      /\ \A u \in Tasks \ {t} : plan'[u] = plan[u]
  BY <1>1, PlanMoves
<1>3. plan[t].of \in Offers /\ plan[t].of.task = t /\ status[t] = "absent"
  BY <1>0 DEF RowInv
<1>4. plan[t].of.node \in Nodes /\ plan[t].of.uri \in {p.uri : p \in Profiles} /\ plan[t].of.sats \in Nat
  BY <1>3 DEF Offers
<1>5. RegistryShape' /\ StreamShape' /\ CallShape'
  BY <1>0 DEF RegistryShape, StreamShape, CallShape, registry
<1>6. RowShape'
  <2> DEFINE pay == [uri |-> plan[t].of.uri, sats |-> plan[t].of.sats]
             Pay == [uri : {p.uri : p \in Profiles} \cup {""}, sats : Nat]
  <2>1. pay \in Pay
    BY <1>4
  <2>2. UNCHANGED rows \/ (/\ status' = [status EXCEPT ![t] = "running"]
                           /\ assigned' = [assigned EXCEPT ![t] = plan[t].of.node]
                           /\ pays' = [pays EXCEPT ![t] = pay])
    BY <1>0 DEF InsertRow
  <2>3. pays \in [Tasks -> Pay]
    BY DEF RowShape
  <2>4. RowShape' <=> /\ status' \in [Tasks -> {"absent", "running", "pending", "completed"}]
                      /\ assigned' \in [Tasks -> Nodes \cup {None}]
                      /\ pays' \in [Tasks -> Pay]
    BY DEF RowShape
  <2> HIDE DEF pay, Pay
  <2>5. pays' \in [Tasks -> Pay]
    BY <2>1, <2>2, <2>3 DEF rows
  <2>6. status' \in [Tasks -> {"absent", "running", "pending", "completed"}] /\ assigned' \in [Tasks -> Nodes \cup {None}]
    BY <1>4, <2>2 DEF RowShape, rows
  <2> QED BY <2>4, <2>5, <2>6
<1>7. RowInv'
  <2>1. ASSUME NEW u \in Tasks \ {t}
        PROVE  status'[u] = status[u] /\ assigned'[u] = assigned[u] /\ pays'[u] = pays[u] /\ plan'[u] = plan[u]
    BY <1>0, <1>2 DEF InsertRow, rows, RowShape
  <2>2. CASE InsertRow(t)
    <3>1. status'[t] = "running" /\ assigned'[t] = plan[t].of.node
          /\ pays'[t] = [uri |-> plan[t].of.uri, sats |-> plan[t].of.sats]
      BY <2>2 DEF InsertRow, RowShape
    <3> QED BY <1>2, <1>3, <2>1, <3>1 DEF RowInv
  <2>3. CASE UNCHANGED rows /\ next = "done"
    <3>1. status'[t] = "absent"
      BY <1>3, <2>3 DEF rows
    <3> QED BY <1>2, <1>3, <2>1, <2>3, <3>1 DEF RowInv
  <2> QED BY <1>0, <1>1, <2>2, <2>3
<1>8. FitInv'
  BY <1>0, <1>2 DEF FitInv, registry
<1>9. \A u \in Tasks : status[u] # "absent" => status'[u] = status[u] /\ pays'[u] = pays[u]
  BY <1>0, <1>3 DEF InsertRow, rows, RowShape
<1>10. SentInv'
  BY <1>0, <1>2, <1>9, SentStays DEF history
<1>11. JobInv'
  BY <1>0, <1>9 DEF JobInv, history
<1> QED BY <1>2, <1>5, <1>6, <1>7, <1>8, <1>10, <1>11

\* Publish appends the plan to the channels of some subscriptions.
LEMMA PublishKeeps ==
  ASSUME StreamInv, NEW t \in Tasks, Publish(t) \/ PublishFails(t)
  PROVE  StreamInv'
<1> USE DEF StreamInv, Shape
<1>0. plan[t].step = "publish" /\ UNCHANGED <<registry, rows, call, history>> /\ plan' = [plan EXCEPT ![t].step = "done"]
  BY DEF Publish, PublishFails
<1>1. /\ PlanShape'
      /\ plan'[t].step = "done" /\ plan'[t].since = plan[t].since /\ plan'[t].of = plan[t].of
      /\ \A u \in Tasks \ {t} : plan'[u] = plan[u]
  BY <1>0, PlanMoves
<1>2. plan[t].of \in Offers /\ plan[t].of.task = t /\ status[t] # "absent"
  BY <1>0 DEF RowInv
<1>3. RegistryShape' /\ RowShape' /\ CallShape'
  BY <1>0 DEF RegistryShape, RowShape, CallShape, registry, rows
<1>4. RowInv' /\ FitInv' /\ JobInv'
  BY <1>0, <1>1, <1>2 DEF RowInv, FitInv, JobInv, registry, rows, history
<1>5. \A s \in Streams : stream[s] \in Calling /\ stream[s].channel \in Seq(Offers)
  BY DEF StreamShape, Calling
<1>6. PICK R \in SUBSET Streams :
        stream' = [s \in Streams |-> IF s \in R THEN [stream[s] EXCEPT !.channel = Append(@, plan[t].of)] ELSE stream[s]]
  <2>1. CASE Publish(t)
    <3>1. PICK D : stream' = [s \in Streams |->
                    IF s \in Subscriptions(plan[t].of.node) \ D
                    THEN [stream[s] EXCEPT !.channel = Append(@, plan[t].of)]
                    ELSE stream[s]]
      BY <2>1 DEF Publish
    <3>2. Subscriptions(plan[t].of.node) \ D \in SUBSET Streams
      BY DEF Subscriptions
    <3> QED BY <3>1, <3>2
  <2>2. CASE PublishFails(t)
    <3>1. stream' = [s \in Streams |-> stream[s]]
      BY <2>2 DEF PublishFails, StreamShape
    <3>2. stream' = [s \in Streams |-> IF s \in {} THEN [stream[s] EXCEPT !.channel = Append(@, plan[t].of)] ELSE stream[s]]
      BY <3>1
    <3> WITNESS {} \in SUBSET Streams
    <3> QED BY <3>2
  <2> QED BY <2>1, <2>2
<1>7. ASSUME NEW s \in Streams
      PROVE  /\ stream'[s] \in Calling
             /\ \A i \in 1..Len(stream'[s].channel) :
                  \/ stream'[s].channel[i] = plan[t].of
                  \/ \E j \in 1..Len(stream[s].channel) : stream'[s].channel[i] = stream[s].channel[j]
  <2>1. CASE s \notin R
    BY <1>5, <1>6, <2>1
  <2>2. CASE s \in R
    <3> DEFINE ch == stream[s].channel
               o == plan[t].of
    <3>1. stream'[s] = [stream[s] EXCEPT !.channel = Append(ch, o)]
      BY <1>6, <2>2
    <3>2. ch \in Seq(Offers) /\ o \in Offers
      BY <1>2, <1>5
    <3>3. stream'[s].channel = Append(ch, o) /\ stream'[s] \in Calling
      <4>1. Append(ch, o) \in Seq(Offers)
        BY <3>2
      <4> HIDE DEF ch, o
      <4> QED BY <1>5, <3>1, <4>1 DEF Calling
    <3>4. /\ Len(Append(ch, o)) = Len(ch) + 1 /\ Len(ch) \in Nat
          /\ \A i \in 1..Len(ch) : Append(ch, o)[i] = ch[i]
          /\ Append(ch, o)[Len(ch) + 1] = o
      <4> HIDE DEF ch, o
      <4> QED BY <3>2
    <3> HIDE DEF ch, o
    <3>5. \A i \in 1..Len(Append(ch, o)) : Append(ch, o)[i] = o \/ \E j \in 1..Len(ch) : Append(ch, o)[i] = ch[j]
      <4> SUFFICES ASSUME NEW i \in 1..(Len(ch) + 1)
                   PROVE  Append(ch, o)[i] = o \/ \E j \in 1..Len(ch) : Append(ch, o)[i] = ch[j]
        BY <3>4
      <4>1. CASE i = Len(ch) + 1
        BY <3>4, <4>1
      <4>2. CASE i \in 1..Len(ch)
        BY <3>4, <4>2
      <4> QED BY <3>4, <4>1, <4>2
    <3> QED BY <3>3, <3>5 DEF ch, o
  <2> QED BY <2>1, <2>2
<1>8. StreamShape'
  BY <1>6, <1>7 DEF StreamShape
<1>9. SentInv'
  <2> SUFFICES ASSUME NEW a \in (told \cup Queued)'
               PROVE  a \in Offers /\ plan'[a.task].step = "done" /\ plan'[a.task].of = a /\ status'[a.task] # "absent"
    BY DEF SentInv
  <2>1. a \in told \cup Queued \/ a = plan[t].of
    <3>1. CASE a \in told'
      BY <1>0, <3>1 DEF history
    <3>2. CASE a \in Queued'
      <4>1. PICK s \in Streams : \E i \in 1..Len(stream'[s].channel) : a = stream'[s].channel[i]
        BY <3>2 DEF Queued
      <4>2. a = plan[t].of \/ \E j \in 1..Len(stream[s].channel) : a = stream[s].channel[j]
        BY <1>7, <4>1
      <4> QED BY <4>2 DEF Queued
    <3> QED BY <3>1, <3>2
  <2>2. CASE a = plan[t].of
    BY <1>0, <1>1, <1>2, <2>2 DEF rows
  <2>3. CASE a \in told \cup Queued
    <3>1. a \in Offers /\ plan[a.task].step = "done" /\ plan[a.task].of = a /\ status[a.task] # "absent" /\ a.task \in Tasks
      BY <2>3 DEF SentInv, Offers
    <3> QED BY <1>0, <1>1, <3>1 DEF rows
  <2> QED BY <2>1, <2>2, <2>3
<1> QED BY <1>1, <1>3, <1>4, <1>8, <1>9

\* The ticker takes running tasks away from their nodes.
LEMMA RequeueKeeps ==
  ASSUME StreamInv, NEW S \in SUBSET Tasks, RequeueTimedOut(S)
  PROVE  StreamInv'
<1> USE DEF StreamInv, Shape
<1>0. UNCHANGED <<registry, pays, memory, history>>
  BY DEF RequeueTimedOut
<1>1. \A t \in Tasks :
        \/ status'[t] = status[t] /\ assigned'[t] = assigned[t]
        \/ status[t] = "running" /\ status'[t] = "pending" /\ assigned'[t] = None
  BY DEF RequeueTimedOut
<1>2. RegistryShape' /\ PlanShape' /\ StreamShape' /\ CallShape'
  BY <1>0 DEF RegistryShape, PlanShape, StreamShape, CallShape, registry, memory
<1>3. RowShape'
  BY <1>0 DEF RowShape, RequeueTimedOut
<1>4. RowInv' /\ FitInv'
  BY <1>0, <1>1 DEF RowInv, FitInv, registry, memory
<1>5. SentInv'
  <2>1. (told \cup Queued)' = told \cup Queued /\ \A a \in told \cup Queued : a.task \in Tasks
    BY <1>0 DEF Queued, SentInv, Offers, memory, history
  <2> QED BY <1>0, <1>1, <2>1 DEF SentInv, memory
<1>6. JobInv'
  BY <1>0, <1>1 DEF JobInv, memory, history
<1> QED BY <1>2, <1>3, <1>4, <1>5, <1>6

\* A stream forwards what is in its channel and changes nothing else.
LEMMA StreamKeeps ==
  ASSUME StreamInv, NEW s \in Streams,
         StreamStep(s) \/ Disconnect(s) \/ CloseStream(s) \/ \E n \in Nodes : OpenStream(s, n)
  PROVE  StreamInv'
<1> USE DEF StreamInv, Shape
<1>0. UNCHANGED <<registry, rows, plan, call, jobs>>
  BY DEF StreamStep, Subscribed, Send, Disconnect, CloseStream, OpenStream, Set, history
<1>1. RegistryShape' /\ RowShape' /\ PlanShape' /\ CallShape' /\ RowInv' /\ FitInv' /\ JobInv'
  <2>1. RegistryShape' /\ RowShape' /\ PlanShape' /\ CallShape'
    BY <1>0 DEF RegistryShape, RowShape, PlanShape, CallShape, registry, rows
  <2>2. RowInv'
    BY <1>0 DEF RowInv, rows
  <2>3. FitInv'
    BY <1>0 DEF FitInv, registry
  <2>4. JobInv'
    BY <1>0 DEF JobInv, rows
  <2> QED BY <2>1, <2>2, <2>3, <2>4
<1>2. stream[s] \in Calling /\ stream[s].channel \in Seq(Offers)
  BY DEF StreamShape, Calling
<1>3. Closed \in Calling /\ Closed.channel = <<>> /\ <<>> \in Seq(Offers) /\ Len(<<>>) = 0
  BY DEF Closed, Calling
<1> DEFINE ch == stream[s].channel
<1>4. PICK v \in Calling :
        /\ stream' = [stream EXCEPT ![s] = v]
        /\ \/ v.channel \in {<<>>, ch} /\ told' = told
           \/ ch # <<>> /\ v.channel = Tail(ch) /\ told' = told \cup {Head(ch)}
  <2>1. CASE Send(s)
    <3>1. ch # <<>> /\ ch \in Seq(Offers)
      BY <1>2, <2>1 DEF Send
    <3>2. Tail(ch) \in Seq(Offers)
      BY <3>1
    <3>3. [stream[s] EXCEPT !.channel = Tail(ch)] \in Calling /\ [stream[s] EXCEPT !.channel = Tail(ch)].channel = Tail(ch)
      <4> DEFINE tl == Tail(ch)
      <4>1. tl \in Seq(Offers)
        BY <3>2
      <4> HIDE DEF tl
      <4>2. [stream[s] EXCEPT !.channel = tl] \in Calling /\ [stream[s] EXCEPT !.channel = tl].channel = tl
        BY <1>2, <4>1 DEF Calling
      <4> QED BY <4>2 DEF tl
    <3> QED BY <2>1, <3>1, <3>3 DEF Send, Set
  <2>2. CASE Subscribed(s)
    <3>1. [stream[s] EXCEPT !.state = "open"] \in Calling /\ [stream[s] EXCEPT !.state = "open"].channel = ch
      BY <1>2 DEF Calling
    <3> QED BY <2>2, <3>1 DEF Subscribed, Set, history
  <2>3. CASE Disconnect(s)
    <3>1. [stream[s] EXCEPT !.state = "opening"] \in Calling /\ [stream[s] EXCEPT !.state = "opening"].channel = ch
      BY <1>2 DEF Calling
    <3> QED BY <2>3, <3>1 DEF Disconnect, Set, history
  <2>4. CASE CloseStream(s)
    BY <1>3, <2>4 DEF CloseStream, Set, history
  <2>5. ASSUME NEW n \in Nodes, OpenStream(s, n)
        PROVE  \E v \in Calling : stream' = [stream EXCEPT ![s] = v] /\ v.channel \in {<<>>, ch} /\ told' = told
    <3> DEFINE w == [Closed EXCEPT !.state = IF HasRedis THEN "opening" ELSE "idle", !.node = n]
    <3>1. w \in Calling /\ w.channel = <<>>
      BY <1>3 DEF Closed, Calling
    <3> QED BY <2>5, <3>1 DEF OpenStream, Set, history
  <2> QED BY <2>1, <2>2, <2>3, <2>4, <2>5 DEF StreamStep
<1>5. StreamShape'
  BY <1>4 DEF StreamShape
<1>6. stream'[s] = v /\ \A r \in Streams \ {s} : stream'[r] = stream[r]
  BY <1>4 DEF StreamShape
<1>7. \A i \in 1..Len(v.channel) : \E j \in 1..Len(ch) : v.channel[i] = ch[j]
  <2> HIDE DEF ch
  <2>0. ch \in Seq(Offers)
    BY <1>2 DEF ch
  <2>1. CASE v.channel = <<>>
    BY <1>3, <2>1
  <2>2. CASE v.channel = ch
    BY <2>2
  <2>3. CASE ch # <<>> /\ v.channel = Tail(ch)
    <3>1. Len(Tail(ch)) = Len(ch) - 1 /\ Len(ch) \in Nat /\ \A i \in 1..Len(Tail(ch)) : Tail(ch)[i] = ch[i + 1]
      BY <2>0, <2>3
    <3> SUFFICES ASSUME NEW i \in 1..Len(Tail(ch)) PROVE \E j \in 1..Len(ch) : Tail(ch)[i] = ch[j]
      BY <2>3
    <3>2. i + 1 \in 1..Len(ch) /\ Tail(ch)[i] = ch[i + 1]
      BY <3>1
    <3> QED BY <3>2
  <2> QED BY <1>4, <2>1, <2>2, <2>3
<1>8. Queued' \subseteq Queued
  <2> SUFFICES ASSUME NEW a \in Queued' PROVE a \in Queued
    OBVIOUS
  <2>1. PICK r \in Streams : \E i \in 1..Len(stream'[r].channel) : a = stream'[r].channel[i]
    BY DEF Queued
  <2>2. \E i \in 1..Len(stream[r].channel) : a = stream[r].channel[i]
    BY <1>6, <1>7, <2>1
  <2> QED BY <2>2 DEF Queued
<1>9. told' \subseteq told \cup Queued
  <2>1. CASE told' = told
    BY <2>1
  <2>2. CASE ch # <<>> /\ told' = told \cup {Head(ch)}
    <3>1. 1 \in 1..Len(ch) /\ Head(ch) = ch[1]
      BY <1>2, <2>2
    <3>2. Head(ch) \in Queued
      BY <3>1 DEF Queued
    <3> QED BY <2>2, <3>2
  <2> QED BY <1>4, <2>1, <2>2
<1>10. SentInv'
  <2>1. (told \cup Queued)' \subseteq told \cup Queued
    BY <1>8, <1>9
  <2> QED BY <1>0, <2>1 DEF SentInv, rows
<1> QED BY <1>1, <1>5, <1>10

\* A step of SubmitTaskResult that completes no row: the call moves from one
\* record to another that needs no more than the first, and a payment is that of
\* its row.
LEMMA CallKeeps ==
  ASSUME StreamInv, NEW h \in Handlers, CallStep(h)
  PROVE  StreamInv'
<1> USE DEF StreamInv, Shape
<1>0. UNCHANGED <<profile, registered, registrations, rows, plan, stream, told>>
  BY DEF CallStep, CountTasks, WriteReliability, ReliabilityFails, EnqueuePayment, LookupFails, Proceed, Move
<1>1. RegistryShape' /\ RowShape' /\ PlanShape' /\ StreamShape' /\ RowInv' /\ FitInv' /\ SentInv'
  <2>1. RegistryShape' /\ RowShape' /\ PlanShape' /\ StreamShape'
    BY <1>0 DEF RegistryShape, RowShape, PlanShape, StreamShape, rows
  <2>2. RowInv'
    BY <1>0 DEF RowInv, rows
  <2>3. FitInv'
    BY <1>0 DEF FitInv
  <2>4. SentInv'
    BY <1>0 DEF SentInv, Queued, rows
  <2> QED BY <2>1, <2>2, <2>3, <2>4
<1> DEFINE c == call[h]
<1>2. c \in Calls
  BY DEF CallShape
<1>3. Free \in Calls /\ Free.step = "free"
  BY DEF Free, Calls
<1>4. PICK v \in Calls :
        /\ call' = [call EXCEPT ![h] = v]
        /\ \/ v = Free
           \/ c.step # "free" /\ v.task = c.task /\ v.valid = c.valid /\ (v.step = "enqueue" => c.valid)
  <2>1. CASE CountTasks(h)
    <3>0. PICK mine \in SUBSET {t \in Tasks : assigned[t] = call[h].node} :
            LET done == {t \in mine : status[t] = "completed"}
            IN  Move(h, [call[h] EXCEPT !.step = "write", !.counts = <<Cardinality(done), Cardinality(mine)>>])
      BY <2>1 DEF CountTasks
    <3> DEFINE done == {t \in mine : status[t] = "completed"}
               counts == <<Cardinality(done), Cardinality(mine)>>
    <3>1. counts \in Nat \X Nat
      <4>1. IsFiniteSet(mine) /\ IsFiniteSet(done)
        BY TaskStreamAssumption, FS_Subset
      <4> QED BY <4>1, FS_CardinalityType
    <3>2. call' = [call EXCEPT ![h] = [c EXCEPT !.step = "write", !.counts = counts]] /\ c.step = "count"
      BY <2>1, <3>0 DEF CountTasks, Move
    <3> HIDE DEF counts, c
    <3> DEFINE w == [c EXCEPT !.step = "write", !.counts = counts]
    <3>3. w \in Calls /\ w.task = c.task /\ w.valid = c.valid /\ w.step = "write"
      BY <1>2, <3>1 DEF Calls
    <3> QED BY <3>2, <3>3
  <2>2. CASE WriteReliability(h) \/ ReliabilityFails(h)
    <3>1. c.step \in {"count", "write"} /\ Proceed(h)
      BY <2>2 DEF WriteReliability, ReliabilityFails
    <3>2. CASE c.valid
      <4> DEFINE w == [c EXCEPT !.step = "enqueue", !.counts = <<0, 0>>]
      <4>1. call' = [call EXCEPT ![h] = w]
        BY <3>1, <3>2 DEF Proceed, Move
      <4>2. w \in Calls /\ w.task = c.task /\ w.valid = c.valid
        BY <1>2 DEF Calls
      <4> QED BY <3>1, <3>2, <4>1, <4>2
    <3>3. CASE ~c.valid
      BY <1>3, <3>1, <3>3 DEF Proceed, Move
    <3> QED BY <3>2, <3>3
  <2>3. CASE EnqueuePayment(h) \/ LookupFails(h)
    BY <1>3, <2>3 DEF EnqueuePayment, LookupFails, Move
  <2> QED BY <2>1, <2>2, <2>3 DEF CallStep
<1>5. CallShape'
  BY <1>4 DEF CallShape
<1>6. call'[h] = v /\ \A g \in Handlers \ {h} : call'[g] = call[g]
  BY <1>4 DEF CallShape
<1>7. ASSUME NEW g \in Handlers, call'[g].step = "enqueue" \/ (call'[g].step # "free" /\ call'[g].valid)
      PROVE  call'[g].task \in Tasks /\ status'[call'[g].task] = "completed"
  <2>1. CASE g # h
    BY <1>0, <1>6, <1>7, <2>1 DEF JobInv, rows
  <2>2. CASE g = h
    <3>1. v # Free
      BY <1>3, <1>6, <1>7, <2>2
    <3>2. c.step # "free" /\ c.valid /\ v.task = c.task
      BY <1>4, <1>6, <1>7, <2>2, <3>1
    <3> QED BY <1>0, <1>6, <2>2, <3>2 DEF JobInv, rows
  <2> QED BY <2>1, <2>2
<1>8. ASSUME NEW j \in jobs'
      PROVE  j.task \in Tasks /\ status'[j.task] = "completed" /\ pays'[j.task] = [uri |-> j.uri, sats |-> j.sats]
  <2>1. CASE j \in jobs
    BY <1>0, <2>1 DEF JobInv, rows
  <2>2. CASE j \notin jobs
    <3>1. c.step = "enqueue" /\ j = [task |-> c.task, uri |-> pays[c.task].uri, sats |-> pays[c.task].sats]
      BY <1>8, <2>2 DEF CallStep, CountTasks, WriteReliability, ReliabilityFails, EnqueuePayment, LookupFails
    <3>2. c.task \in Tasks /\ status[c.task] = "completed"
      BY <3>1 DEF JobInv
    <3>3. pays[c.task] = [uri |-> pays[c.task].uri, sats |-> pays[c.task].sats]
      BY <3>2 DEF RowShape
    <3>4. j.task = c.task /\ j.uri = pays[c.task].uri /\ j.sats = pays[c.task].sats
      BY <3>1
    <3> QED BY <1>0, <3>2, <3>3, <3>4 DEF rows
  <2> QED BY <2>1, <2>2
<1>9. JobInv'
  BY <1>7, <1>8 DEF JobInv
<1> QED BY <1>1, <1>5, <1>9

\* SubmitTaskResult completes the row of a task whose result is valid.
LEMMA SubmitKeeps ==
  ASSUME StreamInv, NEW h \in Handlers, NEW n \in Nodes, NEW t \in Tasks, NEW valid \in BOOLEAN,
         SubmitTaskResult(h, n, t, valid)
  PROVE  StreamInv'
<1> USE DEF StreamInv, Shape
<1>0. UNCHANGED <<profile, registered, registrations, assigned, pays, plan, stream, told, jobs>>
  BY DEF SubmitTaskResult, Move
<1>1. /\ status[t] # "absent"
      /\ status' = IF valid THEN [status EXCEPT ![t] = "completed"] ELSE status
      /\ call' = [call EXCEPT ![h] = [step |-> "count", node |-> n, task |-> t, valid |-> valid, counts |-> <<0, 0>>]]
  BY DEF SubmitTaskResult, Move
<1>2. \A u \in Tasks : status'[u] = status[u] \/ (status[u] # "absent" /\ status'[u] = "completed")
  BY <1>1 DEF RowShape
<1>3. RegistryShape' /\ PlanShape' /\ StreamShape'
  BY <1>0 DEF RegistryShape, PlanShape, StreamShape
<1>4. RowShape'
  BY <1>0, <1>1 DEF RowShape
<1>5. RowInv' /\ FitInv'
  BY <1>0, <1>2 DEF RowInv, FitInv
<1>6. SentInv'
  <2>1. (told \cup Queued)' = told \cup Queued /\ \A a \in told \cup Queued : a.task \in Tasks
    BY <1>0 DEF Queued, SentInv, Offers
  <2> QED BY <1>0, <1>2, <2>1 DEF SentInv
<1> DEFINE v == [step |-> "count", node |-> n, task |-> t, valid |-> valid, counts |-> <<0, 0>>]
<1>7. v \in Calls /\ v.step = "count" /\ v.task = t /\ v.valid = valid
  BY DEF Calls
<1> HIDE DEF v
<1>8. call' = [call EXCEPT ![h] = v]
  BY <1>1 DEF v
<1>9. CallShape'
  BY <1>7, <1>8 DEF CallShape
<1>10. JobInv'
  <2>1. call'[h] = v /\ \A g \in Handlers \ {h} : call'[g] = call[g]
    BY <1>8 DEF CallShape
  <2>2. valid => status'[t] = "completed"
    BY <1>1 DEF RowShape
  <2>3. ASSUME NEW g \in Handlers, call'[g].step = "enqueue" \/ (call'[g].step # "free" /\ call'[g].valid)
        PROVE  call'[g].task \in Tasks /\ status'[call'[g].task] = "completed"
    <3>1. CASE g # h
      BY <1>2, <2>1, <2>3, <3>1 DEF JobInv
    <3>2. CASE g = h
      BY <1>7, <2>1, <2>2, <2>3, <3>2
    <3> QED BY <3>1, <3>2
  <2>4. \A j \in jobs' : j.task \in Tasks /\ status'[j.task] = "completed" /\ pays'[j.task] = [uri |-> j.uri, sats |-> j.sats]
    BY <1>0, <1>2 DEF JobInv
  <2> QED BY <2>3, <2>4 DEF JobInv
<1> QED BY <1>3, <1>4, <1>5, <1>6, <1>9, <1>10

\* A result that MarkComplete refuses with an error completes the row or not.
LEMMA SubmitFailsKeeps ==
  ASSUME StreamInv, NEW t \in Tasks, SubmitFails(t)
  PROVE  StreamInv'
<1> USE DEF StreamInv, Shape
<1>0. UNCHANGED <<profile, registered, registrations, assigned, pays, plan, stream, call, told, jobs>>
  BY DEF SubmitFails, registry, memory
<1>1. status[t] # "absent" /\ (status' = status \/ status' = [status EXCEPT ![t] = "completed"])
  BY DEF SubmitFails
<1>2. \A u \in Tasks : status'[u] = status[u] \/ (status[u] # "absent" /\ status'[u] = "completed")
  BY <1>1 DEF RowShape
<1>3. RegistryShape' /\ PlanShape' /\ StreamShape' /\ CallShape'
  BY <1>0 DEF RegistryShape, PlanShape, StreamShape, CallShape
<1>4. RowShape'
  BY <1>0, <1>1 DEF RowShape
<1>5. RowInv' /\ FitInv'
  BY <1>0, <1>2 DEF RowInv, FitInv
<1>6. SentInv'
  <2>1. (told \cup Queued)' = told \cup Queued /\ \A a \in told \cup Queued : a.task \in Tasks
    BY <1>0 DEF Queued, SentInv, Offers
  <2> QED BY <1>0, <1>2, <2>1 DEF SentInv
<1>7. JobInv'
  BY <1>0, <1>2 DEF JobInv
<1> QED BY <1>3, <1>4, <1>5, <1>6, <1>7

\* The end of the process: plans under way are over, calls and streams gone.
LEMMA ForgetKeeps ==
  ASSUME StreamInv, Forget
  PROVE  StreamInv'
<1> USE DEF StreamInv, Shape
<1>0. UNCHANGED <<registry, rows, history>>
  BY DEF Forget
<1>1. ASSUME NEW t \in Tasks
      PROVE  /\ plan'[t] \in Plans /\ plan'[t].since = plan[t].since /\ plan'[t].of = plan[t].of
             /\ plan'[t].step = IF plan[t].step = "none" THEN "none" ELSE "done"
  <2>1. plan[t] \in Plans /\ plan'[t] = IF plan[t].step \in {"insert", "publish"} THEN [plan[t] EXCEPT !.step = "done"] ELSE plan[t]
    BY DEF Forget, PlanShape
  <2>2. [plan[t] EXCEPT !.step = "done"] \in Plans
    BY <2>1 DEF Plans
  <2>3. plan[t].step \in {"none", "insert", "publish", "done"}
    BY <2>1 DEF Plans
  <2> QED BY <2>1, <2>2, <2>3 DEF Plans
<1>2. PlanShape'
  BY <1>1 DEF PlanShape, Forget
<1>3. Closed \in Calling /\ Closed.channel = <<>> /\ Free \in Calls /\ Free.step = "free"
  BY DEF Closed, Calling, Free, Calls
<1>4. StreamShape' /\ CallShape'
  BY <1>3 DEF Forget, StreamShape, CallShape
<1>5. RegistryShape' /\ RowShape'
  BY <1>0 DEF RegistryShape, RowShape, registry, rows
<1>6. RowInv' /\ FitInv'
  BY <1>0, <1>1 DEF RowInv, FitInv, registry, rows
<1>7. SentInv'
  <2>1. Queued' = {}
    <3>1. \A s \in Streams : stream'[s].channel = <<>>
      BY <1>3 DEF Forget
    <3> QED BY <3>1 DEF Queued
  <2>2. \A a \in told : a.task \in Tasks
    BY DEF SentInv, Offers
  <2> QED BY <1>0, <1>1, <2>1, <2>2 DEF SentInv, rows, history
<1>8. JobInv'
  BY <1>0, <1>3 DEF JobInv, Forget, rows, history
<1> QED BY <1>2, <1>4, <1>5, <1>6, <1>7, <1>8

\* StreamInv: rows, plans, messages, calls and payments agree in every state.
THEOREM StreamInvariantHolds == Spec => []StreamInv
<1>1. Init => StreamInv
  BY StreamInit
<1>2. StreamInv /\ [Next]_vars => StreamInv'
  <2> SUFFICES ASSUME StreamInv, [Next]_vars PROVE StreamInv'
    OBVIOUS
  <2>1. CASE UNCHANGED <<registry, rows, memory, history>>
    <3> USE DEF StreamInv, Shape
    <3>0. UNCHANGED <<profile, registered, registrations, status, assigned, pays, plan, stream, call, told, jobs>>
      BY <2>1 DEF registry, rows, memory, history
    <3>1. RegistryShape' /\ RowShape' /\ PlanShape' /\ StreamShape' /\ CallShape'
      BY <3>0 DEF RegistryShape, RowShape, PlanShape, StreamShape, CallShape
    <3>2. RowInv'
      BY <3>0 DEF RowInv
    <3>3. FitInv'
      BY <3>0 DEF FitInv
    <3>4. SentInv'
      BY <3>0 DEF SentInv, Queued
    <3>5. JobInv'
      BY <3>0 DEF JobInv
    <3> QED BY <3>1, <3>2, <3>3, <3>4, <3>5
  <2>2. CASE Stop \/ \E p \in Procs : Die(p)
    BY <2>1, <2>2, ForgetKeeps DEF Stop, Die
  <2>3. CASE Next
    BY <2>1, <2>2, <2>3, RegistryKeeps, SelectKeeps, InsertKeeps, PublishKeeps, RequeueKeeps, StreamKeeps, CallKeeps, SubmitKeeps, SubmitFailsKeeps
       DEF Next, PlanStep
  <2> QED BY <2>1, <2>3 DEF vars
<1> QED BY <1>1, <1>2, PTL DEF Spec

\* OfferIsKept: what a node was told is what its row says and what is paid,
\* whoever submits the result and whatever the node registers in between.
THEOREM OfferIsKeptHolds == Spec => []OfferIsKept
<1>1. StreamInv => OfferIsKept
  <2> SUFFICES ASSUME StreamInv PROVE OfferIsKept
    OBVIOUS
  <2> USE DEF StreamInv
  <2>1. ASSUME NEW a \in told \cup Queued
        PROVE  /\ status[a.task] # "absent"
               /\ \A j \in jobs : j.task = a.task => j.uri = a.uri /\ j.sats = a.sats
    <3>1. a \in Offers /\ plan[a.task].of = a /\ status[a.task] # "absent" /\ a.task \in Tasks
      BY DEF SentInv, Offers
    <3>2. pays[a.task] = [uri |-> a.uri, sats |-> a.sats]
      BY <3>1 DEF RowInv
    <3>3. \A j \in jobs : pays[j.task] = [uri |-> j.uri, sats |-> j.sats]
      BY DEF JobInv
    <3>4. pays[a.task].uri = a.uri /\ pays[a.task].sats = a.sats
      BY <3>2
    <3>5. ASSUME NEW j \in jobs PROVE pays[j.task].uri = j.uri /\ pays[j.task].sats = j.sats
      <4>1. pays[j.task] = [uri |-> j.uri, sats |-> j.sats]
        BY <3>3
      <4> QED BY <4>1
    <3> QED BY <3>1, <3>4, <3>5
  <2>2. \A j \in jobs : status[j.task] = "completed" /\ pays[j.task] = [uri |-> j.uri, sats |-> j.sats]
    BY DEF JobInv
  <2> QED BY <2>1, <2>2 DEF OfferIsKept, Queued
<1> QED BY <1>1, StreamInvariantHolds, PTL

\* AssigneeIsFit: a running task is with a node of a sufficient tier that
\* accepts its type, unless the node registered again in between.
THEOREM AssigneeIsFitHolds == Spec => []AssigneeIsFit
<1>1. StreamInv => AssigneeIsFit
  <2> SUFFICES ASSUME StreamInv, NEW t \in Tasks, status[t] = "running", registered[assigned[t]] = plan[t].since
               PROVE  Fit(profile[assigned[t]], plan[t].of.kind)
    BY DEF AssigneeIsFit
  <2>1. assigned[t] = plan[t].of.node /\ plan[t].step # "none"
    BY DEF StreamInv, RowInv
  <2> QED BY <2>1 DEF StreamInv, FitInv
<1> QED BY <1>1, StreamInvariantHolds, PTL

-----------------------------------------------------------------------------
(* The numbers                                                             *)

\* A quotient is bounded by the factor of its divisor.
LEMMA QuotientBound ==
  ASSUME NEW a \in Nat, NEW b \in Nat \ {0}, NEW k \in Nat, a <= k * b
  PROVE  a \div b \in 0..k
<1> DEFINE q == a \div b
<1>1. q \in Int /\ b * q <= a /\ a < b * q + b
  BY Z3
<1> QED BY <1>1

\* The reliability is a percentage, whatever the heartbeat log gives and
\* however many of its tasks a node has completed.
LEMMA ReliabilityBound ==
  ASSUME NEW counts \in Nat \X Nat, counts[1] <= counts[2], NEW uptime \in Nat
  PROVE  ComputeReliability(counts, uptime) \in 0..100
<1> DEFINE up == IF uptime > 100 THEN 100 ELSE uptime
           c == counts[1]
           d == counts[2]
<1>1. up \in 0..100 /\ c \in Nat /\ d \in Nat /\ c <= d
  OBVIOUS
<1>2. ComputeReliability(counts, uptime) = IF d = 0 THEN up ELSE (c * up) \div d
  BY DEF ComputeReliability
<1> HIDE DEF up, c, d
<1>3. c * up \in Nat /\ c * up <= 100 * d
  <2>1. c * up <= c * 100
    BY <1>1
  <2> QED BY <1>1, <2>1
<1>4. CASE d = 0
  BY <1>1, <1>2, <1>4
<1>5. CASE d # 0
  BY <1>1, <1>2, <1>3, <1>5, QuotientBound
<1> QED BY <1>4, <1>5

\* What the bounds of StreamTypeOK rest on: a call has counted no more
\* completed tasks of its node than tasks.
NumberInv ==
  /\ active \in [Nodes -> BOOLEAN]
  /\ reliability \in [Nodes -> 0..100]
  /\ registrations <= MaxRegistrations
  /\ \A h \in Handlers : call[h].counts[1] <= call[h].counts[2]

\* A step of SubmitTaskResult keeps the numbers in their bounds.
LEMMA CallNumbers ==
  ASSUME Shape, NumberInv, NEW h \in Handlers, CallStep(h)
  PROVE  NumberInv'
<1>0. active' = active /\ registrations' = registrations
  BY DEF CallStep, CountTasks, WriteReliability, ReliabilityFails, EnqueuePayment, LookupFails, Proceed, Move
<1>1. call \in [Handlers -> Calls] /\ call[h] \in Calls /\ call[h].counts \in Nat \X Nat
  BY DEF Shape, CallShape, Calls
<1>2. reliability' \in [Nodes -> 0..100]
  <2>1. CASE WriteReliability(h)
    <3>1. PICK uptime \in Uptimes :
            reliability' = [reliability EXCEPT ![call[h].node] = ComputeReliability(call[h].counts, uptime)]
      BY <2>1 DEF WriteReliability
    <3>2. ComputeReliability(call[h].counts, uptime) \in 0..100
      BY <1>1, ReliabilityBound, TaskStreamAssumption DEF NumberInv
    <3> QED BY <3>1, <3>2 DEF NumberInv
  <2>2. CASE reliability' = reliability
    BY <2>2 DEF NumberInv
  <2> QED BY <2>1, <2>2 DEF CallStep, CountTasks, ReliabilityFails, EnqueuePayment, LookupFails
<1>f. Free.counts[1] <= Free.counts[2]
  BY DEF Free
<1>3. \E v : call' = [call EXCEPT ![h] = v] /\ v.counts[1] <= v.counts[2]
  <2>1. CASE CountTasks(h)
    <3>1. PICK mine \in SUBSET {t \in Tasks : assigned[t] = call[h].node} :
            LET done == {t \in mine : status[t] = "completed"}
            IN  Move(h, [call[h] EXCEPT !.step = "write", !.counts = <<Cardinality(done), Cardinality(mine)>>])
      BY <2>1 DEF CountTasks
    <3> DEFINE done == {t \in mine : status[t] = "completed"}
               w == [call[h] EXCEPT !.step = "write", !.counts = <<Cardinality(done), Cardinality(mine)>>]
    <3>2. Cardinality(done) <= Cardinality(mine)
      BY TaskStreamAssumption, FS_Subset
    <3>3. w.counts[1] = Cardinality(done) /\ w.counts[2] = Cardinality(mine)
      BY <1>1 DEF Calls
    <3>4. call' = [call EXCEPT ![h] = w]
      BY <3>1 DEF Move
    <3>5. w.counts[1] <= w.counts[2]
      BY ONLY <3>2, <3>3
    <3> HIDE DEF w
    <3> QED BY <3>4, <3>5
  <2>2. CASE Proceed(h)
    <3> DEFINE w == [call[h] EXCEPT !.step = "enqueue", !.counts = <<0, 0>>]
    <3>1. w.counts[1] <= w.counts[2]
      BY <1>1 DEF Calls
    <3>2. call' = [call EXCEPT ![h] = w] \/ call' = [call EXCEPT ![h] = Free]
      BY <2>2 DEF Proceed, Move
    <3> HIDE DEF w
    <3> QED BY <3>1, <3>2, <1>f
  <2>3. CASE EnqueuePayment(h) \/ LookupFails(h)
    <3>1. call' = [call EXCEPT ![h] = Free]
      BY <2>3 DEF EnqueuePayment, LookupFails, Move
    <3> QED BY <3>1, <1>f
  <2> QED BY <2>1, <2>2, <2>3 DEF CallStep, WriteReliability, ReliabilityFails
<1>4. \A g \in Handlers : call'[g].counts[1] <= call'[g].counts[2]
  BY <1>1, <1>3 DEF NumberInv
<1> QED BY <1>0, <1>2, <1>4 DEF NumberInv

\* Every step keeps the numbers in their bounds.
LEMMA StepNumbers == StreamInv /\ NumberInv /\ [Next]_vars => NumberInv'
<1> SUFFICES ASSUME StreamInv, NumberInv, [Next]_vars PROVE NumberInv'
  OBVIOUS
<1>s. Shape /\ registrations \in Nat /\ call \in [Handlers -> Calls]
  BY DEF StreamInv, Shape, RegistryShape, CallShape
<1>f. Free.counts = <<0, 0>>
  BY DEF Free
<1>1. ASSUME UNCHANGED registry, UNCHANGED call PROVE NumberInv'
  BY <1>1 DEF registry, NumberInv
<1>2. ASSUME UNCHANGED registry, Forget PROVE NumberInv'
  BY <1>2, <1>f DEF registry, NumberInv, Forget
<1>3. ASSUME NEW n \in Nodes, ChangeStatus(n) PROVE NumberInv'
  <2>1. active' = [active EXCEPT ![n] = ~active[n]] /\ UNCHANGED <<reliability, registrations, call>>
    BY <1>3 DEF ChangeStatus, memory
  <2>2. active' \in [Nodes -> BOOLEAN]
    BY Zenon, <2>1 DEF NumberInv
  <2> QED BY <2>1, <2>2 DEF NumberInv
<1>4. ASSUME NEW n \in Nodes, NEW p \in Profiles, Register(n, p) PROVE NumberInv'
  <2>1. /\ active' = [active EXCEPT ![n] = FALSE] /\ registrations' = registrations + 1
        /\ registrations < MaxRegistrations /\ UNCHANGED <<reliability, call>>
    BY <1>4 DEF Register, memory
  <2> QED BY <1>s, <2>1, TaskStreamAssumption DEF NumberInv
<1>5. ASSUME NEW h \in Handlers, NEW n \in Nodes, NEW t \in Tasks, NEW valid \in BOOLEAN,
             SubmitTaskResult(h, n, t, valid)
      PROVE  NumberInv'
  <2> DEFINE v == [step |-> "count", node |-> n, task |-> t, valid |-> valid, counts |-> <<0, 0>>]
  <2>1. call' = [call EXCEPT ![h] = v] /\ v.counts = <<0, 0>> /\ UNCHANGED <<active, reliability, registrations>>
    BY <1>5 DEF SubmitTaskResult, Move
  <2> HIDE DEF v
  <2> QED BY <1>s, <2>1 DEF NumberInv
<1>6. ASSUME NEW h \in Handlers, CallStep(h) PROVE NumberInv'
  BY <1>s, <1>6, CallNumbers
<1>7. ASSUME NEW t \in Tasks, PlanStep(t) \/ SubmitFails(t) \/ (\E k \in Kinds : Select(t, k)) PROVE NumberInv'
  BY <1>1, <1>7 DEF PlanStep, Insert, InsertFails, Publish, PublishFails, SubmitFails, Select, memory
<1>8. ASSUME NEW s \in Streams, StreamStep(s) \/ Disconnect(s) \/ CloseStream(s) \/ (\E n \in Nodes : OpenStream(s, n))
      PROVE  NumberInv'
  BY <1>1, <1>8 DEF StreamStep, Subscribed, Send, Disconnect, CloseStream, OpenStream, Set
<1>9. ASSUME NEW S \in SUBSET Tasks, RequeueTimedOut(S) PROVE NumberInv'
  BY <1>1, <1>9 DEF RequeueTimedOut, memory
<1>10. CASE Stop \/ \E p \in Procs : Die(p)
  BY <1>1, <1>2, <1>10 DEF Stop, Die, Forget, memory
<1>11. CASE StartupStep /\ UNCHANGED <<registry, rows, memory, history>>
  BY <1>1, <1>11 DEF memory
<1>12. CASE UNCHANGED vars
  BY <1>1, <1>12 DEF vars, memory
<1> QED BY <1>3, <1>4, <1>5, <1>6, <1>7, <1>8, <1>9, <1>10, <1>11, <1>12 DEF Next

\* StreamTypeOK: in particular the reliability stays a percentage although the
\* counts are read before it is written, and every reward a node is told is a
\* natural number.
THEOREM StreamTypeCorrect == Spec => []StreamTypeOK
<1>1. Init => NumberInv
  <2>1. Free.counts = <<0, 0>>
    BY DEF Free
  <2> QED BY <2>1, TaskStreamAssumption DEF Init, NumberInv
<1>2. ProcessInv /\ StreamInv /\ NumberInv => StreamTypeOK
  <2> SUFFICES ASSUME ProcessInv, StreamInv, NumberInv PROVE StreamTypeOK
    OBVIOUS
  <2>1. TypeOK /\ RegistryShape /\ RowShape /\ FitInv /\ SentInv
    BY DEF ProcessInv, StreamInv, Shape
  <2>2. registrations \in 0..MaxRegistrations /\ registered \in [Nodes -> 0..registrations]
    BY <2>1, TaskStreamAssumption DEF RegistryShape, FitInv, NumberInv
  <2>3. told \subseteq Assignment
    BY <2>1 DEF SentInv, Offers, Assignment
  <2> QED BY <2>1, <2>2, <2>3 DEF StreamTypeOK, RegistryShape, RowShape, NumberInv
<1> QED BY <1>1, <1>2, StepNumbers, StreamInvariantHolds, ImplementsStartup, ProcessInvariantHolds, PTL DEF Spec
=============================================================================
