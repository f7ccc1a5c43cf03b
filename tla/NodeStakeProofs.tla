-------------------------- MODULE NodeStakeProofs --------------------------
(***************************************************************************)
(* Theorems about NodeStake, for any finite set of nodes, any number of    *)
(* concurrent slashing calls, any threshold and any failures.              *)
(***************************************************************************)
EXTENDS NodeStake, FiniteSetTheorems, TLAPS

\* A channel that was force-closed has been opened, and is not the one that is
\* open.
ClosedInv ==
  \A n \in Nodes : /\ \A k \in forced[n] : k <= opened[n]
                   /\ open[n] # "none" => opened[n] \notin forced[n]

\* What a slashing call knows at each of its steps: the force-close before the
\* event, the event before the rows; and nobody else logs the same channel.
SlashInv ==
  /\ \A c \in Callers :
       /\ spc[c] \in {"event", "suspend", "mark", "link"} => schan[c] \in forced[scur[c]]
       /\ spc[c] = "event" => schan[c] \notin events[scur[c]]
       /\ spc[c] \in {"suspend", "mark", "link"} => schan[c] \in events[scur[c]]
  /\ \A c, d \in Callers :
       spc[c] = "event" /\ spc[d] = "event" /\ scur[c] = scur[d] /\ schan[c] = schan[d] => c = d

\* Only force-closed channels are logged.
LogInv == \A n \in Nodes : events[n] \subseteq forced[n]

\* A t1 node under a slashing call has had its signals.
SignalInv ==
  /\ \A n \in Nodes : unlinked[n] <= total[n]
  /\ \A c \in Callers : scur[c] \in T1 => total[scur[c]] > SlashThreshold

Registered == {n \in Nodes : status[n] # "absent"}

SlashingInv == ClosedInv /\ LogInv /\ ForceClosedIsLogged /\ SlashInv /\ SlashNeedsSignals /\ SignalInv

Inv == TypeOK /\ SlashingInv

USE NodesAssumption, NumbersAssumption

-----------------------------------------------------------------------------
(* Types                                                                   *)

\* The initial state has the declared types.
LEMMA InitTypes == Init => TypeOK
<1> SUFFICES ASSUME Init PROVE TypeOK
  OBVIOUS
<1>1. drifted \in BOOLEAN
  BY Zenon DEF Init
<1>2. RegistryOK
  BY <1>1 DEF Init, RegistryOK
<1>3. StakesOK
  BY DEF Init, StakesOK
<1>4. RequestsOK
  BY DEF Init, RequestsOK, RequestSteps
<1>5. TickerOK
  BY DEF Init, TickerOK
<1>6. LogsOK
  BY DEF Init, LogsOK
<1>7. SlasherOK
  BY DEF Init, SlasherOK, SlashSteps
<1> QED BY <1>2, <1>3, <1>4, <1>5, <1>6, <1>7 DEF TypeOK

\* A part of the state that is left alone keeps its types, and so do those who
\* remember a channel when another one is opened.
LEMMA Frames ==
  ASSUME TypeOK
  PROVE  /\ UNCHANGED <<nodesT, metric>> => RegistryOK'
         /\ UNCHANGED <<stakesT, open, opened>> => StakesOK'
         /\ UNCHANGED <<handler, opened>> => RequestsOK'
         /\ UNCHANGED <<ticker, opened>> => TickerOK'
         /\ UNCHANGED <<slashT, history>> => LogsOK'
         /\ UNCHANGED slasher => SlasherOK'
<1>1. UNCHANGED <<nodesT, metric>> => RegistryOK'
  BY DEF TypeOK, RegistryOK, nodesT, metric
<1>2. UNCHANGED <<stakesT, open, opened>> => StakesOK'
  BY DEF TypeOK, StakesOK, stakesT
<1>3. UNCHANGED <<handler, opened>> => RequestsOK'
  BY DEF TypeOK, RequestsOK, handler
<1>4. UNCHANGED <<ticker, opened>> => TickerOK'
  BY DEF TypeOK, TickerOK, ticker
<1>5. UNCHANGED <<slashT, history>> => LogsOK'
  BY DEF TypeOK, LogsOK, slashT, history
<1>6. UNCHANGED slasher => SlasherOK'
  BY DEF TypeOK, SlasherOK, slasher
<1> QED BY <1>1, <1>2, <1>3, <1>4, <1>5, <1>6

\* The channel of a node keeps the types.
LEMMA ChannelTypes ==
  ASSUME TypeOK, NEW n \in Nodes, OpenChannel(n) \/ LoseChannel(n)
  PROVE  TypeOK'
<1>1. RegistryOK' /\ LogsOK' /\ SlasherOK'
  BY Frames DEF OpenChannel, LoseChannel
<1>2. CASE OpenChannel(n)
  <2>1. opened' \in [Nodes -> 0..MaxChannels] /\ \A m \in Nodes : opened[m] <= opened'[m]
    BY <1>2 DEF OpenChannel, TypeOK, StakesOK
  <2>2. StakesOK'
    BY <1>2, <2>1 DEF OpenChannel, TypeOK, StakesOK, stakesT
  <2>3. RequestsOK'
    BY <1>2, <2>1 DEF OpenChannel, TypeOK, StakesOK, RequestsOK, handler
  <2>4. TickerOK'
    BY <1>2, <2>1 DEF OpenChannel, TypeOK, StakesOK, TickerOK, ticker
  <2> QED BY <1>1, <2>2, <2>3, <2>4 DEF TypeOK
<1>3. CASE LoseChannel(n)
  <2>1. RequestsOK' /\ TickerOK'
    BY <1>3, Frames DEF LoseChannel
  <2>2. StakesOK'
    BY <1>3 DEF LoseChannel, TypeOK, StakesOK, stakesT
  <2> QED BY <1>1, <2>1, <2>2 DEF TypeOK
<1> QED BY <1>2, <1>3

\* A change of status that the gauge does not follow keeps its types.
LEMMA DriftTypes ==
  ASSUME TypeOK, NEW n \in Nodes, NEW s \in Statuses, DriftTo(n, s)
  PROVE  RegistryOK'
<1>1. status' \in [Nodes -> Statuses \cup {"absent"}] /\ gauge' \in [Statuses -> Int] /\ skew' \in Int
  BY DEF TypeOK, RegistryOK, DriftTo
<1>2. drifted' \in BOOLEAN
  BY Zenon DEF TypeOK, RegistryOK, DriftTo
<1> QED BY <1>1, <1>2 DEF RegistryOK

\* And so does one that it follows.
LEMMA MoveTypes ==
  ASSUME TypeOK, NEW n \in Nodes, NEW s \in Statuses, NEW old, MoveTo(n, s, old)
  PROVE  RegistryOK'
<1>1. status' \in [Nodes -> Statuses \cup {"absent"}] /\ skew' \in Int
  BY DEF TypeOK, RegistryOK, MoveTo
<1>2. drifted' \in BOOLEAN
  BY Zenon DEF TypeOK, RegistryOK, MoveTo
<1>3. gauge' \in [Statuses -> Int]
  BY DEF TypeOK, RegistryOK, MoveTo, CountMove
<1> QED BY <1>1, <1>2, <1>3 DEF RegistryOK

\* A new stake row, written with a channel of its node, keeps theirs.
LEMMA PersistTypes ==
  ASSUME TypeOK, NEW n \in Nodes, NEW id \in 0..opened[n], UNCHANGED <<open, opened>>,
         PersistStake(n, id) \/ PersistFails(n, id)
  PROVE  StakesOK'
<1>1. opened[n] \in 0..MaxChannels /\ id \in 0..MaxChannels
  BY DEF TypeOK, StakesOK
<1>2. CASE PersistStake(n, id)
  BY <1>1, <1>2 DEF PersistStake, TypeOK, StakesOK
<1>3. CASE PersistFails(n, id)
  BY <1>3, Frames DEF PersistFails
<1> QED BY <1>2, <1>3

\* A request that begins or ends keeps what is declared of requests.
LEMMA BeginEndTypes ==
  ASSUME TypeOK, NEW q \in Requests, UNCHANGED opened,
         \/ End(q) /\ UNCHANGED calls
         \/ \E n \in Nodes, s \in RequestSteps \ {"idle"}, old \in Statuses \cup {"absent", "unknown"} : Begin(q, n, s, old)
  PROVE  RequestsOK'
<1>0. opened \in [Nodes -> 0..MaxChannels]
  BY DEF TypeOK, StakesOK
<1>1. CASE End(q) /\ UNCHANGED calls
  BY <1>1 DEF End, RequestsOK, RequestSteps, TypeOK
<1>2. ASSUME NEW n \in Nodes, NEW s \in RequestSteps \ {"idle"}, NEW old \in Statuses \cup {"absent", "unknown"}, Begin(q, n, s, old)
      PROVE  RequestsOK'
  BY <1>0, <1>2 DEF Begin, RequestsOK, TypeOK
<1> QED BY <1>1, <1>2

\* RegisterNode and DeregisterNode keep the types when they begin.
LEMMA BeginTypes ==
  ASSUME TypeOK, NEW q \in Requests, NEW n \in Nodes, Register(q, n) \/ Deregister(q, n)
  PROVE  TypeOK'
<1>1. RegistryOK' /\ StakesOK' /\ TickerOK' /\ LogsOK' /\ SlasherOK'
  BY Frames DEF Register, Deregister
<1>2. RequestsOK'
  <2>1. status[n] \in Statuses \cup {"absent"} /\ {"upsert", "update"} \subseteq RequestSteps \ {"idle"}
    BY DEF TypeOK, RegistryOK, RequestSteps
  <2>2. /\ Begin(q, n, "upsert", status[n]) \/ Begin(q, n, "update", status[n]) \/ Begin(q, n, "update", "unknown")
        /\ UNCHANGED opened
    BY DEF Register, Deregister
  <2> QED BY <2>1, <2>2, BeginEndTypes
<1> QED BY <1>1, <1>2 DEF TypeOK

\* And at each of their steps.
LEMMA RequestTypes ==
  ASSUME TypeOK, NEW q \in Requests, RequestStep(q)
  PROVE  TypeOK'
<1>0. reg[q] # "idle" => who[q] \in Nodes /\ found[q] \in 0..opened[who[q]]
  BY DEF TypeOK, RequestsOK, StakesOK
<1>s. {"pending", "active", "suspended"} \subseteq Statuses
  BY DEF Statuses
<1>u. UNCHANGED <<status, metric>> => RegistryOK'
  BY Frames DEF nodesT
<1>1. CASE Upsert(q)
  <2>1. RegistryOK'
    BY <1>0, <1>s, <1>u, <1>1, MoveTypes, DriftTypes DEF Upsert
  <2>2. StakesOK' /\ TickerOK' /\ LogsOK' /\ SlasherOK'
    BY <1>1, Frames DEF Upsert
  <2>3. CASE End(q)
    BY <1>1, <2>1, <2>2, <2>3, BeginEndTypes DEF Upsert, TypeOK
  <2>4. CASE ~End(q)
    <3>1. /\ reg[q] = "upsert" /\ reg' = [reg EXCEPT ![q] = "verify"] /\ prior' = [prior EXCEPT ![q] = "unknown"]
          /\ UNCHANGED <<who, found, calls, opened>>
      BY <1>1, <2>4 DEF Upsert
    <3>2. RequestsOK'
      BY <3>1 DEF RequestsOK, RequestSteps, TypeOK
    <3> QED BY <2>1, <2>2, <3>2 DEF TypeOK
  <2> QED BY <2>3, <2>4
<1>2. CASE VerifyRegistration(q)
  <2>1. RegistryOK' /\ StakesOK' /\ TickerOK' /\ LogsOK' /\ SlasherOK'
    BY <1>2, Frames DEF VerifyRegistration
  <2>2. CASE End(q)
    BY <1>2, <2>1, <2>2, BeginEndTypes DEF VerifyRegistration, TypeOK
  <2>3. CASE ~End(q)
    <3>1. /\ reg[q] = "verify" /\ reg' = [reg EXCEPT ![q] = "persist"]
          /\ found' = [found EXCEPT ![q] = Qualifying(who[q])] /\ UNCHANGED <<who, prior, calls, opened>>
      BY <1>2, <2>3 DEF VerifyRegistration
    <3>2. Qualifying(who[q]) \in 0..opened[who[q]] /\ opened[who[q]] \in 0..MaxChannels
      BY <1>0, <3>1 DEF Qualifying, TypeOK, StakesOK
    <3>3. RequestsOK'
      BY <3>1, <3>2 DEF RequestsOK, RequestSteps, TypeOK
    <3> QED BY <2>1, <3>3 DEF TypeOK
  <2> QED BY <2>2, <2>3
<1>3. CASE PersistRegistration(q)
  <2>1. RegistryOK' /\ TickerOK' /\ LogsOK' /\ SlasherOK'
    BY <1>3, Frames DEF PersistRegistration
  <2>2. StakesOK'
    BY <1>0, <1>3, PersistTypes DEF PersistRegistration
  <2>3. /\ reg[q] = "persist" /\ reg' = [reg EXCEPT ![q] = "activate"]
        /\ found' = [found EXCEPT ![q] = 0] /\ UNCHANGED <<who, prior, calls, opened>>
    BY <1>3 DEF PersistRegistration
  <2>4. RequestsOK'
    BY <2>3 DEF RequestsOK, RequestSteps, TypeOK, StakesOK
  <2> QED BY <2>1, <2>2, <2>4 DEF TypeOK
<1>4. CASE Activate(q) \/ UpdateStatus(q)
  <2>1. RegistryOK'
    BY <1>0, <1>s, <1>u, <1>4, MoveTypes, DriftTypes DEF Activate, UpdateStatus
  <2>2. StakesOK' /\ TickerOK' /\ LogsOK' /\ SlasherOK'
    BY <1>4, Frames DEF Activate, UpdateStatus
  <2>3. RequestsOK'
    BY <1>4, BeginEndTypes DEF Activate, UpdateStatus
  <2> QED BY <2>1, <2>2, <2>3 DEF TypeOK
<1> QED BY <1>1, <1>2, <1>3, <1>4 DEF RequestStep

\* The ticker keeps the types.
LEMMA TickerTypes ==
  ASSUME TypeOK, SelectActive \/ VerifyStep
  PROVE  TypeOK'
<1>0. vpc \notin {"idle", "next"} => vcur \in Nodes /\ vfound \in 0..opened[vcur]
  BY DEF TypeOK, TickerOK, StakesOK
<1>1. RequestsOK' /\ LogsOK' /\ SlasherOK'
  BY Frames DEF SelectActive, VerifyStep, Reverify, PersistRow, Degrade, DegradeStake
<1>e. vrows \subseteq Nodes /\ \A left : EndRow(left) => vcur' = NoNode /\ vfound' = 0 /\ vpc' \in {"idle", "next"}
  BY DEF EndRow, TypeOK, TickerOK
<1>2. CASE SelectActive
  <2>1. RegistryOK' /\ StakesOK'
    BY <1>2, Frames DEF SelectActive
  <2>2. TickerOK'
    BY <1>2 DEF SelectActive, TypeOK, TickerOK
  <2> QED BY <1>1, <2>1, <2>2 DEF TypeOK
<1>3. ASSUME NEW n \in Nodes, Reverify(n) PROVE TypeOK'
  <2>1. RegistryOK' /\ StakesOK'
    BY <1>3, Frames DEF Reverify
  <2>2. Qualifying(n) \in 0..opened[n] /\ opened[n] \in 0..MaxChannels
    BY DEF Qualifying, TypeOK, StakesOK
  <2>3. TickerOK'
    BY <1>e, <1>3, <2>2 DEF Reverify, TypeOK, TickerOK
  <2> QED BY <1>1, <2>1, <2>3 DEF TypeOK
<1>4. CASE PersistRow
  <2>1. RegistryOK'
    BY <1>4, Frames DEF PersistRow
  <2>2. StakesOK'
    BY <1>0, <1>4, PersistTypes DEF PersistRow
  <2>3. TickerOK'
    BY <1>e, <1>4 DEF PersistRow, TickerOK
  <2> QED BY <1>1, <2>1, <2>2, <2>3 DEF TypeOK
<1>5. CASE Degrade
  <2>1. RegistryOK'
    <3>1. "degraded" \in Statuses /\ vcur \in Nodes
      BY <1>0, <1>5 DEF Statuses, Degrade
    <3>2. UNCHANGED <<status, metric>> => RegistryOK'
      BY Frames DEF nodesT
    <3> QED BY <1>5, <3>1, <3>2, DriftTypes DEF Degrade
  <2>2. StakesOK'
    BY <1>5, Frames DEF Degrade
  <2>3. TickerOK'
    BY <1>e, <1>5 DEF Degrade, TypeOK, TickerOK
  <2> QED BY <1>1, <2>1, <2>2, <2>3 DEF TypeOK
<1>6. CASE DegradeStake
  <2>1. RegistryOK'
    BY <1>6, Frames DEF DegradeStake
  <2>2. StakesOK'
    BY <1>0, <1>6 DEF DegradeStake, TypeOK, StakesOK, stakesT
  <2>3. TickerOK'
    BY <1>e, <1>6 DEF DegradeStake, TickerOK
  <2> QED BY <1>1, <2>1, <2>2, <2>3 DEF TypeOK
<1> QED BY <1>2, <1>3, <1>4, <1>5, <1>6 DEF VerifyStep

\* A slashing call that starts, goes on, returns or reads a channel id keeps
\* what is declared of slashing calls.
LEMMA CallTypes ==
  ASSUME TypeOK, NEW c \in Callers,
         \/ UNCHANGED slasher
         \/ \E n \in Nodes : Call(c, n)
         \/ spc[c] # "idle" /\ \E s \in SlashSteps \ {"idle"} : Goto(c, s)
         \/ Return(c)
         \/ /\ spc[c] # "idle" /\ spc' = [spc EXCEPT ![c] = "close"] /\ scur' = scur
            /\ \E k \in 0..MaxChannels : schan' = [schan EXCEPT ![c] = k]
  PROVE  SlasherOK'
<1>1. CASE UNCHANGED slasher
  BY <1>1, Frames
<1>2. ASSUME NEW n \in Nodes, Call(c, n) PROVE SlasherOK'
  BY <1>2 DEF Call, TypeOK, SlasherOK, SlashSteps
<1>3. ASSUME spc[c] # "idle", NEW s \in SlashSteps \ {"idle"}, Goto(c, s) PROVE SlasherOK'
  BY <1>3 DEF Goto, TypeOK, SlasherOK
<1>4. CASE Return(c)
  BY <1>4 DEF Return, TypeOK, SlasherOK, SlashSteps
<1>5. ASSUME spc[c] # "idle", spc' = [spc EXCEPT ![c] = "close"], scur' = scur,
             NEW k \in 0..MaxChannels, schan' = [schan EXCEPT ![c] = k]
      PROVE  SlasherOK'
  BY <1>5 DEF TypeOK, SlasherOK, SlashSteps
<1> QED BY <1>1, <1>2, <1>3, <1>4, <1>5

\* Signals and slashing calls keep the types.
LEMMA SlashTypes ==
  ASSUME TypeOK, NEW c \in Callers,
         SlashStep(c) \/ \E n \in Nodes : RecordSignal(c, n) \/ SlashAcknowledged(c, n)
  PROVE  TypeOK'
<1>0. spc[c] # "idle" => scur[c] \in Nodes
  BY DEF TypeOK, SlasherOK
<1>s. {"close", "event", "suspend", "mark", "link"} \subseteq SlashSteps \ {"idle"}
  BY DEF SlashSteps
<1>1. RequestsOK' /\ TickerOK'
  BY Frames DEF SlashStep, RecordSignal, SlashAcknowledged, SlashFetch, SlashClose, SlashFails, SlashEvent, SlashSuspend,
                SlashMark, SlashLink
<1>2. RegistryOK'
  <2>1. CASE SlashSuspend(c)
    <3>1. "suspended" \in Statuses /\ scur[c] \in Nodes
      BY <1>0, <2>1 DEF Statuses, SlashSuspend
    <3> QED BY <2>1, <3>1, DriftTypes DEF SlashSuspend
  <2> QED BY <2>1, Frames DEF SlashStep, RecordSignal, SlashAcknowledged, SlashFetch, SlashClose, SlashFails, SlashEvent,
                              SlashMark, SlashLink
<1>3. StakesOK'
  <2>1. CASE SlashClose(c)
    BY <1>0, <2>1 DEF SlashClose, TypeOK, StakesOK, stakesT
  <2>2. CASE SlashMark(c)
    BY <1>0, <2>2 DEF SlashMark, TypeOK, StakesOK
  <2> QED BY <2>1, <2>2, Frames DEF SlashStep, RecordSignal, SlashAcknowledged, SlashFetch, SlashFails, SlashEvent, SlashSuspend, SlashLink
<1>4. LogsOK'
  <2>1. ASSUME NEW n \in Nodes, RecordSignal(c, n) PROVE LogsOK'
    BY <2>1 DEF RecordSignal, TypeOK, LogsOK
  <2>2. CASE SlashClose(c)
    <3>1. scur[c] \in Nodes /\ schan[c] \in 0..MaxChannels /\ UNCHANGED <<unlinked, total, events, overtaken>>
      BY <1>0, <2>2 DEF SlashClose, slashT, TypeOK, SlasherOK
    <3>2. forced' = forced \/ (schan[c] # 0 /\ forced' = [forced EXCEPT ![scur[c]] = @ \cup {schan[c]}])
      BY <2>2 DEF SlashClose
    <3> QED BY <3>1, <3>2 DEF TypeOK, LogsOK
  <2>3. CASE SlashEvent(c)
    BY <1>0, <2>3 DEF SlashEvent, history, TypeOK, LogsOK, SlasherOK
  <2>4. CASE SlashMark(c)
    BY <1>0, <2>4 DEF SlashMark, slashT, TypeOK, LogsOK
  <2>5. CASE SlashLink(c)
    BY <1>0, <2>5 DEF SlashLink, history, TypeOK, LogsOK
  <2> QED BY <2>1, <2>2, <2>3, <2>4, <2>5, Frames DEF SlashStep, SlashAcknowledged, SlashFetch, SlashFails, SlashSuspend
<1>5. SlasherOK'
  <2>1. CASE SlashFetch(c)
    <3>1. spc[c] # "idle" /\ chanId[scur[c]] \in 0..MaxChannels
      BY <1>0, <2>1 DEF SlashFetch, TypeOK, StakesOK
    <3> QED BY <2>1, <3>1, CallTypes DEF SlashFetch
  <2>2. ASSUME NEW n \in Nodes, RecordSignal(c, n) \/ SlashAcknowledged(c, n) PROVE SlasherOK'
    BY <2>2, CallTypes DEF RecordSignal, SlashAcknowledged
  <2>3. CASE SlashClose(c)
    BY <1>s, <2>3, CallTypes DEF SlashClose
  <2>4. CASE SlashEvent(c) \/ SlashSuspend(c) \/ SlashMark(c)
    BY <1>s, <2>4, CallTypes DEF SlashEvent, SlashSuspend, SlashMark, Advance
  <2> QED BY <2>1, <2>2, <2>3, <2>4, CallTypes DEF SlashStep, SlashFails, SlashLink
<1> QED BY <1>1, <1>2, <1>3, <1>4, <1>5 DEF TypeOK

\* Every step keeps the types.
LEMMA StepTypes == TypeOK /\ [Next]_vars => TypeOK'
<1> SUFFICES ASSUME TypeOK, [Next]_vars PROVE TypeOK'
  OBVIOUS
<1>1. CASE UNCHANGED vars
  BY <1>1, Frames DEF vars, TypeOK
<1>2. CASE \E n \in Nodes : OpenChannel(n) \/ LoseChannel(n)
  BY <1>2, ChannelTypes
<1>3. CASE \/ \E q \in Requests, n \in Nodes : Register(q, n) \/ Deregister(q, n)
           \/ \E q \in Requests : RequestStep(q)
  BY <1>3, BeginTypes, RequestTypes
<1>4. CASE SelectActive \/ VerifyStep
  BY <1>4, TickerTypes
<1>5. CASE \/ \E c \in Callers, n \in Nodes : RecordSignal(c, n) \/ SlashAcknowledged(c, n)
           \/ \E c \in Callers : SlashStep(c)
  BY <1>5, SlashTypes
<1> QED BY <1>1, <1>2, <1>3, <1>4, <1>5 DEF Next

\* TypeOK: the tables, the channels, the handlers, the ticker, the slashing
\* calls and the gauge hold what they are declared to hold; a stake row names no
\* channel that was never opened, and the empty id where there is no row.
THEOREM TypeCorrect == Spec => []TypeOK
<1>1. Init => TypeOK
  BY InitTypes
<1>2. TypeOK /\ [Next]_vars => TypeOK'
  BY StepTypes
<1> QED BY <1>1, <1>2, PTL DEF Spec

-----------------------------------------------------------------------------
(* Slashing                                                                *)

\* A step outside Slash and RecordMisbehaviorSignal keeps the invariants of
\* slashing if it marks no stake as force-closed, leaves the channel of a marked
\* one alone and opens or keeps channels.
LEMMA Outside ==
  ASSUME TypeOK, SlashingInv, UNCHANGED <<spc, scur, schan, forced, overtaken, events, unlinked, total>>,
         \A n \in Nodes : stake'[n] = "force_closed" => stake[n] = "force_closed" /\ chanId'[n] = chanId[n],
         \A n \in Nodes : \/ opened'[n] = opened[n] /\ (open'[n] # "none" => open[n] # "none")
                          \/ opened'[n] = opened[n] + 1
  PROVE  SlashingInv'
<1>1. ClosedInv'
  <2> SUFFICES ASSUME NEW n \in Nodes
               PROVE  /\ \A k \in forced[n] : k <= opened'[n]
                      /\ open'[n] # "none" => opened'[n] \notin forced[n]
    BY DEF ClosedInv
  <2>1. forced[n] \subseteq 1..MaxChannels /\ opened[n] \in 0..MaxChannels
    BY DEF TypeOK, StakesOK, LogsOK
  <2>2. \A k \in forced[n] : k \in Int /\ k <= opened[n]
    BY <2>1 DEF SlashingInv, ClosedInv
  <2> QED BY <2>1, <2>2 DEF SlashingInv, ClosedInv
<1>2. LogInv' /\ ForceClosedIsLogged' /\ SlashInv' /\ SlashNeedsSignals' /\ SignalInv'
  BY DEF SlashingInv, LogInv, ForceClosedIsLogged, SlashInv, SlashNeedsSignals, SignalInv
<1> QED BY <1>1, <1>2 DEF SlashingInv

\* Channels, the registry and the ticker are outside Slash.
LEMMA OthersKeep ==
  ASSUME Inv,
         \/ SelectActive \/ VerifyStep
         \/ \E n \in Nodes : OpenChannel(n) \/ LoseChannel(n)
         \/ \E q \in Requests, n \in Nodes : Register(q, n) \/ Deregister(q, n)
         \/ \E q \in Requests : RequestStep(q)
  PROVE  SlashingInv'
<1> USE DEF Inv
<1>1. UNCHANGED <<spc, scur, schan, forced, overtaken, events, unlinked, total>>
  BY DEF SelectActive, VerifyStep, Reverify, PersistRow, Degrade, DegradeStake, OpenChannel, LoseChannel,
         Register, RequestStep, Upsert, VerifyRegistration, PersistRegistration, Activate, UpdateStatus, Deregister,
         slasher, slashT, history
<1>2. \A n \in Nodes : \/ opened'[n] = opened[n] /\ (open'[n] # "none" => open[n] # "none")
                       \/ opened'[n] = opened[n] + 1
  <2>1. CASE UNCHANGED <<open, opened>>
    BY <2>1
  <2>2. CASE \E n \in Nodes : OpenChannel(n) \/ LoseChannel(n)
    BY <2>2 DEF OpenChannel, LoseChannel, TypeOK, StakesOK
  <2> QED
    BY <2>1, <2>2 DEF SelectActive, VerifyStep, Reverify, PersistRow, Degrade, DegradeStake,
         Register, RequestStep, Upsert, VerifyRegistration, PersistRegistration, Activate, UpdateStatus, Deregister
<1>3. \A n \in Nodes : stake'[n] = "force_closed" => stake[n] = "force_closed" /\ chanId'[n] = chanId[n]
  <2>1. CASE UNCHANGED <<stake, chanId>>
    BY <2>1
  <2>2. CASE PersistRow \/ \E q \in Requests : PersistRegistration(q)
    BY <2>2 DEF PersistRow, PersistRegistration, PersistStake, PersistFails, stakesT, TypeOK, StakesOK, RequestsOK, TickerOK
  <2>3. CASE DegradeStake
    BY <2>3 DEF DegradeStake, stakesT, TypeOK, StakesOK, TickerOK
  <2> QED
    BY <2>1, <2>2, <2>3 DEF SelectActive, VerifyStep, Reverify, Degrade, OpenChannel, LoseChannel,
         Register, RequestStep, Upsert, VerifyRegistration, Activate, UpdateStatus, Deregister, stakesT
<1> QED BY <1>1, <1>2, <1>3, Outside

\* A slashing call that touches no table of slashing, no channel and no mark, and
\* starts, goes on or returns.
LEMMA SlashMoves ==
  ASSUME Inv, NEW c \in Callers,
         UNCHANGED <<stake, chanId, open, opened, forced, overtaken, events>>,
         \/ UNCHANGED <<spc, scur, schan>>
         \/ \E n \in Nodes : Call(c, n)
         \/ Return(c)
         \/ spc[c] = "fetch" /\ spc' = [spc EXCEPT ![c] = "close"] /\ scur' = scur
              /\ \E k \in 0..MaxChannels : schan' = [schan EXCEPT ![c] = k]
         \/ spc[c] = "suspend" /\ Goto(c, "mark")
         \/ spc[c] = "mark" /\ Goto(c, "link")
  PROVE  ClosedInv' /\ LogInv' /\ ForceClosedIsLogged' /\ SlashInv'
<1>1. ClosedInv' /\ LogInv' /\ ForceClosedIsLogged'
  BY DEF Inv, SlashingInv, ClosedInv, LogInv, ForceClosedIsLogged
<1>2. \A d \in Callers : d # c => spc'[d] = spc[d] /\ scur'[d] = scur[d] /\ schan'[d] = schan[d]
  BY DEF Inv, TypeOK, SlasherOK, Call, Return, Goto
<1>3. \/ spc'[c] \in {"idle", "fetch", "close"}
      \/ spc'[c] = spc[c] /\ scur'[c] = scur[c] /\ schan'[c] = schan[c]
      \/ /\ spc[c] \in {"suspend", "mark"} /\ spc'[c] \in {"mark", "link"}
         /\ scur'[c] = scur[c] /\ schan'[c] = schan[c]
  BY DEF Inv, TypeOK, SlasherOK, Call, Return, Goto
<1>4. SlashInv'
  BY <1>2, <1>3 DEF Inv, SlashingInv, SlashInv
<1> QED BY <1>1, <1>4

\* Signals and slashing calls keep the invariants of slashing.
LEMMA SlashKeeps ==
  ASSUME Inv, NEW c \in Callers,
         SlashStep(c) \/ \E n \in Nodes : RecordSignal(c, n) \/ SlashAcknowledged(c, n)
  PROVE  SlashingInv'
<1> USE DEF Inv, SlashingInv
<1> DEFINE Books == ClosedInv /\ LogInv /\ ForceClosedIsLogged /\ SlashInv
<1>0. spc[c] # "idle" => scur[c] \in Nodes
  BY DEF TypeOK, SlasherOK
<1>1. ASSUME NEW n \in Nodes, RecordSignal(c, n) PROVE SlashingInv'
  <2>1. Books'
    BY <1>1, SlashMoves DEF RecordSignal, stakesT, slasher
  <2>2. /\ unlinked' = [unlinked EXCEPT ![n] = @ + 1] /\ total' = [total EXCEPT ![n] = @ + 1]
        /\ forced' = forced
    BY <1>1 DEF RecordSignal
  <2>3. \A m \in Nodes : total[m] <= total'[m] /\ total[m] \in Nat /\ total'[m] \in Nat /\ unlinked'[m] <= total'[m]
    BY <2>2 DEF SignalInv, TypeOK, LogsOK
  <2>4. SlashNeedsSignals'
    BY <2>2, <2>3 DEF SlashNeedsSignals
  <2>5. \A d \in Callers : scur'[d] \in T1 => total'[scur'[d]] > SlashThreshold
    <3>1. CASE n \in T1 /\ unlinked[n] >= SlashThreshold
      <4>1. scur' = [scur EXCEPT ![c] = n]
        BY <1>1, <3>1 DEF RecordSignal, Call
      <4>2. total'[n] > SlashThreshold
        BY <2>2, <3>1 DEF SignalInv, TypeOK, LogsOK
      <4> QED BY <4>1, <4>2, <2>3 DEF SignalInv, TypeOK, LogsOK, SlasherOK
    <3>2. CASE ~(n \in T1 /\ unlinked[n] >= SlashThreshold)
      BY <1>1, <3>2, <2>3 DEF SignalInv, RecordSignal, slasher
    <3> QED BY <3>1, <3>2
  <2> QED BY <2>1, <2>3, <2>4, <2>5 DEF SignalInv
<1>2. ASSUME NEW n \in Nodes, SlashAcknowledged(c, n) PROVE SlashingInv'
  <2>1. Books'
    BY <1>2, SlashMoves DEF SlashAcknowledged, stakesT, slashT, history
  <2> QED BY <1>2, <2>1 DEF SlashNeedsSignals, SignalInv, SlashAcknowledged, Call, slashT, history, TypeOK, SlasherOK
<1>3. CASE SlashFetch(c)
  <2>1. Books'
    BY <1>0, <1>3, SlashMoves DEF SlashFetch, stakesT, slashT, history, TypeOK, StakesOK
  <2> QED BY <1>3, <2>1 DEF SlashNeedsSignals, SignalInv, SlashFetch, Return, slashT, history, TypeOK, SlasherOK
<1>4. CASE SlashClose(c)
  <2>0. UNCHANGED <<stake, chanId, events, unlinked, total, opened, overtaken>>
    BY <1>4 DEF SlashClose, stakesT, slashT
  <2>1. CASE UNCHANGED <<open, forced>> /\ Return(c)
    <3>1. Books'
      BY <2>0, <2>1, SlashMoves
    <3> QED BY <2>0, <2>1, <3>1 DEF SlashNeedsSignals, SignalInv, Return, TypeOK, SlasherOK
  <2>2. CASE /\ schan[c] = opened[scur[c]] /\ open[scur[c]] # "none" /\ spc[c] = "close"
             /\ open' = [open EXCEPT ![scur[c]] = "none"]
             /\ forced' = [forced EXCEPT ![scur[c]] = @ \cup {schan[c]}]
             /\ Goto(c, "event") \/ Return(c)
    <3>0. scur[c] \in Nodes
      BY <1>0, <2>2
    <3>1. schan[c] \notin forced[scur[c]] /\ schan[c] \notin events[scur[c]]
      BY <2>2, <3>0 DEF ClosedInv, LogInv
    <3>2. \A n \in Nodes : /\ forced[n] \subseteq forced'[n] /\ forced'[n] \subseteq forced[n] \cup {schan[c]}
                           /\ n # scur[c] => forced'[n] = forced[n] /\ open'[n] = open[n]
                           /\ n = scur[c] => schan[c] \in forced'[n] /\ open'[n] = "none"
      BY <2>2, <3>0 DEF TypeOK, StakesOK, LogsOK
    <3>3. ClosedInv'
      BY <2>0, <2>2, <3>0, <3>2 DEF ClosedInv, TypeOK, StakesOK, LogsOK, SlasherOK
    <3>4. LogInv' /\ ForceClosedIsLogged'
      BY <2>0, <3>2 DEF LogInv, ForceClosedIsLogged
    <3>5. /\ \A d \in Callers : d # c => spc'[d] = spc[d] /\ scur'[d] = scur[d] /\ schan'[d] = schan[d]
          /\ spc'[c] = "idle" \/ (spc'[c] = "event" /\ scur'[c] = scur[c] /\ schan'[c] = schan[c])
      BY <2>2 DEF Goto, Return, TypeOK, SlasherOK
    <3>6. \A d \in Callers : spc[d] # "idle" => scur[d] \in Nodes
      BY DEF TypeOK, SlasherOK
    <3>7. SlashInv'
      BY <2>0, <3>0, <3>1, <3>2, <3>5, <3>6 DEF SlashInv
    <3>8. SlashNeedsSignals'
      BY <2>0, <3>0, <3>2 DEF SlashNeedsSignals, SignalInv
    <3>9. SignalInv'
      BY <2>0, <2>2 DEF SignalInv, Goto, Return, TypeOK, SlasherOK
    <3> QED BY <3>3, <3>4, <3>7, <3>8, <3>9
  <2> QED BY <1>4, <2>1, <2>2 DEF SlashClose
<1>5. CASE SlashFails(c)
  <2>1. Books'
    BY <1>5, SlashMoves DEF SlashFails, stakesT, slashT, history
  <2> QED BY <1>5, <2>1 DEF SlashNeedsSignals, SignalInv, SlashFails, Return, slashT, history, TypeOK, SlasherOK
<1>6. CASE SlashEvent(c)
  <2>0. spc[c] = "event" /\ UNCHANGED <<stake, chanId, open, opened, forced, overtaken, unlinked, total>>
    BY <1>6 DEF SlashEvent, stakesT, history
  <2>1. events' = [events EXCEPT ![scur[c]] = @ \cup {schan[c]}] /\ scur[c] \in Nodes
    BY <1>0, <1>6 DEF SlashEvent
  <2>2. \A n \in Nodes : /\ events[n] \subseteq events'[n] /\ events'[n] \subseteq events[n] \cup {schan[c]}
                         /\ n # scur[c] => events'[n] = events[n]
                         /\ n = scur[c] => schan[c] \in events'[n]
    BY <2>1 DEF TypeOK, LogsOK
  <2>3. schan[c] \in forced[scur[c]]
    BY <2>0 DEF SlashInv
  <2>4. ClosedInv' /\ LogInv' /\ ForceClosedIsLogged' /\ SlashNeedsSignals'
    BY <2>0, <2>2, <2>3 DEF ClosedInv, LogInv, ForceClosedIsLogged, SlashNeedsSignals
  <2>5. /\ \A d \in Callers : d # c => spc'[d] = spc[d] /\ scur'[d] = scur[d] /\ schan'[d] = schan[d]
        /\ spc'[c] = "idle" \/ (spc'[c] = "suspend" /\ scur'[c] = scur[c] /\ schan'[c] = schan[c])
    BY <1>6 DEF SlashEvent, Advance, Goto, Return, TypeOK, SlasherOK
  <2>6. \A d \in Callers : spc[d] # "idle" => scur[d] \in Nodes
    BY DEF TypeOK, SlasherOK
  <2>7. SlashInv'
    BY <2>0, <2>1, <2>2, <2>3, <2>5, <2>6 DEF SlashInv
  <2>8. SignalInv'
    BY <1>6, <2>0 DEF SignalInv, SlashEvent, Advance, Goto, Return, TypeOK, SlasherOK
  <2> QED BY <2>4, <2>7, <2>8
<1>7. CASE SlashSuspend(c)
  <2>1. Books'
    BY <1>7, SlashMoves DEF SlashSuspend, Advance, stakesT, slashT, history
  <2> QED BY <1>7, <2>1 DEF SlashNeedsSignals, SignalInv, SlashSuspend, Advance, Goto, Return, slashT, history, TypeOK, SlasherOK
<1>8. CASE SlashMark(c)
  <2>0. /\ spc[c] = "mark" /\ scur[c] \in Nodes /\ UNCHANGED <<chanId, open, opened, forced, events, unlinked, total>>
        /\ stake' = [stake EXCEPT ![scur[c]] = "force_closed"]
        /\ overtaken' = IF chanId[scur[c]] = schan[c] THEN overtaken \ {scur[c]} ELSE overtaken \cup {scur[c]}
    BY <1>0, <1>8 DEF SlashMark, slashT
  <2>1. ClosedInv' /\ LogInv'
    BY <2>0 DEF ClosedInv, LogInv
  <2>2. schan[c] \in events[scur[c]] /\ events[scur[c]] \subseteq forced[scur[c]]
    BY <2>0 DEF SlashInv, LogInv
  <2>3. ForceClosedIsLogged'
    BY <2>0, <2>2 DEF ForceClosedIsLogged, TypeOK, StakesOK
  <2>4. /\ \A d \in Callers : d # c => spc'[d] = spc[d] /\ scur'[d] = scur[d] /\ schan'[d] = schan[d]
        /\ spc'[c] = "idle" \/ (spc'[c] = "link" /\ scur'[c] = scur[c] /\ schan'[c] = schan[c])
    BY <1>8 DEF SlashMark, Advance, Goto, Return, TypeOK, SlasherOK
  <2>5. SlashInv'
    BY <2>0, <2>4 DEF SlashInv
  <2> QED BY <1>8, <2>0, <2>1, <2>3, <2>5 DEF SlashNeedsSignals, SignalInv, SlashMark, Advance, Goto, Return, TypeOK, SlasherOK
<1>9. CASE SlashLink(c)
  <2>1. Books'
    BY <1>9, SlashMoves DEF SlashLink, stakesT, history
  <2> QED BY <1>0, <1>9, <2>1 DEF SlashNeedsSignals, SignalInv, SlashLink, Return, history, TypeOK, LogsOK, SlasherOK
<1> QED BY <1>1, <1>2, <1>3, <1>4, <1>5, <1>6, <1>7, <1>8, <1>9 DEF SlashStep

\* Inv: the types, and what the slashing calls know, hold in every state.
THEOREM InvariantHolds == Spec => []Inv
<1>1. Init => Inv
  BY InitTypes DEF Init, Inv, SlashingInv, ClosedInv, LogInv, ForceClosedIsLogged, SlashInv, SlashNeedsSignals, SignalInv
<1>2. Inv /\ [Next]_vars => Inv'
  <2> SUFFICES ASSUME Inv, [Next]_vars PROVE Inv'
    OBVIOUS
  <2>1. TypeOK'
    BY StepTypes DEF Inv
  <2>2. SlashingInv'
    <3>1. CASE UNCHANGED vars
      BY <3>1, Outside DEF Inv, vars, stakesT, slashT, slasher, history
    <3>2. CASE Next
      BY <3>2, OthersKeep, SlashKeeps DEF Next
    <3> QED BY <3>1, <3>2
  <2> QED BY <2>1, <2>2 DEF Inv
<1> QED BY <1>1, <1>2, PTL DEF Spec

\* ForceClosedIsLogged: whatever fails in the middle of Slash, a stake row says
\* 'force_closed' only if it names a channel that was force-closed and logged, or
\* was given another channel after Slash had read it; and what is logged was
\* force-closed.
THEOREM ForceClosedIsLoggedHolds == Spec => []ForceClosedIsLogged
<1>1. Inv => ForceClosedIsLogged
  BY DEF Inv, SlashingInv
<1> QED BY <1>1, InvariantHolds, PTL

\* SlashNeedsSignals: no t1 node loses its channel before it has had more than
\* SlashThreshold signals, however many calls record signals or slash at once.
THEOREM SlashNeedsSignalsHolds == Spec => []SlashNeedsSignals
<1>1. Inv => SlashNeedsSignals
  BY DEF Inv, SlashingInv
<1> QED BY <1>1, InvariantHolds, PTL

\* SuspendedOnlyReregisters: only Register takes a node out of 'suspended'; the
\* ticker and an Activate under way leave it there.
THEOREM SuspendedOnlyReregistersHolds == Spec => SuspendedOnlyReregisters
<1> DEFINE Kept == \A n \in Nodes : status[n] = "suspended" => status'[n] \in {"suspended", "pending"}
<1>1. ASSUME TypeOK, [Next]_vars PROVE [Kept]_status
  <2>1. CASE UNCHANGED status
    BY <2>1
  <2>2. ASSUME NEW q \in Requests, Upsert(q) \/ Activate(q) \/ UpdateStatus(q) PROVE Kept
    BY <1>1, <2>2 DEF Upsert, Activate, UpdateStatus, MoveTo, DriftTo, TypeOK, RegistryOK, RequestsOK
  <2>3. CASE Degrade
    BY <1>1, <2>3 DEF Degrade, DriftTo, TypeOK, RegistryOK, TickerOK
  <2>4. ASSUME NEW c \in Callers, SlashSuspend(c) PROVE Kept
    BY <1>1, <2>4 DEF SlashSuspend, DriftTo, TypeOK, RegistryOK, SlasherOK
  <2> QED
    BY <1>1, <2>1, <2>2, <2>3, <2>4
       DEF Next, Register, RequestStep, VerifyStep, SlashStep, OpenChannel, LoseChannel, VerifyRegistration, PersistRegistration,
           Deregister, SelectActive, Reverify, PersistRow, DegradeStake, RecordSignal, SlashAcknowledged,
           SlashFetch, SlashClose, SlashFails, SlashEvent, SlashMark, SlashLink, vars, nodesT
<1> QED BY <1>1, TypeCorrect, PTL DEF Spec, SuspendedOnlyReregisters

-----------------------------------------------------------------------------
(* The gauge                                                               *)

\* A request that has read a status knows that its node is registered, for no
\* node is ever removed; and a registration under way has read something.
PriorInv ==
  \A q \in Requests :
    /\ prior[q] \in Statuses => who[q] \in Nodes /\ status[who[q]] # "absent"
    /\ reg[q] = "upsert" => prior[q] # "unknown"

\* The gauge follows a status that was read earlier, of a registered node or of
\* one that was not there.
Follows(n, s, old) == MoveTo(n, s, old) /\ (old = "absent" \/ status[n] # "absent")

\* Every step that touches the statuses is one of three: the gauge follows, it
\* does not, or nothing changes.
LEMMA StatusSteps ==
  ASSUME TypeOK, PriorInv, [Next]_vars
  PROVE  \/ UNCHANGED <<status, metric>>
         \/ \E n \in Nodes, s \in Statuses, old \in Statuses \cup {"absent"} : Follows(n, s, old)
         \/ \E n \in Nodes, s \in Statuses : DriftTo(n, s)
<1> DEFINE Goal == \/ UNCHANGED <<status, metric>>
                   \/ \E n \in Nodes, s \in Statuses, old \in Statuses \cup {"absent"} : Follows(n, s, old)
                   \/ \E n \in Nodes, s \in Statuses : DriftTo(n, s)
<1>0. {"pending", "active", "degraded", "suspended"} = Statuses
  BY DEF Statuses
<1>1. ASSUME NEW q \in Requests, Upsert(q) PROVE Goal
  <2>1. who[q] \in Nodes /\ prior[q] \in Statuses \cup {"absent"}
    BY <1>1 DEF Upsert, PriorInv, TypeOK, RequestsOK
  <2>2. prior[q] = "absent" \/ status[who[q]] # "absent"
    BY <2>1 DEF PriorInv
  <2>3. Follows(who[q], "pending", prior[q]) \/ DriftTo(who[q], "pending") \/ UNCHANGED <<status, metric>>
    BY <1>1, <2>2 DEF Upsert, Follows
  <2> QED BY <1>0, <2>1, <2>3
<1>2. ASSUME NEW q \in Requests, Activate(q) PROVE Goal
  <2>1. who[q] \in Nodes
    BY <1>2 DEF Activate, TypeOK, RequestsOK
  <2>2. Follows(who[q], "active", "pending") \/ DriftTo(who[q], "active") \/ UNCHANGED <<status, metric>>
    BY <1>2 DEF Activate, Follows
  <2> QED BY <1>0, <2>1, <2>2
<1>3. ASSUME NEW q \in Requests, UpdateStatus(q) PROVE Goal
  <2>1. who[q] \in Nodes /\ (prior[q] # "unknown" => prior[q] \in Statuses \cup {"absent"})
    BY <1>3 DEF UpdateStatus, TypeOK, RequestsOK
  <2>2. prior[q] # "unknown" => prior[q] = "absent" \/ status[who[q]] # "absent"
    BY <2>1 DEF PriorInv
  <2>3. \/ prior[q] # "unknown" /\ Follows(who[q], "suspended", prior[q])
        \/ DriftTo(who[q], "suspended") \/ UNCHANGED <<status, metric>>
    BY <1>3, <2>2 DEF UpdateStatus, Follows
  <2> QED BY <1>0, <2>1, <2>3
<1>4. CASE Degrade
  <2>1. vcur \in Nodes
    BY <1>4 DEF Degrade, TypeOK, TickerOK
  <2> QED BY <1>0, <1>4, <2>1 DEF Degrade
<1>5. ASSUME NEW c \in Callers, SlashSuspend(c) PROVE Goal
  <2>1. scur[c] \in Nodes
    BY <1>5 DEF SlashSuspend, TypeOK, SlasherOK
  <2> QED BY <1>0, <1>5, <2>1 DEF SlashSuspend
<1>6. CASE UNCHANGED <<status, metric>>
  BY <1>6
<1> QED
  BY <1>1, <1>2, <1>3, <1>4, <1>5, <1>6
     DEF Next, Register, RequestStep, VerifyStep, SlashStep, OpenChannel, LoseChannel, VerifyRegistration, PersistRegistration,
         Deregister, SelectActive, Reverify, PersistRow, DegradeStake, RecordSignal, SlashAcknowledged,
         SlashFetch, SlashClose, SlashFails, SlashEvent, SlashMark, SlashLink, vars, nodesT

\* A step that leaves a request alone, forgets what it has read or reads the
\* status of a node keeps what requests know.
LEMMA PriorKeeps == TypeOK /\ PriorInv /\ [Next]_vars => PriorInv'
<1> SUFFICES ASSUME TypeOK, PriorInv, [Next]_vars PROVE PriorInv'
  OBVIOUS
<1>1. \A n \in Nodes : status[n] # "absent" => status'[n] # "absent"
  <2>1. "absent" \notin Statuses
    BY DEF Statuses
  <2> QED BY StatusSteps, <2>1 DEF Follows, MoveTo, DriftTo, TypeOK, RegistryOK
<1>2. \A q \in Requests :
        \/ prior'[q] = prior[q] /\ who'[q] = who[q] /\ reg'[q] = reg[q]
        \/ prior'[q] = "unknown" /\ reg'[q] # "upsert"
        \/ prior'[q] = prior[q] /\ who'[q] = who[q] /\ reg'[q] # "upsert"
        \/ \E n \in Nodes : who'[q] = n /\ prior'[q] = status[n]
  <2> DEFINE Goal == \A q \in Requests :
        \/ prior'[q] = prior[q] /\ who'[q] = who[q] /\ reg'[q] = reg[q]
        \/ prior'[q] = "unknown" /\ reg'[q] # "upsert"
        \/ prior'[q] = prior[q] /\ who'[q] = who[q] /\ reg'[q] # "upsert"
        \/ \E n \in Nodes : who'[q] = n /\ prior'[q] = status[n]
  <2>1. CASE UNCHANGED <<prior, who, reg>>
    BY <2>1
  <2>2. ASSUME NEW q \in Requests, NEW n \in Nodes, Register(q, n) \/ Deregister(q, n) PROVE Goal
    BY <2>2 DEF Register, Deregister, Begin, TypeOK, RequestsOK
  <2>3. ASSUME NEW q \in Requests, RequestStep(q) PROVE Goal
    BY <2>3 DEF RequestStep, Upsert, VerifyRegistration, PersistRegistration, Activate, UpdateStatus, End, TypeOK, RequestsOK
  <2>4. \/ UNCHANGED <<prior, who, reg>>
        \/ \E q \in Requests, n \in Nodes : Register(q, n) \/ Deregister(q, n)
        \/ \E q \in Requests : RequestStep(q)
    BY DEF Next, VerifyStep, SlashStep, OpenChannel, LoseChannel, SelectActive, Reverify, PersistRow, Degrade, DegradeStake,
           RecordSignal, SlashAcknowledged, SlashFetch, SlashClose, SlashFails, SlashEvent, SlashSuspend, SlashMark, SlashLink,
           vars, handler
  <2> QED BY <2>1, <2>2, <2>3, <2>4
<1>3. "absent" \notin Statuses /\ "unknown" \notin Statuses \cup {"absent"}
  BY DEF Statuses
<1> QED BY <1>1, <1>2, <1>3 DEF PriorInv, TypeOK, RegistryOK

\* One more or one fewer node in a status.
LEMMA StatusCount ==
  ASSUME NEW f \in [Nodes -> Statuses \cup {"absent"}], NEW n \in Nodes, NEW new \in Statuses, NEW s \in Statuses
  PROVE  LET g == [f EXCEPT ![n] = new]
         IN  Cardinality({m \in Nodes : g[m] = s}) =
               Cardinality({m \in Nodes : f[m] = s}) + (IF s = new THEN 1 ELSE 0) - (IF s = f[n] THEN 1 ELSE 0)
<1> DEFINE g == [f EXCEPT ![n] = new]
           A == {m \in Nodes : f[m] = s}
           B == {m \in Nodes : g[m] = s}
<1>1. IsFiniteSet(A) /\ IsFiniteSet(B)
  BY FS_Subset
<1>2. Cardinality(A) \in Nat /\ Cardinality(B) \in Nat
  BY <1>1, FS_CardinalityType
<1>3. CASE s = new /\ s # f[n]
  <2>1. B = A \cup {n} /\ n \notin A
    BY <1>3
  <2> QED BY <1>1, <1>2, <1>3, <2>1, FS_AddElement
<1>4. CASE s # new /\ s = f[n]
  <2>1. A = B \cup {n} /\ n \notin B
    BY <1>4
  <2>2. Cardinality(A) = Cardinality(B) + 1
    BY <1>1, <2>1, FS_AddElement
  <2> QED BY <1>2, <1>4, <2>2
<1>5. CASE (s = new) <=> (s = f[n])
  <2>1. B = A
    BY <1>5
  <2>2. Cardinality(B) = Cardinality(A)
    BY <2>1
  <2>3. CASE s = new /\ s = f[n]
    BY <1>2, <2>2, <2>3
  <2>4. CASE s # new /\ s # f[n]
    BY <1>2, <2>2, <2>4
  <2> QED BY <1>5, <2>3, <2>4
<1> QED BY <1>3, <1>4, <1>5

\* The sum that GaugeConserved speaks of.
Sum(h) == h["pending"] + h["active"] + h["degraded"] + h["suspended"]

\* A move changes the sum only if it comes from no status.
LEMMA SumMoves ==
  ASSUME TypeOK, NEW old \in Statuses \cup {"absent"}, NEW new \in Statuses, CountMove(old, new)
  PROVE  Sum(gauge') = Sum(gauge) + (IF old = "absent" THEN 1 ELSE 0)
BY DEF TypeOK, RegistryOK, CountMove, Sum, Statuses

\* A change of status registers a node, or leaves the number of them.
LEMMA RegisteredMoves ==
  ASSUME TypeOK, NEW n \in Nodes, NEW new \in Statuses, status' = [status EXCEPT ![n] = new]
  PROVE  Cardinality(Registered') = Cardinality(Registered) + (IF status[n] = "absent" THEN 1 ELSE 0)
<1>s. "absent" \notin Statuses
  BY DEF Statuses
<1>f. IsFiniteSet(Registered) /\ Cardinality(Registered) \in Nat
  BY FS_Subset, FS_CardinalityType DEF Registered
<1>1. CASE status[n] = "absent"
  <2>1. Registered' = Registered \cup {n} /\ n \notin Registered
    BY <1>s, <1>1 DEF Registered, TypeOK, RegistryOK
  <2> QED BY <1>f, <1>1, <2>1, FS_AddElement
<1>2. CASE status[n] # "absent"
  <2>1. Registered' = Registered
    BY <1>s, <1>2 DEF Registered, TypeOK, RegistryOK
  <2>2. Cardinality(Registered') = Cardinality(Registered)
    BY <2>1
  <2> QED BY <1>f, <1>2, <2>2
<1> QED BY <1>1, <1>2

GaugeInv == TypeOK /\ PriorInv /\ GaugeConserved /\ GaugeTruthful

\* A step of the gauge keeps what it says.
LEMMA GaugeKeeps == GaugeInv /\ [Next]_vars => GaugeInv'
<1> SUFFICES ASSUME GaugeInv, [Next]_vars PROVE GaugeInv'
  OBVIOUS
<1> USE DEF GaugeInv
<1>0. TypeOK' /\ PriorInv'
  BY StepTypes, PriorKeeps
<1>c. /\ GaugeConserved <=> Sum(gauge) = Cardinality(Registered) + skew
      /\ GaugeConserved' <=> Sum(gauge') = Cardinality(Registered') + skew'
  BY DEF GaugeConserved, Sum, Registered
<1>t. Cardinality(Registered) \in Nat /\ skew \in Int
  BY FS_Subset, FS_CardinalityType DEF Registered, TypeOK, RegistryOK
<1>1. CASE UNCHANGED <<status, metric>>
  BY <1>0, <1>1 DEF metric, GaugeConserved, GaugeTruthful
<1>2. ASSUME NEW n \in Nodes, NEW new \in Statuses, NEW old \in Statuses \cup {"absent"}, Follows(n, new, old) PROVE GaugeInv'
  <2>1. GaugeConserved'
    <3>1. Sum(gauge') = Sum(gauge) + (IF old = "absent" THEN 1 ELSE 0)
      BY <1>2, SumMoves DEF Follows, MoveTo
    <3>2. Cardinality(Registered') = Cardinality(Registered) + (IF status[n] = "absent" THEN 1 ELSE 0)
      BY <1>2, RegisteredMoves DEF Follows, MoveTo
    <3>3. skew' = (IF old = "absent" /\ status[n] # "absent" THEN skew + 1 ELSE skew)
      BY <1>2 DEF Follows, MoveTo
    <3>4. old = "absent" \/ status[n] # "absent"
      BY <1>2 DEF Follows
    <3> QED BY <1>c, <1>t, <3>1, <3>2, <3>3, <3>4
  <2>2. GaugeTruthful'
    <3>1. SUFFICES ASSUME ~drifted', NEW s \in Statuses PROVE gauge'[s] = Cardinality({m \in Nodes : status'[m] = s})
      BY DEF GaugeTruthful
    <3>2. ~drifted /\ old = status[n]
      BY <1>2, <3>1, Zenon DEF Follows, MoveTo
    <3>3. gauge[s] = Cardinality({m \in Nodes : status[m] = s})
      BY <3>2 DEF GaugeTruthful
    <3>4. gauge'[s] = gauge[s] + (IF s = new THEN 1 ELSE 0) - (IF s = status[n] THEN 1 ELSE 0)
      BY <1>2, <3>2 DEF Follows, MoveTo, CountMove
    <3>5. status' = [status EXCEPT ![n] = new] /\ status \in [Nodes -> Statuses \cup {"absent"}]
      BY <1>2 DEF Follows, MoveTo, TypeOK, RegistryOK
    <3>6. Cardinality({m \in Nodes : status'[m] = s}) =
            Cardinality({m \in Nodes : status[m] = s}) + (IF s = new THEN 1 ELSE 0) - (IF s = status[n] THEN 1 ELSE 0)
      BY <3>5, StatusCount
    <3> QED BY <3>3, <3>4, <3>6
  <2> QED BY <1>0, <2>1, <2>2
<1>3. ASSUME NEW n \in Nodes, NEW new \in Statuses, DriftTo(n, new) PROVE GaugeInv'
  <2>1. GaugeConserved'
    <3>1. Cardinality(Registered') = Cardinality(Registered) + (IF status[n] = "absent" THEN 1 ELSE 0)
      BY <1>3, RegisteredMoves DEF DriftTo
    <3>2. skew' = (IF status[n] = "absent" THEN skew - 1 ELSE skew) /\ Sum(gauge') = Sum(gauge)
      BY <1>3 DEF DriftTo
    <3> QED BY <1>c, <1>t, <3>1, <3>2
  <2>2. GaugeTruthful'
    <3>1. SUFFICES ASSUME ~drifted' PROVE GaugeTruthful'
      BY DEF GaugeTruthful
    <3>2. ~drifted /\ new = status[n]
      BY <1>3, <3>1, Zenon DEF DriftTo
    <3>3. status' = status /\ gauge' = gauge
      BY <1>3, <3>2 DEF DriftTo, TypeOK, RegistryOK
    <3> QED BY <3>2, <3>3 DEF GaugeTruthful
  <2> QED BY <1>0, <2>1, <2>2
<1> QED BY <1>1, <1>2, <1>3, StatusSteps

\* GaugeConserved and GaugeTruthful, with what they rest on.
THEOREM GaugeInvariantHolds == Spec => []GaugeInv
<1>1. Init => GaugeInv
  <2> SUFFICES ASSUME Init PROVE GaugeInv
    OBVIOUS
  <2>1. /\ {n \in Nodes : status[n] # "absent"} = {}
        /\ \A s \in Statuses : {n \in Nodes : status[n] = s} = {}
    BY DEF Init, Statuses
  <2>2. Cardinality({}) = 0
    BY FS_EmptySet
  <2>3. skew = 0 /\ \A s \in Statuses : gauge[s] = 0
    BY DEF Init
  <2>4. GaugeConserved
    BY <2>1, <2>2, <2>3 DEF GaugeConserved, Statuses
  <2>5. GaugeTruthful
    BY <2>1, <2>2, <2>3 DEF GaugeTruthful
  <2>6. PriorInv
    BY DEF Init, PriorInv, Statuses
  <2> QED BY InitTypes, <2>4, <2>5, <2>6 DEF GaugeInv
<1>2. GaugeInv /\ [Next]_vars => GaugeInv'
  BY GaugeKeeps
<1> QED BY <1>1, <1>2, PTL DEF Spec

\* GaugeConserved: in sum, owm_nodes_total counts every registered node once,
\* but for first registrations that reported an error or overlapped another
\* call of their key, however the statements of requests interleave with other
\* changes of the status.
THEOREM GaugeConservedHolds == Spec => []GaugeConserved
<1>1. GaugeInv => GaugeConserved
  BY DEF GaugeInv
<1> QED BY <1>1, GaugeInvariantHolds, PTL

\* GaugeTruthful: as long as none of the named events has happened, the gauge
\* has the number of nodes in each status.
THEOREM GaugeTruthfulHolds == Spec => []GaugeTruthful
<1>1. GaugeInv => GaugeTruthful
  BY DEF GaugeInv
<1> QED BY <1>1, GaugeInvariantHolds, PTL
=============================================================================
