------------------------- MODULE StakeLedgerProofs -------------------------
(***************************************************************************)
(* NodeStake implements StakeLedger, for any finite set of nodes, any      *)
(* number of concurrent slashing calls, any threshold and any failures.    *)
(***************************************************************************)
EXTENDS NodeStakeProofs

\* Handlers, ticker and slashing calls work on nodes that exist: a stake, a
\* request past its upsert and an open signal are a registered node's, the ticker
\* goes through stakes on record, and a slashing call has a node with a signal
\* against it and, once it has read the row, with a stake.
KnownInv ==
  /\ \A n \in Nodes :
       /\ (stake[n] # "none" \/ unlinked[n] > 0) => status[n] # "absent"
       /\ n \in vrows \cup {vcur} => stake[n] # "none"
  /\ \A q \in Requests : reg[q] \notin {"idle", "upsert"} => status[who[q]] # "absent"
  /\ \A c \in Callers : spc[c] # "idle" =>
       /\ status[scur[c]] # "absent" /\ total[scur[c]] > 0
       /\ spc[c] # "fetch" => stake[scur[c]] # "none"

USE NodesAssumption, NumbersAssumption

-----------------------------------------------------------------------------
(* What is known stays known                                               *)

\* No step removes a node, a stake row or a signal.
Grows ==
  \A n \in Nodes : /\ status[n] # "absent" => status'[n] # "absent"
                   /\ stake[n] # "none" => stake'[n] # "none"
                   /\ total[n] > 0 => total'[n] > 0

\* Statuses, stakes and signals after a step.
LEMMA StepGrows ==
  ASSUME TypeOK, [Next]_vars
  PROVE  Grows
<1>0. CASE UNCHANGED <<status, stake, total>>
  BY <1>0 DEF Grows
<1>1. ASSUME NEW q \in Requests, Upsert(q) \/ Activate(q) \/ UpdateStatus(q) PROVE Grows
  BY <1>1 DEF Upsert, Activate, UpdateStatus, MoveTo, DriftTo, Grows, TypeOK, RegistryOK, stakesT, history
<1>2. CASE Degrade
  BY <1>2 DEF Degrade, DriftTo, Grows, TypeOK, RegistryOK, stakesT, history
<1>3. ASSUME NEW c \in Callers, SlashSuspend(c) PROVE Grows
  BY <1>3 DEF SlashSuspend, DriftTo, Grows, TypeOK, RegistryOK, stakesT, history
<1>4. CASE PersistRow \/ (\E q \in Requests : PersistRegistration(q))
  BY <1>4 DEF PersistRow, PersistRegistration, PersistStake, PersistFails, Grows, TypeOK, StakesOK, stakesT, nodesT, history
<1>5. CASE DegradeStake
  BY <1>5 DEF DegradeStake, Grows, TypeOK, StakesOK, stakesT, nodesT, history
<1>6. ASSUME NEW c \in Callers, SlashMark(c) PROVE Grows
  BY <1>6 DEF SlashMark, Grows, TypeOK, StakesOK, nodesT
<1>7. ASSUME NEW c \in Callers, NEW n \in Nodes, RecordSignal(c, n) PROVE Grows
  BY <1>7 DEF RecordSignal, Grows, TypeOK, LogsOK, stakesT, nodesT
<1> QED
  BY <1>0, <1>1, <1>2, <1>3, <1>4, <1>5, <1>6, <1>7
     DEF Next, Register, RequestStep, VerifyStep, SlashStep, OpenChannel, LoseChannel, VerifyRegistration,
         Deregister, SelectActive, Reverify, SlashAcknowledged,
         SlashFetch, SlashClose, SlashFails, SlashEvent, SlashLink, vars, nodesT, stakesT, history

\* A step of a request that leaves ticker and slashing calls alone keeps KnownInv
\* if new stakes and requests past their upsert are a registered node's.
LEMMA KnownFrame ==
  ASSUME TypeOK, KnownInv, Grows, UNCHANGED <<vrows, vcur, spc, scur, unlinked>>,
         \A n \in Nodes : stake'[n] # "none" => stake[n] # "none" \/ status'[n] # "absent",
         \A q \in Requests : reg'[q] \notin {"idle", "upsert"} =>
            \/ reg[q] \notin {"idle", "upsert"} /\ who'[q] = who[q]
            \/ who'[q] \in Nodes /\ status'[who'[q]] # "absent"
  PROVE  KnownInv'
<1>1. /\ \A c \in Callers : spc[c] # "idle" => scur[c] \in Nodes
      /\ \A q \in Requests : reg[q] # "idle" => who[q] \in Nodes
  BY DEF TypeOK, SlasherOK, RequestsOK
<1>2. \A q \in Requests : reg'[q] \notin {"idle", "upsert"} => status'[who'[q]] # "absent"
  BY <1>1 DEF KnownInv, Grows
<1> QED BY <1>1, <1>2 DEF KnownInv, Grows

\* Channels and the registry keep it.
LEMMA KnownRegistry ==
  ASSUME TypeOK, KnownInv, Grows,
         \/ \E n \in Nodes : OpenChannel(n) \/ LoseChannel(n)
         \/ \E q \in Requests, n \in Nodes : Register(q, n) \/ Deregister(q, n)
         \/ \E q \in Requests : RequestStep(q)
  PROVE  KnownInv'
<1>0. \A q \in Requests : reg[q] # "idle" => who[q] \in Nodes
  BY DEF TypeOK, RequestsOK
<1>1. UNCHANGED <<vrows, vcur, spc, scur, unlinked>>
  BY DEF OpenChannel, LoseChannel, Register, Deregister, RequestStep, Upsert, VerifyRegistration, Activate,
         PersistRegistration, UpdateStatus, ticker, slasher, slashT
<1>2. CASE \E n \in Nodes : OpenChannel(n) \/ LoseChannel(n)
  <2>1. UNCHANGED <<stake, reg, who>>
    BY <1>2 DEF OpenChannel, LoseChannel, handler, stakesT
  <2> QED BY <1>1, <2>1, KnownFrame
<1>3. ASSUME NEW q \in Requests, NEW n \in Nodes, Register(q, n) \/ Deregister(q, n) PROVE KnownInv'
  <2>1. UNCHANGED <<stake, status>> /\ \A p \in Requests \ {q} : reg'[p] = reg[p] /\ who'[p] = who[p]
    BY <1>3 DEF Register, Deregister, Begin, stakesT, nodesT, TypeOK, RequestsOK
  <2>2. reg'[q] = "upsert" \/ (who'[q] = n /\ status'[n] # "absent")
    BY <1>3 DEF Register, Deregister, Begin, nodesT, TypeOK, RequestsOK
  <2> QED BY <1>1, <2>1, <2>2, KnownFrame
<1>4. ASSUME NEW q \in Requests, RequestStep(q) PROVE KnownInv'
  <2>1. \A p \in Requests \ {q} : reg'[p] = reg[p] /\ who'[p] = who[p]
    BY <1>4 DEF RequestStep, Upsert, VerifyRegistration, Activate, PersistRegistration, UpdateStatus, End, TypeOK, RequestsOK
  <2>2. who[q] \in Nodes /\ reg[q] # "idle"
    BY <1>0, <1>4 DEF RequestStep, Upsert, VerifyRegistration, Activate, PersistRegistration, UpdateStatus
  <2>3. reg'[q] = "idle" \/ (who'[q] = who[q] /\ status'[who[q]] # "absent")
    <3>1. CASE Upsert(q)
      BY <2>2, <3>1 DEF Upsert, MoveTo, End, TypeOK, RequestsOK, RegistryOK
    <3>2. CASE VerifyRegistration(q) \/ PersistRegistration(q)
      BY <2>2, <3>2 DEF VerifyRegistration, PersistRegistration, End, KnownInv, Grows, TypeOK, RequestsOK
    <3>3. CASE Activate(q) \/ UpdateStatus(q)
      BY <3>3 DEF Activate, UpdateStatus, End, TypeOK, RequestsOK
    <3> QED BY <1>4, <3>1, <3>2, <3>3 DEF RequestStep
  <2>4. \A n \in Nodes : stake'[n] # "none" => stake[n] # "none" \/ status'[n] # "absent"
    <3>1. CASE PersistRegistration(q)
      <4>1. status'[who[q]] # "absent"
        BY <2>2, <3>1 DEF PersistRegistration, KnownInv, Grows
      <4> QED BY <3>1, <4>1 DEF PersistRegistration, PersistStake, PersistFails, stakesT, TypeOK, StakesOK
    <3>2. CASE UNCHANGED stake
      BY <3>2
    <3> QED BY <1>4, <3>1, <3>2 DEF RequestStep, Upsert, VerifyRegistration, Activate, UpdateStatus, stakesT
  <2> QED BY <1>1, <2>1, <2>2, <2>3, <2>4, KnownFrame
<1> QED BY <1>2, <1>3, <1>4

\* The ticker keeps it.
LEMMA KnownTicker ==
  ASSUME TypeOK, KnownInv, Grows, SelectActive \/ VerifyStep
  PROVE  KnownInv'
<1>0. /\ \A c \in Callers : spc[c] # "idle" => scur[c] \in Nodes
      /\ \A q \in Requests : reg[q] # "idle" => who[q] \in Nodes
  BY DEF TypeOK, SlasherOK, RequestsOK
<1>1. UNCHANGED <<reg, who, spc, scur, unlinked>>
  BY DEF SelectActive, VerifyStep, Reverify, PersistRow, Degrade, DegradeStake, handler, slasher, slashT
<1>2. \A n \in Nodes : n \in vrows' \cup {vcur'} => n \in vrows \cup {vcur} \/ stake[n] # "none"
  BY DEF SelectActive, VerifyStep, Reverify, PersistRow, Degrade, DegradeStake, EndRow
<1>3. \A n \in Nodes : stake'[n] # "none" => stake[n] # "none"
  <2>1. CASE UNCHANGED stake
    BY <2>1
  <2>2. CASE PersistRow
    <3>1. vcur \in Nodes /\ stake[vcur] # "none"
      BY <2>2 DEF PersistRow, TypeOK, TickerOK, KnownInv
    <3> QED BY <2>2, <3>1 DEF PersistRow, PersistStake, PersistFails, stakesT, TypeOK, StakesOK
  <2>3. CASE DegradeStake
    <3>1. vcur \in Nodes /\ stake[vcur] # "none"
      BY <2>3 DEF DegradeStake, TypeOK, TickerOK, KnownInv
    <3> QED BY <2>3, <3>1 DEF DegradeStake, stakesT, TypeOK, StakesOK
  <2> QED BY <2>1, <2>2, <2>3 DEF SelectActive, VerifyStep, Reverify, Degrade, stakesT
<1> QED BY <1>0, <1>1, <1>2, <1>3 DEF KnownInv, Grows

\* Signals and slashing calls keep it.
LEMMA KnownSlash ==
  ASSUME Inv, KnownInv, Grows, NEW c \in Callers,
         SlashStep(c) \/ \E n \in Nodes : RecordSignal(c, n) \/ SlashAcknowledged(c, n)
  PROVE  KnownInv'
<1>t. TypeOK
  BY DEF Inv
<1>0. /\ \A d \in Callers : spc[d] # "idle" => scur[d] \in Nodes
      /\ \A q \in Requests : reg[q] # "idle" => who[q] \in Nodes
  BY <1>t DEF TypeOK, SlasherOK, RequestsOK
<1>1. UNCHANGED <<reg, who, vrows, vcur>>
  BY DEF SlashStep, SlashFetch, SlashClose, SlashFails, SlashEvent, SlashSuspend, SlashMark, SlashLink,
         RecordSignal, SlashAcknowledged, handler, ticker
<1>2. \A d \in Callers \ {c} : spc'[d] = spc[d] /\ scur'[d] = scur[d]
  BY <1>t DEF SlashStep, SlashFetch, SlashClose, SlashFails, SlashEvent, SlashSuspend, SlashMark, SlashLink,
         RecordSignal, SlashAcknowledged, Call, Goto, Advance, Return, slasher, TypeOK, SlasherOK
<1>3. \A n \in Nodes : stake'[n] # "none" => stake[n] # "none"
  <2>1. CASE UNCHANGED stake
    BY <2>1
  <2>2. CASE SlashMark(c)
    BY <1>0, <1>t, <2>2 DEF SlashMark, KnownInv, TypeOK, StakesOK
  <2> QED
    BY <2>1, <2>2 DEF SlashStep, SlashFetch, SlashClose, SlashFails, SlashEvent, SlashSuspend, SlashLink,
           RecordSignal, SlashAcknowledged, stakesT
<1>4. \A n \in Nodes : unlinked'[n] > 0 => status[n] # "absent"
  <2>1. CASE UNCHANGED unlinked
    BY <2>1 DEF KnownInv
  <2>2. ASSUME NEW n \in Nodes, RecordSignal(c, n) PROVE \A m \in Nodes : unlinked'[m] > 0 => status[m] # "absent"
    BY <1>t, <2>2 DEF RecordSignal, KnownInv, TypeOK, LogsOK
  <2>3. CASE SlashLink(c)
    BY <1>t, <2>3 DEF SlashLink, KnownInv, TypeOK, LogsOK
  <2> QED
    BY <2>1, <2>2, <2>3 DEF SlashStep, SlashFetch, SlashClose, SlashFails, SlashEvent, SlashSuspend, SlashMark,
           SlashAcknowledged, slashT
<1>5. spc'[c] # "idle" =>
        /\ scur'[c] \in Nodes /\ status[scur'[c]] # "absent" /\ total'[scur'[c]] > 0
        /\ spc'[c] # "fetch" => stake[scur'[c]] # "none"
  <2>1. CASE spc'[c] = "idle"
    BY <2>1
  <2>2. ASSUME NEW n \in Nodes, RecordSignal(c, n), spc'[c] # "idle"
        PROVE  spc'[c] = "fetch" /\ scur'[c] = n /\ status[n] # "absent" /\ total'[n] > 0
    BY <1>t, <2>2 DEF RecordSignal, Call, slasher, TypeOK, SlasherOK, LogsOK
  <2>3. ASSUME NEW n \in Nodes, SlashAcknowledged(c, n)
        PROVE  spc'[c] = "fetch" /\ scur'[c] = n /\ status[n] # "absent" /\ total'[n] > 0
    <3>1. spc'[c] = "fetch" /\ scur'[c] = n /\ unlinked[n] > 0 /\ total' = total
      BY <1>t, <2>3 DEF SlashAcknowledged, Call, history, TypeOK, SlasherOK
    <3>2. unlinked[n] <= total[n] /\ unlinked[n] \in Nat /\ total[n] \in Nat
      BY <1>t DEF Inv, SlashingInv, SignalInv, TypeOK, LogsOK
    <3> QED BY <3>1, <3>2 DEF KnownInv
  <2>4. ASSUME SlashStep(c), spc'[c] # "idle"
        PROVE  /\ spc[c] # "idle" /\ scur'[c] = scur[c]
               /\ spc[c] = "fetch" => stake[scur[c]] # "none"
    BY <1>t, <2>4 DEF SlashStep, SlashFetch, SlashClose, SlashFails, SlashEvent, SlashSuspend, SlashMark, SlashLink,
         Goto, Advance, Return, TypeOK, SlasherOK
  <2>5. ASSUME SlashStep(c), spc'[c] # "idle"
        PROVE  /\ scur'[c] \in Nodes /\ status[scur'[c]] # "absent" /\ total'[scur'[c]] > 0
               /\ stake[scur'[c]] # "none"
    BY <1>0, <2>4, <2>5 DEF KnownInv, Grows
  <2> QED BY <2>1, <2>2, <2>3, <2>5
<1>6. ASSUME NEW d \in Callers, spc'[d] # "idle"
      PROVE  /\ status'[scur'[d]] # "absent" /\ total'[scur'[d]] > 0
             /\ spc'[d] # "fetch" => stake'[scur'[d]] # "none"
  <2>1. CASE d = c
    BY <1>5, <1>6, <2>1 DEF Grows
  <2>2. CASE d # c
    BY <1>0, <1>2, <1>6, <2>2 DEF KnownInv, Grows
  <2> QED BY <2>1, <2>2
<1>7. ASSUME NEW n \in Nodes
      PROVE  /\ (stake'[n] # "none" \/ unlinked'[n] > 0) => status'[n] # "absent"
             /\ n \in vrows' \cup {vcur'} => stake'[n] # "none"
  BY <1>1, <1>3, <1>4 DEF KnownInv, Grows
<1>8. \A q \in Requests : reg'[q] \notin {"idle", "upsert"} => status'[who'[q]] # "absent"
  BY <1>0, <1>1 DEF KnownInv, Grows
<1> QED BY <1>6, <1>7, <1>8 DEF KnownInv

\* KnownInv holds always.
THEOREM KnownHolds == Spec => []KnownInv
<1>1. Init => KnownInv
  BY DEF Init, KnownInv
<1>2. Inv /\ KnownInv /\ [Next]_vars => KnownInv'
  <2> SUFFICES ASSUME Inv, KnownInv, [Next]_vars PROVE KnownInv'
    OBVIOUS
  <2>1. TypeOK /\ Grows
    BY StepGrows DEF Inv
  <2>2. CASE UNCHANGED vars
    BY <2>1, <2>2, KnownFrame DEF vars, handler, ticker, slasher, slashT, stakesT
  <2>3. CASE Next
    BY <2>1, <2>3, KnownRegistry, KnownTicker, KnownSlash DEF Next
  <2> QED BY <2>2, <2>3
<1> QED BY <1>1, <1>2, InvariantHolds, PTL DEF Spec
-----------------------------------------------------------------------------
(* Step by step                                                            *)

\* What StakeLedger speaks of.
Ledger == <<status, stake, total, forced, events>>

\* A request changes the standing of its node, or records its stake.
LEMMA RegistryRefines ==
  ASSUME TypeOK, KnownInv, NEW q \in Requests, RequestStep(q)
  PROVE  \/ UNCHANGED Ledger
         \/ \E n \in Nodes : Standing!Join(n) \/ Standing!Admit(n) \/ Standing!Suspend(n) \/ Standing!Deposit(n)
<1> DEFINE n == who[q]
<1>t. n \in Nodes /\ status[n] \in {"absent", "pending", "active", "degraded", "suspended"}
  BY DEF TypeOK, RegistryOK, RequestsOK, Statuses, RequestStep, Upsert, VerifyRegistration, PersistRegistration, Activate, UpdateStatus
<1>1. CASE VerifyRegistration(q)
  BY <1>1 DEF VerifyRegistration, nodesT, stakesT, slashT, history, Ledger
<1>2. CASE Upsert(q)
  <2>1. status' \in {status, [status EXCEPT ![n] = "pending"]} /\ UNCHANGED <<stake, total, forced, events>>
    BY <1>2 DEF Upsert, MoveTo, DriftTo, stakesT, slashT, history
  <2> QED BY <1>t, <2>1 DEF Standing!Join, Standing!Stand, Ledger
<1>3. CASE Activate(q)
  <2>1. UNCHANGED <<stake, total, forced, events>>
    BY <1>3 DEF Activate, stakesT, slashT, history
  <2>2. status' = status \/ (status[n] = "pending" /\ status' = [status EXCEPT ![n] = "active"])
    BY <1>3 DEF Activate, MoveTo, DriftTo
  <2> QED BY <1>t, <2>1, <2>2 DEF Standing!Admit, Standing!Stand, Ledger
<1>4. CASE UpdateStatus(q)
  <2>1. UNCHANGED <<stake, total, forced, events>> /\ status[n] # "absent"
    BY <1>4 DEF UpdateStatus, KnownInv, stakesT, slashT, history
  <2>2. status' = status \/ status' = [status EXCEPT ![n] = "suspended"]
    BY <1>4 DEF UpdateStatus, MoveTo, DriftTo
  <2> QED BY <1>t, <2>1, <2>2 DEF Standing!Suspend, Standing!Stand, Ledger
<1>5. CASE PersistRegistration(q)
  <2>1. UNCHANGED <<status, total, forced, events>> /\ status[n] # "absent"
    BY <1>5 DEF PersistRegistration, KnownInv, nodesT, slashT, history
  <2>2. stake' = stake \/ stake' = [stake EXCEPT ![n] = "active"]
    BY <1>5 DEF PersistRegistration, PersistStake, PersistFails, stakesT
  <2> QED BY <1>t, <2>1, <2>2 DEF Standing!Deposit, Standing!Record, Ledger
<1> QED BY <1>1, <1>2, <1>3, <1>4, <1>5 DEF RequestStep

\* The ticker renews the stake of the node in hand, or demotes it and then
\* weakens its stake.
LEMMA TickerRefines ==
  ASSUME TypeOK, KnownInv, SelectActive \/ VerifyStep
  PROVE  \/ UNCHANGED Ledger
         \/ \E n \in Nodes : Standing!Deposit(n) \/ Standing!Demote(n) \/ Standing!Weaken(n)
<1>0. vpc \notin {"idle", "next"} => vcur \in Nodes /\ stake[vcur] # "none" /\ status[vcur] # "absent"
  BY DEF TypeOK, TickerOK, KnownInv
<1>1. CASE SelectActive \/ \E n \in Nodes : Reverify(n)
  BY <1>1 DEF SelectActive, Reverify, nodesT, stakesT, slashT, history, Ledger
<1>2. CASE PersistRow
  <2>1. UNCHANGED <<status, total, forced, events>> /\ vpc = "persist"
    BY <1>2 DEF PersistRow, nodesT, slashT, history
  <2>2. stake' = stake \/ stake' = [stake EXCEPT ![vcur] = "active"]
    BY <1>2 DEF PersistRow, PersistStake, PersistFails, stakesT
  <2> QED BY <1>0, <2>1, <2>2 DEF Standing!Deposit, Standing!Record, Ledger
<1>3. CASE Degrade
  <2>1. UNCHANGED <<stake, total, forced, events>> /\ vpc = "degrade"
    BY <1>3 DEF Degrade, stakesT, slashT, history
  <2>2. status' = status \/ (status[vcur] = "active" /\ status' = [status EXCEPT ![vcur] = "degraded"])
    BY <1>3 DEF Degrade, DriftTo
  <2> QED BY <1>0, <2>1, <2>2 DEF Standing!Demote, Standing!Stand, Ledger
<1>4. CASE DegradeStake
  <2>1. UNCHANGED <<status, total, forced, events>> /\ vpc = "degradeStake"
    BY <1>4 DEF DegradeStake, nodesT, slashT, history
  <2>2. stake' = stake \/ stake' = [stake EXCEPT ![vcur] = "degraded"]
    BY <1>4 DEF DegradeStake, stakesT
  <2> QED BY <1>0, <2>1, <2>2 DEF Standing!Weaken, Standing!Record, Ledger
<1> QED BY <1>1, <1>2, <1>3, <1>4 DEF VerifyStep

\* A signal accuses; a slashing call closes, logs, suspends and seizes.
LEMMA SlashRefines ==
  ASSUME Inv, KnownInv, NEW c \in Callers,
         SlashStep(c) \/ \E n \in Nodes : RecordSignal(c, n) \/ SlashAcknowledged(c, n)
  PROVE  \/ UNCHANGED Ledger
         \/ \E n \in Nodes : \/ Standing!Accuse(n) \/ Standing!Suspend(n) \/ Standing!Seize(n)
                             \/ \E k \in 1..MaxChannels : Standing!ForceClose(n, k) \/ Standing!LogEvent(n, k)
<1> DEFINE n == scur[c]
<1>0. spc[c] # "idle" => n \in Nodes /\ status[n] # "absent"
  BY DEF Inv, TypeOK, SlasherOK, KnownInv
<1>1. ASSUME NEW m \in Nodes, RecordSignal(c, m) PROVE Standing!Accuse(m)
  BY <1>1 DEF RecordSignal, Standing!Accuse, nodesT, stakesT
<1>2. CASE SlashFetch(c) \/ SlashFails(c) \/ SlashLink(c) \/ \E m \in Nodes : SlashAcknowledged(c, m)
  BY <1>2 DEF SlashFetch, SlashFails, SlashLink, SlashAcknowledged, nodesT, stakesT, slashT, history, Ledger
<1>3. CASE SlashClose(c)
  <2>1. UNCHANGED <<status, stake, total, events>> /\ spc[c] = "close"
    BY <1>3 DEF SlashClose, nodesT, stakesT, slashT
  <2>2. \/ forced' = forced
        \/ /\ schan[c] # 0 /\ schan[c] = opened[n] /\ open[n] # "none"
           /\ forced' = [forced EXCEPT ![n] = @ \cup {schan[c]}]
    BY <1>3 DEF SlashClose
  <2>3. stake[n] # "none" /\ total[n] > 0 /\ (n \in T1 => total[n] > SlashThreshold)
    BY <2>1 DEF KnownInv, Inv, SlashingInv, SignalInv
  <2>4. (schan[c] # 0 => schan[c] \in 1..MaxChannels) /\ (open[n] # "none" => opened[n] \notin forced[n])
    BY <1>0, <2>1 DEF Inv, TypeOK, SlasherOK, SlashingInv, ClosedInv
  <2> QED BY <1>0, <2>1, <2>2, <2>3, <2>4 DEF Standing!ForceClose, Ledger
<1>4. CASE SlashEvent(c)
  <2>1. /\ UNCHANGED <<status, stake, total, forced>> /\ spc[c] = "event"
        /\ events' = [events EXCEPT ![n] = @ \cup {schan[c]}]
    BY <1>4 DEF SlashEvent, nodesT, stakesT, history
  <2>2. schan[c] \in forced[n] \ events[n]
    BY <2>1 DEF Inv, SlashingInv, SlashInv
  <2>3. schan[c] \in 1..MaxChannels
    BY <1>0, <2>1, <2>2 DEF Inv, TypeOK, LogsOK
  <2> QED BY <1>0, <2>1, <2>2, <2>3 DEF Standing!LogEvent
<1>5. CASE SlashSuspend(c)
  <2>1. /\ UNCHANGED <<stake, total, forced, events>> /\ spc[c] = "suspend"
        /\ status' = [status EXCEPT ![n] = "suspended"]
    BY <1>5 DEF SlashSuspend, DriftTo, stakesT, slashT, history
  <2>2. status[n] \in {"pending", "active", "degraded", "suspended"}
    BY <1>0, <2>1 DEF Inv, TypeOK, RegistryOK, Statuses
  <2> QED BY <1>0, <2>1, <2>2 DEF Standing!Suspend, Standing!Stand
<1>6. CASE SlashMark(c)
  <2>1. /\ UNCHANGED <<status, total, forced, events>> /\ spc[c] = "mark"
        /\ stake' = [stake EXCEPT ![n] = "force_closed"]
    BY <1>6 DEF SlashMark, nodesT, slashT
  <2>2. events[n] # {} /\ stake[n] # "none"
    BY <2>1 DEF Inv, SlashingInv, SlashInv, KnownInv
  <2> QED BY <1>0, <2>1, <2>2 DEF Standing!Seize, Standing!Record
<1> QED BY <1>1, <1>2, <1>3, <1>4, <1>5, <1>6 DEF SlashStep

\* NodeStake implements StakeLedger: the order of Slash, the conditions on what
\* is recorded and the ways in and out of each status hold for every
\* interleaving of handlers, ticker and slashing calls, and whatever fails.
THEOREM StandingImplemented == Spec => ImplementsStanding
<1>1. Init => Standing!SInit
  BY DEF Init, Standing!SInit
<1>2. Inv /\ KnownInv /\ [Next]_vars => [Standing!SNext]_(Standing!svars)
  <2> SUFFICES ASSUME Inv, KnownInv, [Next]_vars PROVE Standing!SNext \/ UNCHANGED Ledger
    BY DEF Standing!svars, Ledger
  <2>1. CASE UNCHANGED vars
    BY <2>1 DEF vars, nodesT, stakesT, slashT, history, Ledger
  <2>2. CASE \/ \E n \in Nodes : OpenChannel(n) \/ LoseChannel(n)
             \/ \E q \in Requests, n \in Nodes : Register(q, n) \/ Deregister(q, n)
    BY <2>2 DEF OpenChannel, LoseChannel, Register, Deregister, nodesT, stakesT, slashT, history, Ledger
  <2>3. ASSUME NEW q \in Requests, RequestStep(q) PROVE Standing!SNext \/ UNCHANGED Ledger
    BY <2>3, RegistryRefines DEF Inv, Standing!SNext
  <2>4. CASE SelectActive \/ VerifyStep
    BY <2>4, TickerRefines DEF Inv, Standing!SNext
  <2>5. ASSUME NEW c \in Callers, SlashStep(c) \/ \E n \in Nodes : RecordSignal(c, n) \/ SlashAcknowledged(c, n)
        PROVE  Standing!SNext \/ UNCHANGED Ledger
    BY <2>5, SlashRefines DEF Standing!SNext
  <2> QED BY <2>1, <2>2, <2>3, <2>4, <2>5 DEF Next
<1> QED
  BY <1>1, <1>2, InvariantHolds, KnownHolds, PTL DEF Spec, ImplementsStanding, Standing!SSpec
=============================================================================
