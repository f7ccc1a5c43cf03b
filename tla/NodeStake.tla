----------------------------- MODULE NodeStake -----------------------------
(***************************************************************************)
(* Membership and stake: the RegisterNode and DeregisterNode handlers, the *)
(* tables nodes, node_stakes, misbehavior_signals and slashing_events, the *)
(* VerifyAllActive ticker, the slashing path of stake.Verifier and the     *)
(* gauge owm_nodes_total. Each statement against the database and each     *)
(* Lightning call is a step, so handlers, ticker and slashing interleave   *)
(* between them; the upsert of a registration is two, for it returns what  *)
(* its snapshot held and updates the row as it is by then. The gauge moves *)
(* with the statement before it, additions in any order. One process       *)
(* is modelled, from an empty database: a restart sets the gauge to 0.     *)
(***************************************************************************)
EXTENDS Integers, FiniteSets

CONSTANTS Nodes,             \* registered public keys
          T1,                \* the nodes of tier t1
          NoNode,            \* marks an idle request, caller or ticker
          Requests,          \* concurrent calls of RegisterNode or DeregisterNode
          Callers,           \* concurrent calls of RecordMisbehaviorSignal or Slash
          SlashThreshold,    \* SlashConfig.T1AutoSlashSignals (3)
          Faults,            \* failures the environment may inject
          MaxCalls,          \* bound: RegisterNode and DeregisterNode calls per node
          MaxSignals,        \* bound: signals per node
          MaxChannels        \* bound: channels a node opens

ASSUME NodesAssumption == NoNode \notin Nodes /\ T1 \subseteq Nodes /\ IsFiniteSet(Nodes)
ASSUME NumbersAssumption == /\ SlashThreshold \in Nat
                            /\ MaxCalls \in Nat /\ MaxSignals \in Nat /\ MaxChannels \in Nat
ASSUME FaultsAssumption == Faults \subseteq {"db", "lightning", "spend"}

VARIABLES
  status,    \* nodes.status; "absent" before the first registration
  stake,     \* node_stakes.stake_status; "none" without a row
  chanId,    \* node_stakes.channel_id; 0 is the empty id, or no row
  since,     \* nodes with node_stakes.degraded_since
  open,      \* treasury LN node: the channel of a node: none, low or full balance;
             \* the channels of a node are numbered, and opened[n] is the latest
  unlinked,  \* misbehavior_signals not yet linked to a slashing event
  events,    \* slashing_events: the channel ids logged for a node
  reg,       \* request: idle or its next step
  who,       \* request: the node that calls
  prior,     \* request: the old status it has read, or unknown
  found,     \* request: the channel of its StakeResult, 0 if not OK
  gauge,     \* owm_nodes_total: the nodes in each status, as counted by the registry
  vpc,       \* ticker: idle, next, degrade, degradeStake, persist
  vrows,     \* ticker: rows of its SELECT still to be handled
  vcur,      \* ticker: the node in hand
  vfound,    \* ticker: the channel VerifyStake has found for it
  spc,       \* caller: idle or the next step of Slash
  scur,      \* caller: the node being slashed
  schan,     \* caller: the channel id it has read
  calls,     \* bound: requests made so far
  opened,    \* channels opened so far
  forced,    \* history: the channels of a node that the coordinator force-closed
  overtaken, \* history: nodes whose stake row named another channel when a slash
             \* marked it than when that slash had read it
  total,     \* history: signals recorded in all
  drifted,   \* history: a status has changed and the gauge did not follow
  skew       \* history: nodes counted twice less nodes not counted at all

nodesT   == <<status>>
stakesT  == <<stake, chanId, since>>
slashT   == <<unlinked, events>>
handler  == <<reg, who, prior, found, calls>>
metric   == <<gauge, drifted, skew>>
ticker   == <<vpc, vrows, vcur, vfound>>
slasher  == <<spc, scur, schan>>
history  == <<forced, overtaken, total>>
vars == <<nodesT, stakesT, open, slashT, handler, ticker, slasher, opened, history, metric>>

Statuses   == {"pending", "active", "degraded", "suspended"}
RequestSteps == {"idle", "upsert", "verify", "persist", "activate", "update"}
SlashSteps == {"idle", "fetch", "close", "event", "suspend", "mark", "link"}

RegistryOK ==
  /\ status \in [Nodes -> Statuses \cup {"absent"}]
  /\ gauge \in [Statuses -> Int] /\ drifted \in BOOLEAN /\ skew \in Int

StakesOK ==
  /\ stake \in [Nodes -> {"none", "active", "degraded", "force_closed"}]
  /\ chanId \in [Nodes -> 0..MaxChannels] /\ opened \in [Nodes -> 0..MaxChannels]
  /\ \A n \in Nodes : stake[n] = "none" => chanId[n] = 0
  /\ \A n \in Nodes : chanId[n] <= opened[n]
  /\ since \in SUBSET Nodes
  /\ open \in [Nodes -> {"none", "low", "full"}]

RequestsOK ==
  /\ reg \in [Requests -> RequestSteps]
  /\ who \in [Requests -> Nodes \cup {NoNode}]
  /\ prior \in [Requests -> Statuses \cup {"absent", "unknown"}]
  /\ found \in [Requests -> 0..MaxChannels]
  /\ \A q \in Requests : (reg[q] = "idle") <=> (who[q] = NoNode)
  /\ \A q \in Requests : who[q] # NoNode => found[q] <= opened[who[q]]
  /\ calls \in [Nodes -> 0..MaxCalls]

TickerOK ==
  /\ vpc \in {"idle", "next", "degrade", "degradeStake", "persist"}
  /\ vrows \in SUBSET Nodes
  /\ vcur \in Nodes \cup {NoNode} /\ vfound \in 0..MaxChannels
  /\ (vpc \in {"idle", "next"}) <=> (vcur = NoNode)
  /\ vcur # NoNode => vfound <= opened[vcur]

LogsOK ==
  /\ unlinked \in [Nodes -> Nat] /\ total \in [Nodes -> 0..MaxSignals]
  /\ events \in [Nodes -> SUBSET (0..MaxChannels)]
  /\ forced \in [Nodes -> SUBSET (1..MaxChannels)] /\ overtaken \in SUBSET Nodes

SlasherOK ==
  /\ spc \in [Callers -> SlashSteps]
  /\ scur \in [Callers -> Nodes \cup {NoNode}]
  /\ schan \in [Callers -> 0..MaxChannels]
  /\ \A c \in Callers : (spc[c] = "idle") <=> (scur[c] = NoNode)

TypeOK == RegistryOK /\ StakesOK /\ RequestsOK /\ TickerOK /\ LogsOK /\ SlasherOK

Init ==
  /\ status = [n \in Nodes |-> "absent"]
  /\ stake = [n \in Nodes |-> "none"]
  /\ chanId = [n \in Nodes |-> 0]
  /\ since = {} /\ overtaken = {}
  /\ open = [n \in Nodes |-> "none"]
  /\ unlinked = [n \in Nodes |-> 0]
  /\ events = [n \in Nodes |-> {}]
  /\ forced = [n \in Nodes |-> {}]
  /\ total = [n \in Nodes |-> 0]
  /\ reg = [q \in Requests |-> "idle"]
  /\ who = [q \in Requests |-> NoNode]
  /\ prior = [q \in Requests |-> "unknown"]
  /\ found = [q \in Requests |-> 0]
  /\ vpc = "idle" /\ vrows = {} /\ vcur = NoNode /\ vfound = 0
  /\ spc = [c \in Callers |-> "idle"]
  /\ scur = [c \in Callers |-> NoNode]
  /\ schan = [c \in Callers |-> 0]
  /\ gauge = [s \in Statuses |-> 0] /\ drifted = FALSE /\ skew = 0
  /\ calls = [n \in Nodes |-> 0]
  /\ opened = [n \in Nodes |-> 0]

-----------------------------------------------------------------------------
(* The Lightning channel of a node, as the treasury node sees it           *)

OpenChannel(n) ==
  /\ open[n] = "none" /\ opened[n] < MaxChannels
  /\ open' = [open EXCEPT ![n] = "full"]
  /\ opened' = [opened EXCEPT ![n] = @ + 1]
  /\ UNCHANGED <<nodesT, stakesT, slashT, handler, ticker, slasher, history, metric>>

\* The balance falls below the tier minimum, or the node closes the channel.
LoseChannel(n) ==
  /\ "spend" \in Faults
  /\ open[n] = "full"
  /\ \E b \in {"none", "low"} : open' = [open EXCEPT ![n] = b]
  /\ UNCHANGED <<nodesT, stakesT, slashT, handler, ticker, slasher, opened, history, metric>>

-----------------------------------------------------------------------------
(* RegisterNode and DeregisterNode                                         *)

\* A request for n begins with step s and the old status it has read, and ends.
Begin(q, n, s, old) ==
  /\ reg[q] = "idle" /\ calls[n] < MaxCalls
  /\ calls' = [calls EXCEPT ![n] = @ + 1]
  /\ reg' = [reg EXCEPT ![q] = s]
  /\ who' = [who EXCEPT ![q] = n]
  /\ prior' = [prior EXCEPT ![q] = old]
  /\ found' = [found EXCEPT ![q] = 0]
End(q) ==
  /\ reg' = [reg EXCEPT ![q] = "idle"]
  /\ who' = [who EXCEPT ![q] = NoNode]
  /\ prior' = [prior EXCEPT ![q] = "unknown"]
  /\ found' = [found EXCEPT ![q] = 0]

\* OwmNodesTotal: Dec for the old status, which may be none, and Inc for the
\* new one.
CountMove(old, new) ==
  gauge' = [s \in Statuses |-> gauge[s] + (IF s = new THEN 1 ELSE 0) - (IF s = old THEN 1 ELSE 0)]

\* The status of n becomes s and the gauge moves from old, the status that was
\* read: it drifts if that is no longer the one in the row, and counts n twice
\* if n was not there then and is there now.
MoveTo(n, s, old) ==
  /\ status' = [status EXCEPT ![n] = s]
  /\ CountMove(old, s)
  /\ drifted' = (drifted \/ old # status[n])
  /\ skew' = IF old = "absent" /\ status[n] # "absent" THEN skew + 1 ELSE skew

\* The status of n becomes s and the gauge is left as it was.
DriftTo(n, s) ==
  /\ status' = [status EXCEPT ![n] = s]
  /\ drifted' = (drifted \/ s # status[n])
  /\ skew' = IF status[n] = "absent" THEN skew - 1 ELSE skew
  /\ UNCHANGED gauge

\* Registry.Register, whose statement begins: prior is what its snapshot holds.
\* Nothing keeps two calls of one key apart.
Register(q, n) ==
  /\ Begin(q, n, "upsert", status[n])
  /\ UNCHANGED <<nodesT, stakesT, open, slashT, ticker, slasher, opened, history, metric>>

\* Mutant: the prior status is not decremented.
UpsertCountsTwice(q) ==
  /\ reg[q] = "upsert"
  /\ status' = [status EXCEPT ![who[q]] = "pending"]
  /\ CountMove("absent", "pending") /\ UNCHANGED <<drifted, skew>>
  /\ reg' = [reg EXCEPT ![q] = "verify"]
  /\ UNCHANGED <<stakesT, open, slashT, who, prior, found, calls, ticker, slasher, opened, history>>

\* ... and writes: the upsert takes the node, as it is by now, back to 'pending'.
\* When it reports an error, applied or not, the call ends.
Upsert(q) ==
  /\ reg[q] = "upsert"
  /\ \/ /\ MoveTo(who[q], "pending", prior[q])
        /\ reg' = [reg EXCEPT ![q] = "verify"]
        /\ prior' = [prior EXCEPT ![q] = "unknown"]
        /\ UNCHANGED <<who, found>>
     \/ /\ "db" \in Faults
        /\ DriftTo(who[q], "pending") \/ UNCHANGED <<status, metric>>
        /\ End(q)
  /\ UNCHANGED <<stakesT, open, slashT, calls, ticker, slasher, opened, history>>

\* VerifyStake: the channel of n that meets the tier minimum, if any.
Qualifying(n) == IF open[n] = "full" THEN opened[n] ELSE 0

\* VerifyStake in RegisterNode. An error from the LN node ends the call with the node pending;
\* a result that is not OK is no error and the handler goes on.
VerifyRegistration(q) ==
  /\ reg[q] = "verify"
  /\ \/ /\ found' = [found EXCEPT ![q] = Qualifying(who[q])]
        /\ reg' = [reg EXCEPT ![q] = "persist"]
        /\ UNCHANGED <<who, prior>>
     \/ "lightning" \in Faults /\ End(q)
  /\ UNCHANGED <<nodesT, stakesT, open, slashT, calls, ticker, slasher, opened, history, metric>>

\* channel_id is UNIQUE and the result of a failed verification has the empty
\* id, so only one row can hold it.
Unique(n, id) == id = 0 => \A m \in Nodes \ {n} : stake[m] = "none" \/ chanId[m] # 0

\* Mutant: the upsert writes the channel id and forgets stake_status.
PersistStakeNoStatus(n, id) ==
  /\ Unique(n, id)
  /\ chanId' = [chanId EXCEPT ![n] = id]
  /\ since' = since \ {n}
  /\ UNCHANGED stake

\* PersistStake: upsert of the row of n.
PersistStake(n, id) ==
  /\ Unique(n, id)
  /\ stake' = [stake EXCEPT ![n] = "active"]
  /\ chanId' = [chanId EXCEPT ![n] = id]
  /\ since' = since \ {n}

PersistFails(n, id) ==
  /\ "db" \in Faults \/ ~Unique(n, id)
  /\ UNCHANGED stakesT

\* The error of PersistStake is logged; the handler goes on.
PersistRegistration(q) ==
  /\ reg[q] = "persist"
  /\ PersistStake(who[q], found[q]) \/ PersistFails(who[q], found[q])
  /\ reg' = [reg EXCEPT ![q] = "activate"]
  /\ found' = [found EXCEPT ![q] = 0]
  /\ UNCHANGED <<nodesT, open, slashT, who, prior, calls, ticker, slasher, opened, history, metric>>

\* Mutant: Activate without its condition on the current status.
ActivateUnconditional(q) ==
  /\ reg[q] = "activate"
  /\ MoveTo(who[q], "active", "pending")
  /\ End(q)
  /\ UNCHANGED <<stakesT, open, slashT, calls, ticker, slasher, opened, history>>

\* Registry.Activate: pending becomes active, any other status stays. The
\* handler ends either way, applied or not.
Activate(q) ==
  /\ reg[q] = "activate"
  /\ \/ status[who[q]] = "pending" /\ MoveTo(who[q], "active", "pending")
     \/ status[who[q]] = "pending" /\ "db" \in Faults /\ DriftTo(who[q], "active")
     \/ (status[who[q]] # "pending" \/ "db" \in Faults) /\ UNCHANGED <<status, metric>>
  /\ End(q)
  /\ UNCHANGED <<stakesT, open, slashT, calls, ticker, slasher, opened, history>>

\* DeregisterNode, for a registered node: UpdateStatus reads the old status; an
\* error of that SELECT is ignored and the gauge is then left alone.
Deregister(q, n) ==
  /\ status[n] # "absent"
  /\ \/ Begin(q, n, "update", status[n])
     \/ "db" \in Faults /\ Begin(q, n, "update", "unknown")
  /\ UNCHANGED <<nodesT, stakesT, open, slashT, ticker, slasher, opened, history, metric>>

\* Mutant: the two labels of the gauge are swapped.
UpdateStatusSwapped(q) ==
  /\ reg[q] = "update"
  /\ status' = [status EXCEPT ![who[q]] = "suspended"]
  /\ CountMove("suspended", prior[q])
  /\ drifted' = (drifted \/ prior[q] # status[who[q]]) /\ UNCHANGED skew
  /\ End(q)
  /\ UNCHANGED <<stakesT, open, slashT, calls, ticker, slasher, opened, history>>

\* Then it writes the new one, whatever the row says by now.
UpdateStatus(q) ==
  /\ reg[q] = "update"
  /\ \/ prior[q] # "unknown" /\ MoveTo(who[q], "suspended", prior[q])
     \/ (prior[q] = "unknown" \/ "db" \in Faults) /\ DriftTo(who[q], "suspended")
     \/ "db" \in Faults /\ UNCHANGED <<status, metric>>
  /\ End(q)
  /\ UNCHANGED <<stakesT, open, slashT, calls, ticker, slasher, opened, history>>

-----------------------------------------------------------------------------
(* VerifyAllActive, on a ticker                                            *)

\* Mutant: the SELECT asks for a stake row that is active as well.
SelectActiveStakes ==
  /\ vpc = "idle"
  /\ \E n \in Nodes : status[n] = "active" /\ stake[n] = "active"
  /\ vrows' = {n \in Nodes : status[n] = "active" /\ stake[n] = "active"}
  /\ vpc' = "next"
  /\ UNCHANGED <<nodesT, stakesT, open, slashT, handler, vcur, vfound, slasher, opened, history, metric>>

\* The SELECT joins nodes with node_stakes: no stake row, no check.
SelectActive ==
  /\ vpc = "idle"
  /\ \E n \in Nodes : status[n] = "active" /\ stake[n] # "none"
  /\ vrows' = {n \in Nodes : status[n] = "active" /\ stake[n] # "none"}
  /\ vpc' = "next"
  /\ UNCHANGED <<nodesT, stakesT, open, slashT, handler, vcur, vfound, slasher, opened, history, metric>>

EndRow(left) == vcur' = NoNode /\ vfound' = 0 /\ vpc' = IF left = {} THEN "idle" ELSE "next"

\* Mutant: a channel whose balance is too low passes the re-verification.
ReverifyAnyChannel(n) ==
  /\ vpc = "next" /\ n \in vrows
  /\ vrows' = vrows \ {n}
  /\ vcur' = n /\ vfound' = opened[n]
  /\ vpc' = IF open[n] # "none" THEN "persist" ELSE "degrade"
  /\ UNCHANGED <<nodesT, stakesT, open, slashT, handler, slasher, opened, history, metric>>

\* VerifyStake for one row; an error of Scan or of the LN node skips the row,
\* and one of the cursor ends the round.
Reverify(n) ==
  /\ vpc = "next" /\ n \in vrows
  /\ \/ /\ vrows' = vrows \ {n}
        /\ vcur' = n /\ vfound' = Qualifying(n)
        /\ vpc' = IF Qualifying(n) # 0 THEN "persist" ELSE "degrade"
     \/ /\ {"db", "lightning"} \cap Faults # {}
        /\ vrows' = vrows \ {n} /\ EndRow(vrows \ {n})
     \/ "db" \in Faults /\ vrows' = {} /\ EndRow({})
  /\ UNCHANGED <<nodesT, stakesT, open, slashT, handler, slasher, opened, history, metric>>

PersistRow ==
  /\ vpc = "persist"
  /\ PersistStake(vcur, vfound) \/ PersistFails(vcur, vfound)
  /\ EndRow(vrows)
  /\ UNCHANGED <<nodesT, open, slashT, handler, vrows, slasher, opened, history, metric>>

\* markDegraded, first the node, if it is active; an error ends it, applied or not ...
Degrade ==
  /\ vpc = "degrade"
  /\ \/ status[vcur] = "active" /\ DriftTo(vcur, "degraded")
     \/ (status[vcur] # "active" \/ "db" \in Faults) /\ UNCHANGED <<status, metric>>
  /\ \/ status'[vcur] # "active" /\ vpc' = "degradeStake" /\ UNCHANGED <<vcur, vfound>>
     \/ "db" \in Faults /\ EndRow(vrows)
  /\ UNCHANGED <<stakesT, open, slashT, handler, vrows, slasher, opened, history>>

\* ... then its stake, unless degraded_since is set.
DegradeStake ==
  /\ vpc = "degradeStake"
  /\ \/ IF vcur \in since THEN UNCHANGED stakesT
        ELSE /\ stake' = [stake EXCEPT ![vcur] = "degraded"]
             /\ since' = since \cup {vcur}
             /\ UNCHANGED chanId
     \/ "db" \in Faults /\ UNCHANGED stakesT
  /\ EndRow(vrows)
  /\ UNCHANGED <<nodesT, open, slashT, handler, vrows, slasher, opened, history, metric>>

-----------------------------------------------------------------------------
(* Slashing                                                                *)

\* A caller enters Slash, goes on to step s, or returns.
Call(c, n) == spc' = [spc EXCEPT ![c] = "fetch"] /\ scur' = [scur EXCEPT ![c] = n] /\ UNCHANGED schan
Goto(c, s) == spc' = [spc EXCEPT ![c] = s] /\ UNCHANGED <<scur, schan>>
Return(c) ==
  /\ spc' = [spc EXCEPT ![c] = "idle"]
  /\ scur' = [scur EXCEPT ![c] = NoNode]
  /\ schan' = [schan EXCEPT ![c] = 0]

\* Mutant: a signal slashes a t1 node whatever the count.
RecordSignalEager(c, n) ==
  /\ spc[c] = "idle" /\ status[n] # "absent" /\ total[n] < MaxSignals
  /\ unlinked' = [unlinked EXCEPT ![n] = @ + 1]
  /\ total' = [total EXCEPT ![n] = @ + 1]
  /\ IF n \in T1
     THEN Call(c, n)
     ELSE UNCHANGED slasher
  /\ UNCHANGED <<nodesT, stakesT, open, events, handler, ticker, opened, forced, overtaken, metric>>

\* RecordMisbehaviorSignal: the count in the RETURNING clause is taken on the
\* snapshot of the statement, which does not hold the row being inserted.
RecordSignal(c, n) ==
  /\ spc[c] = "idle" /\ status[n] # "absent" /\ total[n] < MaxSignals
  /\ unlinked' = [unlinked EXCEPT ![n] = @ + 1]
  /\ total' = [total EXCEPT ![n] = @ + 1]
  /\ IF n \in T1 /\ unlinked[n] >= SlashThreshold
     THEN Call(c, n)
     ELSE UNCHANGED slasher
  /\ UNCHANGED <<nodesT, stakesT, open, events, handler, ticker, opened, forced, overtaken, metric>>

\* For t2 and t3 Slash is called once maintainers have acknowledged.
SlashAcknowledged(c, n) ==
  /\ spc[c] = "idle" /\ n \notin T1 /\ unlinked[n] > 0
  /\ Call(c, n)
  /\ UNCHANGED <<nodesT, stakesT, open, slashT, handler, ticker, opened, history, metric>>

\* The channel id of the stake row; without a row Slash returns an error.
SlashFetch(c) ==
  /\ spc[c] = "fetch"
  /\ \/ /\ stake[scur[c]] # "none"
        /\ spc' = [spc EXCEPT ![c] = "close"]
        /\ schan' = [schan EXCEPT ![c] = chanId[scur[c]]]
        /\ UNCHANGED scur
     \/ (stake[scur[c]] = "none" \/ "db" \in Faults) /\ Return(c)
  /\ UNCHANGED <<nodesT, stakesT, open, slashT, handler, ticker, opened, history, metric>>

\* Mutant: an error of ForceCloseChan is logged, and Slash goes on.
SlashCloseIgnored(c) ==
  /\ spc[c] = "close"
  /\ \/ /\ schan[c] # 0 /\ schan[c] = opened[scur[c]] /\ open[scur[c]] # "none"
        /\ open' = [open EXCEPT ![scur[c]] = "none"]
        /\ forced' = [forced EXCEPT ![scur[c]] = @ \cup {schan[c]}]
     \/ UNCHANGED <<open, forced>>
  /\ Goto(c, "event")
  /\ UNCHANGED <<nodesT, stakesT, slashT, handler, ticker, opened, overtaken, total, metric>>

\* ForceCloseChan, before anything is written. It fails for an empty id, for a
\* channel that is gone and when the LN node refuses; an error may also come
\* after the close has begun.
SlashClose(c) ==
  /\ spc[c] = "close"
  /\ LET n == scur[c]
         closable == schan[c] # 0 /\ schan[c] = opened[n] /\ open[n] # "none"
     IN \/ /\ closable
           /\ open' = [open EXCEPT ![n] = "none"]
           /\ forced' = [forced EXCEPT ![n] = @ \cup {schan[c]}]
           /\ Goto(c, "event") \/ ("lightning" \in Faults /\ Return(c))
        \/ /\ ~closable \/ "lightning" \in Faults
           /\ Return(c)
           /\ UNCHANGED <<open, forced>>
  /\ UNCHANGED <<nodesT, stakesT, slashT, handler, ticker, opened, overtaken, total, metric>>

\* A database error after the force-close ends Slash where it stands. It may
\* come after the statement has been applied: see Advance.
SlashFails(c) ==
  /\ "db" \in Faults
  /\ spc[c] \in {"event", "suspend", "mark", "link"}
  /\ Return(c)
  /\ UNCHANGED <<nodesT, stakesT, open, slashT, handler, ticker, opened, history, metric>>

Advance(c, s) == Goto(c, s) \/ ("db" \in Faults /\ Return(c))

SlashEvent(c) ==
  /\ spc[c] = "event"
  /\ events' = [events EXCEPT ![scur[c]] = @ \cup {schan[c]}]
  /\ Advance(c, "suspend")
  /\ UNCHANGED <<nodesT, stakesT, open, unlinked, handler, ticker, opened, history, metric>>

\* Mutant: the node is suspended without waiting for the slashing event.
SlashSuspendFirst(c) ==
  /\ spc[c] \in {"event", "suspend"}
  /\ DriftTo(scur[c], "suspended")
  /\ Goto(c, "mark")
  /\ UNCHANGED <<stakesT, open, slashT, handler, ticker, opened, history>>

SlashSuspend(c) ==
  /\ spc[c] = "suspend"
  /\ DriftTo(scur[c], "suspended")
  /\ Advance(c, "mark")
  /\ UNCHANGED <<stakesT, open, slashT, handler, ticker, opened, history>>

\* The UPDATE marks the row of the node, whatever channel it names by now.
SlashMark(c) ==
  /\ spc[c] = "mark"
  /\ stake' = [stake EXCEPT ![scur[c]] = "force_closed"]
  /\ overtaken' = IF chanId[scur[c]] = schan[c] THEN overtaken \ {scur[c]} ELSE overtaken \cup {scur[c]}
  /\ Advance(c, "link")
  /\ UNCHANGED <<nodesT, chanId, since, open, slashT, handler, ticker, opened, forced, total, metric>>

SlashLink(c) ==
  /\ spc[c] = "link"
  /\ unlinked' = [unlinked EXCEPT ![scur[c]] = 0]
  /\ Return(c)
  /\ UNCHANGED <<nodesT, stakesT, open, events, handler, ticker, opened, history, metric>>

-----------------------------------------------------------------------------
RequestStep(q) ==
  \/ Upsert(q) \/ VerifyRegistration(q) \/ PersistRegistration(q) \/ Activate(q)
  \/ UpdateStatus(q)

VerifyStep == (\E n \in Nodes : Reverify(n)) \/ PersistRow \/ Degrade \/ DegradeStake

SlashStep(c) ==
  \/ SlashFetch(c) \/ SlashClose(c) \/ SlashFails(c)
  \/ SlashEvent(c) \/ SlashSuspend(c) \/ SlashMark(c) \/ SlashLink(c)

Next ==
  \/ \E n \in Nodes : OpenChannel(n) \/ LoseChannel(n)
  \/ \E q \in Requests, n \in Nodes : Register(q, n) \/ Deregister(q, n)
  \/ \E q \in Requests : RequestStep(q)
  \/ SelectActive \/ VerifyStep
  \/ \E c \in Callers, n \in Nodes : RecordSignal(c, n) \/ SlashAcknowledged(c, n)
  \/ \E c \in Callers : SlashStep(c)

Spec == Init /\ [][Next]_vars

(***************************************************************************)
(* Fairness: the ticker fires and its goroutine runs, and a handler that   *)
(* has started finishes. Nothing is asked of nodes, signals or channels.   *)
(***************************************************************************)
FairSpec ==
  /\ Spec
  /\ WF_vars(SelectActive) /\ WF_vars(VerifyStep)
  /\ \A q \in Requests : WF_vars(RequestStep(q))
  /\ \A c \in Callers : WF_vars(SlashStep(c))

-----------------------------------------------------------------------------
(* Properties                                                              *)

\* Whatever fails in the middle of Slash, and whoever slashes at the same time,
\* a stake row says 'force_closed' only if a channel of its node was force-closed
\* and logged, every logged channel was force-closed, and the channel the row
\* names is one of them; but for a row that a registration or the ticker has
\* given another channel between the SELECT of Slash and its UPDATE.
ForceClosedIsLogged ==
  \A n \in Nodes : stake[n] = "force_closed" =>
    /\ events[n] # {} /\ events[n] \subseteq forced[n]
    /\ chanId[n] \in events[n] \/ n \in overtaken

\* A t1 node loses its channel only after more than SlashThreshold signals,
\* however many calls of RecordMisbehaviorSignal run at once.
SlashNeedsSignals ==
  \A n \in Nodes \cap T1 : forced[n] # {} => total[n] > SlashThreshold

\* A suspended node leaves that status only by registering again: neither the
\* re-verification ticker nor an Activate that was under way when the node was
\* suspended brings it back.
SuspendedOnlyReregisters ==
  [][\A n \in Nodes : status[n] = "suspended" => status'[n] \in {"suspended", "pending"}]_status

\* Whatever the gauge says of each status, in sum it counts every registered
\* node once, but for a first registration that reported an error, which is one
\* node too few, and one that overlapped another call of its key and found no
\* prior row on its snapshot, which is one too many. Re-registrations and
\* deregistrations, overlapping or not, keep the sum.
GaugeConserved ==
  gauge["pending"] + gauge["active"] + gauge["degraded"] + gauge["suspended"]
    = Cardinality({n \in Nodes : status[n] # "absent"}) + skew

\* The gauge tells the number of nodes in each status as long as no node was
\* degraded by the ticker or suspended by a slash, no status changed between
\* the two statements of UpdateStatus or between the snapshot of a registration
\* and its write, and no statement reported an error.
GaugeTruthful ==
  drifted \/ \A s \in Statuses : gauge[s] = Cardinality({n \in Nodes : status[n] = s})

\* Whatever RegisterNode, DeregisterNode, the ticker and the slashing calls do
\* between each other's statements, what they do to the standing of the nodes,
\* their stakes and the record of slashing is allowed by StakeLedger.
Standing == INSTANCE StakeLedger WITH signals <- total, Channels <- 1..MaxChannels
ImplementsStanding == Standing!SSpec

\* An active node does not keep a stake row that says 'degraded' or
\* 'force_closed', which a slash or the ticker may have written after the node
\* had registered again: the ticker renews the row or degrades the node.
ActiveRowRenewed ==
  \A n \in Nodes :
    (status[n] = "active" /\ stake[n] \in {"degraded", "force_closed"})
      ~> (status[n] # "active" \/ stake[n] = "active")

\* An active node with a stake row whose channel no longer qualifies does not
\* stay active: the ticker finds it.
UnstakedIsDegraded ==
  \A n \in Nodes :
    (status[n] = "active" /\ stake[n] # "none" /\ open[n] # "full")
      ~> (status[n] # "active" \/ open[n] = "full")

\* docs/architecture.md: "Signal #3, threshold reached (T1 node)".
ThresholdSlashes ==
  [][\A n \in T1 : unlinked[n] + 1 = SlashThreshold /\ unlinked'[n] = SlashThreshold
       => \E c \in Callers : scur'[c] = n]_unlinked

\* SRS-STAKE-02: "re-verify all active node channels every 6 hours".
AllActiveReverified ==
  \A n \in Nodes :
    (status[n] = "active" /\ open[n] # "full") ~> (status[n] # "active" \/ open[n] = "full")
=============================================================================
