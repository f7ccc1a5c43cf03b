CONSTANTS
  n1 = n1  n2 = n2  c1 = c1  c2 = c2  q1 = q1  q2 = q2
  NoNode = NoNode
  Nodes = {n1}
  T1 = {n1}
  Callers <- MCCallers
  Requests <- MCRequests
  SlashThreshold = 1
  Faults = {"db", "lightning"}
  MaxCalls = 2
  MaxSignals = 3
  MaxChannels = 2
SPECIFICATION Spec
SYMMETRY CallSymmetry
CHECK_DEADLOCK FALSE
INVARIANTS TypeOK ForceClosedIsLogged SlashNeedsSignals GaugeConserved GaugeTruthful
PROPERTIES SuspendedOnlyReregisters ImplementsStanding
