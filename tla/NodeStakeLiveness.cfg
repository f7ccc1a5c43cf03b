CONSTANTS
  n1 = n1  n2 = n2  c1 = c1  c2 = c2  q1 = q1  q2 = q2
  NoNode = NoNode
  Nodes = {n1}
  T1 = {}
  Callers = {c1}
  Requests <- MCRequests
  SlashThreshold = 1
  Faults = {"spend"}
  MaxCalls = 2
  MaxSignals = 1
  MaxChannels = 2
SPECIFICATION FairSpec
CHECK_DEADLOCK FALSE
PROPERTIES UnstakedIsDegraded ActiveRowRenewed
