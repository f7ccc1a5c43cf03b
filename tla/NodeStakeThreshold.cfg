CONSTANTS
  n1 = n1  n2 = n2  c1 = c1  c2 = c2  q1 = q1  q2 = q2
  NoNode = NoNode
  Nodes = {n1}
  T1 = {n1}
  Callers = {c1}
  Requests = {q1}
  SlashThreshold = 3
  Faults = {}
  MaxCalls = 1
  MaxSignals = 4
  MaxChannels = 1
SPECIFICATION Spec
CHECK_DEADLOCK FALSE
PROPERTY ThresholdSlashes
