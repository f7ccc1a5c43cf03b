CONSTANTS
  r1 = r1  r2 = r2  n1 = n1  n2 = n2  n3 = n3  i1 = i1  i2 = i2
  NoRound = NoRound
  Rounds = {r1}
  Nodes = {n1, n2}
  Instances <- MCInstances
  MinParticipants = 2
  HasStorage = TRUE
  Faults = {}
  MaxUploads = 1
  MaxCrashes = 0
SPECIFICATION Spec
CHECK_DEADLOCK FALSE
PROPERTY CompleteIsFinal
