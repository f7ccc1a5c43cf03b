CONSTANTS
  r1 = r1  r2 = r2  n1 = n1  n2 = n2  n3 = n3  i1 = i1  i2 = i2
  NoRound = NoRound
  Rounds = {r1, r2}
  Nodes = {n1}
  Instances = {i1}
  MinParticipants = 1
  HasStorage = TRUE
  Faults = {"storage", "crash"}
  MaxUploads = 1
  MaxCrashes = 1
SPECIFICATION FairSpec
CHECK_DEADLOCK FALSE
PROPERTIES TerminalIsFinal ExpiredIsClosed
