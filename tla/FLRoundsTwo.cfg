CONSTANTS
  r1 = r1  r2 = r2  n1 = n1  n2 = n2  n3 = n3  i1 = i1  i2 = i2
  NoRound = NoRound
  Rounds = {r1}
  Nodes <- MCNodes
  Instances <- MCInstances
  MinParticipants = 2
  HasStorage = TRUE
  Faults = {"db", "ack", "storage", "crash"}
  MaxUploads = 1
  MaxCrashes = 1
SPECIFICATION Spec
SYMMETRY NodeSymmetry
CHECK_DEADLOCK FALSE
INVARIANTS TypeOK OneAggregator CompleteIsSound
PROPERTIES CheckpointIsFinal ImplementsElection
