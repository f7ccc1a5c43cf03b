CONSTANTS
  t1 = t1  t2 = t2  w1 = w1  w2 = w2  h1 = h1  h2 = h2
  NoTask = NoTask
  Tasks <- MCTasks
  Workers <- MCWorkers
  Handlers = {h1}
  QueueSize = 1
  MaxAttempts = 2
  TorEnabled = TRUE
  Faults <- AllFaults
  MaxResults = 1
  MaxRestarts = 2
SPECIFICATION Spec
SYMMETRY MCSymmetry
CHECK_DEADLOCK FALSE
INVARIANTS TypeOK AtMostOnce RowTellsTruth IndInv
