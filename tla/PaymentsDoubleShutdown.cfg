CONSTANTS
  t1 = t1  t2 = t2  w1 = w1  w2 = w2  h1 = h1  h2 = h2
  NoTask = NoTask
  Tasks = {t1}
  Workers = {w1}
  Handlers = {h1}
  QueueSize = 2
  MaxAttempts = 2
  TorEnabled = FALSE
  Faults = {"stop"}
  MaxResults = 1
  MaxRestarts = 1
SPECIFICATION Spec
CHECK_DEADLOCK FALSE
INVARIANT NoDoublePayment
