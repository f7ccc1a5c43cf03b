CONSTANTS
  t1 = t1  w1 = w1  w2 = w2  h1 = h1  h2 = h2
  NoTask = NoTask
  Tasks = {t1}
  Workers <- MCWorkers
  Handlers <- MCHandlers
  QueueSize = 1
  MaxAttempts = 2
  TorEnabled = TRUE
  ObserverEnabled = TRUE
  Faults <- AllFaults
  MaxResults = 2
  MaxRestarts = 2
SPECIFICATION RFairSpec
CHECK_DEADLOCK FALSE
INVARIANTS NoJobVanishes ReceiptsArePaid NoReceiptVanishes
PROPERTIES ImplementsLedger PaymentResolved ReceiptStays
