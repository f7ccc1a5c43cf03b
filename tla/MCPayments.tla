----------------------------- MODULE MCPayments -----------------------------
(* Instances of Payments for TLC.                                          *)
EXTENDS PaymentsInvariant, TLC

CONSTANTS t1, t2, w1, w2, h1, h2

MCTasks == {t1, t2}
MCWorkers == {w1, w2}
MCHandlers == {h1, h2}
MCSymmetry == Permutations(MCTasks) \cup Permutations(MCWorkers) \cup Permutations(MCHandlers)
AllFaults == {"unknown", "db", "crash", "stop"}
=============================================================================
