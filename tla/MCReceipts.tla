----------------------------- MODULE MCReceipts -----------------------------
(* The instance of PaymentReceipts for TLC: one task, two workers and two  *)
(* handlers, so that a result can be submitted and paid twice at once.     *)
EXTENDS PaymentReceipts

CONSTANTS t1, w1, w2, h1, h2

MCWorkers == {w1, w2}
MCHandlers == {h1, h2}
AllFaults == {"unknown", "db", "crash", "stop"}
=============================================================================
