----------------------------- MODULE MCFLRounds -----------------------------
(* Instances of FLRounds for TLC.                                          *)
EXTENDS FLRounds, TLC

CONSTANTS r1, r2, n1, n2, n3, i1, i2

MCNodes == {n1, n2, n3}
MCInstances == {i1, i2}
NodeSymmetry == Permutations(MCNodes) \cup Permutations(MCInstances)
=============================================================================
