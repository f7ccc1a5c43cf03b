---------------------------- MODULE MCNodeStake ----------------------------
(* Instances of NodeStake for TLC.                                         *)
EXTENDS NodeStake, TLC

CONSTANTS n1, n2, c1, c2, q1, q2

MCCallers == {c1, c2}
MCRequests == {q1, q2}
CallSymmetry == Permutations(MCCallers) \cup Permutations(MCRequests)
=============================================================================
