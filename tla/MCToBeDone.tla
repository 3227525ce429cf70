----------------------------- MODULE MCToBeDone -----------------------------
(* Values of ToBeDone's constants for TLC.                                 *)
EXTENDS ToBeDone, TLC

CONSTANTS u1, u2, c1, c2, i1, i2

\* No two uids are equal up to case.
DistinctFolds == {<<u, u>> : u \in Users}

StoreSymmetry == Permutations(Cats) \cup Permutations(Items)
=============================================================================
