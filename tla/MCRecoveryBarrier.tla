------------------------- MODULE MCRecoveryBarrier -------------------------
(* RecoveryBarrier on small instances: the bounds are in the .cfg files. *)
EXTENDS RecoveryBarrier

CONSTANTS w1, w2, w3, b1, r1
=============================================================================
