-------------------------- MODULE MCMediaIngestion --------------------------
(* MediaIngestion on small instances: the bounds are in the .cfg files. *)
EXTENDS MediaIngestion, TLC

CONSTANTS u1, u2, u3, k1, k2, k3, s1, s2, b1, b2, i1, i2
TwoSessions == [k \in Keys |-> IF k = k3 THEN s2 ELSE s1]
TwoImages == [b \in Bodies |-> IF b = b2 THEN i2 ELSE i1]
Symmetry == Permutations(Uploads)
=============================================================================
