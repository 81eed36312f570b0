------------------------- MODULE MCRequestIdentity -------------------------
(* RequestIdentity on a small instance: the bounds are in requests.cfg. *)
EXTENDS RequestIdentity, TLC

CONSTANTS r1, r2, p1, p2, k1, k2, s1
Symmetry == Permutations({r1, r2}) \cup Permutations({p1, p2}) \cup Permutations({k1, k2})
=============================================================================
