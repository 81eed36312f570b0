------------------------- MODULE MCSpeechRequests -------------------------
(* SpeechRequests on small instances: the bounds are in the .cfg files. *)
EXTENDS SpeechRequests, TLC

CONSTANTS r1, r2, o1, k1, k2, v1, v2
Rotations == {[active |-> v1, keys |-> {v1}], [active |-> v2, keys |-> {v1, v2}]}
Symmetry == Permutations({r1, r2}) \cup Permutations({k1, k2})
=============================================================================
