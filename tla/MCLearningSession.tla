------------------------- MODULE MCLearningSession -------------------------
(* LearningSession on small instances: the bounds are in the .cfg files. *)
EXTENDS LearningSession, TLC

CallSymmetry == Permutations(Calls)
=============================================================================
