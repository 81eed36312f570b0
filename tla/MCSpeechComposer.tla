-------------------------- MODULE MCSpeechComposer --------------------------
(* SpeechComposer on small instances: the bounds are in the .cfg files. *)
EXTENDS SpeechComposer, TLC

CONSTANTS s1, s2
=============================================================================
