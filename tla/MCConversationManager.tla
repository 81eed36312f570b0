----------------------- MODULE MCConversationManager -----------------------
(* ConversationManager with reviews of one session, and r3 of another. *)
EXTENDS ConversationManager, TLC

CONSTANTS s1, s2, r3
CallsOfTwoSessions == [r \in Reviews |-> IF r = r3 THEN s2 ELSE s1]
=============================================================================
