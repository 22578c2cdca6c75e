------------------------------- MODULE MCChat --------------------------------
(* One person's question, its retry (2), and the next question of the same *)
(* conversation (3).                                                       *)
EXTENDS ChatTurns

CONSTANTS a, shared, k1, k2

MCUserOf == [s \in Submits |-> a]
MCConversationOf == [s \in Submits |-> shared]
MCKeyOf == [s \in Submits |-> IF s = 3 THEN k2 ELSE k1]
=============================================================================
