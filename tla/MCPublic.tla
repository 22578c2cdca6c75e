------------------------------ MODULE MCPublic -------------------------------
(* A viewer's question and its retry, the viewer's next question, and      *)
(* another viewer's question with a key of the first.                      *)
EXTENDS PublicTurns

CONSTANTS report, ann, ben, k1, k2

MCLinkOf == [s \in Submits |-> report]
MCViewerOf == [s \in Submits |-> IF s = 4 THEN ben ELSE ann]
MCKeyOf == [s \in Submits |-> IF s \in {1, 2} THEN k1 ELSE k2]
=============================================================================
