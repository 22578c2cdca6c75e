----------------------------- MODULE MCDocIndex ------------------------------
(* Instances of DocIndexQueue: two documents and two worker processes.     *)
EXTENDS DocIndexQueue
CONSTANTS a, b, w1, w2

MCDocs == {a, b}
MCWorkers == {w1, w2}
MCBad == {b}
MCPictured == {a}
\* The document that never embeds comes first in every repair.
MCIds == [d \in MCDocs |-> IF d = b THEN 1 ELSE 2]
\* The document that never embeds need not change twice.
MCVersions == [d \in MCDocs |-> IF d = b THEN 1 ELSE 2]

=============================================================================
