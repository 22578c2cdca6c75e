------------------------------ MODULE MCLedger -------------------------------
(* An instance of GovernedLedger in which every budget is scarce: the three *)
(* queries of one user and one run are one too many for the run and for the *)
(* day, q1 and q2 for the bytes, q1 and q3 for their source.  q1 and q2 may *)
(* use the same consent; the two workers are two processes.                 *)
EXTENDS GovernedLedger
CONSTANTS q1, q2, q3, ann, d1, d2, r1, c1, w1, w2

MCQueries == {q1, q2, q3}
MCUsers == {ann}
MCSources == {d1, d2}
MCRuns == {r1}
MCConsents == {c1}
MCWorkers == {w1, w2}
MCUserOf == [q \in MCQueries |-> ann]
MCSourceOf == [q \in MCQueries |-> IF q = q2 THEN d2 ELSE d1]
MCRunOf == [q \in MCQueries |-> r1]
MCConsentsOf == [q \in MCQueries |-> CASE q = q1 -> {c1} [] q = q2 -> {c1, None}
                                      [] q = q3 -> {None}]
MCWorkerOf == [q \in MCQueries |-> IF q = q1 THEN w1 ELSE w2]
MCReserve == [q \in MCQueries |-> IF q = q3 THEN 0 ELSE 1]
MCRank == [k \in MCUsers \cup MCSources \cup MCRuns |->
             CASE k = d1 -> 1 [] k = ann -> 2 [] k = d2 -> 3 [] k = r1 -> 4]
=============================================================================
