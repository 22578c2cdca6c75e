------------------------------ MODULE MCLeases ------------------------------
(* Instances of WriterLeases: two workers, three jobs.                     *)
EXTENDS WriterLeases
CONSTANTS j1, j2, j3, w1, w2

MCJobs == {j1, j2, j3}
MCWorkers == {w1, w2}
MCHome == [j \in Jobs |-> IF j = j3 THEN w2 ELSE w1]

\* All but the legacy Refresh; the legacy Refresh and Sync & Publish alone; and
\* for the run with crashes a share for each job, two rebuilds on one worker.
MCKinds == [j \in Jobs |-> AllKinds \ {"manual"}]
MCManualKinds == [j \in Jobs |-> {"publish", "manual"}]
MCSharedKinds ==
  [j \in Jobs |-> IF j = j1 THEN {"publish", "manual", "pollPublish"}
                  ELSE IF j = j2 THEN {"ttl"}
                  ELSE {"publish", "pollPublish"}]

=============================================================================
