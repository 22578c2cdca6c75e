----------------------------- MODULE ExportJobs -----------------------------
(***************************************************************************)
(* The PDF export queue (services/pdf_export_service.py) and its workers   *)
(* (scripts/pdf_worker.py). A worker claims a queued job, or one whose     *)
(* worker missed its lease; renders it page by page with a checkpoint and  *)
(* a heartbeat before each; writes the job's file; and completes or fails  *)
(* the job without asking whose it is by then.                             *)
(***************************************************************************)
EXTENDS Integers, FiniteSets

CONSTANTS
  Jobs, Workers,
  Pages,        \* of each report
  MaxAttempts,  \* PDF_JOB_MAX_ATTEMPTS
  None,
  MaxMishaps    \* bounds lost workers, failed renders and Stops

ASSUME ExportAssumption ==
  /\ Pages \in Nat \ {0} /\ MaxAttempts \in Nat \ {0} /\ MaxMishaps \in Nat
  /\ None \notin Jobs /\ "begun" \notin Workers

VARIABLES
  status,   \* "succeeded" stands for "partial" too: both have a file
  attempts,
  fresh,    \* jobs whose heartbeat is within the lease
  path,     \* jobs with a file_path
  file,     \* whose bytes are on disk; "begun" is a file opened and not finished
  expired,  \* jobs past expires_at
  job,      \* what each worker renders
  at, page,
  seen,     \* the job as the worker's session last loaded it
  batch,    \* expired jobs whose files a worker has deleted, not yet their paths
  stopping, \* jobs that a Stop has read as unfinished
  lapsed,   \* history: jobs whose live worker missed its lease
  mishaps

row == <<status, attempts, fresh, path, file, expired>>
vars == <<row, job, at, page, seen, batch, stopping, lapsed, mishaps>>

Unfinished == {"queued", "running"}
Settled == {"succeeded", "failed", "cancelled"}
Working == {"check", "beat", "render", "open", "flush", "complete"}
Unread == [status |-> "queued", attempts |-> 0]

TypeOK ==
  /\ status \in [Jobs -> Unfinished \cup Settled \cup {"none"}]
  /\ attempts \in [Jobs -> 0..MaxAttempts]
  /\ fresh \subseteq Jobs /\ path \subseteq Jobs
  /\ file \in [Jobs -> SUBSET (Workers \cup {"begun"})]
  /\ expired \subseteq Jobs
  /\ job \in [Workers -> Jobs \cup {None}]
  /\ at \in [Workers -> Working \cup {"idle", "clean"}]
  /\ \A w \in Workers : at[w] \in {"idle", "clean"} <=> job[w] = None
  /\ \A w \in Workers : job[w] # None => status[job[w]] # "none"
  /\ page \in [Workers -> 0..Pages]
  /\ \A w \in Workers : at[w] \in {"idle", "clean", "check", "render"} => page[w] < Pages
  /\ seen \in [Workers -> [status : Unfinished \cup Settled, attempts : 0..MaxAttempts]]
  /\ batch \in [Workers -> SUBSET Jobs]
  /\ stopping \subseteq Jobs /\ lapsed \subseteq Jobs
  /\ mishaps \in 0..MaxMishaps

Init ==
  /\ status = [j \in Jobs |-> "none"] /\ attempts = [j \in Jobs |-> 0]
  /\ fresh = {} /\ path = {} /\ file = [j \in Jobs |-> {}] /\ expired = {}
  /\ job = [w \in Workers |-> None] /\ at = [w \in Workers |-> "idle"]
  /\ page = [w \in Workers |-> 0]
  /\ seen = [w \in Workers |-> Unread] /\ batch = [w \in Workers |-> {}]
  /\ stopping = {} /\ lapsed = {} /\ mishaps = 0

Mishap == mishaps < MaxMishaps /\ mishaps' = mishaps + 1
Go(w, where) == at' = [at EXCEPT ![w] = where]
Renderers(j) == {w \in Workers : job[w] = j}
-----------------------------------------------------------------------------
(* The API. A request that the quota refuses makes no job.                 *)

Create(j) ==
  /\ status[j] = "none" /\ status' = [status EXCEPT ![j] = "queued"]
  /\ UNCHANGED <<attempts, fresh, path, file, expired, job, at, page, seen, batch, stopping, lapsed, mishaps>>

\* Stop loads the job, and cancels it if it was unfinished then.
StopRead(j) ==
  /\ status[j] \in Unfinished /\ j \notin stopping /\ Mishap
  /\ stopping' = stopping \cup {j}
  /\ UNCHANGED <<row, job, at, page, seen, batch, lapsed>>

StopWrite(j) ==
  /\ j \in stopping /\ stopping' = stopping \ {j}
  /\ status' = [status EXCEPT ![j] = "cancelled"]
  /\ UNCHANGED <<attempts, fresh, path, file, expired, job, at, page, seen, batch, lapsed, mishaps>>

Whole(j) == \E w \in Workers : file[j] = {w}

\* download_ready
Ready(j) == status[j] = "succeeded" /\ j \in path /\ file[j] # {} /\ j \notin expired
-----------------------------------------------------------------------------
(* A worker                                                                *)

\* Slip: only queued jobs are claimed, never those of a lost worker.
QueuedOnly(j) == status[j] = "queued" /\ attempts[j] < MaxAttempts

\* Slip: a running job is claimed whatever its heartbeat.
AnyRunning(j) == status[j] \in Unfinished /\ attempts[j] < MaxAttempts

Claimable(j) ==
  /\ \/ status[j] = "queued"
     \/ status[j] = "running" /\ j \notin fresh
  /\ attempts[j] < MaxAttempts

\* FOR UPDATE SKIP LOCKED: one statement, one worker per row. The oldest job
\* comes first; any order of creation is a behaviour.
Claim(w, j) ==
  /\ at[w] = "idle" /\ Claimable(j)
  /\ job' = [job EXCEPT ![w] = j] /\ Go(w, "check")
  /\ status' = [status EXCEPT ![j] = "running"]
  /\ attempts' = [attempts EXCEPT ![j] = @ + 1]
  /\ fresh' = fresh \cup {j}
  /\ seen' = [seen EXCEPT ![w] = [status |-> "running", attempts |-> attempts[j] + 1]]
  /\ UNCHANGED <<path, file, expired, page, batch, stopping, lapsed, mishaps>>

\* The session is closed with all that it loaded.
Rest(w) ==
  /\ job' = [job EXCEPT ![w] = None] /\ Go(w, "idle")
  /\ page' = [page EXCEPT ![w] = 0] /\ seen' = [seen EXCEPT ![w] = Unread]
  /\ batch' = [batch EXCEPT ![w] = {}]

\* is_cancelled, before each page
Check(w) ==
  /\ at[w] = "check"
  /\ IF status[job[w]] = "cancelled"
     THEN Rest(w)
     ELSE Go(w, "beat") /\ UNCHANGED <<job, page, seen, batch>>
  /\ UNCHANGED <<row, stopping, lapsed, mishaps>>

\* The heartbeat commits, so the next use of the job loads it again. It comes
\* before each page and before the pages are merged.
Beat(w) ==
  /\ at[w] = "beat"
  /\ fresh' = fresh \cup {job[w]}
  /\ seen' = [seen EXCEPT ![w] = [status |-> status[job[w]], attempts |-> attempts[job[w]]]]
  /\ Go(w, IF page[w] < Pages THEN "render" ELSE "open")
  /\ UNCHANGED <<status, attempts, path, file, expired, job, page, batch, stopping, lapsed, mishaps>>

Render(w) ==
  /\ at[w] = "render" /\ page' = [page EXCEPT ![w] = @ + 1]
  /\ Go(w, IF page'[w] < Pages THEN "check" ELSE "beat")
  /\ UNCHANGED <<row, job, seen, batch, stopping, lapsed, mishaps>>

\* All workers write the same {job.id}.pdf. Opening it truncates it.
Open(w) ==
  /\ at[w] = "open" /\ Go(w, "flush")
  /\ file' = [file EXCEPT ![job[w]] = {"begun"}]
  /\ UNCHANGED <<status, attempts, fresh, path, expired, job, page, seen, batch, stopping, lapsed, mishaps>>

Flush(w) ==
  /\ at[w] = "flush" /\ Go(w, "complete")
  /\ file' = [file EXCEPT ![job[w]] = (@ \ {"begun"}) \cup {w}]
  /\ UNCHANGED <<status, attempts, fresh, path, expired, job, page, seen, batch, stopping, lapsed, mishaps>>

\* Slip: the job is completed before its file is written.
BeforeFile == "open"

FileWritten == "complete"

\* complete_job: whatever the job's status, and whoever renders it by now.
Complete(w) ==
  /\ at[w] = FileWritten /\ Rest(w)
  /\ status' = [status EXCEPT ![job[w]] = "succeeded"]
  /\ path' = path \cup {job[w]} /\ fresh' = fresh \cup {job[w]}
  /\ expired' = expired \ {job[w]}
  /\ UNCHANGED <<attempts, file, stopping, lapsed, mishaps>>

\* The ORM writes a column only if it differs from what the session loaded.
Written(w, new) == IF seen[w].status = new THEN status[job[w]] ELSE new

AttemptsLeft(w) == seen[w].attempts < MaxAttempts

\* fail_job: the session's own picture of the job decides, and nothing asks
\* whether the job was cancelled or is another worker's by now.
Fail(w) ==
  /\ at[w] \in {"check", "render", "open", "flush"} /\ Mishap /\ Rest(w)
  /\ IF AttemptsLeft(w)
     THEN /\ status' = [status EXCEPT ![job[w]] = Written(w, "queued")]
          /\ fresh' = fresh \ {job[w]}
     ELSE /\ status' = [status EXCEPT ![job[w]] = Written(w, "failed")]
          /\ UNCHANGED fresh
  /\ UNCHANGED <<attempts, path, file, expired, stopping, lapsed>>

\* The worker's process dies and its container starts another, or its database
\* session breaks: the job stays as it is.
Lose(w) ==
  /\ at[w] # "idle" /\ Mishap /\ Rest(w)
  /\ UNCHANGED <<row, stopping, lapsed>>
-----------------------------------------------------------------------------
(* Time                                                                    *)

\* 180 seconds without a heartbeat. A page may take longer.
Lapse(j) ==
  /\ j \in fresh /\ status[j] = "running" /\ fresh' = fresh \ {j}
  /\ lapsed' = IF Renderers(j) = {} THEN lapsed ELSE lapsed \cup {j}
  /\ UNCHANGED <<status, attempts, path, file, expired, job, at, page, seen, batch, stopping, mishaps>>

\* Nobody renders one job for the two days of its file's life.
Expire(j) ==
  /\ j \in path \ expired /\ Renderers(j) = {} /\ expired' = expired \cup {j}
  /\ UNCHANGED <<status, attempts, fresh, path, file, job, at, page, seen, batch, stopping, lapsed, mishaps>>

\* cleanup_expired, by a worker between two jobs: the files of a batch ...
CleanupFiles(w) ==
  /\ at[w] = "idle" /\ Go(w, "clean")
  /\ \E some \in SUBSET (path \cap expired) \ {{}} :
       /\ batch' = [batch EXCEPT ![w] = some]
       /\ file' = [j \in Jobs |-> IF j \in some THEN {} ELSE file[j]]
  /\ UNCHANGED <<status, attempts, fresh, path, expired, job, page, seen, stopping, lapsed, mishaps>>

\* ... and then, in one commit, their paths
CleanupRows(w) ==
  /\ at[w] = "clean" /\ Rest(w)
  /\ path' = path \ batch[w]
  /\ UNCHANGED <<status, attempts, fresh, file, expired, stopping, lapsed, mishaps>>
-----------------------------------------------------------------------------
Work(w) ==
  \/ Check(w) \/ Beat(w) \/ Render(w) \/ Open(w) \/ Flush(w) \/ Complete(w)
  \/ CleanupRows(w)

Take(w) == \E j \in Jobs : Claim(w, j)

Next ==
  \/ \E j \in Jobs : Create(j) \/ StopRead(j) \/ StopWrite(j) \/ Lapse(j) \/ Expire(j)
  \/ \E w \in Workers :
       Work(w) \/ Take(w) \/ Fail(w) \/ Lose(w) \/ CleanupFiles(w)

\* A worker polls every two seconds, takes what it finds and works on; time
\* passes. Nobody need ask for, stop, fail or clean anything.
Fairness ==
  /\ \A w \in Workers : WF_vars(Work(w)) /\ WF_vars(Take(w))
  /\ \A j \in Jobs : WF_vars(Lapse(j)) /\ WF_vars(StopWrite(j))

Spec == Init /\ [][Next]_vars /\ Fairness
-----------------------------------------------------------------------------
(* Properties *)

\* The FOR UPDATE SKIP LOCKED claim and the lease give each job to one worker
\* at a time, through retries, Stops and lost workers, as long as no live
\* worker of it misses its lease; after that, nothing is promised.
OneRenderer == \A v, w \in Workers :
  v # w /\ job[v] # None /\ job[v] = job[w] => job[v] \in lapsed

\* A file that is offered for download is the complete file of one worker,
\* although every attempt opens, truncates and may leave the same path.
ServedWhole == \A j \in Jobs : Ready(j) => Whole(j) \/ j \in lapsed

\* The claim of a lost job and the retries of a failed one leave no export
\* waiting for ever, unless the last attempt's worker was lost or a live worker
\* missed its lease.
Abandoned(j) == status[j] = "running" /\ attempts[j] = MaxAttempts /\ Renderers(j) = {}

JobsEnd == \A j \in Jobs :
  status[j] = "queued" ~> status[j] \in Settled \/ Abandoned(j) \/ j \in lapsed

\* "A running row whose heartbeat went stale is requeued, so a killed container
\* never strands a viewer on a spinner" (pdf_export_service.py).  The code does
\* not keep this for the last attempt (see README).
NeverStranded == \A j \in Jobs : status[j] = "running" ~> status[j] # "running"
=============================================================================
