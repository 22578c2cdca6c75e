---------------------------- MODULE WriterLeases ----------------------------
(***************************************************************************)
(* Who may build the tables of ONE dataset, and when.                      *)
(*                                                                         *)
(* A dataset's snapshots are written by Sync & Publish                     *)
(* (dataset_publish_service.start_sync_and_publish) and, while the dataset *)
(* is outside the publish lifecycle, by background rebuilds and by the     *)
(* legacy "Refresh data" (snapshot_service).  They run in threads ("jobs") *)
(* of several uvicorn workers and exclude each other with two leases kept  *)
(* in the shared store of query_cache: "publish" (datasetpublish::<id>)    *)
(* and "rebuild" (snaprebuild::<id>).  A lease is a row with an expiry and *)
(* no owner: anyone's release deletes it.  Testing a lease is done by      *)
(* taking it for a second and giving it back (is_claimed_global), so a     *)
(* test is two steps here and may itself refuse somebody else.             *)
(***************************************************************************)
EXTENDS Naturals, FiniteSets

CONSTANTS
  Jobs,        \* threads that start, run and finish one piece of work at a time
  Workers,     \* uvicorn processes; each has its own in-process registry
  Home,        \* Home[j]: the worker that runs job j
  Kinds,       \* Kinds[j]: the kinds of work that job j is started for
  LapsableAt,  \* the places at which a LIVE job may still outlive its lease
  MaxCrashes,  \* bound: how many times a worker may die and restart
  NoJob, Dead  \* nobody; a holder whose process is gone

AllKinds == {"publish", "ttl", "source", "manual", "pollPublish", "pollRebuild"}

ASSUME KindsAssumption == Kinds \in [Jobs -> SUBSET AllKinds]
ASSUME HomeAssumption == Home \in [Jobs -> Workers]
ASSUME NobodyAssumption == NoJob \notin Jobs /\ Dead \notin Jobs /\ NoJob # Dead
ASSUME ReadersAssumption == Jobs \cap Workers = {}
ASSUME CrashesAssumption == MaxCrashes \in Nat

VARIABLES
  lease,     \* the two rows of the shared store: which job's claim is stored
  pc,        \* where each job stands
  kind,      \* the work a job is doing
  inflight,  \* _async_refresh_inflight of each worker, for this dataset
  mutex,     \* who holds each worker's _async_refresh_lock
  managed,   \* publish_state is not NULL: the dataset is in the lifecycle
  syncing,   \* publish_state = 'syncing'
  runs,      \* jobs whose refresh-run row is 'running'; Dead: an orphaned row
  progress,  \* sync_progress: each worker's own record of its last run
  mirror,    \* the shared record, read by a worker that has none of its own
  seen,      \* run rows a reader of the history, or a worker's startup, has
             \* loaded; NoJob: one that has ended since
  boot,      \* how far each restarted worker's startup reaper is
  crashes    \* deaths so far, counted only to bound them

vars == <<lease, pc, kind, inflight, mutex, managed, syncing, runs, progress,
          mirror, seen, boot, crashes>>
\* What only the run itself, the reconciler and a restart touch.
runVars == <<syncing, runs, progress, mirror, seen, boot, crashes>>

Keys == {"publish", "rebuild"}
Places == {"idle", "handoff", "probeRebuild", "probingRebuild",
           "withdrawPublish", "starting", "publishing", "concluded", "reported",
           "settled", "reserve", "claimRebuild", "probePublish", "probingPublish",
           "withdrawRebuild", "slotted", "opened", "rebuilding", "rebuilt",
           "closed", "releasing", "history", "probing", "judging", "failing"}
Boots == {"up", "restarted", "reap", "reaped", "load", "sweep", "swept"}

TypeOK ==
  /\ lease \in [Keys -> Jobs \cup {NoJob, Dead}]
  /\ pc \in [Jobs -> Places]
  /\ kind \in [Jobs -> AllKinds]
  /\ inflight \in [Workers -> BOOLEAN]
  /\ mutex \in [Workers -> Jobs \cup {NoJob}]
  /\ managed \in BOOLEAN
  /\ syncing \in BOOLEAN
  /\ runs \subseteq Jobs \cup {Dead}
  /\ progress \in [Workers -> {"none", "live", "done"}]
  /\ mirror \in {"none", "live", "done"}
  /\ seen \in [Jobs \cup Workers -> SUBSET (Jobs \cup {NoJob, Dead})]
  /\ boot \in [Workers -> Boots]
  /\ crashes \in 0..MaxCrashes

Init ==
  /\ lease = [k \in Keys |-> NoJob]
  /\ pc = [j \in Jobs |-> "idle"]
  /\ kind = [j \in Jobs |-> "publish"]
  /\ inflight = [w \in Workers |-> FALSE]
  /\ mutex = [w \in Workers |-> NoJob]
  /\ managed = FALSE
  /\ syncing = FALSE
  /\ runs = {}
  /\ progress = [w \in Workers |-> "none"]
  /\ mirror = "none"
  /\ seen = [x \in Jobs \cup Workers |-> {}]
  /\ boot = [w \in Workers |-> "up"]
  /\ crashes = 0
-----------------------------------------------------------------------------
(* The shared store: live_query_inflight, one row per key.                 *)

Free(k) == lease[k] = NoJob

\* Slip: insert-or-replace instead of insert.
ClaimReplacing(j, k) == lease' = [lease EXCEPT ![k] = j]

\* try_claim_inflight: the primary key makes the insert atomic.
Claim(j, k) == Free(k) /\ lease' = [lease EXCEPT ![k] = j]

\* release_inflight: DELETE by key, whoever stored the row.
Release(k) == lease' = [lease EXCEPT ![k] = NoJob]

Goto(j, place) == pc' = [pc EXCEPT ![j] = place]
At(j, place) == pc[j] = place

\* A worker serves requests once its startup hooks are through.
Ready(j) == At(j, "idle") /\ boot[Home[j]] = "up"

\* sync_progress keeps the record in the process and mirrors it.
Report(w, phase) ==
  /\ progress' = [progress EXCEPT ![w] = phase]
  /\ mirror' = phase

\* What became of the rows a reader of the history holds: those of gone are
\* now as.
SeenNow(gone, as) ==
  [x \in Jobs \cup Workers |-> IF seen[x] \cap gone = {} THEN seen[x]
                              ELSE (seen[x] \ gone) \cup {as}]

\* _refresh_run_finish: the job's row, if it is still 'running', is settled.
FinishRun(j) ==
  /\ runs' = runs \ {j}
  /\ seen' = SeenNow({j}, NoJob)

(* A row whose expiry has passed is deleted by the next claim of its key.  *)
(* A dead holder's row always runs out; a live holder's only where the     *)
(* code does not renew it in time (LapsableAt).                            *)
Lapse(k) ==
  /\ \/ lease[k] = Dead
     \/ lease[k] \in Jobs /\ pc[lease[k]] \in LapsableAt
  /\ Release(k)
  /\ UNCHANGED <<pc, kind, inflight, mutex, managed, runVars>>
-----------------------------------------------------------------------------
(* Sync & Publish: claim, then look at the other side.                     *)

\* The endpoint moves a legacy dataset into the lifecycle, then claims.
StartPublish(j) ==
  /\ "publish" \in Kinds[j] /\ Ready(j)
  /\ kind' = [kind EXCEPT ![j] = "publish"]
  /\ managed' = TRUE
  /\ \/ Claim(j, "publish") /\ Goto(j, "probeRebuild")
     \/ ~Free("publish") /\ runs = {} /\ Goto(j, "handoff") /\ UNCHANGED lease
     \/ ~Free("publish") /\ runs # {} /\ UNCHANGED <<lease, pc>>
  /\ UNCHANGED <<inflight, mutex, runVars>>

\* Slip: after waiting, the claim is assumed rather than taken.
HandOffAssumed(j) ==
  /\ At(j, "handoff")
  /\ Goto(j, "probeRebuild")
  /\ lease' = [lease EXCEPT !["publish"] = j]
  /\ UNCHANGED <<kind, inflight, mutex, managed, runVars>>

\* No run is running, so the holder is finishing: retry for ten seconds.
HandOff(j) ==
  /\ At(j, "handoff")
  /\ \/ Claim(j, "publish") /\ Goto(j, "probeRebuild")
     \/ ~Free("publish") /\ Goto(j, "idle") /\ UNCHANGED lease
  /\ UNCHANGED <<kind, inflight, mutex, managed, runVars>>

ProbeRebuild(j) ==
  /\ At(j, "probeRebuild")
  /\ \/ Claim(j, "rebuild") /\ Goto(j, "probingRebuild")
     \/ ~Free("rebuild") /\ Goto(j, "withdrawPublish") /\ UNCHANGED lease
  /\ UNCHANGED <<kind, inflight, mutex, managed, runVars>>

\* The probe gives the row back and sync_progress.start follows.
ProbedRebuild(j) ==
  /\ At(j, "probingRebuild")
  /\ Release("rebuild") /\ Goto(j, "starting")
  /\ Report(Home[j], "live")
  /\ UNCHANGED <<kind, inflight, mutex, managed, syncing, runs, seen, boot,
                 crashes>>

WithdrawPublish(j) ==
  /\ At(j, "withdrawPublish")
  /\ Release("publish") /\ Goto(j, "idle")
  /\ UNCHANGED <<kind, inflight, mutex, managed, runVars>>

\* The thread opens its run row and builds, under progress it keeps fresh.
BeginPublish(j) ==
  /\ At(j, "starting") /\ Goto(j, "publishing")
  /\ runs' = runs \cup {j}
  /\ syncing' = TRUE
  /\ UNCHANGED <<lease, kind, inflight, mutex, managed, progress, mirror, seen,
                 boot, crashes>>

\* Any ending, published, refused, stopped, or the crash handler of _run,
\* commits the dataset's state,
ConcludePublish(j) ==
  /\ At(j, "publishing") /\ Goto(j, "concluded")
  /\ syncing' = FALSE
  /\ UNCHANGED <<lease, kind, inflight, mutex, managed, runs, progress, mirror,
                 seen, boot, crashes>>

\* Slip: the closing report uses a phase the readers do not know.
ReportPublishOddPhase(j) ==
  /\ At(j, "concluded") /\ Goto(j, "reported")
  /\ Report(Home[j], "finished")
  /\ UNCHANGED <<lease, kind, inflight, mutex, managed, syncing, runs, seen,
                 boot, crashes>>

\* reports its phase
ReportPublish(j) ==
  /\ At(j, "concluded") /\ Goto(j, "reported")
  /\ Report(Home[j], "done")
  /\ UNCHANGED <<lease, kind, inflight, mutex, managed, syncing, runs, seen,
                 boot, crashes>>

\* and settles the run row.
SettlePublish(j) ==
  /\ At(j, "reported") /\ Goto(j, "settled")
  /\ FinishRun(j)
  /\ UNCHANGED <<lease, kind, inflight, mutex, managed, syncing, progress,
                 mirror, boot, crashes>>

\* The finally block releases the lease after the run row was settled.
EndPublish(j) ==
  /\ At(j, "settled")
  /\ Release("publish") /\ Goto(j, "idle")
  /\ UNCHANGED <<kind, inflight, mutex, managed, runVars>>
-----------------------------------------------------------------------------
(* Background rebuilds and the legacy Refresh, under the worker's mutex.   *)

Lock(j) == mutex[Home[j]] = NoJob /\ mutex' = [mutex EXCEPT ![Home[j]] = j]
Unlock(j) == mutex' = [mutex EXCEPT ![Home[j]] = NoJob]

\* Taking the dataset out of the registry needs the mutex for a moment.
FreeSlot(j) ==
  /\ mutex[Home[j]] = NoJob
  /\ inflight' = [inflight EXCEPT ![Home[j]] = FALSE]

\* A change check and the legacy Refresh read publish_state before the slot;
\* a TTL rebuild reads it after.
StartRebuild(j) ==
  /\ Ready(j)
  /\ \E k \in Kinds[j] \cap {"ttl", "source", "manual"} :
       /\ k = "ttl" \/ ~managed
       /\ kind' = [kind EXCEPT ![j] = k]
  /\ Goto(j, "reserve")
  /\ UNCHANGED <<lease, inflight, mutex, managed, runVars>>

\* Slip: the registry is not looked into, the lease is enough.
ReserveUnregistered(j) ==
  /\ At(j, "reserve") /\ Lock(j)
  /\ Goto(j, IF kind[j] = "manual" THEN "probePublish" ELSE "claimRebuild")
  /\ UNCHANGED <<lease, kind, inflight, managed, runVars>>

\* _reserve_rebuild_slot claims first; start_manual_refresh probes first.
Reserve(j) ==
  /\ At(j, "reserve")
  /\ \/ /\ inflight[Home[j]] /\ mutex[Home[j]] = NoJob
        /\ Goto(j, "idle") /\ UNCHANGED mutex
     \/ /\ ~inflight[Home[j]] /\ Lock(j)
        /\ Goto(j, IF kind[j] = "manual" THEN "probePublish" ELSE "claimRebuild")
  /\ UNCHANGED <<lease, kind, inflight, managed, runVars>>

\* Slip: the rebuild never looks whether a Sync & Publish owns the dataset.
ClaimRebuildBlind(j) ==
  /\ At(j, "claimRebuild")
  /\ \/ /\ Claim(j, "rebuild") /\ Goto(j, "slotted") /\ Unlock(j)
        /\ inflight' = [inflight EXCEPT ![Home[j]] = TRUE]
     \/ /\ ~Free("rebuild") /\ Goto(j, "idle") /\ Unlock(j)
        /\ UNCHANGED <<lease, inflight>>
  /\ UNCHANGED <<kind, managed, runVars>>

ClaimRebuild(j) ==
  /\ At(j, "claimRebuild")
  /\ \/ /\ Claim(j, "rebuild")
        /\ IF kind[j] = "manual"
             THEN /\ Goto(j, "slotted") /\ Unlock(j)
                  /\ inflight' = [inflight EXCEPT ![Home[j]] = TRUE]
             ELSE Goto(j, "probePublish") /\ UNCHANGED <<mutex, inflight>>
     \/ /\ ~Free("rebuild") /\ Goto(j, "idle") /\ Unlock(j)
        /\ UNCHANGED <<lease, inflight>>
  /\ UNCHANGED <<kind, managed, runVars>>

ProbePublish(j) ==
  /\ At(j, "probePublish")
  /\ \/ Claim(j, "publish") /\ Goto(j, "probingPublish") /\ UNCHANGED mutex
     \/ /\ ~Free("publish") /\ UNCHANGED lease
        /\ IF kind[j] = "manual"
             THEN Goto(j, "idle") /\ Unlock(j)
             ELSE Goto(j, "withdrawRebuild") /\ UNCHANGED mutex
  /\ UNCHANGED <<kind, inflight, managed, runVars>>

ProbedPublish(j) ==
  /\ At(j, "probingPublish") /\ Release("publish")
  /\ IF kind[j] = "manual"
       THEN Goto(j, "claimRebuild") /\ UNCHANGED <<mutex, inflight>>
       ELSE /\ Goto(j, "slotted") /\ Unlock(j)
            /\ inflight' = [inflight EXCEPT ![Home[j]] = TRUE]
  /\ UNCHANGED <<kind, managed, runVars>>

\* Slip: an early return that skips the unlocking.
WithdrawRebuildLocked(j) ==
  /\ At(j, "withdrawRebuild")
  /\ Release("rebuild") /\ Goto(j, "idle")
  /\ UNCHANGED <<kind, inflight, mutex, managed, runVars>>

WithdrawRebuild(j) ==
  /\ At(j, "withdrawRebuild")
  /\ Release("rebuild") /\ Unlock(j) /\ Goto(j, "idle")
  /\ UNCHANGED <<kind, inflight, managed, runVars>>

\* A TTL rebuild of a dataset that joined the lifecycle is not run.
SkipRebuild(j) ==
  /\ At(j, "slotted") /\ kind[j] = "ttl" /\ managed
  /\ Goto(j, "closed")
  /\ UNCHANGED <<lease, kind, inflight, mutex, managed, runVars>>

\* refresh_with_history opens the run row ...
OpenRebuild(j) ==
  /\ At(j, "slotted") /\ ~(kind[j] = "ttl" /\ managed)
  /\ Goto(j, "opened")
  /\ runs' = runs \cup {j}
  /\ UNCHANGED <<lease, kind, inflight, mutex, managed, syncing, progress,
                 mirror, seen, boot, crashes>>

\* ... and a progress record, and builds;
BeginRebuild(j) ==
  /\ At(j, "opened") /\ Goto(j, "rebuilding")
  /\ Report(Home[j], "live")
  /\ UNCHANGED <<lease, kind, inflight, mutex, managed, syncing, runs, seen,
                 boot, crashes>>

\* it settles the row first
SettleRebuild(j) ==
  /\ At(j, "rebuilding") /\ Goto(j, "rebuilt")
  /\ FinishRun(j)
  /\ UNCHANGED <<lease, kind, inflight, mutex, managed, syncing, progress,
                 mirror, boot, crashes>>

\* and reports then.
ReportRebuild(j) ==
  /\ At(j, "rebuilt") /\ Goto(j, "closed")
  /\ Report(Home[j], "done")
  /\ UNCHANGED <<lease, kind, inflight, mutex, managed, syncing, runs, seen,
                 boot, crashes>>

\* _release_rebuild_slot gives back the slot and then the lease.
GiveSlotBack(j) ==
  /\ At(j, "closed") /\ FreeSlot(j) /\ Goto(j, "releasing")
  /\ UNCHANGED <<lease, kind, mutex, managed, runVars>>

EndRebuild(j) ==
  /\ At(j, "releasing")
  /\ Release("rebuild") /\ Goto(j, "idle")
  /\ UNCHANGED <<kind, inflight, mutex, managed, runVars>>
-----------------------------------------------------------------------------
(* Readers that test a lease, and the self-healing of what a crash left.   *)

Writing(j) == pc[j] \in {"publishing", "rebuilding"}

Progressing ==
  \E j \in Jobs : pc[j] \in {"starting", "publishing", "concluded", "rebuilding",
                            "rebuilt"}

\* Slip: any record counts as life, whatever its phase says.
LooksAliveAnyRecord(w) == progress[w] # "none" \/ mirror # "none"

\* _sync_looks_alive: a worker asks its own record first, if it has one.
LooksAlive(w) ==
  "live" = IF progress[w] = "none" THEN mirror ELSE progress[w]

\* Twenty minutes after the last report of a run that died, its record is
\* stale.  (A live run reports more often than that.)
GoStale ==
  /\ mirror = "live" /\ ~Progressing
  /\ mirror' = "done"
  /\ UNCHANGED <<lease, pc, kind, inflight, mutex, managed, syncing, runs,
                 progress, seen, boot, crashes>>

\* datasets_rebuilding looks into the worker's registry before the lease.
PollRebuild(j) ==
  /\ "pollRebuild" \in Kinds[j] /\ Ready(j)
  /\ ~inflight[Home[j]] /\ mutex[Home[j]] = NoJob
  /\ kind' = [kind EXCEPT ![j] = "pollRebuild"]
  /\ Claim(j, "rebuild") /\ Goto(j, "probing")
  /\ UNCHANGED <<inflight, mutex, managed, runVars>>

PolledRebuild(j) ==
  /\ At(j, "probing") /\ kind[j] = "pollRebuild"
  /\ Release("rebuild") /\ Goto(j, "idle")
  /\ UNCHANGED <<kind, inflight, mutex, managed, runVars>>

\* reconcile_stuck_runs loads the running rows ...
ReadHistory(j) ==
  /\ "pollPublish" \in Kinds[j] /\ Ready(j) /\ runs # {}
  /\ kind' = [kind EXCEPT ![j] = "pollPublish"]
  /\ seen' = [seen EXCEPT ![j] = runs]
  /\ Goto(j, "history")
  /\ UNCHANGED <<lease, inflight, mutex, managed, syncing, runs, progress,
                 mirror, boot, crashes>>

\* Slip: the reconciler goes on although the lease is held.
ProbeHistoryUnheeded(j) ==
  /\ At(j, "history") /\ Goto(j, "probing")
  /\ UNCHANGED <<lease, kind, inflight, mutex, managed, runVars>>

\* ... then tests the lease: whoever holds it is taken to be the run ...
ProbeHistory(j) ==
  /\ At(j, "history")
  /\ \/ Claim(j, "publish") /\ Goto(j, "probing") /\ UNCHANGED seen
     \/ /\ ~Free("publish") /\ UNCHANGED lease
        /\ seen' = [seen EXCEPT ![j] = {}] /\ Goto(j, "idle")
  /\ UNCHANGED <<kind, inflight, mutex, managed, syncing, runs, progress,
                 mirror, boot, crashes>>

\* ... for the test takes it, and gives it back,
ProbedHistory(j) ==
  /\ At(j, "probing") /\ kind[j] = "pollPublish"
  /\ Release("publish") /\ Goto(j, "judging")
  /\ UNCHANGED <<kind, inflight, mutex, managed, runVars>>

\* ... and asks whether the dataset's progress looks alive.
Judge(j) ==
  /\ At(j, "judging")
  /\ IF LooksAlive(Home[j])
       THEN seen' = [seen EXCEPT ![j] = {}] /\ Goto(j, "idle")
       ELSE Goto(j, "failing") /\ UNCHANGED seen
  /\ UNCHANGED <<lease, kind, inflight, mutex, managed, syncing, runs, progress,
                 mirror, boot, crashes>>

\* The rows that x has loaded are failed, whatever has become of them.
FailRows(x) ==
  /\ runs' = runs \ seen[x] /\ syncing' = FALSE
  /\ seen' = [SeenNow(runs \cap seen[x], NoJob) EXCEPT ![x] = {}]

\* If it does not, what was loaded is failed in one commit.
Reconcile(j) ==
  /\ At(j, "failing") /\ Goto(j, "idle")
  /\ FailRows(j)
  /\ UNCHANGED <<lease, kind, inflight, mutex, managed, progress, mirror, boot,
                 crashes>>

\* A worker dies with all its threads; the shared rows stay behind.
Crash(w) ==
  LET dying == {j \in Jobs : Home[j] = w}
  IN /\ crashes < MaxCrashes /\ crashes' = crashes + 1
     /\ boot[w] = "up"
     /\ \E j \in dying : ~At(j, "idle")
     /\ pc' = [j \in Jobs |-> IF j \in dying THEN "idle" ELSE pc[j]]
     /\ lease' = [k \in Keys |-> IF lease[k] \in dying THEN Dead ELSE lease[k]]
     /\ runs' = IF runs \cap dying = {} THEN runs ELSE (runs \ dying) \cup {Dead}
     /\ seen' = [x \in Jobs \cup Workers |-> IF x \in dying THEN {}
                                            ELSE SeenNow(dying, Dead)[x]]
     /\ inflight' = [inflight EXCEPT ![w] = FALSE]
     /\ mutex' = [mutex EXCEPT ![w] = NoJob]
     /\ progress' = [progress EXCEPT ![w] = "none"]
     /\ boot' = [boot EXCEPT ![w] = "restarted"]
     /\ UNCHANGED <<kind, managed, syncing, mirror>>

\* reap_stuck_syncs runs before a restarted worker serves: it reads whether
\* the sync is dead,
ReapRead(w) ==
  /\ boot[w] = "restarted"
  /\ boot' = [boot EXCEPT ![w] =
                IF syncing /\ ~LooksAlive(w) THEN "reap" ELSE "load"]
  /\ UNCHANGED <<lease, pc, kind, inflight, mutex, managed, syncing, runs,
                 progress, mirror, seen, crashes>>

\* frees the lease, whoever holds it by now,
ReapLease(w) ==
  /\ boot[w] = "reap" /\ boot' = [boot EXCEPT ![w] = "reaped"]
  /\ Release("publish")
  /\ UNCHANGED <<pc, kind, inflight, mutex, managed, syncing, runs, progress,
                 mirror, seen, crashes>>

\* and commits the dataset's state,
ReapSync(w) ==
  /\ boot[w] = "reaped" /\ boot' = [boot EXCEPT ![w] = "load"]
  /\ syncing' = FALSE
  /\ UNCHANGED <<lease, pc, kind, inflight, mutex, managed, runs, progress,
                 mirror, seen, crashes>>

\* then reconciles the history by force: it does not ask the lease.
SweepLoad(w) ==
  /\ boot[w] = "load"
  /\ IF runs = {} \/ LooksAlive(w)
       THEN boot' = [boot EXCEPT ![w] = "up"] /\ UNCHANGED seen
       ELSE /\ boot' = [boot EXCEPT ![w] = "sweep"]
            /\ seen' = [seen EXCEPT ![w] = runs]
  /\ UNCHANGED <<lease, pc, kind, inflight, mutex, managed, syncing, runs,
                 progress, mirror, crashes>>

\* It frees the lease again
SweepLease(w) ==
  /\ boot[w] = "sweep" /\ boot' = [boot EXCEPT ![w] = "swept"]
  /\ Release("publish")
  /\ UNCHANGED <<pc, kind, inflight, mutex, managed, syncing, runs, progress,
                 mirror, seen, crashes>>

\* and fails what it loaded.
SweepRuns(w) ==
  /\ boot[w] = "swept" /\ boot' = [boot EXCEPT ![w] = "up"]
  /\ FailRows(w)
  /\ UNCHANGED <<lease, pc, kind, inflight, mutex, managed, progress, mirror,
                 crashes>>
-----------------------------------------------------------------------------
PublishStep(j) ==
  \/ HandOff(j) \/ ProbeRebuild(j) \/ ProbedRebuild(j) \/ WithdrawPublish(j)
  \/ BeginPublish(j) \/ ConcludePublish(j) \/ ReportPublish(j)
  \/ SettlePublish(j) \/ EndPublish(j)

RebuildStep(j) ==
  \/ Reserve(j) \/ ClaimRebuild(j) \/ ProbePublish(j) \/ ProbedPublish(j)
  \/ WithdrawRebuild(j) \/ SkipRebuild(j) \/ OpenRebuild(j) \/ BeginRebuild(j)
  \/ SettleRebuild(j) \/ ReportRebuild(j) \/ GiveSlotBack(j) \/ EndRebuild(j)

PollStep(j) ==
  \/ PolledRebuild(j) \/ ProbeHistory(j) \/ ProbedHistory(j) \/ Judge(j)
  \/ Reconcile(j)

BootStep(w) ==
  \/ ReapRead(w) \/ ReapLease(w) \/ ReapSync(w)
  \/ SweepLoad(w) \/ SweepLease(w) \/ SweepRuns(w)

Next ==
  \/ \E j \in Jobs :
       \/ StartPublish(j) \/ StartRebuild(j) \/ PollRebuild(j) \/ ReadHistory(j)
       \/ PublishStep(j) \/ RebuildStep(j) \/ PollStep(j)
  \/ \E k \in Keys : Lapse(k)
  \/ GoStale
  \/ \E w \in Workers : Crash(w) \/ BootStep(w)

Spec == Init /\ [][Next]_vars

(* A thread that is running keeps running; one that waits for a mutex that *)
(* is freed again and again gets it.  A row past its expiry is deleted and *)
(* a dead run's record goes stale in the end, and a restarted worker       *)
(* starts up.  Somebody keeps opening the refresh history, whose handler   *)
(* calls reconcile_stuck_runs.                                             *)
Fairness ==
  /\ \A j \in Jobs : /\ WF_vars(PublishStep(j)) /\ WF_vars(PollStep(j))
                      /\ SF_vars(RebuildStep(j))
  /\ \A k \in Keys : WF_vars(lease[k] = Dead /\ Lapse(k))
  /\ WF_vars(GoStale)
  /\ \A w \in Workers : WF_vars(BootStep(w))
  /\ SF_vars(\E j \in Jobs : ReadHistory(j))

FairSpec == Spec /\ Fairness
-----------------------------------------------------------------------------
\* A rebuild whose claim is gone: it ran out, or somebody's release deleted it.
Unleased(j) == At(j, "rebuilding") /\ lease["rebuild"] # j

(* At most one job builds the dataset's tables at any moment: what the     *)
(* claim-then-probe order of start_sync_and_publish and of                 *)
(* _reserve_rebuild_slot is for ("One writer").  Only a rebuild that has   *)
(* outlived its lease, or whose claim was deleted by the release of one    *)
(* that had, may have company.                                             *)
OneWriter ==
  \A i, j \in Jobs : Writing(i) /\ Writing(j) => i = j \/ Unleased(i) \/ Unleased(j)

(* At most one Sync & Publish of the dataset runs, whatever else does      *)
(* (start_sync_and_publish: "at most ONE publish per dataset at a time").  *)
OnePublisher ==
  \A i, j \in Jobs : At(i, "publishing") /\ At(j, "publishing") => i = j

(* At most one background rebuild or legacy Refresh of the dataset runs    *)
(* across the workers (_reserve_rebuild_slot: "two uvicorn workers can no  *)
(* longer both rebuild the same dataset").  The code does not keep this:   *)
(* nobody renews the lease of a rebuild that lasts (see README).           *)
OneRebuilder ==
  \A i, j \in Jobs : At(i, "rebuilding") /\ At(j, "rebuilding") => i = j

(* One worker never rebuilds the dataset twice at a time, though the lease *)
(* ran out under the first rebuild or was deleted by somebody's release:   *)
(* the registry stands behind the lease (_async_refresh_inflight).         *)
OneRebuilderPerWorker ==
  \A i, j \in Jobs :
    At(i, "rebuilding") /\ At(j, "rebuilding") /\ Home[i] = Home[j] => i = j

(* A Sync & Publish that is under way is never declared failed in the run  *)
(* history: the reconciler spares it because it holds the lease            *)
(* (reconcile_stuck_runs: "a long real sync keeps its lease").             *)
LiveSyncStaysOpen == \A j \in Jobs : At(j, "publishing") => j \in runs

(* The same for every run of the history, the rebuilds included: what the  *)
(* reconciler's comments say, and the code does not keep (see README).     *)
LiveRunStaysOpen == \A j \in Jobs : Writing(j) => j \in runs

(* The reconciler only fails rows that are still running: a run that ended *)
(* between its query and its write keeps its own outcome (run rows are     *)
(* settled once, as in _refresh_run_finish: "only updates a still-running  *)
(* row").  The code does not keep this either (see README).                *)
SettledOnce ==
  [][\A j \in Jobs : Reconcile(j) => NoJob \notin seen[j]]_vars

\* No build is under way or about to be; the run history may still be opened.
Calm == \A j \in Jobs :
  pc[j] \in {"idle", "history", "probing", "judging", "failing"}

(* Once the dataset is left alone, no run that a dead process left         *)
(* 'running' stays so, and the dataset does not stay 'syncing': the reaper *)
(* or the reconciler settles both (reconcile_stuck_runs).                  *)
OrphanSettles == <>[]Calm => <>[](runs = {} /\ ~syncing)

(* Every job that was started comes to an end: the mutex of a worker is    *)
(* held across the tests of the two leases, other jobs of the worker wait  *)
(* for it, and every way out of these tests, also that of a job whose      *)
(* lease is gone, gives it back.                                           *)
JobsEnd == \A j \in Jobs : []<>At(j, "idle")
=============================================================================
