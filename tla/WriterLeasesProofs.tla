------------------------- MODULE WriterLeasesProofs -------------------------
(***************************************************************************)
(* What WriterLeases promises for any number of jobs, workers and crashes. *)
(***************************************************************************)
EXTENDS WriterLeases, TLAPS

\* What a reader of the history holds stays a set of rows.
LEMMA SeenNowType ==
  ASSUME TypeOK, NEW gone \in SUBSET (Jobs \cup {NoJob, Dead}), NEW as \in {NoJob, Dead}
  PROVE  SeenNow(gone, as) \in [Jobs \cup Workers -> SUBSET (Jobs \cup {NoJob, Dead})]
<1>1. ASSUME NEW x \in Jobs \cup Workers
      PROVE (seen[x] \ gone) \cup {as} \in SUBSET (Jobs \cup {NoJob, Dead})
  BY DEF TypeOK
<1>2. QED
  BY <1>1 DEF SeenNow, TypeOK

\* The protocol never leaves its type.
THEOREM TypeCorrect == Spec => []TypeOK
<1>1. Init => TypeOK
  <2> SUFFICES ASSUME Init PROVE TypeOK
    OBVIOUS
  <2> USE DEF Init
  <2>1. lease \in [Keys -> Jobs \cup {NoJob, Dead}]
    OBVIOUS
  <2>2. pc \in [Jobs -> Places] /\ kind \in [Jobs -> AllKinds]
    BY DEF Places, AllKinds
  <2>3. /\ inflight \in [Workers -> BOOLEAN]
        /\ mutex \in [Workers -> Jobs \cup {NoJob}]
        /\ progress \in [Workers -> {"none", "live", "done"}]
        /\ boot \in [Workers -> Boots]
    BY DEF Boots
  <2>4. seen \in [Jobs \cup Workers -> SUBSET (Jobs \cup {NoJob, Dead})]
    OBVIOUS
  <2>5. crashes \in 0..MaxCrashes
    BY CrashesAssumption
  <2>6. QED
    BY <2>1, <2>2, <2>3, <2>4, <2>5 DEF TypeOK
<1>2. TypeOK /\ [Next]_vars => TypeOK'
  <2> SUFFICES ASSUME TypeOK, [Next]_vars PROVE TypeOK'
    OBVIOUS
  <2> USE HomeAssumption, NobodyAssumption, CrashesAssumption, KindsAssumption,
          ReadersAssumption
      DEF TypeOK, Keys, Places, AllKinds, Boots
  <2>1. ASSUME NEW j \in Jobs, StartPublish(j) PROVE TypeOK'
    BY <2>1 DEF StartPublish, Ready, At, Claim, Free, Goto, runVars
  <2>2. ASSUME NEW j \in Jobs, StartRebuild(j) PROVE TypeOK'
    BY <2>2 DEF StartRebuild, Ready, At, Goto, runVars
  <2>3. ASSUME NEW j \in Jobs, PollRebuild(j) PROVE TypeOK'
    BY <2>3 DEF PollRebuild, Ready, At, Claim, Free, Goto, runVars
  <2>4. ASSUME NEW j \in Jobs, ReadHistory(j) PROVE TypeOK'
    BY <2>4 DEF ReadHistory, Ready, At, Goto
  <2>5. ASSUME NEW j \in Jobs, HandOff(j) PROVE TypeOK'
    BY <2>5 DEF HandOff, At, Claim, Free, Goto, runVars
  <2>6. ASSUME NEW j \in Jobs, ProbeRebuild(j) PROVE TypeOK'
    BY <2>6 DEF ProbeRebuild, At, Claim, Free, Goto, runVars
  <2>7. ASSUME NEW j \in Jobs, ProbedRebuild(j) PROVE TypeOK'
    BY <2>7 DEF ProbedRebuild, At, Release, Report, Goto
  <2>8. ASSUME NEW j \in Jobs, WithdrawPublish(j) PROVE TypeOK'
    BY <2>8 DEF WithdrawPublish, At, Release, Goto, runVars
  <2>9. ASSUME NEW j \in Jobs, BeginPublish(j) PROVE TypeOK'
    BY <2>9 DEF BeginPublish, At, Goto
  <2>10. ASSUME NEW j \in Jobs, ConcludePublish(j) PROVE TypeOK'
    BY <2>10 DEF ConcludePublish, At, Goto
  <2>11. ASSUME NEW j \in Jobs, ReportPublish(j) PROVE TypeOK'
    BY <2>11 DEF ReportPublish, At, Report, Goto
  <2>12. ASSUME NEW j \in Jobs, SettlePublish(j) PROVE TypeOK'
    <3>1. SeenNow({j}, NoJob) \in [Jobs \cup Workers -> SUBSET (Jobs \cup {NoJob, Dead})]
      BY SeenNowType
    <3>2. QED
      BY <2>12, <3>1 DEF SettlePublish, FinishRun, Goto
  <2>13. ASSUME NEW j \in Jobs, EndPublish(j) PROVE TypeOK'
    BY <2>13 DEF EndPublish, At, Release, Goto, runVars
  <2>14. ASSUME NEW j \in Jobs, Reserve(j) PROVE TypeOK'
    BY <2>14 DEF Reserve, At, Lock, Goto, runVars
  <2>15. ASSUME NEW j \in Jobs, ClaimRebuild(j) PROVE TypeOK'
    <3>1. CASE lease' = lease
      BY <2>15, <3>1 DEF ClaimRebuild, Claim, Unlock, Goto, runVars
    <3>2. CASE lease' = [lease EXCEPT !["rebuild"] = j] /\ kind[j] = "manual"
      BY <2>15, <3>2 DEF ClaimRebuild, Claim, Unlock, Goto, runVars
    <3>3. CASE lease' = [lease EXCEPT !["rebuild"] = j] /\ kind[j] # "manual"
      BY <2>15, <3>3 DEF ClaimRebuild, Claim, Unlock, Goto, runVars
    <3>4. QED
      BY <2>15, <3>1, <3>2, <3>3 DEF ClaimRebuild, Claim
  <2>16. ASSUME NEW j \in Jobs, ProbePublish(j) PROVE TypeOK'
    BY <2>16 DEF ProbePublish, At, Claim, Free, Unlock, Goto, runVars
  <2>17. ASSUME NEW j \in Jobs, ProbedPublish(j) PROVE TypeOK'
    <3>1. CASE kind[j] = "manual"
      BY <2>17, <3>1 DEF ProbedPublish, Release, Goto, runVars
    <3>2. CASE kind[j] # "manual"
      <4>1. mutex' \in [Workers -> Jobs \cup {NoJob}] /\ inflight' \in [Workers -> BOOLEAN]
        <5>1. mutex' = [mutex EXCEPT ![Home[j]] = NoJob]
          BY <2>17, <3>2 DEF ProbedPublish, Unlock
        <5>2. inflight' = [inflight EXCEPT ![Home[j]] = TRUE]
          BY <2>17, <3>2, Zenon DEF ProbedPublish
        <5>3. QED
          BY <5>1, <5>2
      <4>2. lease' \in [Keys -> Jobs \cup {NoJob, Dead}] /\ pc' \in [Jobs -> Places]
        BY <2>17, <3>2 DEF ProbedPublish, Release, Goto
      <4>3. QED
        BY <2>17, <4>1, <4>2 DEF ProbedPublish, runVars
    <3>3. QED
      BY <3>1, <3>2
  <2>18. ASSUME NEW j \in Jobs, WithdrawRebuild(j) PROVE TypeOK'
    BY <2>18 DEF WithdrawRebuild, At, Release, Unlock, Goto, runVars
  <2>19. ASSUME NEW j \in Jobs, SkipRebuild(j) PROVE TypeOK'
    BY <2>19 DEF SkipRebuild, At, Goto, runVars
  <2>20. ASSUME NEW j \in Jobs, OpenRebuild(j) PROVE TypeOK'
    BY <2>20 DEF OpenRebuild, At, Goto
  <2>21. ASSUME NEW j \in Jobs, BeginRebuild(j) PROVE TypeOK'
    BY <2>21 DEF BeginRebuild, At, Report, Goto
  <2>22. ASSUME NEW j \in Jobs, SettleRebuild(j) PROVE TypeOK'
    <3>1. SeenNow({j}, NoJob) \in [Jobs \cup Workers -> SUBSET (Jobs \cup {NoJob, Dead})]
      BY SeenNowType
    <3>2. QED
      BY <2>22, <3>1 DEF SettleRebuild, FinishRun, Goto
  <2>23. ASSUME NEW j \in Jobs, ReportRebuild(j) PROVE TypeOK'
    BY <2>23 DEF ReportRebuild, At, Report, Goto
  <2>24. ASSUME NEW j \in Jobs, GiveSlotBack(j) PROVE TypeOK'
    BY <2>24 DEF GiveSlotBack, At, FreeSlot, Goto, runVars
  <2>25. ASSUME NEW j \in Jobs, EndRebuild(j) PROVE TypeOK'
    BY <2>25 DEF EndRebuild, At, Release, Goto, runVars
  <2>26. ASSUME NEW j \in Jobs, PolledRebuild(j) PROVE TypeOK'
    BY <2>26 DEF PolledRebuild, At, Release, Goto, runVars
  <2>27. ASSUME NEW j \in Jobs, ProbeHistory(j) PROVE TypeOK'
    BY <2>27 DEF ProbeHistory, At, Claim, Free, Goto
  <2>28. ASSUME NEW j \in Jobs, ProbedHistory(j) PROVE TypeOK'
    BY <2>28 DEF ProbedHistory, At, Release, Goto, runVars
  <2>29. ASSUME NEW j \in Jobs, Judge(j) PROVE TypeOK'
    BY <2>29 DEF Judge, At, Goto
  <2>30. ASSUME NEW j \in Jobs, Reconcile(j) PROVE TypeOK'
    <3>1. SeenNow(runs \cap seen[j], NoJob) \in [Jobs \cup Workers -> SUBSET (Jobs \cup {NoJob, Dead})]
      BY SeenNowType
    <3>2. QED
      BY <2>30, <3>1 DEF Reconcile, FailRows, Goto
  <2>31. ASSUME NEW k \in Keys, Lapse(k) PROVE TypeOK'
    BY <2>31 DEF Lapse, Release, runVars
  <2>32. CASE GoStale
    BY <2>32 DEF GoStale
  <2>33. ASSUME NEW w \in Workers, Crash(w) PROVE TypeOK'
    <3> DEFINE dying == {j \in Jobs : Home[j] = w}
    <3>1. SeenNow(dying, Dead) \in [Jobs \cup Workers -> SUBSET (Jobs \cup {NoJob, Dead})]
      BY SeenNowType
    <3>2. /\ lease' \in [Keys -> Jobs \cup {NoJob, Dead}]
          /\ runs' \subseteq Jobs \cup {Dead}
          /\ seen' \in [Jobs \cup Workers -> SUBSET (Jobs \cup {NoJob, Dead})]
          /\ pc' \in [Jobs -> Places]
      BY <2>33, <3>1 DEF Crash
    <3>3. QED
      BY <2>33, <3>2 DEF Crash
  <2>34. ASSUME NEW w \in Workers, ReapRead(w) PROVE TypeOK'
    BY <2>34 DEF ReapRead
  <2>35. ASSUME NEW w \in Workers, ReapLease(w) PROVE TypeOK'
    BY <2>35 DEF ReapLease, Release
  <2>36. ASSUME NEW w \in Workers, ReapSync(w) PROVE TypeOK'
    BY <2>36 DEF ReapSync
  <2>37. ASSUME NEW w \in Workers, SweepLoad(w) PROVE TypeOK'
    BY <2>37 DEF SweepLoad
  <2>38. ASSUME NEW w \in Workers, SweepLease(w) PROVE TypeOK'
    BY <2>38 DEF SweepLease, Release
  <2>39. ASSUME NEW w \in Workers, SweepRuns(w) PROVE TypeOK'
    <3>1. SeenNow(runs \cap seen[w], NoJob) \in [Jobs \cup Workers -> SUBSET (Jobs \cup {NoJob, Dead})]
      BY SeenNowType
    <3>2. QED
      BY <2>39, <3>1 DEF SweepRuns, FailRows
  <2>40. CASE UNCHANGED vars
    BY <2>40 DEF vars, runVars
  <2>41. QED
    BY <2>1, <2>2, <2>3, <2>4, <2>5, <2>6, <2>7, <2>8, <2>9, <2>10, <2>11, <2>12,
    <2>13, <2>14, <2>15, <2>16, <2>17, <2>18, <2>19, <2>20, <2>21, <2>22, <2>23, <2>24,
    <2>25, <2>26, <2>27, <2>28, <2>29, <2>30, <2>31, <2>32, <2>33, <2>34, <2>35, <2>36,
    <2>37, <2>38, <2>39, <2>40
    DEF Next, PublishStep, RebuildStep, PollStep, BootStep
<1>3. QED
  BY <1>1, <1>2, PTL DEF Spec
-----------------------------------------------------------------------------
(* Nobody waits for somebody who is gone or who waits too.  A job waits    *)
(* only for its worker's mutex; the leases and the registry make it turn   *)
(* back.                                                                   *)

\* Who stored the rebuild lease: a rebuild from its claim to its release, a
\* Sync & Publish or a poll while it tests the lease.
HoldsRebuild(j) ==
  \/ pc[j] \in {"probingRebuild", "withdrawRebuild", "slotted", "opened",
                "rebuilding", "rebuilt", "closed", "releasing"}
  \/ pc[j] \in {"probePublish", "probingPublish"} /\ kind[j] # "manual"
  \/ pc[j] = "probing" /\ kind[j] = "pollRebuild"

\* Who stored the publish lease: a Sync & Publish from its claim to its release,
\* a rebuild, a legacy Refresh or a reader of the history while it tests it.
HoldsPublish(j) ==
  \/ pc[j] \in {"probeRebuild", "probingRebuild", "withdrawPublish", "starting",
                "publishing", "concluded", "reported", "settled", "probingPublish"}
  \/ pc[j] = "probing" /\ kind[j] = "pollPublish"

\* The kinds that reach the places where the next step depends on the kind.
KindInv ==
  \A j \in Jobs :
    /\ pc[j] = "probing" => kind[j] \in {"pollRebuild", "pollPublish"}
    /\ pc[j] \in {"reserve", "claimRebuild", "probePublish", "probingPublish",
                  "withdrawRebuild", "slotted", "opened", "rebuilding"}
         => kind[j] \in {"ttl", "source", "manual"}
    /\ pc[j] = "history" => kind[j] = "pollPublish"

\* Where a job has its worker's mutex: nowhere where it waits.
HoldsMutex(j) == pc[j] \in {"claimRebuild", "probePublish", "probingPublish",
                            "withdrawRebuild"}

\* Where a job has its worker's registry entry.
HasSlot(j) == pc[j] \in {"slotted", "opened", "rebuilding", "rebuilt", "closed"}

\* A stored claim is that of a job on its way to release it; a mutex is held by
\* the job of that worker which is on its way to unlock it; a dataset is in a
\* worker's registry just while a job of that worker has it there.
NothingLeftBehind ==
  /\ lease["publish"] \in Jobs => HoldsPublish(lease["publish"])
  /\ lease["rebuild"] \in Jobs => HoldsRebuild(lease["rebuild"])
  /\ \A w \in Workers : \A j \in Jobs :
       mutex[w] = j <=> Home[j] = w /\ HoldsMutex(j)
  /\ \A w \in Workers : inflight[w] <=> \E j \in Jobs : Home[j] = w /\ HasSlot(j)

\* The mutex and the registry together let one job of a worker through.
OneThrough ==
  /\ \A w \in Workers : mutex[w] # NoJob => ~inflight[w]
  /\ \A i, j \in Jobs : HasSlot(i) /\ HasSlot(j) /\ Home[i] = Home[j] => i = j

EndsInv == KindInv /\ NothingLeftBehind /\ OneThrough

LEMMA EndsInit == Init => EndsInv
BY NobodyAssumption
   DEF Init, EndsInv, KindInv, NothingLeftBehind, OneThrough, HoldsMutex, HasSlot, Keys

LEMMA EndsStep == TypeOK /\ EndsInv /\ [Next]_vars => EndsInv'
<1> SUFFICES ASSUME TypeOK, EndsInv, [Next]_vars PROVE EndsInv'
  OBVIOUS
<1> USE NobodyAssumption, HomeAssumption
    DEF EndsInv, KindInv, NothingLeftBehind, OneThrough, HoldsPublish, HoldsRebuild,
        HoldsMutex, HasSlot, TypeOK, Keys
<1>1. ASSUME NEW j \in Jobs, StartPublish(j) PROVE EndsInv'
  BY <1>1 DEF StartPublish, Ready, At, Claim, Free, Goto, runVars
<1>2. ASSUME NEW j \in Jobs, StartRebuild(j) PROVE EndsInv'
  BY <1>2 DEF StartRebuild, Ready, At, Goto, runVars
<1>3. ASSUME NEW j \in Jobs, PollRebuild(j) PROVE EndsInv'
  BY <1>3 DEF PollRebuild, Ready, At, Claim, Free, Goto, runVars
<1>4. ASSUME NEW j \in Jobs, ReadHistory(j) PROVE EndsInv'
  BY <1>4 DEF ReadHistory, Ready, At, Goto
<1>5. ASSUME NEW j \in Jobs, HandOff(j) PROVE EndsInv'
  BY <1>5 DEF HandOff, At, Claim, Free, Goto, runVars
<1>6. ASSUME NEW j \in Jobs, ProbeRebuild(j) PROVE EndsInv'
  BY <1>6 DEF ProbeRebuild, At, Claim, Free, Goto, runVars
<1>7. ASSUME NEW j \in Jobs, ProbedRebuild(j) PROVE EndsInv'
  BY <1>7 DEF ProbedRebuild, At, Release, Goto
<1>8. ASSUME NEW j \in Jobs, WithdrawPublish(j) PROVE EndsInv'
  BY <1>8 DEF WithdrawPublish, At, Release, Goto, runVars
<1>9. ASSUME NEW j \in Jobs, BeginPublish(j) PROVE EndsInv'
  BY <1>9 DEF BeginPublish, At, Goto
<1>10. ASSUME NEW j \in Jobs, ConcludePublish(j) PROVE EndsInv'
  BY <1>10 DEF ConcludePublish, At, Goto
<1>11. ASSUME NEW j \in Jobs, ReportPublish(j) PROVE EndsInv'
  BY <1>11 DEF ReportPublish, At, Goto
<1>12. ASSUME NEW j \in Jobs, SettlePublish(j) PROVE EndsInv'
  BY <1>12 DEF SettlePublish, At, Goto, FinishRun
<1>13. ASSUME NEW j \in Jobs, EndPublish(j) PROVE EndsInv'
  BY <1>13 DEF EndPublish, At, Release, Goto, runVars
<1>14. ASSUME NEW j \in Jobs, Reserve(j) PROVE EndsInv'
  BY <1>14 DEF Reserve, At, Lock, Goto, runVars
<1>15. ASSUME NEW j \in Jobs, ClaimRebuild(j) PROVE EndsInv'
  BY <1>15 DEF ClaimRebuild, At, Claim, Free, Unlock, Goto, runVars
<1>16. ASSUME NEW j \in Jobs, ProbePublish(j) PROVE EndsInv'
  BY <1>16 DEF ProbePublish, At, Claim, Free, Unlock, Goto, runVars
<1>17. ASSUME NEW j \in Jobs, ProbedPublish(j) PROVE EndsInv'
  BY <1>17 DEF ProbedPublish, At, Release, Unlock, Goto, runVars
<1>18. ASSUME NEW j \in Jobs, WithdrawRebuild(j) PROVE EndsInv'
  BY <1>18 DEF WithdrawRebuild, At, Release, Unlock, Goto, runVars
<1>19. ASSUME NEW j \in Jobs, SkipRebuild(j) PROVE EndsInv'
  BY <1>19 DEF SkipRebuild, At, Goto, runVars
<1>20. ASSUME NEW j \in Jobs, OpenRebuild(j) PROVE EndsInv'
  BY <1>20 DEF OpenRebuild, At, Goto
<1>21. ASSUME NEW j \in Jobs, BeginRebuild(j) PROVE EndsInv'
  BY <1>21 DEF BeginRebuild, At, Goto
<1>22. ASSUME NEW j \in Jobs, SettleRebuild(j) PROVE EndsInv'
  BY <1>22 DEF SettleRebuild, At, Goto, FinishRun
<1>23. ASSUME NEW j \in Jobs, ReportRebuild(j) PROVE EndsInv'
  BY <1>23 DEF ReportRebuild, At, Goto
<1>24. ASSUME NEW j \in Jobs, GiveSlotBack(j) PROVE EndsInv'
  BY <1>24 DEF GiveSlotBack, At, FreeSlot, Goto, runVars
<1>25. ASSUME NEW j \in Jobs, EndRebuild(j) PROVE EndsInv'
  BY <1>25 DEF EndRebuild, At, Release, Goto, runVars
<1>26. ASSUME NEW j \in Jobs, PolledRebuild(j) PROVE EndsInv'
  BY <1>26 DEF PolledRebuild, At, Release, Goto, runVars
<1>27. ASSUME NEW j \in Jobs, ProbeHistory(j) PROVE EndsInv'
  BY <1>27 DEF ProbeHistory, At, Claim, Free, Goto
<1>28. ASSUME NEW j \in Jobs, ProbedHistory(j) PROVE EndsInv'
  BY <1>28 DEF ProbedHistory, At, Release, Goto, runVars
<1>29. ASSUME NEW j \in Jobs, Judge(j) PROVE EndsInv'
  BY <1>29 DEF Judge, At, Goto
<1>30. ASSUME NEW j \in Jobs, Reconcile(j) PROVE EndsInv'
  BY <1>30 DEF Reconcile, At, Goto
<1>31. ASSUME NEW k \in Keys, Lapse(k) PROVE EndsInv'
  BY <1>31 DEF Lapse, Release, runVars
<1>32. CASE GoStale
  BY <1>32 DEF GoStale
<1>33. ASSUME NEW w \in Workers, Crash(w) PROVE EndsInv'
  BY <1>33 DEF Crash
<1>34. ASSUME NEW w \in Workers, ReapRead(w) PROVE EndsInv'
  BY <1>34 DEF ReapRead
<1>35. ASSUME NEW w \in Workers, ReapLease(w) PROVE EndsInv'
  BY <1>35 DEF ReapLease, Release
<1>36. ASSUME NEW w \in Workers, ReapSync(w) PROVE EndsInv'
  BY <1>36 DEF ReapSync
<1>37. ASSUME NEW w \in Workers, SweepLoad(w) PROVE EndsInv'
  BY <1>37 DEF SweepLoad
<1>38. ASSUME NEW w \in Workers, SweepLease(w) PROVE EndsInv'
  BY <1>38 DEF SweepLease, Release
<1>39. ASSUME NEW w \in Workers, SweepRuns(w) PROVE EndsInv'
  BY <1>39 DEF SweepRuns
<1>40. CASE UNCHANGED vars
  BY <1>40 DEF vars, runVars
<1>41. QED
  BY <1>1, <1>2, <1>3, <1>4, <1>5, <1>6, <1>7, <1>8, <1>9, <1>10, <1>11, <1>12, <1>13,
  <1>14, <1>15, <1>16, <1>17, <1>18, <1>19, <1>20, <1>21, <1>22, <1>23, <1>24, <1>25,
  <1>26, <1>27, <1>28, <1>29, <1>30, <1>31, <1>32, <1>33, <1>34, <1>35, <1>36, <1>37,
  <1>38, <1>39, <1>40
  DEF Next, PublishStep, RebuildStep, PollStep, BootStep

LEMMA EndsAlways == Spec => []EndsInv
BY EndsInit, EndsStep, TypeCorrect, PTL DEF Spec

\* Whatever crashes, restarts, is reaped or lapses, no live job leaves the
\* mutex, the registry or a lease behind it: every early return gives back
\* what was taken.
THEOREM NothingLeftBehindAlways == Spec => []NothingLeftBehind
<1>1. EndsInv => NothingLeftBehind
  BY DEF EndsInv
<1>2. QED
  BY <1>1, EndsAlways, PTL

\* One worker never rebuilds the dataset twice at a time, whichever leases ran
\* out, were deleted by somebody's release or by a reaper.
THEOREM OneRebuilderPerWorkerAlways == Spec => []OneRebuilderPerWorker
<1>1. EndsInv => OneRebuilderPerWorker
  BY DEF EndsInv, OneThrough, HasSlot, OneRebuilderPerWorker, At
<1>2. QED
  BY <1>1, EndsAlways, PTL
-----------------------------------------------------------------------------
(* The publish lease.  It is renewed while a sync runs and else held for   *)
(* moments: only rebuilds outlive their lease, and only the rebuild lease. *)
PublishRenewed == LapsableAt \subseteq {"slotted", "opened", "rebuilding", "rebuilt",
                                        "closed", "releasing"}

\* A startup reaper frees the publish lease by key.  Here it frees no live job's:
\* not that of a sync which started after the reaper read the dead one's record.
SparesLive ==
  \A w \in Workers : ReapLease(w) \/ SweepLease(w) =>
    lease["publish"] \notin Jobs \/ UNCHANGED lease

ReapersSpareLive == [][SparesLive]_vars

\* Whose row of the history can be 'running'.
Open(j) == pc[j] \in {"publishing", "concluded", "reported", "opened", "rebuilding"}

\* Who has tested the lease and goes on to fail what it has loaded.
Convinced(x) == \/ x \in Jobs /\ pc[x] \in {"judging", "failing"}
                \/ x \in Jobs /\ pc[x] = "probing" /\ kind[x] = "pollPublish"
                \/ x \in Workers /\ boot[x] = "swept"

PublishLeaseInv ==
  /\ \A j \in Jobs : HoldsPublish(j) => lease["publish"] = j
  /\ \A j \in Jobs : pc[j] = "publishing" => j \in runs
  /\ \A j \in Jobs \cap runs : Open(j)
  /\ \A x \in Jobs \cup Workers : \A j \in Jobs \cap seen[x] :
       Open(j) /\ (Convinced(x) => pc[j] \in {"opened", "rebuilding"})

\* Through crashes and restarts, every job that relies on the publish lease is
\* the one whose claim is stored, and a running Sync & Publish has its 'running'
\* row in the history, as long as reapers spare it: who fails rows has loaded
\* none of a Sync & Publish that is still under way.
LEMMA PublishLeaseHeld ==
  ASSUME PublishRenewed PROVE Spec /\ ReapersSpareLive => []PublishLeaseInv
<1>1. Init => PublishLeaseInv
  BY DEF Init, PublishLeaseInv, HoldsPublish
<1>2. /\ TypeOK /\ EndsInv /\ PublishLeaseInv
      /\ [Next]_vars /\ [SparesLive]_vars
      => PublishLeaseInv'
  <2> SUFFICES ASSUME TypeOK, EndsInv, PublishLeaseInv, [Next]_vars, [SparesLive]_vars
               PROVE  PublishLeaseInv'
    OBVIOUS
  <2>0. KindInv
    BY DEF EndsInv
  <2> USE <2>0, NobodyAssumption, ReadersAssumption
      DEF PublishLeaseInv, KindInv, HoldsPublish, Open, Convinced, TypeOK, Keys
  <2>1. ASSUME NEW j \in Jobs, StartPublish(j) PROVE PublishLeaseInv'
    BY <2>1 DEF StartPublish, Ready, At, Claim, Free, Goto, runVars
  <2>2. ASSUME NEW j \in Jobs, StartRebuild(j) PROVE PublishLeaseInv'
    BY <2>2 DEF StartRebuild, Ready, At, Goto, runVars
  <2>3. ASSUME NEW j \in Jobs, PollRebuild(j) PROVE PublishLeaseInv'
    BY <2>3 DEF PollRebuild, Ready, At, Claim, Free, Goto, runVars
  <2>4. ASSUME NEW j \in Jobs, ReadHistory(j) PROVE PublishLeaseInv'
    BY <2>4 DEF ReadHistory, Ready, At, Goto
  <2>5. ASSUME NEW j \in Jobs, HandOff(j) PROVE PublishLeaseInv'
    BY <2>5 DEF HandOff, At, Claim, Free, Goto, runVars
  <2>6. ASSUME NEW j \in Jobs, ProbeRebuild(j) PROVE PublishLeaseInv'
    BY <2>6 DEF ProbeRebuild, At, Claim, Free, Goto, runVars
  <2>7. ASSUME NEW j \in Jobs, ProbedRebuild(j) PROVE PublishLeaseInv'
    BY <2>7 DEF ProbedRebuild, At, Release, Goto
  <2>8. ASSUME NEW j \in Jobs, WithdrawPublish(j) PROVE PublishLeaseInv'
    BY <2>8 DEF WithdrawPublish, At, Release, Goto, runVars
  <2>9. ASSUME NEW j \in Jobs, BeginPublish(j) PROVE PublishLeaseInv'
    BY <2>9 DEF BeginPublish, At, Goto
  <2>10. ASSUME NEW j \in Jobs, ConcludePublish(j) PROVE PublishLeaseInv'
    BY <2>10 DEF ConcludePublish, At, Goto
  <2>11. ASSUME NEW j \in Jobs, ReportPublish(j) PROVE PublishLeaseInv'
    BY <2>11 DEF ReportPublish, At, Goto
  <2>12. ASSUME NEW j \in Jobs, SettlePublish(j) PROVE PublishLeaseInv'
    BY <2>12 DEF SettlePublish, At, Goto, FinishRun, SeenNow
  <2>13. ASSUME NEW j \in Jobs, EndPublish(j) PROVE PublishLeaseInv'
    BY <2>13 DEF EndPublish, At, Release, Goto, runVars
  <2>14. ASSUME NEW j \in Jobs, Reserve(j) PROVE PublishLeaseInv'
    BY <2>14 DEF Reserve, At, Goto, runVars
  <2>15. ASSUME NEW j \in Jobs, ClaimRebuild(j) PROVE PublishLeaseInv'
    BY <2>15 DEF ClaimRebuild, At, Claim, Free, Goto, runVars
  <2>16. ASSUME NEW j \in Jobs, ProbePublish(j) PROVE PublishLeaseInv'
    BY <2>16 DEF ProbePublish, At, Claim, Free, Goto, runVars
  <2>17. ASSUME NEW j \in Jobs, ProbedPublish(j) PROVE PublishLeaseInv'
    BY <2>17 DEF ProbedPublish, At, Release, Goto, runVars
  <2>18. ASSUME NEW j \in Jobs, WithdrawRebuild(j) PROVE PublishLeaseInv'
    BY <2>18 DEF WithdrawRebuild, At, Release, Goto, runVars
  <2>19. ASSUME NEW j \in Jobs, SkipRebuild(j) PROVE PublishLeaseInv'
    BY <2>19 DEF SkipRebuild, At, Goto, runVars
  <2>20. ASSUME NEW j \in Jobs, OpenRebuild(j) PROVE PublishLeaseInv'
    BY <2>20 DEF OpenRebuild, At, Goto
  <2>21. ASSUME NEW j \in Jobs, BeginRebuild(j) PROVE PublishLeaseInv'
    BY <2>21 DEF BeginRebuild, At, Goto
  <2>22. ASSUME NEW j \in Jobs, SettleRebuild(j) PROVE PublishLeaseInv'
    BY <2>22 DEF SettleRebuild, At, Goto, FinishRun, SeenNow
  <2>23. ASSUME NEW j \in Jobs, ReportRebuild(j) PROVE PublishLeaseInv'
    BY <2>23 DEF ReportRebuild, At, Goto
  <2>24. ASSUME NEW j \in Jobs, GiveSlotBack(j) PROVE PublishLeaseInv'
    BY <2>24 DEF GiveSlotBack, At, Goto, runVars
  <2>25. ASSUME NEW j \in Jobs, EndRebuild(j) PROVE PublishLeaseInv'
    BY <2>25 DEF EndRebuild, At, Release, Goto, runVars
  <2>26. ASSUME NEW j \in Jobs, PolledRebuild(j) PROVE PublishLeaseInv'
    BY <2>26 DEF PolledRebuild, At, Release, Goto, runVars
  <2>27. ASSUME NEW j \in Jobs, ProbeHistory(j) PROVE PublishLeaseInv'
    BY <2>27 DEF ProbeHistory, At, Claim, Free, Goto
  <2>28. ASSUME NEW j \in Jobs, ProbedHistory(j) PROVE PublishLeaseInv'
    BY <2>28 DEF ProbedHistory, At, Release, Goto, runVars
  <2>29. ASSUME NEW j \in Jobs, Judge(j) PROVE PublishLeaseInv'
    BY <2>29 DEF Judge, At, Goto
  <2>30. ASSUME NEW j \in Jobs, Reconcile(j) PROVE PublishLeaseInv'
    BY <2>30 DEF Reconcile, At, Goto, FailRows, SeenNow
  <2>31. ASSUME NEW k \in Keys, Lapse(k) PROVE PublishLeaseInv'
    <3>1. ASSUME NEW j \in Jobs, HoldsPublish(j) PROVE pc[j] \notin LapsableAt
      BY <3>1, PublishRenewed DEF PublishRenewed
    <3>2. QED
      BY <2>31, <3>1 DEF Lapse, Release, runVars
  <2>32. CASE GoStale
    BY <2>32 DEF GoStale
  <2>33. ASSUME NEW w \in Workers, Crash(w) PROVE PublishLeaseInv'
    BY <2>33 DEF Crash, SeenNow
  <2>34. ASSUME NEW w \in Workers, ReapRead(w) PROVE PublishLeaseInv'
    BY <2>34 DEF ReapRead
  <2>35. ASSUME NEW w \in Workers, ReapLease(w) PROVE PublishLeaseInv'
    <3>1. lease["publish"] \notin Jobs
      BY <2>35 DEF ReapLease, Release, SparesLive, vars
    <3>2. QED
      BY <2>35, <3>1 DEF ReapLease, Release
  <2>36. ASSUME NEW w \in Workers, ReapSync(w) PROVE PublishLeaseInv'
    BY <2>36 DEF ReapSync
  <2>37. ASSUME NEW w \in Workers, SweepLoad(w) PROVE PublishLeaseInv'
    BY <2>37 DEF SweepLoad
  <2>38. ASSUME NEW w \in Workers, SweepLease(w) PROVE PublishLeaseInv'
    <3>1. lease["publish"] \notin Jobs
      BY <2>38 DEF SweepLease, Release, SparesLive, vars
    <3>2. QED
      BY <2>38, <3>1 DEF SweepLease, Release
  <2>39. ASSUME NEW w \in Workers, SweepRuns(w) PROVE PublishLeaseInv'
    BY <2>39 DEF SweepRuns, FailRows, SeenNow
  <2>40. CASE UNCHANGED vars
    BY <2>40 DEF vars, runVars
  <2>41. QED
    BY <2>1, <2>2, <2>3, <2>4, <2>5, <2>6, <2>7, <2>8, <2>9, <2>10, <2>11, <2>12,
    <2>13, <2>14, <2>15, <2>16, <2>17, <2>18, <2>19, <2>20, <2>21, <2>22, <2>23, <2>24,
    <2>25, <2>26, <2>27, <2>28, <2>29, <2>30, <2>31, <2>32, <2>33, <2>34, <2>35, <2>36,
    <2>37, <2>38, <2>39, <2>40
    DEF Next, PublishStep, RebuildStep, PollStep, BootStep
<1>3. QED
  BY <1>1, <1>2, TypeCorrect, EndsAlways, PTL DEF Spec, ReapersSpareLive

\* Where no worker dies nothing is reaped.
LEMMA NoRestart ==
  ASSUME MaxCrashes = 0 PROVE Spec => ReapersSpareLive
<1> DEFINE AllUp == crashes = 0 /\ \A w \in Workers : boot[w] = "up"
<1>1. Init => AllUp
  BY DEF Init
<1>2. AllUp /\ [Next]_vars => AllUp'
  BY MaxCrashes = 0
     DEF Next, vars, runVars, PublishStep, RebuildStep, PollStep, BootStep,
         StartPublish, StartRebuild, PollRebuild, ReadHistory, HandOff, ProbeRebuild,
         ProbedRebuild, WithdrawPublish, BeginPublish, ConcludePublish, ReportPublish,
         SettlePublish, EndPublish, Reserve, ClaimRebuild, ProbePublish, ProbedPublish,
         WithdrawRebuild, SkipRebuild, OpenRebuild, BeginRebuild, SettleRebuild,
         ReportRebuild, GiveSlotBack, EndRebuild, PolledRebuild, ProbeHistory,
         ProbedHistory, Judge, Reconcile, Lapse, GoStale, Crash, ReapRead, ReapLease,
         ReapSync, SweepLoad, SweepLease, SweepRuns
<1>3. AllUp => SparesLive
  BY DEF SparesLive, ReapLease, SweepLease
<1>4. QED
  BY <1>1, <1>2, <1>3, PTL DEF Spec, ReapersSpareLive

\* While the heartbeat keeps the publish lease and no reaper frees a live one,
\* at most one Sync & Publish of the dataset runs, however long rebuilds last.
THEOREM OnePublisherHolds ==
  ASSUME PublishRenewed PROVE Spec /\ ReapersSpareLive => []OnePublisher
<1>1. PublishLeaseInv => OnePublisher
  BY DEF PublishLeaseInv, HoldsPublish, OnePublisher, At
<1>2. QED
  BY <1>1, PublishLeaseHeld, PTL

\* Under the same assumptions the reconciler never fails the row of a
\* Sync & Publish that is under way, whatever progress record it reads.
THEOREM LiveSyncStaysOpenHolds ==
  ASSUME PublishRenewed PROVE Spec /\ ReapersSpareLive => []LiveSyncStaysOpen
<1>1. PublishLeaseInv => LiveSyncStaysOpen
  BY DEF PublishLeaseInv, LiveSyncStaysOpen, At
<1>2. QED
  BY <1>1, PublishLeaseHeld, PTL
-----------------------------------------------------------------------------
\* Where a job is once its test of the other side has let it through.
Publishing(j) == pc[j] \in {"starting", "publishing", "concluded", "reported",
                            "settled"}
Rebuilding(j) == HasSlot(j) /\ lease["rebuild"] = j

\* No Sync & Publish is let through beside a rebuild that has its claim; and two
\* rebuilds are let through only if one of them has not.
ExclusionInv ==
  /\ \A j \in Jobs : kind[j] # "manual"
  /\ \A i, j \in Jobs : ~(Publishing(i) /\ Rebuilding(j))

\* Claim, then test the other side: the later of the two tests is made while the
\* earlier side already holds its lease, so it fails.  A release by key may take
\* a rebuild's claim away; that does not let a Sync & Publish overlook a claim.
LEMMA ClaimThenProbeExcludes ==
  ASSUME PublishRenewed, \A j \in Jobs : "manual" \notin Kinds[j]
  PROVE  Spec /\ ReapersSpareLive => []ExclusionInv
<1>1. Init => ExclusionInv
  BY DEF Init, ExclusionInv, Publishing, Rebuilding, HasSlot
<1>2. /\ TypeOK /\ EndsInv /\ PublishLeaseInv /\ ExclusionInv
      /\ [Next]_vars
      => ExclusionInv'
  <2> SUFFICES ASSUME TypeOK, EndsInv, PublishLeaseInv, ExclusionInv, [Next]_vars
               PROVE  ExclusionInv'
    OBVIOUS
  <2> USE NobodyAssumption
      DEF ExclusionInv, Publishing, Rebuilding, HasSlot, TypeOK, Keys
  <2>1. ASSUME NEW j \in Jobs, StartPublish(j) PROVE ExclusionInv'
    BY <2>1 DEF StartPublish, Ready, At, Claim, Free, Goto, runVars
  <2>2. ASSUME NEW j \in Jobs, StartRebuild(j) PROVE ExclusionInv'
    BY <2>2, \A i \in Jobs : "manual" \notin Kinds[i]
       DEF StartRebuild, Ready, At, Goto, runVars
  <2>3. ASSUME NEW j \in Jobs, PollRebuild(j) PROVE ExclusionInv'
    BY <2>3 DEF PollRebuild, Ready, At, Claim, Free, Goto, runVars
  <2>4. ASSUME NEW j \in Jobs, ReadHistory(j) PROVE ExclusionInv'
    BY <2>4 DEF ReadHistory, Ready, At, Goto
  <2>5. ASSUME NEW j \in Jobs, HandOff(j) PROVE ExclusionInv'
    BY <2>5 DEF HandOff, At, Claim, Free, Goto, runVars
  <2>6. ASSUME NEW j \in Jobs, ProbeRebuild(j) PROVE ExclusionInv'
    BY <2>6 DEF ProbeRebuild, At, Claim, Free, Goto, runVars
  <2>7. ASSUME NEW j \in Jobs, ProbedRebuild(j) PROVE ExclusionInv'
    BY <2>7 DEF ProbedRebuild, At, Release, Goto
  <2>8. ASSUME NEW j \in Jobs, WithdrawPublish(j) PROVE ExclusionInv'
    BY <2>8 DEF WithdrawPublish, At, Release, Goto, runVars
  <2>9. ASSUME NEW j \in Jobs, BeginPublish(j) PROVE ExclusionInv'
    BY <2>9 DEF BeginPublish, At, Goto
  <2>10. ASSUME NEW j \in Jobs, ConcludePublish(j) PROVE ExclusionInv'
    BY <2>10 DEF ConcludePublish, At, Goto
  <2>11. ASSUME NEW j \in Jobs, ReportPublish(j) PROVE ExclusionInv'
    BY <2>11 DEF ReportPublish, At, Goto
  <2>12. ASSUME NEW j \in Jobs, SettlePublish(j) PROVE ExclusionInv'
    BY <2>12 DEF SettlePublish, At, Goto, FinishRun
  <2>13. ASSUME NEW j \in Jobs, EndPublish(j) PROVE ExclusionInv'
    BY <2>13 DEF EndPublish, At, Release, Goto, runVars
  <2>14. ASSUME NEW j \in Jobs, Reserve(j) PROVE ExclusionInv'
    BY <2>14 DEF Reserve, At, Goto, runVars
  <2>15. ASSUME NEW j \in Jobs, ClaimRebuild(j) PROVE ExclusionInv'
    BY <2>15 DEF ClaimRebuild, At, Claim, Free, Goto, runVars, EndsInv, KindInv
  <2>16. ASSUME NEW j \in Jobs, ProbePublish(j) PROVE ExclusionInv'
    BY <2>16 DEF ProbePublish, At, Claim, Free, Goto, runVars
  <2>17. ASSUME NEW j \in Jobs, ProbedPublish(j) PROVE ExclusionInv'
    BY <2>17 DEF ProbedPublish, At, Release, Goto, runVars, PublishLeaseInv,
    HoldsPublish, EndsInv, KindInv
  <2>18. ASSUME NEW j \in Jobs, WithdrawRebuild(j) PROVE ExclusionInv'
    BY <2>18 DEF WithdrawRebuild, At, Release, Goto, runVars
  <2>19. ASSUME NEW j \in Jobs, SkipRebuild(j) PROVE ExclusionInv'
    BY <2>19 DEF SkipRebuild, At, Goto, runVars
  <2>20. ASSUME NEW j \in Jobs, OpenRebuild(j) PROVE ExclusionInv'
    BY <2>20 DEF OpenRebuild, At, Goto
  <2>21. ASSUME NEW j \in Jobs, BeginRebuild(j) PROVE ExclusionInv'
    BY <2>21 DEF BeginRebuild, At, Goto
  <2>22. ASSUME NEW j \in Jobs, SettleRebuild(j) PROVE ExclusionInv'
    BY <2>22 DEF SettleRebuild, At, Goto, FinishRun
  <2>23. ASSUME NEW j \in Jobs, ReportRebuild(j) PROVE ExclusionInv'
    BY <2>23 DEF ReportRebuild, At, Goto
  <2>24. ASSUME NEW j \in Jobs, GiveSlotBack(j) PROVE ExclusionInv'
    BY <2>24 DEF GiveSlotBack, At, Goto, runVars
  <2>25. ASSUME NEW j \in Jobs, EndRebuild(j) PROVE ExclusionInv'
    BY <2>25 DEF EndRebuild, At, Release, Goto, runVars
  <2>26. ASSUME NEW j \in Jobs, PolledRebuild(j) PROVE ExclusionInv'
    BY <2>26 DEF PolledRebuild, At, Release, Goto, runVars
  <2>27. ASSUME NEW j \in Jobs, ProbeHistory(j) PROVE ExclusionInv'
    BY <2>27 DEF ProbeHistory, At, Claim, Free, Goto
  <2>28. ASSUME NEW j \in Jobs, ProbedHistory(j) PROVE ExclusionInv'
    BY <2>28 DEF ProbedHistory, At, Release, Goto, runVars
  <2>29. ASSUME NEW j \in Jobs, Judge(j) PROVE ExclusionInv'
    BY <2>29 DEF Judge, At, Goto
  <2>30. ASSUME NEW j \in Jobs, Reconcile(j) PROVE ExclusionInv'
    BY <2>30 DEF Reconcile, At, Goto
  <2>31. ASSUME NEW k \in Keys, Lapse(k) PROVE ExclusionInv'
    BY <2>31 DEF Lapse, Release, runVars
  <2>32. CASE GoStale
    BY <2>32 DEF GoStale
  <2>33. ASSUME NEW w \in Workers, Crash(w) PROVE ExclusionInv'
    BY <2>33 DEF Crash
  <2>34. ASSUME NEW w \in Workers, ReapRead(w) PROVE ExclusionInv'
    BY <2>34 DEF ReapRead
  <2>35. ASSUME NEW w \in Workers, ReapLease(w) PROVE ExclusionInv'
    BY <2>35 DEF ReapLease, Release
  <2>36. ASSUME NEW w \in Workers, ReapSync(w) PROVE ExclusionInv'
    BY <2>36 DEF ReapSync
  <2>37. ASSUME NEW w \in Workers, SweepLoad(w) PROVE ExclusionInv'
    BY <2>37 DEF SweepLoad
  <2>38. ASSUME NEW w \in Workers, SweepLease(w) PROVE ExclusionInv'
    BY <2>38 DEF SweepLease, Release
  <2>39. ASSUME NEW w \in Workers, SweepRuns(w) PROVE ExclusionInv'
    BY <2>39 DEF SweepRuns
  <2>40. CASE UNCHANGED vars
    BY <2>40 DEF vars, runVars
  <2>41. QED
    BY <2>1, <2>2, <2>3, <2>4, <2>5, <2>6, <2>7, <2>8, <2>9, <2>10, <2>11, <2>12,
    <2>13, <2>14, <2>15, <2>16, <2>17, <2>18, <2>19, <2>20, <2>21, <2>22, <2>23, <2>24,
    <2>25, <2>26, <2>27, <2>28, <2>29, <2>30, <2>31, <2>32, <2>33, <2>34, <2>35, <2>36,
    <2>37, <2>38, <2>39, <2>40
    DEF Next, PublishStep, RebuildStep, PollStep, BootStep
<1>3. QED
  BY <1>1, <1>2, TypeCorrect, EndsAlways, PublishLeaseHeld, PTL DEF Spec

\* One writer per dataset: a Sync & Publish and the background rebuilds never
\* build at the same moment, for any jobs, workers and crashes, unless a rebuild
\* has lost its claim; while the publish lease is renewed and no reaper frees a
\* live one, and the legacy Refresh, which tests before it claims, is not used.
THEOREM OneWriterHolds ==
  ASSUME PublishRenewed, \A j \in Jobs : "manual" \notin Kinds[j]
  PROVE  Spec /\ ReapersSpareLive => []OneWriter
<1>1. PublishLeaseInv /\ ExclusionInv => OneWriter
  BY DEF PublishLeaseInv, ExclusionInv, HoldsPublish, Publishing, Rebuilding, HasSlot,
         OneWriter, Unleased, Writing, At
<1>2. QED
  BY <1>1, PublishLeaseHeld, ClaimThenProbeExcludes, PTL
=============================================================================
