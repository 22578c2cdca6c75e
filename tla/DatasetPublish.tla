--------------------------- MODULE DatasetPublish ---------------------------
(***************************************************************************)
(* What one Sync & Publish does to a dataset: it builds one generation of  *)
(* table snapshots, validates it and pins it as the generation that        *)
(* readers are served (dataset_publish_service), while people edit the     *)
(* design, press Stop, and processes die.  That only one sync builds at a  *)
(* time is the subject of WriterLeases and is assumed here.                *)
(*                                                                         *)
(* A generation is named by the number of the sync that opened it: in the  *)
(* code both are the millisecond of the start.  A physical table is named  *)
(* by its table and the sync that loaded it.                               *)
(***************************************************************************)
EXTENDS Naturals, FiniteSets

CONSTANTS
  Tables,       \* the materializable tables of the dataset
  Designs,      \* what the definition of a table may be
  EditsDuring,  \* the places of a sync at which an edit may land
  CrashesDuring,  \* the places of a sync at which its process may die
  RaisesDuring,   \* the places of a sync at which an exception may be raised
  Reverts,      \* whether an edit may restore an earlier design
  MaxSyncs, MaxEdits, MaxStops, MaxCrashes  \* bounds on the environment

ASSUME DesignsAssumption == Designs \subseteq Nat /\ 0 \in Designs
ASSUME BoundsAssumption ==
  /\ {MaxSyncs, MaxEdits, MaxStops, MaxCrashes} \subseteq Nat
  /\ Reverts \in BOOLEAN /\ "idle" \notin CrashesDuring

VARIABLES
  design,     \* the authored design of each table
  rows,       \* live rows of dataset_table_snapshots, ready or superseded
  physical,   \* snapshot tables that exist in the warehouse
  published,  \* published_generation, 0 when nothing is published
  pubDesign,  \* the design recorded with the published generation
  state,      \* publish_state
  pc,         \* where the running sync stands
  locked,     \* the design the sync locked when it began
  gen,        \* the generation the sync builds
  work,       \* how far each table is in this sync
  built,      \* the design each table's build has read
  basis,      \* the load a build may share instead of its own, or 0
  doomed,     \* rows whose tables the collector dropped and not yet retired
  stop,       \* the Stop flag
  refused, succeeded,           \* generations some run was recorded for
  syncs, edits, stops, crashes  \* counted only to bound them

builds == <<work, built, basis>>
sync == <<pc, locked, gen, builds, doomed, stop>>
shown == <<published, pubDesign, state>>
judgement == <<refused, succeeded>>
bounds == <<syncs, edits, stops, crashes>>
vars == <<design, rows, physical, shown, sync, judgement, bounds>>

Places == {"idle", "choose", "plan", "building", "retire", "validate", "check",
           "pin", "settle"}
Row == [tab : Tables, gen : 1..MaxSyncs, at : 1..MaxSyncs, fp : Designs,
        status : {"ready", "superseded"}]

TypeOK ==
  /\ design \in [Tables -> Designs] /\ pubDesign \in [Tables -> Designs]
  /\ rows \subseteq Row
  /\ physical \subseteq Tables \X (1..MaxSyncs)
  /\ published \in 0..MaxSyncs
  /\ state \in {"draft", "syncing", "published", "changes_pending", "sync_failed"}
  /\ pc \in Places
  /\ locked \in [Tables -> Designs] /\ built \in [Tables -> Designs]
  /\ gen \in 0..MaxSyncs
  /\ work \in [Tables -> {"todo", "busy", "built", "kept", "drifted", "failed",
                          "cancelled"}]
  /\ basis \in [Tables -> 0..MaxSyncs]
  /\ doomed \subseteq Row
  /\ stop \in BOOLEAN
  /\ refused \subseteq 1..MaxSyncs /\ succeeded \subseteq 1..MaxSyncs
  /\ syncs \in 0..MaxSyncs /\ edits \in 0..MaxEdits
  /\ stops \in 0..MaxStops /\ crashes \in 0..MaxCrashes

Blank == [t \in Tables |-> 0]
NoWork == [t \in Tables |-> "todo"]

Init ==
  /\ design = Blank /\ pubDesign = Blank /\ locked = Blank
  /\ rows = {} /\ physical = {}
  /\ published = 0 /\ state = "draft"
  /\ pc = "idle" /\ gen = 0 /\ stop = FALSE
  /\ work = NoWork /\ built = Blank /\ basis = Blank /\ doomed = {}
  /\ refused = {} /\ succeeded = {}
  /\ syncs = 0 /\ edits = 0 /\ stops = 0 /\ crashes = 0
-----------------------------------------------------------------------------
(* The registry of snapshots.                                              *)

Ref(r) == <<r.tab, r.at>>
Key(r) == <<r.tab, r.gen, r.at>>
Of(t, g) == {r \in rows : r.tab = t /\ r.gen = g}
Current(t) == {r \in rows : r.tab = t /\ r.status = "ready"}
Covered(g) == \A t \in Tables : Of(t, g) # {}

\* Slip: the row that was current stays so.
PromoteBeside(new) == rows' = rows \cup {new}

\* The promotion of a new row takes the place of the table's current one.
Promote(new) ==
  rows' = (rows \ Current(new.tab))
            \cup {[r EXCEPT !.status = "superseded"] : r \in Current(new.tab)}
            \cup {new}

\* _ready_snapshot_in_generation: built in g before, and of the live design.
ReadyIn(t, g) == \E r \in Current(t) : r.gen = g /\ r.fp = design[t]

\* Slip: the verdicts of earlier runs are not read.
ResumableUnjudged ==
  {g \in 1..syncs :
     /\ g # published
     /\ \E t \in Tables : \E r \in Current(t) : r.gen = g
     /\ \A t \in Tables : \A r \in Current(t) : r.gen = g => ReadyIn(t, g)}

\* Slip: the published generation is left to the verdicts to exclude.
ResumablePublished ==
  {g \in 1..syncs :
     /\ g \notin refused \cup succeeded
     /\ \E t \in Tables : \E r \in Current(t) : r.gen = g
     /\ \A t \in Tables : \A r \in Current(t) : r.gen = g => ReadyIn(t, g)}

\* _resumable_generation: unpublished, not judged, and nothing in it drifted.
Resumable ==
  {g \in 1..syncs :
     /\ g # published /\ g \notin refused \cup succeeded
     /\ \E t \in Tables : \E r \in Current(t) : r.gen = g
     /\ \A t \in Tables : \A r \in Current(t) : r.gen = g => ReadyIn(t, g)}

\* gc_dataset_snapshots keeps the two latest complete generations, the
\* published one, what was built within the grace window (after sync old),
\* and every physical table that a kept row still refers to.
Complete == {g \in 1..syncs : Covered(g)}
KeptGenerations ==
  {g \in Complete : Cardinality({h \in Complete : h > g}) < 2} \cup {published}
Expired(old) == {r \in rows : r.gen \notin KeptGenerations /\ r.at <= old}
\* Slip: a shared physical table is dropped with the first row that names it.
DroppableShared(out) == {Ref(r) : r \in out}
Droppable(out) == {Ref(r) : r \in out} \ {Ref(r) : r \in rows \ out}
-----------------------------------------------------------------------------
(* One Sync & Publish.                                                     *)

\* The thread of a sync is gone, and its variables with it.
Discard == work' = NoWork /\ built' = Blank /\ basis' = Blank
Gone == /\ pc' = "idle" /\ gen' = 0 /\ locked' = Blank
        /\ Discard /\ doomed' = {}

\* The run opens: stale Stop dropped, state 'syncing', authored design locked.
Begin ==
  /\ pc = "idle" /\ syncs < MaxSyncs
  /\ syncs' = syncs + 1
  /\ stop' = FALSE /\ state' = "syncing" /\ locked' = design
  /\ pc' = "choose"
  /\ UNCHANGED <<design, rows, physical, published, pubDesign, gen, builds, doomed,
                 judgement, edits, stops, crashes>>

\* refresh_all_for_dataset resumes a resumable generation, or opens one of its
\* own.  The newest comes first; it may be too old, as then all are, or a
\* connection it was read from was edited, and an older one is taken ...
Choose ==
  /\ pc = "choose" /\ pc' = "plan"
  /\ gen' \in Resumable \cup {syncs}
  /\ UNCHANGED <<design, rows, physical, shown, locked, builds, doomed, stop,
                 judgement, bounds>>

\* ... and keeps what is ready in it; a table whose source drifted fails.
Plan ==
  /\ pc = "plan" /\ pc' = "building"
  /\ \E drifted \in SUBSET Tables :
       work' = [t \in Tables |-> IF t \in drifted THEN "drifted"
                                ELSE IF ReadyIn(t, gen) THEN "kept" ELSE "todo"]
  /\ UNCHANGED <<design, rows, physical, shown, locked, gen, built, basis, doomed,
                 stop, judgement, bounds>>

\* A worker thread reads the definition of its table, and whether the current
\* snapshot of another generation is of the same definition ...
BuildStart(t) ==
  /\ pc = "building" /\ work[t] = "todo" /\ ~stop
  /\ work' = [work EXCEPT ![t] = "busy"]
  /\ built' = [built EXCEPT ![t] = design[t]]
  /\ LET same == {r \in Current(t) : r.fp = design[t] /\ r.gen # gen}
     IN basis' = [basis EXCEPT ![t] = IF same = {} THEN 0
                                      ELSE (CHOOSE r \in same : TRUE).at]
  /\ UNCHANGED <<design, rows, physical, shown, pc, locked, gen, doomed, stop,
                 judgement, bounds>>

\* ... then shares its physical table if the source has not changed ...
Reuse(t) ==
  /\ pc = "building" /\ work[t] = "busy" /\ basis[t] # 0
  /\ work' = [work EXCEPT ![t] = "built"]
  /\ Promote([tab |-> t, gen |-> gen, at |-> basis[t], fp |-> built[t],
              status |-> "ready"])
  /\ UNCHANGED <<design, physical, shown, pc, locked, gen, built, basis, doomed,
                 stop, judgement, bounds>>

\* ... or loads a new one and swaps the pointer.
BuildDone(t) ==
  /\ pc = "building" /\ work[t] = "busy"
  /\ work' = [work EXCEPT ![t] = "built"]
  /\ physical' = physical \cup {<<t, syncs>>}
  /\ Promote([tab |-> t, gen |-> gen, at |-> syncs, fp |-> built[t],
              status |-> "ready"])
  /\ UNCHANGED <<design, shown, pc, locked, gen, built, basis, doomed, stop,
                 judgement, bounds>>

\* A failed load, or one aborted by Stop, leaves the pointer alone.
BuildFail(t) ==
  /\ pc = "building" /\ work[t] = "busy"
  /\ work' = [work EXCEPT ![t] = IF stop THEN "cancelled" ELSE "failed"]
  /\ UNCHANGED <<design, rows, physical, shown, pc, locked, gen, built, basis,
                 doomed, stop, judgement, bounds>>

BuildsOver == /\ pc = "building"
              /\ \A t \in Tables : work[t] # "busy" /\ (work[t] = "todo" => stop)

\* Slip: the verdict of the run is written as the state of the dataset.
StoppedAsState ==
  /\ BuildsOver /\ stop
  /\ state' = "stopped"
  /\ Gone /\ stop' = FALSE
  /\ UNCHANGED <<design, rows, physical, published, pubDesign, judgement, bounds>>

\* A stopped sync keeps the pin, and its generation may be resumed.
Stopped ==
  /\ BuildsOver /\ stop
  /\ state' = IF published # 0 THEN "published" ELSE "draft"
  /\ Gone /\ stop' = FALSE
  /\ UNCHANGED <<design, rows, physical, published, pubDesign, judgement, bounds>>

\* A Stop that comes when nothing was left to build is not heeded.  The
\* collector runs if anything was built: it drops the physical tables ...
EndBuild ==
  /\ BuildsOver /\ (stop => \A t \in Tables : work[t] \in {"kept", "drifted"})
  /\ IF \E t \in Tables : work[t] \in {"built", "kept"}
       THEN \E old \in 0..syncs :
              /\ doomed' = Expired(old) /\ pc' = "retire"
              /\ physical' = physical \ Droppable(Expired(old))
       ELSE pc' = "validate" /\ UNCHANGED <<physical, doomed>>
  /\ Discard
  /\ UNCHANGED <<design, rows, shown, locked, gen, stop, judgement, bounds>>

\* ... and then commits that their rows are retired.  If that raises, the rows
\* stay without their tables, and the sync goes on.
Retire ==
  /\ pc = "retire" /\ pc' = "validate" /\ doomed' = {}
  /\ rows' \in {{r \in rows : \A d \in doomed : Key(d) # Key(r)}}
                 \cup (IF "retire" \in RaisesDuring THEN {rows} ELSE {})
  /\ UNCHANGED <<design, physical, shown, locked, gen, builds, stop, judgement,
                 bounds>>

Refuse ==
  /\ state' = "sync_failed" /\ pc' = "settle"
  /\ UNCHANGED <<published, pubDesign>>

\* The gate: every table covered; the semantic health check may refuse too.
Validate ==
  /\ pc = "validate"
  /\ \/ Covered(gen) /\ pc' = "check" /\ UNCHANGED shown
     \/ Refuse
  /\ UNCHANGED <<design, rows, physical, locked, gen, builds, doomed, stop,
                 judgement, bounds>>

\* Slip: the design is not compared again.
CheckNothing ==
  /\ pc = "check" /\ pc' = "pin"
  /\ UNCHANGED <<design, rows, physical, shown, locked, gen, builds, doomed, stop,
                 judgement, bounds>>

\* An edit that landed since the lock refuses the publish.
CheckDesign ==
  /\ pc = "check"
  /\ IF design = locked THEN pc' = "pin" /\ UNCHANGED shown ELSE Refuse
  /\ UNCHANGED <<design, rows, physical, locked, gen, builds, doomed, stop,
                 judgement, bounds>>

Pin ==
  /\ pc = "pin" /\ pc' = "settle"
  /\ published' = gen /\ pubDesign' = design /\ state' = "published"
  /\ UNCHANGED <<design, rows, physical, locked, gen, builds, doomed, stop,
                 judgement, bounds>>

\* _refresh_run_finish records the verdict with its generation, after the
\* state was committed; the thread's finally drops the Stop flag.
Settle ==
  /\ pc = "settle" /\ Gone /\ stop' = FALSE
  /\ IF published = gen
       THEN succeeded' = succeeded \cup {gen} /\ UNCHANGED refused
       ELSE refused' = refused \cup {gen} /\ UNCHANGED succeeded
  /\ UNCHANGED <<design, rows, physical, shown, bounds>>
-----------------------------------------------------------------------------
(* What happens around it.                                                 *)

\* An edit commits ...
Edit(t) ==
  /\ pc \in EditsDuring /\ edits < MaxEdits /\ edits' = edits + 1
  /\ \E d \in Designs \ {design[t]} :
       (Reverts \/ d > design[t]) /\ design' = [design EXCEPT ![t] = d]
  /\ UNCHANGED <<rows, physical, shown, sync, judgement, syncs, stops, crashes>>

\* ... and then invalidates the current snapshots that no longer match.
Invalidate ==
  /\ \E t \in Tables : \E r \in Current(t) : r.fp # design[t]
  /\ rows' = {IF r.status = "ready" /\ r.fp # design[r.tab]
                THEN [r EXCEPT !.status = "superseded"] ELSE r : r \in rows}
  /\ UNCHANGED <<design, physical, shown, sync, judgement, bounds>>

\* Any reader of the state recomputes whether the design drifted.
RefreshState ==
  /\ state \in {"published", "changes_pending"} /\ published # 0
  /\ state' = IF design = pubDesign THEN "published" ELSE "changes_pending"
  /\ state' # state
  /\ UNCHANGED <<design, rows, physical, published, pubDesign, sync, judgement,
                 bounds>>

RequestStop ==
  /\ pc # "idle" /\ ~stop /\ stops < MaxStops
  /\ stop' = TRUE /\ stops' = stops + 1
  /\ UNCHANGED <<design, rows, physical, shown, pc, locked, gen, builds, doomed,
                 judgement, syncs, edits, crashes>>

\* An exception ends the sync and no generation is recorded; the pool of the
\* builds hands it on once its threads are through.
Raise ==
  /\ pc \in RaisesDuring \ {"idle", "retire"}
  /\ \A t \in Tables : work[t] # "busy"
  /\ Gone /\ state' = "sync_failed" /\ stop' = FALSE
  /\ UNCHANGED <<design, rows, physical, published, pubDesign, judgement, bounds>>

\* The process dies; the flag and the state outlive it.
Crash ==
  /\ pc \in CrashesDuring /\ crashes < MaxCrashes
  /\ Gone /\ crashes' = crashes + 1
  /\ UNCHANGED <<design, rows, physical, shown, stop, judgement, syncs, edits, stops>>

\* Slip: only a dataset that has something to serve is put back.
ReapServed ==
  /\ pc = "idle" /\ state = "syncing" /\ published # 0
  /\ state' = "published"
  /\ UNCHANGED <<design, rows, physical, published, pubDesign, sync, judgement,
                 bounds>>

\* The startup reaper (or the reconciler) undoes a state nobody works on.
Reap ==
  /\ pc = "idle" /\ state = "syncing"
  /\ state' = IF published # 0 THEN "published" ELSE "sync_failed"
  /\ UNCHANGED <<design, rows, physical, published, pubDesign, sync, judgement,
                 bounds>>
-----------------------------------------------------------------------------
SyncStep ==
  \/ Choose \/ Plan \/ Retire
  \/ \E t \in Tables : BuildStart(t) \/ Reuse(t) \/ BuildDone(t) \/ BuildFail(t)
  \/ Stopped \/ EndBuild \/ Validate \/ CheckDesign \/ Pin \/ Settle

Next ==
  \/ Begin \/ SyncStep \/ Raise \/ Invalidate \/ RefreshState \/ RequestStop
  \/ Crash \/ Reap
  \/ \E t \in Tables : Edit(t)

Spec == Init /\ [][Next]_vars

(* A running sync keeps running and what a dead one left is reaped.        *)
FairSpec == Spec /\ WF_vars(SyncStep) /\ WF_vars(Reap)
-----------------------------------------------------------------------------
(* What is pinned can be served: every table has a row in the published    *)
(* generation, and every such row's physical table exists, whatever the    *)
(* collector dropped and however many generations share the table          *)
(* (gc_dataset_snapshots, resolve_specific_generation_refs).               *)
PublishedServable ==
  published # 0 => /\ Covered(published)
                   /\ \A r \in rows : r.gen = published => Ref(r) \in physical

(* A table has at most one current snapshot (the "atomic pointer swap" of  *)
(* build_table_snapshot).                                                  *)
OneCurrent == \A t \in Tables : \A r, s \in Current(t) : r = s

(* A generation that a run was recorded as refusing is never what readers  *)
(* are served (_resumable_generation: "the publish gate refused it").      *)
RefusedNotServed == published \notin refused

(* Nothing is added to or taken from the generation that is being served.  *)
PublishedFrozen ==
  [][published' = published /\ published # 0
       => {Ref(r) : r \in {q \in rows' : q.gen = published}}
            = {Ref(r) : r \in {q \in rows : q.gen = published}}]_vars

(* What readers are moved to is a generation no run was recorded for: not  *)
(* one that was refused, nor one whose publish was recorded before         *)
(* (_resumable_generation: "Only an unclaimed (crashed) or `stopped`       *)
(* generation is resumable").  It may be an older generation.              *)
PinnedUnjudged ==
  [][published' # published => published' \notin refused \cup succeeded]_vars

(* A generation that one sync built from beginning to end is pinned with    *)
(* the design it was built from: an edit that landed meanwhile refused the *)
(* publish (_sync_and_publish_blocking, the check against locked_authored).*)
PinnedAsDesigned ==
  [][published' # published /\ gen = syncs
       => \A r \in rows' : r.gen = published' => r.fp = pubDesign'[r.tab]]_vars

(* Every table that is served has a row that was built from the design     *)
(* recorded with the generation: "never publish a generation built partly  *)
(* from another design" (_sync_and_publish_blocking).                      *)
ServedAsDesigned ==
  \A t \in Tables : published # 0 =>
     \E r \in Of(t, published) : r.fp = pubDesign[t]

(* No dataset stays 'syncing': a sync ends, and what a crash left is       *)
(* undone.                                                                 *)
SyncSettles == []<>(state # "syncing")
=============================================================================
