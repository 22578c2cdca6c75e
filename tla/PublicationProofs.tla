-------------------------- MODULE PublicationProofs --------------------------
(***************************************************************************)
(* What a publication promises to those who read what it published.        *)
(*                                                                         *)
(* DatasetPublish for any tables, designs and bounds: types, the one       *)
(* current snapshot of a table, what the verdicts of earlier runs exclude, *)
(* that what is served is complete, present and unchanged, and that it is  *)
(* of the design it was pinned with.                                       *)
(*                                                                         *)
(* ReportCache for any views, publishers, versions and mishaps: types, one *)
(* builder, and no view older than the last publish that dropped the cache.*)
(***************************************************************************)
EXTENDS DatasetPublish, ReportCache, TLAPS

Statuses == {"todo", "busy", "built", "kept", "drifted", "failed", "cancelled"}

\* A sync has a number, and from its choice on a generation; a table being
\* built has what it may share from an earlier row.
Shape ==
  /\ TypeOK
  /\ published <= syncs /\ gen <= syncs
  /\ pc # "idle" => syncs \in 1..MaxSyncs
  /\ pc \notin {"idle", "choose"} => gen \in 1..MaxSyncs

\* The places at which a sync works on its generation.
Building == {"plan", "building", "retire", "validate", "check", "pin"}

\* The generation a sync builds is not served and was not judged before; the
\* sync's own number is above whatever was.
Unjudged ==
  /\ \A g \in refused \cup succeeded : g <= syncs /\ (pc # "idle" => g < syncs)
  /\ pc \notin {"idle", "settle"} => published < syncs
  /\ pc \in Building => gen \notin refused \cup succeeded /\ gen # published

-----------------------------------------------------------------------------
\* What a sync starts from, and leaves when it is gone.
LEMMA BlankType ==
  /\ MaxSyncs \in Nat /\ MaxEdits \in Nat /\ MaxStops \in Nat /\ MaxCrashes \in Nat
  /\ Blank \in [Tables -> Designs] /\ Blank \in [Tables -> 0..MaxSyncs]
  /\ NoWork \in [Tables -> {"todo", "busy", "built", "kept", "drifted", "failed", "cancelled"}]
<1>1. MaxSyncs \in Nat /\ MaxEdits \in Nat /\ MaxStops \in Nat /\ MaxCrashes \in Nat
  BY BoundsAssumption
<1>2. QED
  BY <1>1, DesignsAssumption DEF Blank, NoWork

LEMMA ShapeInit == Init => Shape
<1> SUFFICES ASSUME Init PROVE Shape
  OBVIOUS
<1>1. stop \in BOOLEAN
  BY DEF Init
<1>2. QED
  BY <1>1, BlankType DEF Init, Shape, TypeOK, Places

\* A promoted row is well-formed if its parts are.
LEMMA PromoteType ==
  ASSUME rows \subseteq Row, NEW new \in Row, Promote(new)
  PROVE  rows' \subseteq Row
BY DEF Promote, Current, Row

LEMMA ShapeStep == Shape /\ [Next]_vars => Shape'
<1> SUFFICES ASSUME Shape, [Next]_vars PROVE Shape'
  OBVIOUS
<1> USE DEF Shape, TypeOK, Places, builds, sync, shown, judgement, bounds
<1> HIDE DEF Row
<1>0. MaxSyncs \in Nat /\ MaxEdits \in Nat /\ MaxStops \in Nat /\ MaxCrashes \in Nat
  BY BlankType
<1>1. CASE Begin
  <2>1. syncs' \in 1..MaxSyncs /\ gen' <= syncs' /\ published' <= syncs' /\ refused' = refused
    BY <1>0, <1>1 DEF Begin
  <2>2. stop' \in BOOLEAN /\ pc' = "choose" /\ state' = "syncing"
    BY <1>1 DEF Begin
  <2>3. QED
    BY <1>0, <1>1, <2>1, <2>2 DEF Begin
<1>2. CASE Choose
  <2>1. gen' \in 1..syncs
    BY <1>0, <1>2 DEF Choose, Resumable
  <2>2. QED
    BY <1>0, <1>2, <2>1 DEF Choose
<1>3. CASE Plan
  <2>1. work' \in [Tables -> Statuses]
    BY <1>3 DEF Plan, Statuses
  <2>2. QED
    BY <1>3, <2>1 DEF Plan, Statuses
<1>4. ASSUME NEW t \in Tables, BuildStart(t) PROVE Shape'
  <2>1. \A r \in Current(t) : r.at \in 1..MaxSyncs
    BY DEF Current, Row
  <2>2. basis' \in [Tables -> 0..MaxSyncs]
    <3> DEFINE same == {r \in Current(t) : r.fp = design[t] /\ r.gen # gen}
    <3>1. basis' = [basis EXCEPT ![t] = IF same = {} THEN 0 ELSE (CHOOSE r \in same : TRUE).at]
      BY <1>4 DEF BuildStart
    <3>2. same # {} => (CHOOSE r \in same : TRUE) \in Current(t)
      OBVIOUS
    <3>3. QED
      BY <1>0, <2>1, <3>1, <3>2
  <2>3. QED
    BY <1>4, <2>2 DEF BuildStart
<1>5. ASSUME NEW t \in Tables, Reuse(t) PROVE Shape'
  <2>1. [tab |-> t, gen |-> gen, at |-> basis[t], fp |-> built[t], status |-> "ready"] \in Row
    BY <1>5 DEF Reuse, Row
  <2>2. rows' \subseteq Row
    BY <1>5, <2>1, PromoteType DEF Reuse
  <2>3. QED
    BY <1>5, <2>2 DEF Reuse
<1>6. ASSUME NEW t \in Tables, BuildDone(t) PROVE Shape'
  <2>1. [tab |-> t, gen |-> gen, at |-> syncs, fp |-> built[t], status |-> "ready"] \in Row
    BY <1>6 DEF BuildDone, Row
  <2>2. rows' \subseteq Row
    BY <1>6, <2>1, PromoteType DEF BuildDone
  <2>3. QED
    BY <1>6, <2>2 DEF BuildDone
<1>7. ASSUME NEW t \in Tables, BuildFail(t) PROVE Shape'
  BY <1>7 DEF BuildFail
<1>8. CASE Stopped
  <2>1. state' \in {"draft", "published", "sync_failed"}
    BY <1>8 DEF Stopped
  <2>2. stop' \in BOOLEAN
    BY <1>8 DEF Stopped
  <2>3. QED
    BY <1>0, <1>8, <2>1, <2>2, BlankType DEF Stopped, Gone, Discard
<1>9. CASE EndBuild
  <2>1. doomed' \subseteq Row /\ physical' \subseteq physical
    BY <1>9 DEF EndBuild, Expired
  <2>2. pc' \in {"retire", "validate"} /\ pc = "building"
    BY <1>9 DEF EndBuild, BuildsOver
  <2>3. QED
    BY <1>0, <1>9, <2>1, <2>2, BlankType DEF EndBuild, Discard
<1>10. CASE Retire
  BY <1>10 DEF Retire
<1>11. CASE Validate \/ CheckDesign
  BY <1>11 DEF Validate, CheckDesign, Refuse
<1>12. CASE Pin
  BY <1>0, <1>12 DEF Pin
<1>13. CASE Settle
  <2>1. refused' \subseteq 1..MaxSyncs /\ succeeded' \subseteq 1..MaxSyncs
    BY <1>0, <1>13 DEF Settle
  <2>2. stop' \in BOOLEAN
    BY <1>13 DEF Settle
  <2>3. QED
    BY <1>0, <1>13, <2>1, <2>2, BlankType DEF Settle, Gone, Discard
<1>14. ASSUME NEW t \in Tables, Edit(t) PROVE Shape'
  <2>1. design' \in [Tables -> Designs] /\ edits' \in 0..MaxEdits
    BY <1>0, <1>14 DEF Edit
  <2>2. QED
    BY <1>14, <2>1 DEF Edit
<1>15. CASE Invalidate
  <2>1. rows' \subseteq Row
    BY <1>15 DEF Invalidate, Row
  <2>2. QED
    BY <1>15, <2>1 DEF Invalidate
<1>16. CASE RefreshState \/ Reap
  BY <1>16 DEF RefreshState, Reap
<1>17. CASE RequestStop
  BY <1>0, <1>17 DEF RequestStop
<1>18. CASE Raise
  <2>1. state' \in {"draft", "published", "sync_failed"}
    BY <1>18 DEF Raise
  <2>2. stop' \in BOOLEAN
    BY <1>18 DEF Raise
  <2>3. QED
    BY <1>0, <1>18, <2>1, <2>2, BlankType DEF Raise, Gone, Discard
<1>19. CASE Crash
  BY <1>0, <1>19, BlankType DEF Crash, Gone, Discard
<1>20. CASE UNCHANGED vars
  BY <1>20 DEF vars
<1>21. QED
  BY <1>1, <1>2, <1>3, <1>4, <1>5, <1>6, <1>7, <1>8, <1>9, <1>10, <1>11, <1>12, <1>13, <1>14,
     <1>15, <1>16, <1>17, <1>18, <1>19, <1>20 DEF Next, SyncStep

(* The registry, the sync and what is shown stay what they are.            *)
THEOREM TypeCorrect == Spec => []TypeOK
<1>1. Shape => TypeOK
  BY DEF Shape
<1>2. QED
  BY ShapeInit, ShapeStep, <1>1, PTL DEF Spec
-----------------------------------------------------------------------------
\* A promotion leaves its row the only current one of its table.
LEMMA PromoteOne ==
  ASSUME rows \subseteq Row, OneCurrent, NEW new \in Row, new.status = "ready", Promote(new)
  PROVE  OneCurrent'
<1>1. ASSUME NEW t \in Tables, NEW r \in Current(t)'
      PROVE  IF t = new.tab THEN r = new ELSE r \in Current(t)
  BY <1>1 DEF Promote, Current, Row
<1>2. QED
  BY <1>1 DEF OneCurrent

LEMMA OneCurrentStep == Shape /\ OneCurrent /\ [Next]_vars => OneCurrent'
<1> SUFFICES ASSUME Shape, OneCurrent, [Next]_vars PROVE OneCurrent'
  OBVIOUS
<1>1. ASSUME NEW t \in Tables, Reuse(t) PROVE OneCurrent'
  <2>1. [tab |-> t, gen |-> gen, at |-> basis[t], fp |-> built[t], status |-> "ready"] \in Row
    BY <1>1 DEF Reuse, Row, Shape, TypeOK
  <2>2. QED
    BY <1>1, <2>1, PromoteOne DEF Reuse, Shape, TypeOK
<1>2. ASSUME NEW t \in Tables, BuildDone(t) PROVE OneCurrent'
  <2>1. [tab |-> t, gen |-> gen, at |-> syncs, fp |-> built[t], status |-> "ready"] \in Row
    BY <1>2 DEF BuildDone, Row, Shape, TypeOK
  <2>2. QED
    BY <1>2, <2>1, PromoteOne DEF BuildDone, Shape, TypeOK
<1>3. ASSUME \A t \in Tables : Current(t)' \subseteq Current(t) PROVE OneCurrent'
  BY <1>3 DEF OneCurrent
<1>4. CASE Retire
  BY <1>3, <1>4 DEF Retire, Current
<1>5. CASE Invalidate
  <2>1. \A t \in Tables : Current(t)' \subseteq Current(t)
    BY <1>5 DEF Invalidate, Current, Shape, TypeOK, Row
  <2>2. QED
    BY <1>3, <2>1
<1>6. CASE UNCHANGED rows
  BY <1>3, <1>6 DEF Current
<1>7. QED
  BY <1>1, <1>2, <1>4, <1>5, <1>6 DEF Next, SyncStep, vars, Begin, Choose, Plan, BuildStart,
     BuildFail, Stopped, EndBuild, Validate, CheckDesign, Pin, Settle, Edit, RefreshState,
     RequestStop, Raise, Crash, Reap

\* "atomic pointer swap": a table has at most one current snapshot.
THEOREM OneCurrentAlways == Spec => []OneCurrent
<1>1. Init => OneCurrent
  BY DEF Init, OneCurrent, Current
<1>2. QED
  BY ShapeInit, ShapeStep, OneCurrentStep, <1>1, PTL DEF Spec
-----------------------------------------------------------------------------
LEMMA JudgedStep ==
  Shape /\ Unjudged /\ RefusedNotServed /\ [Next]_vars => (Unjudged /\ RefusedNotServed)'
<1> SUFFICES ASSUME Shape, Unjudged, RefusedNotServed, [Next]_vars
             PROVE  (Unjudged /\ RefusedNotServed)'
  OBVIOUS
<1> USE DEF Shape, TypeOK, Unjudged, RefusedNotServed, Building, judgement, shown, sync, builds,
            bounds
<1>0. /\ MaxSyncs \in Nat /\ syncs \in Nat /\ refused \subseteq Nat /\ succeeded \subseteq Nat
      /\ published \in Nat
  BY BoundsAssumption
<1>1. CASE Begin
  BY <1>0, <1>1 DEF Begin
<1>2. CASE Choose
  BY <1>0, <1>2 DEF Choose, Resumable
<1>3. ASSUME pc \in Building, pc' \in Building,
             UNCHANGED <<judgement, published, gen, syncs>>
      PROVE  (Unjudged /\ RefusedNotServed)'
  BY <1>3
<1>4. ASSUME pc \in Building, pc' = "settle", UNCHANGED <<judgement, published, gen, syncs>>
      PROVE  (Unjudged /\ RefusedNotServed)'
  BY <1>4
<1>5. CASE Plan \/ EndBuild \/ Retire \/ Validate \/ CheckDesign
  BY <1>3, <1>4, <1>5 DEF Plan, EndBuild, BuildsOver, Retire, Validate, CheckDesign, Refuse
<1>6. ASSUME NEW t \in Tables, BuildStart(t) \/ Reuse(t) \/ BuildDone(t) \/ BuildFail(t)
      PROVE  (Unjudged /\ RefusedNotServed)'
  BY <1>3, <1>6 DEF BuildStart, Reuse, BuildDone, BuildFail
<1>7. CASE Pin
  BY <1>0, <1>7 DEF Pin
<1>8. CASE Settle
  BY <1>0, <1>8 DEF Settle, Gone
<1>9. CASE Stopped \/ Raise \/ Crash
  BY <1>0, <1>9 DEF Stopped, Raise, Crash, Gone
<1>10. CASE UNCHANGED <<judgement, published, gen, syncs, pc>>
  BY <1>10
<1>11. QED
  BY <1>1, <1>2, <1>5, <1>6, <1>7, <1>8, <1>9, <1>10 DEF Next, SyncStep, vars, Edit, Invalidate,
     RefreshState, RequestStop, Reap

LEMMA JudgedAlways == Spec => [](Shape /\ Unjudged /\ RefusedNotServed)
<1>1. Init => Unjudged /\ RefusedNotServed
  BY DEF Init, Unjudged, RefusedNotServed, Building
<1>2. QED
  BY ShapeInit, ShapeStep, JudgedStep, <1>1, PTL DEF Spec

\* A generation that the gate refused is never what readers are served.
THEOREM RefusedNotServedAlways == Spec => []RefusedNotServed
BY JudgedAlways, PTL

LEMMA PinStep ==
  Shape /\ Unjudged /\ [Next]_vars
    => [published' # published => published' \notin refused \cup succeeded]_vars
<1> SUFFICES ASSUME Shape, Unjudged, [Next]_vars, published' # published
             PROVE  published' \notin refused \cup succeeded
  BY DEF vars
<1>1. CASE Pin
  BY <1>1 DEF Pin, Unjudged, Building
<1>2. CASE UNCHANGED published
  BY <1>2
<1>3. QED
  BY <1>1, <1>2 DEF Next, SyncStep, vars, shown, Begin, Choose, Plan, BuildStart, Reuse, BuildDone,
     BuildFail, Stopped, EndBuild, Retire, Validate, CheckDesign, Refuse, Settle, Edit, Invalidate,
     RefreshState, RequestStop, Raise, Crash, Reap

\* "Only an unclaimed (crashed) or `stopped` generation is resumable": readers
\* are moved only to a generation no run was recorded for.
THEOREM PinnedUnjudgedAlways == Spec => PinnedUnjudged
BY JudgedAlways, PinStep, PTL DEF Spec, PinnedUnjudged
-----------------------------------------------------------------------------
\* Rows are doomed only while the collector runs, and none of them is of the
\* generation that is served.
Spared ==
  /\ doomed # {} => pc = "retire"
  /\ \A d \in doomed : d.gen # published

LEMMA SparedStep == Spared /\ [Next]_vars => Spared'
<1> SUFFICES ASSUME Spared, [Next]_vars PROVE Spared'
  OBVIOUS
<1>1. CASE EndBuild
  BY <1>1 DEF EndBuild, BuildsOver, Spared, Expired, KeptGenerations, shown
<1>2. CASE doomed' = {}
  BY <1>2 DEF Spared
<1>3. CASE UNCHANGED <<doomed, pc, published>>
  BY <1>3 DEF Spared
<1>4. CASE pc # "retire" /\ UNCHANGED doomed
  BY <1>4 DEF Spared
<1>5. QED
  BY <1>1, <1>2, <1>3, <1>4 DEF Next, SyncStep, vars, sync, builds, shown, Begin, Choose, Plan,
     BuildStart, Reuse, BuildDone, BuildFail, Stopped, Retire, Validate, CheckDesign, Pin, Settle,
     Edit, Invalidate, RefreshState, RequestStop, Raise, Crash, Reap, Gone

LEMMA SparedAlways == Spec => []Spared
<1>1. Init => Spared
  BY DEF Init, Spared
<1>2. QED
  BY SparedStep, <1>1, PTL DEF Spec

\* The rows that stay when the collector commits.
Kept == {r \in rows : \A d \in doomed : Key(d) # Key(r)}

\* Rows without a table are those the collector is about to retire; a table
\* about to be shared is there, and the generation that passed the gate covers
\* the dataset.
Backed ==
  /\ \A r \in Kept : Ref(r) \in physical
  /\ \A t \in Tables :
       pc = "building" /\ work[t] = "busy" /\ basis[t] # 0 => <<t, basis[t]>> \in physical
  /\ published # 0 => Covered(published)
  /\ pc \in {"check", "pin"} => Covered(gen)

\* A promotion keeps the coverage of every generation, and what its rows
\* refer to are the tables of the rows before and the one of the new row.
LEMMA PromoteKeeps ==
  ASSUME rows \subseteq Row, NEW new \in Row, new.status = "ready", Promote(new)
  PROVE  /\ \A g : Covered(g) => Covered(g)'
         /\ \A r \in rows' : r = new \/ \E q \in rows : Key(q) = Key(r)
<1>1. \A r \in Row : [r EXCEPT !.status = "superseded"].gen = r.gen
                     /\ [r EXCEPT !.status = "superseded"].tab = r.tab
                     /\ [r EXCEPT !.status = "superseded"].at = r.at
  BY DEF Row
<1>2. \A r \in rows' : r = new \/ \E q \in rows : Key(q) = Key(r)
  <2> SUFFICES ASSUME NEW r \in rows', r # new PROVE \E q \in rows : Key(q) = Key(r)
    OBVIOUS
  <2>1. CASE r \in rows
    BY <2>1
  <2>2. CASE \E q \in Current(new.tab) : r = [q EXCEPT !.status = "superseded"]
    BY <1>1, <2>2 DEF Current, Key
  <2>3. QED
    BY <2>1, <2>2 DEF Promote
<1>3. \A q \in rows : \E r \in rows' : r.gen = q.gen /\ r.tab = q.tab
  <2> SUFFICES ASSUME NEW q \in rows PROVE \E r \in rows' : r.gen = q.gen /\ r.tab = q.tab
    OBVIOUS
  <2>1. CASE q \in Current(new.tab)
    <3>1. [q EXCEPT !.status = "superseded"] \in rows'
      BY <2>1 DEF Promote
    <3>2. QED
      BY <1>1, <3>1
  <2>2. CASE q \notin Current(new.tab)
    BY <2>2 DEF Promote
  <2>3. QED
    BY <2>1, <2>2
<1>4. ASSUME NEW g, Covered(g) PROVE Covered(g)'
  <2> SUFFICES ASSUME NEW t \in Tables PROVE \E r \in rows' : r.tab = t /\ r.gen = g
    BY DEF Covered, Of
  <2>1. PICK q \in rows : q.tab = t /\ q.gen = g
    BY <1>4 DEF Covered, Of
  <2>2. QED
    BY <1>3, <2>1
<1>5. QED
  BY <1>2, <1>4

\* While a sync builds, a promoted row whose table is there leaves all backed.
LEMMA PromoteBacked ==
  ASSUME Shape, Spared, Backed, pc = "building", UNCHANGED <<pc, published, gen, doomed, basis>>,
         physical \subseteq physical',
         NEW new \in Row, new.status = "ready", Promote(new), Ref(new) \in physical',
         \A t \in Tables : work'[t] = "busy" => work[t] = "busy"
  PROVE  Backed'
<1>1. doomed = {} /\ doomed' = {}
  BY DEF Spared
<1>2. rows \subseteq Row
  BY DEF Shape, TypeOK
<1>3. \A r \in Kept' : Ref(r) \in physical'
  <2> SUFFICES ASSUME NEW r \in rows' PROVE Ref(r) \in physical'
    BY DEF Kept
  <2>1. r = new \/ \E q \in rows : Key(q) = Key(r)
    BY <1>2, PromoteKeeps
  <2>2. ASSUME NEW q \in rows, Key(q) = Key(r) PROVE Ref(r) \in physical'
    BY <1>1, <2>2 DEF Backed, Kept, Key, Ref
  <2>3. QED
    BY <2>1, <2>2
<1>4. published' # 0 => Covered(published)'
  BY <1>2, PromoteKeeps DEF Backed, Covered
<1>5. QED
  BY <1>1, <1>3, <1>4 DEF Backed

LEMMA BackedStep ==
  ASSUME "retire" \notin CrashesDuring \cup RaisesDuring
  PROVE  Shape /\ Spared /\ Backed /\ [Next]_vars => Backed'
<1> SUFFICES ASSUME Shape, Spared, Backed, [Next]_vars PROVE Backed'
  OBVIOUS
<1>0. rows \subseteq Row
  BY DEF Shape, TypeOK
<1>1. ASSUME UNCHANGED <<rows, physical, published>>, doomed' = {}, doomed = {},
             pc' \notin {"building", "check", "pin"}
      PROVE  Backed'
  BY <1>1 DEF Backed, Kept, Covered, Of
<1>2. ASSUME pc # "retire" PROVE doomed = {}
  BY <1>2 DEF Spared
<1>3. CASE Begin \/ Choose
  BY <1>1, <1>2, <1>3 DEF Begin, Choose, shown
<1>4. CASE Stopped \/ Settle \/ Raise
  BY <1>1, <1>2, <1>4 DEF Stopped, Settle, Raise, Gone, BuildsOver, shown
<1>5. CASE Crash
  BY <1>1, <1>2, <1>5 DEF Crash, Gone, shown
<1>6. CASE Plan
  BY <1>2, <1>6 DEF Plan, Backed, Kept, Covered, Of, shown
<1>7. ASSUME NEW t \in Tables, BuildStart(t) PROVE Backed'
  <2>1. UNCHANGED <<rows, physical, published, pc, doomed, gen>> /\ doomed = {}
    BY <1>2, <1>7 DEF BuildStart, shown
  <2>2. basis'[t] # 0 => <<t, basis'[t]>> \in physical'
    <3> DEFINE same == {r \in Current(t) : r.fp = design[t] /\ r.gen # gen}
    <3>1. basis'[t] = IF same = {} THEN 0 ELSE (CHOOSE r \in same : TRUE).at
      BY <1>7 DEF BuildStart, Shape, TypeOK
    <3>2. same # {} => (CHOOSE r \in same : TRUE) \in same
      OBVIOUS
    <3>3. \A r \in same : <<t, r.at>> \in physical
      BY <2>1 DEF Backed, Kept, Current, Ref
    <3>4. QED
      BY <2>1, <3>1, <3>2, <3>3
  <2>3. \A u \in Tables : u # t => work'[u] = work[u] /\ basis'[u] = basis[u]
    BY <1>7 DEF BuildStart, Shape, TypeOK
  <2>4. QED
    BY <2>1, <2>2, <2>3 DEF Backed, Kept, Covered, Of
<1>8. ASSUME NEW t \in Tables, Reuse(t) PROVE Backed'
  <2> DEFINE new == [tab |-> t, gen |-> gen, at |-> basis[t], fp |-> built[t],
                     status |-> "ready"]
  <2>1. new \in Row /\ Ref(new) \in physical /\ Promote(new)
    BY <1>8 DEF Reuse, Row, Shape, TypeOK, Backed, Ref
  <2>2. \A u \in Tables : work'[u] = "busy" => work[u] = "busy"
    BY <1>8 DEF Reuse, Shape, TypeOK
  <2>3. QED
    BY <1>8, <2>1, <2>2, PromoteBacked DEF Reuse, shown
<1>9. ASSUME NEW t \in Tables, BuildDone(t) PROVE Backed'
  <2> DEFINE new == [tab |-> t, gen |-> gen, at |-> syncs, fp |-> built[t],
                     status |-> "ready"]
  <2>1. new \in Row /\ Ref(new) \in physical' /\ Promote(new)
    BY <1>9 DEF BuildDone, Row, Shape, TypeOK, Ref
  <2>2. \A u \in Tables : work'[u] = "busy" => work[u] = "busy"
    BY <1>9 DEF BuildDone, Shape, TypeOK
  <2>3. QED
    BY <1>9, <2>1, <2>2, PromoteBacked DEF BuildDone, shown
<1>10. ASSUME NEW t \in Tables, BuildFail(t) PROVE Backed'
  <2>1. \A u \in Tables : work'[u] = "busy" => work[u] = "busy"
    BY <1>10 DEF BuildFail, Shape, TypeOK
  <2>2. QED
    BY <1>10, <2>1 DEF BuildFail, Backed, Kept, Covered, Of, shown
<1>11. CASE EndBuild
  <2>1. doomed = {} /\ UNCHANGED <<rows, published>> /\ pc' \in {"retire", "validate"}
    BY <1>2, <1>11 DEF EndBuild, BuildsOver, shown
  <2>2. CASE pc' = "validate" /\ UNCHANGED <<physical, doomed>>
    BY <2>1, <2>2 DEF Backed, Kept, Covered, Of
  <2>3. ASSUME NEW old \in 0..syncs, doomed' = Expired(old), pc' = "retire",
               physical' = physical \ Droppable(Expired(old))
        PROVE  Backed'
    <3>2. ASSUME NEW r \in Kept' PROVE Ref(r) \in physical'
      <4>1. r \in rows /\ r \notin Expired(old)
        BY <2>1, <2>3, <3>2 DEF Kept
      <4>2. Ref(r) \in physical
        BY <2>1, <4>1 DEF Backed, Kept
      <4>3. QED
        BY <2>3, <4>1, <4>2 DEF Droppable
    <3>3. QED
      BY <2>1, <2>3, <3>2 DEF Backed, Covered, Of
  <2>4. QED
    BY <1>11, <2>2, <2>3 DEF EndBuild
<1>12. CASE Retire
  <2>1. rows' = Kept /\ doomed' = {} /\ UNCHANGED <<physical, published>> /\ pc' = "validate"
    BY <1>12 DEF Retire, Kept, shown
  <2>2. published' # 0 => Covered(published)'
    <3> SUFFICES ASSUME published # 0, NEW t \in Tables
                 PROVE  \E r \in Kept : r.tab = t /\ r.gen = published
      BY <2>1 DEF Covered, Of
    <3>1. PICK r \in rows : r.tab = t /\ r.gen = published
      BY DEF Backed, Covered, Of
    <3>2. QED
      BY <3>1 DEF Kept, Key, Spared
  <2>3. QED
    BY <2>1, <2>2 DEF Backed, Kept
<1>13. CASE Validate \/ CheckDesign
  BY <1>2, <1>13 DEF Validate, CheckDesign, Refuse, Backed, Kept, Covered, Of, shown
<1>14. CASE Pin
  BY <1>2, <1>14 DEF Pin, Backed, Kept, Covered, Of
<1>15. CASE Invalidate
  <2>1. \A r \in Row : LET s == IF r.status = "ready" /\ r.fp # design[r.tab]
                                  THEN [r EXCEPT !.status = "superseded"] ELSE r
                       IN s.tab = r.tab /\ s.gen = r.gen /\ s.at = r.at
    BY DEF Row
  <2>2. \A s \in rows' : \E r \in rows : s.tab = r.tab /\ s.gen = r.gen /\ s.at = r.at
    BY <1>0, <1>15, <2>1 DEF Invalidate
  <2>3. \A r \in rows : \E s \in rows' : s.tab = r.tab /\ s.gen = r.gen
    BY <1>0, <1>15, <2>1 DEF Invalidate
  <2>4. \A g : Covered(g) => Covered(g)'
    <3> SUFFICES ASSUME NEW g, Covered(g), NEW t \in Tables
                 PROVE  \E s \in rows' : s.tab = t /\ s.gen = g
      BY DEF Covered, Of
    <3>1. PICK r \in rows : r.tab = t /\ r.gen = g
      BY DEF Covered, Of
    <3>2. QED
      BY <2>3, <3>1
  <2>5. UNCHANGED <<physical, doomed, pc, published, gen, work, basis>>
    BY <1>15 DEF Invalidate, shown, sync, builds
  <2>6. \A s \in Kept' : Ref(s) \in physical'
    <3> SUFFICES ASSUME NEW s \in Kept' PROVE Ref(s) \in physical
      BY <2>5
    <3>1. PICK r \in rows : s.tab = r.tab /\ s.gen = r.gen /\ s.at = r.at
      BY <2>2 DEF Kept
    <3>2. r \in Kept
      BY <2>5, <3>1 DEF Kept, Key
    <3>3. QED
      BY <3>1, <3>2 DEF Backed, Ref
  <2>7. (published' # 0 => Covered(published)') /\ (pc' \in {"check", "pin"} => Covered(gen)')
    BY <2>4, <2>5 DEF Backed, Covered
  <2>8. QED
    BY <2>5, <2>6, <2>7 DEF Backed
<1>16. ASSUME UNCHANGED <<rows, physical, published, pc, doomed, gen, work, basis>> PROVE Backed'
  BY <1>16 DEF Backed, Kept, Covered, Of
<1>17. QED
  BY <1>3, <1>4, <1>5, <1>6, <1>7, <1>8, <1>9, <1>10, <1>11, <1>12, <1>13, <1>14, <1>15, <1>16
     DEF Next, SyncStep, vars, sync, builds, shown, Edit, RefreshState, RequestStop, Reap

\* What is pinned can be served, unless a crash or an exception interrupts the
\* collector between its DROPs and its commit (gc_dataset_snapshots is not
\* atomic).
THEOREM PublishedServableAlways ==
  ASSUME "retire" \notin CrashesDuring \cup RaisesDuring
  PROVE  Spec => []PublishedServable
<1>1. Init => Backed
  BY DEF Init, Backed, Kept
<1>2. Spared /\ Backed => PublishedServable
  <2> SUFFICES ASSUME Spared, Backed, published # 0, NEW r \in rows, r.gen = published
               PROVE  Ref(r) \in physical
    BY DEF Backed, PublishedServable
  <2>1. r \in Kept
    BY DEF Spared, Kept, Key
  <2>2. QED
    BY <2>1 DEF Backed
<1>3. Spec => [][Next]_vars /\ Init
  BY DEF Spec
<1>4. Shape /\ Spared /\ Backed /\ [Next]_vars => Backed'
  BY BackedStep
<1>5. QED
  BY ShapeInit, ShapeStep, SparedAlways, <1>1, <1>2, <1>3, <1>4, PTL
-----------------------------------------------------------------------------
\* A promotion of a row of another generation leaves what g refers to.
LEMMA PromoteElsewhere ==
  ASSUME rows \subseteq Row, NEW new \in Row, Promote(new), NEW g, new.gen # g
  PROVE  {Ref(r) : r \in {q \in rows' : q.gen = g}} = {Ref(r) : r \in {q \in rows : q.gen = g}}
<1>1. \A r \in Row : LET s == [r EXCEPT !.status = "superseded"]
                     IN s.gen = r.gen /\ Ref(s) = Ref(r)
  BY DEF Row, Ref
<1>2. ASSUME NEW r \in rows', r.gen = g PROVE \E q \in rows : q.gen = g /\ Ref(q) = Ref(r)
  BY <1>1, <1>2 DEF Promote, Current
<1>3. ASSUME NEW q \in rows, q.gen = g PROVE \E r \in rows' : r.gen = g /\ Ref(r) = Ref(q)
  <2>1. CASE q \in Current(new.tab)
    <3>1. [q EXCEPT !.status = "superseded"] \in rows'
      BY <2>1 DEF Promote
    <3>2. QED
      BY <1>1, <1>3, <3>1
  <2>2. CASE q \notin Current(new.tab)
    BY <1>3, <2>2 DEF Promote
  <2>3. QED
    BY <2>1, <2>2
<1>4. QED
  BY <1>2, <1>3

LEMMA FrozenStep ==
  Shape /\ Unjudged /\ Spared /\ [Next]_vars
    => [published' = published /\ published # 0
          => {Ref(r) : r \in {q \in rows' : q.gen = published}}
               = {Ref(r) : r \in {q \in rows : q.gen = published}}]_vars
<1> DEFINE Same == {Ref(r) : r \in {q \in rows' : q.gen = published}}
                     = {Ref(r) : r \in {q \in rows : q.gen = published}}
<1> SUFFICES ASSUME Shape, Unjudged, Spared, [Next]_vars PROVE Same
  BY DEF vars
<1>0. rows \subseteq Row
  BY DEF Shape, TypeOK
<1>1. ASSUME NEW t \in Tables, Reuse(t) PROVE Same
  <2> DEFINE new == [tab |-> t, gen |-> gen, at |-> basis[t], fp |-> built[t],
                     status |-> "ready"]
  <2>1. new \in Row /\ new.gen # published /\ Promote(new)
    BY <1>1 DEF Reuse, Row, Shape, TypeOK, Unjudged, Building
  <2>2. QED
    BY <1>0, <2>1, PromoteElsewhere
<1>2. ASSUME NEW t \in Tables, BuildDone(t) PROVE Same
  <2> DEFINE new == [tab |-> t, gen |-> gen, at |-> syncs, fp |-> built[t],
                     status |-> "ready"]
  <2>1. new \in Row /\ new.gen # published /\ Promote(new)
    BY <1>2 DEF BuildDone, Row, Shape, TypeOK, Unjudged, Building
  <2>2. QED
    BY <1>0, <2>1, PromoteElsewhere
<1>3. CASE Retire
  <2>1. {q \in rows' : q.gen = published} = {q \in rows : q.gen = published}
    BY <1>3 DEF Retire, Spared, Key
  <2>2. QED
    BY <2>1
<1>4. CASE Invalidate
  <2> DEFINE Turned(r) == IF r.status = "ready" /\ r.fp # design[r.tab]
                            THEN [r EXCEPT !.status = "superseded"] ELSE r
  <2>1. rows' = {Turned(r) : r \in rows}
    BY <1>4 DEF Invalidate
  <2>2. \A r \in rows : Turned(r).gen = r.gen /\ Ref(Turned(r)) = Ref(r)
    BY <1>0 DEF Row, Ref
  <2> HIDE DEF Turned
  <2>3. QED
    BY <2>1, <2>2
<1>5. CASE UNCHANGED rows
  BY <1>5
<1>6. QED
  BY <1>1, <1>2, <1>3, <1>4, <1>5 DEF Next, SyncStep, vars, Begin, Choose, Plan, BuildStart,
     BuildFail, Stopped, EndBuild, Validate, CheckDesign, Pin, Settle, Edit, RefreshState,
     RequestStop, Raise, Crash, Reap

\* Nothing is added to or taken from what readers are served, by a build, a
\* collector or an edit: only a pin changes it.
THEOREM PublishedFrozenAlways == Spec => PublishedFrozen
BY JudgedAlways, SparedAlways, FrozenStep, PTL DEF Spec, PublishedFrozen
-----------------------------------------------------------------------------
\* Without reverted edits the design only grows: what a sync locked, what its
\* builds read and what its own generation holds lie between the lock and now.
Followed ==
  /\ \A r \in rows : r.gen <= syncs /\ (pc = "choose" => r.gen < syncs)
  /\ pc # "idle" => \A t \in Tables : locked[t] <= design[t]
  /\ pc = "building" => \A t \in Tables :
       work[t] = "busy" => locked[t] <= built[t] /\ built[t] <= design[t]
  /\ pc # "idle" => \A r \in rows :
       r.gen = syncs => locked[r.tab] <= r.fp /\ r.fp <= design[r.tab]
  /\ pc = "pin" => locked = design

\* A promoted row that lies between them keeps it so.
LEMMA PromoteFollowed ==
  ASSUME Shape, Followed, pc = "building", UNCHANGED <<pc, locked, design, built, syncs>>,
         NEW new \in Row, Promote(new), new.gen <= syncs,
         locked[new.tab] <= new.fp, new.fp <= design[new.tab],
         \A t \in Tables : work'[t] = "busy" => work[t] = "busy"
  PROVE  Followed'
<1>1. \A r \in Row : LET s == [r EXCEPT !.status = "superseded"]
                     IN s.gen = r.gen /\ s.tab = r.tab /\ s.fp = r.fp
  BY DEF Row
<1>2. ASSUME NEW r \in rows'
      PROVE  r = new \/ \E q \in rows : q.gen = r.gen /\ q.tab = r.tab /\ q.fp = r.fp
  <2>1. CASE r \in rows
    BY <2>1
  <2>2. CASE \E q \in Current(new.tab) : r = [q EXCEPT !.status = "superseded"]
    BY <1>1, <2>2 DEF Current, Shape, TypeOK
  <2>3. QED
    BY <1>2, <2>1, <2>2 DEF Promote
<1>3. \A r \in rows' : r.gen <= syncs
  BY <1>2 DEF Followed
<1>4. \A r \in rows' : r.gen = syncs => locked[r.tab] <= r.fp /\ r.fp <= design[r.tab]
  BY <1>2 DEF Followed
<1>5. QED
  BY <1>3, <1>4 DEF Followed

LEMMA FollowedStep ==
  ASSUME ~Reverts, "pin" \notin EditsDuring
  PROVE  Shape /\ Followed /\ [Next]_vars => Followed'
<1> SUFFICES ASSUME Shape, Followed, [Next]_vars PROVE Followed'
  OBVIOUS
<1>0. /\ syncs \in Nat /\ gen \in Nat
      /\ \A r \in rows : r.gen \in Nat /\ r.fp \in Nat /\ r.tab \in Tables
      /\ \A t \in Tables : design[t] \in Nat /\ locked[t] \in Nat /\ built[t] \in Nat
  <2>1. MaxSyncs \in Nat /\ \A d \in Designs : d \in Nat
    BY BoundsAssumption, DesignsAssumption
  <2>2. syncs \in Nat /\ gen \in Nat
    BY <2>1 DEF Shape, TypeOK
  <2>3. \A r \in rows : r.gen \in Nat /\ r.fp \in Nat /\ r.tab \in Tables
    BY <2>1 DEF Shape, TypeOK, Row
  <2>4. \A t \in Tables : design[t] \in Nat /\ locked[t] \in Nat /\ built[t] \in Nat
    BY <2>1 DEF Shape, TypeOK
  <2>5. QED
    BY <2>2, <2>3, <2>4
<1>1. CASE Begin
  BY <1>0, <1>1 DEF Begin, Followed
<1>2. CASE Choose
  BY <1>0, <1>2 DEF Choose, Followed, shown, bounds
<1>3. CASE Plan
  <2>1. \A t \in Tables : work'[t] # "busy"
    BY <1>3 DEF Plan
  <2>2. QED
    BY <1>0, <1>3, <2>1 DEF Plan, Followed, shown, bounds
<1>4. ASSUME NEW t \in Tables, BuildStart(t) PROVE Followed'
  <2>1. built'[t] = design[t] /\ \A u \in Tables : u # t => work'[u] = work[u] /\ built'[u] = built[u]
    BY <1>4 DEF BuildStart, Shape, TypeOK
  <2>2. UNCHANGED <<design, rows, locked, syncs, pc>> /\ pc = "building"
    BY <1>4 DEF BuildStart, shown, bounds
  <2>3. QED
    BY <1>0, <2>1, <2>2 DEF Followed
<1>5. ASSUME NEW t \in Tables, Reuse(t) PROVE Followed'
  <2> DEFINE new == [tab |-> t, gen |-> gen, at |-> basis[t], fp |-> built[t],
                     status |-> "ready"]
  <2>1. new \in Row /\ new.gen <= syncs /\ Promote(new)
    BY <1>5 DEF Reuse, Row, Shape, TypeOK
  <2>2. locked[t] <= built[t] /\ built[t] <= design[t]
    BY <1>5 DEF Reuse, Followed
  <2>3. \A u \in Tables : work'[u] = "busy" => work[u] = "busy"
    BY <1>5 DEF Reuse, Shape, TypeOK
  <2>4. QED
    BY <1>5, <2>1, <2>2, <2>3, PromoteFollowed DEF Reuse, bounds
<1>6. ASSUME NEW t \in Tables, BuildDone(t) PROVE Followed'
  <2> DEFINE new == [tab |-> t, gen |-> gen, at |-> syncs, fp |-> built[t],
                     status |-> "ready"]
  <2>1. new \in Row /\ new.gen <= syncs /\ Promote(new)
    BY <1>6 DEF BuildDone, Row, Shape, TypeOK
  <2>2. locked[t] <= built[t] /\ built[t] <= design[t]
    BY <1>6 DEF BuildDone, Followed
  <2>3. \A u \in Tables : work'[u] = "busy" => work[u] = "busy"
    BY <1>6 DEF BuildDone, Shape, TypeOK
  <2>4. QED
    BY <1>6, <2>1, <2>2, <2>3, PromoteFollowed DEF BuildDone, bounds
<1>7. ASSUME NEW t \in Tables, BuildFail(t) PROVE Followed'
  <2>1. \A u \in Tables : work'[u] = "busy" => work[u] = "busy"
    BY <1>7 DEF BuildFail, Shape, TypeOK
  <2>2. QED
    BY <1>7, <2>1 DEF BuildFail, Followed, bounds
<1>8. CASE Stopped \/ Settle \/ Raise \/ Crash
  BY <1>8 DEF Stopped, Settle, Raise, Crash, Gone, Followed, bounds
<1>9. CASE EndBuild \/ Validate \/ CheckDesign \/ Pin
  BY <1>9 DEF EndBuild, BuildsOver, Validate, CheckDesign, Pin, Refuse, Followed, bounds
<1>10. CASE Retire
  BY <1>10 DEF Retire, Followed, bounds
<1>11. ASSUME NEW t \in Tables, Edit(t) PROVE Followed'
  <2>1. \A u \in Tables : design[u] <= design'[u]
    <3>1. PICK d \in Designs : d > design[t] /\ design' = [design EXCEPT ![t] = d]
      BY <1>11 DEF Edit
    <3>2. d \in Nat
      BY DesignsAssumption
    <3>3. \A u \in Tables : design'[u] = IF u = t THEN d ELSE design[u]
      BY <3>1 DEF Shape, TypeOK
    <3>4. QED
      BY <1>0, <3>1, <3>2, <3>3
  <2>2. \A u \in Tables : design'[u] \in Nat
    BY <1>0, <1>11, DesignsAssumption DEF Edit, Shape, TypeOK
  <2>3. pc # "pin" /\ UNCHANGED <<rows, locked, built, work, syncs, pc>>
    BY <1>11 DEF Edit, sync, builds
  <2>4. QED
    BY <1>0, <2>1, <2>2, <2>3 DEF Followed
<1>12. CASE Invalidate
  <2>1. \A s \in rows' : \E r \in rows : s.gen = r.gen /\ s.tab = r.tab /\ s.fp = r.fp
    BY <1>12 DEF Invalidate, Shape, TypeOK, Row
  <2>2. UNCHANGED <<design, locked, built, work, syncs, pc>>
    BY <1>12 DEF Invalidate, sync, builds, bounds
  <2>3. QED
    BY <2>1, <2>2 DEF Followed
<1>13. ASSUME UNCHANGED <<design, rows, locked, built, work, syncs, pc>> PROVE Followed'
  BY <1>13 DEF Followed
<1>14. QED
  BY <1>1, <1>2, <1>3, <1>4, <1>5, <1>6, <1>7, <1>8, <1>9, <1>10, <1>11, <1>12, <1>13
     DEF Next, SyncStep, vars, sync, builds, bounds, RefreshState, RequestStop, Reap

LEMMA DesignedStep ==
  Shape /\ Followed /\ [Next]_vars
    => [published' # published /\ gen = syncs
          => \A r \in rows' : r.gen = published' => r.fp = pubDesign'[r.tab]]_vars
<1> SUFFICES ASSUME Shape, Followed, [Next]_vars, published' # published, gen = syncs,
                    NEW r \in rows', r.gen = published'
             PROVE  r.fp = pubDesign'[r.tab]
  BY DEF vars
<1>1. CASE Pin
  <2>1. r \in rows /\ r.gen = syncs /\ pubDesign' = design /\ locked = design
    BY <1>1 DEF Pin, Followed
  <2>2. r.fp \in Nat /\ design[r.tab] \in Nat
    BY <2>1, DesignsAssumption DEF Shape, TypeOK, Row
  <2>3. design[r.tab] <= r.fp /\ r.fp <= design[r.tab]
    BY <1>1, <2>1 DEF Pin, Followed
  <2>4. QED
    BY <2>1, <2>2, <2>3
<1>2. CASE UNCHANGED published
  BY <1>2
<1>3. QED
  BY <1>1, <1>2 DEF Next, SyncStep, vars, shown, Begin, Choose, Plan, BuildStart, Reuse, BuildDone,
     BuildFail, Stopped, EndBuild, Retire, Validate, CheckDesign, Refuse, Settle, Edit, Invalidate,
     RefreshState, RequestStop, Raise, Crash, Reap

\* A generation built from beginning to end by one sync is pinned with the
\* design it was built from, if no edit restores an earlier design during the
\* sync and none lands between the comparison and the pin.
THEOREM PinnedAsDesignedAlways ==
  ASSUME ~Reverts, "pin" \notin EditsDuring
  PROVE  Spec => PinnedAsDesigned
<1>1. Init => Followed
  BY DEF Init, Followed
<1>2. Shape /\ Followed /\ [Next]_vars => Followed'
  BY FollowedStep
<1>3. Spec => Init /\ [][Next]_vars
  BY DEF Spec
<1>4. QED
  BY ShapeInit, ShapeStep, DesignedStep, <1>1, <1>2, <1>3, PTL DEF PinnedAsDesigned
-----------------------------------------------------------------------------
(* The cached report                                                       *)

\* While nothing was overrun, a builder's claim is there.
Claimed == Builders # {} => claimed \/ overrun

\* Whatever is older than what is visible was being built when that became so.
LateBuilds == \A v \in Views : loaded[v] # None /\ loaded[v] < visible => v \in raced
LateEntry == cache # None /\ cache.version < visible => cache.raced
PastViews == \A v \in Views : must[v] <= visible

CacheInv == CacheTypeOK /\ OneBuild /\ Claimed /\ LateBuilds /\ LateEntry /\ PastViews /\ NextViewNew
-----------------------------------------------------------------------------
LEMMA CacheTypeInit == CacheInit => CacheTypeOK
<1> SUFFICES ASSUME CacheInit PROVE CacheTypeOK
  OBVIOUS
<1>1. claimed \in BOOLEAN /\ overrun \in BOOLEAN
  BY DEF CacheInit
<1>2. QED
  BY <1>1, CacheAssumption DEF CacheInit, CacheTypeOK, Versions

LEMMA MadeType ==
  ASSUME CacheTypeOK, NEW v \in Views, loaded[v] # None
  PROVE  Made(v) \in Structure
BY CacheAssumption DEF CacheTypeOK, Made, Structure, Versions

LEMMA CacheTypeNext == CacheTypeOK /\ [CacheNext]_cacheVars => CacheTypeOK'
<1> SUFFICES ASSUME CacheTypeOK, [CacheNext]_cacheVars PROVE CacheTypeOK'
  OBVIOUS
<1> USE CacheAssumption DEF CacheTypeOK, Versions, Go, Lead, Serve
<1> HIDE DEF Structure
<1>1. ASSUME NEW v \in Views, Look(v) \/ Claim(v) PROVE CacheTypeOK'
  <2>1. claimed' \in BOOLEAN
    BY <1>1 DEF Look, Claim
  <2>2. CASE Look(v)
    BY <2>2 DEF Look, Missed, Mishap
  <2>3. CASE Claim(v)
    BY <2>1, <2>3 DEF Claim
  <2>4. QED
    BY <1>1, <2>2, <2>3
<1>2. ASSUME NEW v \in Views, ClaimFails(v) \/ GiveUp(v) PROVE CacheTypeOK'
  <2>1. overrun' \in BOOLEAN
    BY <1>2 DEF ClaimFails, GiveUp
  <2>2. QED
    BY <1>2, <2>1 DEF ClaimFails, GiveUp, Mishap
<1>3. ASSUME NEW v \in Views, Poll(v) PROVE CacheTypeOK'
  BY <1>3 DEF Poll, Missed, Mishap
<1>4. ASSUME NEW v \in Views, Load(v) PROVE CacheTypeOK'
  BY <1>4 DEF Load
<1>5. ASSUME NEW v \in Views, Store(v) PROVE CacheTypeOK'
  <2>1. Made(v) \in Structure
    BY <1>5, MadeType DEF Store
  <2>2. QED
    BY <1>5, <2>1 DEF Store
<1>6. ASSUME NEW v \in Views, End(v) PROVE CacheTypeOK'
  <2>1. Made(v) \in Structure
    BY <1>6, MadeType DEF End
  <2>2. overrun' \in BOOLEAN /\ claimed' \in BOOLEAN
    BY <1>6 DEF End
  <2>3. QED
    BY <1>6, <2>1, <2>2 DEF End
<1>7. ASSUME NEW v \in Views, BuildFails(v) PROVE CacheTypeOK'
  <2>1. overrun' \in BOOLEAN
    BY <1>7 DEF BuildFails
  <2>2. mishaps' \in 0..MaxMishaps
    BY <1>7 DEF BuildFails, Mishap
  <2>3. at[v] # "served" /\ got[v] = None
    BY <1>7 DEF BuildFails, Builders
  <2>4. /\ \A u \in Views : at'[u] \in {"store", "end"} <=> loaded'[u] # None
        /\ \A u \in Views : got'[u] # None => at'[u] = "served"
    BY <1>7, <2>3 DEF BuildFails
  <2>5. QED
    BY <1>7, <2>1, <2>2, <2>4 DEF BuildFails
<1>8. ASSUME NEW v \in Views, Leave(v) PROVE CacheTypeOK'
  BY <1>8 DEF Leave
<1>9. CASE EntryExpires
  BY <1>9 DEF EntryExpires
<1>10. CASE ClaimExpires
  <2>1. claimed' \in BOOLEAN /\ overrun' \in BOOLEAN
    BY <1>10 DEF ClaimExpires
  <2>2. mishaps' \in 0..MaxMishaps
    BY <1>10 DEF ClaimExpires, Mishap
  <2>3. QED
    BY <1>10, <2>1, <2>2 DEF ClaimExpires
<1>11. ASSUME NEW p \in Publishers, Publish(p) PROVE CacheTypeOK'
  BY <1>11 DEF Publish
<1>12. ASSUME NEW p \in Publishers, Drop(p) PROVE CacheTypeOK'
  BY <1>12 DEF Drop, Dropped
<1>13. ASSUME NEW p \in Publishers, DropFails(p) PROVE CacheTypeOK'
  BY <1>13 DEF DropFails, Mishap
<1>14. CASE UNCHANGED cacheVars
  BY <1>14 DEF cacheVars
<1>15. QED
  BY <1>1, <1>2, <1>3, <1>4, <1>5, <1>6, <1>7, <1>8, <1>9, <1>10, <1>11, <1>12, <1>13,
     <1>14 DEF CacheNext, Answer

(* The cache, its claims and its views stay what they are.                 *)
THEOREM CacheTypeCorrect == CacheSpec => []CacheTypeOK
BY CacheTypeInit, CacheTypeNext, PTL DEF CacheSpec
-----------------------------------------------------------------------------
LEMMA CacheIInit == CacheInit => CacheInv
<1> SUFFICES ASSUME CacheInit PROVE CacheInv
  OBVIOUS
<1>1. /\ Builders = {} /\ cache = None /\ visible = 0
      /\ \A v \in Views : loaded[v] = None /\ got[v] = None /\ must[v] = 0
  BY DEF CacheInit, Builders
<1>2. QED
  BY <1>1, CacheTypeInit DEF CacheInv, OneBuild, Claimed, LateBuilds, LateEntry, PastViews, NextViewNew

\* One builder: a claim is found free only when nobody builds, or after an
\* overrun that lasts until nobody does.
LEMMA OneBuildStep ==
  CacheTypeOK /\ OneBuild /\ Claimed /\ [CacheNext]_cacheVars => (OneBuild /\ Claimed)'
<1> SUFFICES ASSUME CacheTypeOK, OneBuild, Claimed, [CacheNext]_cacheVars PROVE (OneBuild /\ Claimed)'
  OBVIOUS
<1> USE DEF CacheTypeOK, OneBuild, Claimed, Builders, Go, Lead, Serve
<1>1. ASSUME NEW v \in Views, Look(v) \/ Poll(v) \/ Leave(v) \/ Load(v) \/ Store(v)
      PROVE (OneBuild /\ Claimed)'
  <2>1. Builders' = Builders /\ UNCHANGED <<claimed, overrun>>
    BY <1>1 DEF Look, Poll, Leave, Load, Store
  <2>2. QED
    BY <2>1 DEF Builders
<1>2. ASSUME NEW v \in Views, Claim(v) PROVE (OneBuild /\ Claimed)'
  <2>1. CASE at' = [at EXCEPT ![v] = "load"]
    <3>1. Free /\ claimed' = TRUE /\ UNCHANGED overrun
      BY <1>2, <2>1 DEF Claim
    <3>2. Builders' = Builders \cup {v}
      BY <2>1
    <3>3. Builders \subseteq {} \/ overrun'
      BY <3>1 DEF Free
    <3>4. QED
      BY <3>1, <3>2, <3>3
  <2>2. CASE at' # [at EXCEPT ![v] = "load"]
    <3>1. UNCHANGED <<claimed, overrun>>
      BY <1>2, <2>2 DEF Claim
    <3>2. Builders' = Builders
      BY <1>2, <2>2 DEF Claim
    <3>3. QED
      BY <3>1, <3>2
  <2>3. QED
    BY <2>1, <2>2
<1>3. ASSUME NEW v \in Views, ClaimFails(v) \/ GiveUp(v) PROVE (OneBuild /\ Claimed)'
  BY <1>3 DEF ClaimFails, GiveUp
<1>4. ASSUME NEW v \in Views, End(v) \/ BuildFails(v) PROVE (OneBuild /\ Claimed)'
  <2>1. Builders' = Builders \ {v} /\ v \in Builders /\ overrun' = (overrun /\ ~Quiet(v))
    BY <1>4 DEF End, BuildFails
  <2>2. CASE Quiet(v)
    BY <2>1, <2>2 DEF Quiet
  <2>3. CASE ~Quiet(v)
    <3>1. overrun
      BY <2>1, <2>3 DEF Quiet
    <3>2. overrun'
      BY <2>1, <2>3, <3>1
    <3>3. QED
      BY <3>2
  <2>4. QED
    BY <2>2, <2>3
<1>5. CASE EntryExpires
  BY <1>5 DEF EntryExpires
<1>6. CASE ClaimExpires
  BY <1>6 DEF ClaimExpires
<1>7. ASSUME NEW p \in Publishers, Publish(p) \/ Drop(p) \/ DropFails(p)
      PROVE (OneBuild /\ Claimed)'
  BY <1>7 DEF Publish, Drop, DropFails
<1>8. CASE UNCHANGED cacheVars
  BY <1>8 DEF cacheVars
<1>9. QED
  BY <1>1, <1>2, <1>3, <1>4, <1>5, <1>6, <1>7, <1>8 DEF CacheNext, Answer

\* New views: old structures come from builds under way at a drop.
LEMMA FreshStep == CacheInv /\ [CacheNext]_cacheVars => (LateBuilds /\ LateEntry /\ PastViews /\ NextViewNew)'
<1> SUFFICES ASSUME CacheInv, [CacheNext]_cacheVars PROVE (LateBuilds /\ LateEntry /\ PastViews /\ NextViewNew)'
  OBVIOUS
<1> USE CacheAssumption DEF CacheInv, CacheTypeOK, Versions, Structure, LateBuilds, LateEntry, PastViews,
        NextViewNew, Go, Lead, Serve
<1>1. ASSUME NEW v \in Views, Look(v) PROVE (LateBuilds /\ LateEntry /\ PastViews /\ NextViewNew)'
  <2>1. must' = [must EXCEPT ![v] = visible] /\ UNCHANGED <<loaded, visible, raced, cache>>
    BY <1>1 DEF Look
  <2>2. CASE cache # None /\ got' = [got EXCEPT ![v] = cache]
    <3>1. \A u \in Views : got'[u] # None /\ got'[u].version < must'[u] => got'[u].raced
      BY <2>1, <2>2
    <3>2. QED
      BY <2>1, <3>1
  <2>3. CASE got' = got
    <3>1. got[v] = None
      BY <1>1 DEF Look
    <3>2. QED
      BY <2>1, <2>3, <3>1
  <2>4. QED
    BY <1>1, <2>2, <2>3 DEF Look
<1>2. ASSUME NEW v \in Views, Claim(v) \/ ClaimFails(v) \/ GiveUp(v)
      PROVE (LateBuilds /\ LateEntry /\ PastViews /\ NextViewNew)'
  BY <1>2 DEF Claim, ClaimFails, GiveUp
<1>3. ASSUME NEW v \in Views, Poll(v) PROVE (LateBuilds /\ LateEntry /\ PastViews /\ NextViewNew)'
  BY <1>3 DEF Poll
<1>4. ASSUME NEW v \in Views, Load(v) PROVE (LateBuilds /\ LateEntry /\ PastViews /\ NextViewNew)'
  BY <1>4 DEF Load
<1>5. ASSUME NEW v \in Views, Store(v) PROVE (LateBuilds /\ LateEntry /\ PastViews /\ NextViewNew)'
  <2>1. loaded[v] \in Nat /\ (loaded[v] < visible => v \in raced)
    BY <1>5 DEF Store
  <2>2. Made(v).version = loaded[v] /\ Made(v).raced = (v \in raced)
    BY DEF Made
  <2>3. UNCHANGED <<loaded, visible, raced, must, got>>
    BY <1>5 DEF Store
  <2>4. cache' = Made(v) \/ cache' = cache
    BY <1>5 DEF Store
  <2>5. LateEntry'
    BY <2>1, <2>2, <2>3, <2>4
  <2>6. QED
    BY <2>3, <2>5
<1>6. ASSUME NEW v \in Views, End(v) PROVE (LateBuilds /\ LateEntry /\ PastViews /\ NextViewNew)'
  <2>1. loaded[v] \in Nat /\ (loaded[v] < visible => v \in raced)
    BY <1>6 DEF End
  <2>2. Made(v).version = loaded[v] /\ Made(v).raced = (v \in raced)
    BY DEF Made
  <2>3. /\ got' = [got EXCEPT ![v] = Made(v)] /\ loaded' = [loaded EXCEPT ![v] = None]
        /\ raced' = raced \ {v} /\ UNCHANGED <<visible, cache, must>>
    BY <1>6 DEF End
  <2>4. LateBuilds' /\ LateEntry' /\ PastViews'
    BY <2>3
  <2>5. ASSUME NEW u \in Views, got'[u] # None, got'[u].version < must'[u]
        PROVE  got'[u].raced
    <3>1. CASE u = v
      <4>1. got'[u] = Made(v) /\ must'[u] = must[v]
        BY <2>3, <3>1
      <4>2. loaded[v] < visible
        BY <2>1, <2>2, <2>5, <3>1, <4>1
      <4>3. QED
        BY <2>1, <2>2, <4>1, <4>2
    <3>2. CASE u # v
      BY <2>3, <2>5, <3>2
    <3>3. QED
      BY <3>1, <3>2
  <2>6. QED
    BY <2>4, <2>5 DEF NextViewNew
<1>7. ASSUME NEW v \in Views, BuildFails(v) \/ Leave(v)
      PROVE (LateBuilds /\ LateEntry /\ PastViews /\ NextViewNew)'
  BY <1>7 DEF BuildFails, Leave
<1>8. CASE EntryExpires \/ ClaimExpires
  BY <1>8 DEF EntryExpires, ClaimExpires
<1>9. ASSUME NEW p \in Publishers, Publish(p) \/ DropFails(p)
      PROVE (LateBuilds /\ LateEntry /\ PastViews /\ NextViewNew)'
  BY <1>9 DEF Publish, DropFails
<1>10. ASSUME NEW p \in Publishers, Drop(p)
       PROVE (LateBuilds /\ LateEntry /\ PastViews /\ NextViewNew)'
  BY <1>10 DEF Drop, Dropped
<1>11. CASE UNCHANGED cacheVars
  BY <1>11 DEF cacheVars
<1>12. QED
  BY <1>1, <1>2, <1>3, <1>4, <1>5, <1>6, <1>7, <1>8, <1>9, <1>10, <1>11 DEF CacheNext, Answer

LEMMA CacheIStep == CacheInv /\ [CacheNext]_cacheVars => CacheInv'
BY CacheTypeNext, OneBuildStep, FreshStep DEF CacheInv

\* Two views build one report at once only in the wake of an overrun.
THEOREM OneBuildAlways == CacheSpec => []OneBuild
<1>1. CacheInv => OneBuild
  BY DEF CacheInv
<1>2. QED
  BY CacheIInit, CacheIStep, <1>1, PTL DEF CacheSpec

\* A view that begins after a publish dropped the cache shows that publish,
\* but for what was being built at that moment.
THEOREM NextViewNewAlways == CacheSpec => []NextViewNew
<1>1. CacheInv => NextViewNew
  BY DEF CacheInv
<1>2. QED
  BY CacheIInit, CacheIStep, <1>1, PTL DEF CacheSpec
=============================================================================
