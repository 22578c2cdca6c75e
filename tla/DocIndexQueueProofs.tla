------------------------- MODULE DocIndexQueueProofs -------------------------
(***************************************************************************)
(* DocIndexQueue for any documents, workers, batches, attempts, editions   *)
(* and mishaps: types, an index that only advances, a claim that takes the *)
(* oldest jobs, one pass at a time.                                        *)
(***************************************************************************)
EXTENDS DocIndexQueue, FiniteSetTheorems, TLAPS

\* What a worker embeds under the row lock is what is live; without it, it was;
\* and the index is never ahead of that.
AtWork == \A w \in Workers :
  /\ pc[w] \in {"embed", "unlocked", "finish"} => at[w] \in Docs
  /\ pc[w] = "embed" => live[at[w]] # None /\ read[w] = live[at[w]]
  /\ pc[w] = "unlocked" /\ live[at[w]] # None => read[w] <= live[at[w]]
Behind == \A d \in Docs : live[d] # None => index[d] <= live[d]

\* Whoever is at work holds the advisory lock, if there is one.
Held == Guarded => \A w \in Workers : pc[w] # "idle" => lock = w

\* queued_at orders the rows.
Ordered ==
  /\ \A d \in Docs : older[d] \subseteq HasRow \ {d}
  /\ \A d \in Docs : \A e \in older[d] : older[e] \subseteq older[d]
  /\ \A d, e \in HasRow : d = e \/ d \in older[e] \/ e \in older[d]

\* A worker that is alone on the queue is never overtaken.
Alone == Guarded => \A w \in Workers : Embedding(w) => index[at[w]] <= read[w]

QInv == TypeOK /\ AtWork /\ Behind /\ Held /\ Alone /\ Ordered

LEMMA QInit == Init => QInv
<1> SUFFICES ASSUME Init PROVE QInv
  OBVIOUS
<1>1. TypeOK
  BY QueueAssumption DEF Init, TypeOK
<1>2. HasRow = {} /\ \A d \in Docs : older[d] = {}
  BY DEF Init, HasRow
<1>3. AtWork /\ Behind /\ Held /\ Alone
  BY DEF Init, AtWork, Behind, Held, Alone, Embedding
<1>4. QED
  BY <1>1, <1>2, <1>3 DEF QInv, Ordered

LEMMA QTypeStep == TypeOK /\ AtWork /\ [Next]_vars => TypeOK'
<1> SUFFICES ASSUME TypeOK, AtWork, [Next]_vars PROVE TypeOK'
  OBVIOUS
<1> USE QueueAssumption DEF TypeOK
<1>1. ASSUME NEW d \in Docs, Publish(d) PROVE TypeOK'
  BY <1>1 DEF Publish, rows, pass, Exists
<1>2. ASSUME NEW d \in Docs, Reset(d) PROVE TypeOK'
  BY <1>2 DEF Reset, Exists, Mishap, rows, pass
<1>3. ASSUME NEW d \in Docs, Upsert(d)
      PROVE  /\ job' \in [Docs -> {"none", "queued", "running", "done"}]
             /\ attempts' \in [Docs -> 0..MaxAttempts] /\ older' \in [Docs -> SUBSET Docs]
  BY <1>3 DEF Upsert, ToBack, Without, HasRow
<1>4. ASSUME NEW d \in Docs, Enqueue(d) PROVE TypeOK'
  BY <1>3, <1>4 DEF Enqueue, pass
<1>5. ASSUME NEW d \in Docs, LoseRequest(d) PROVE TypeOK'
  BY <1>5 DEF LoseRequest, Mishap, rows, pass
<1>6. ASSUME NEW d \in Docs, DeleteRows(d) PROVE TypeOK'
  <2>1. [index |-> index[d], row |-> job[d] # "none"] \in [index : Nat, row : BOOLEAN]
    OBVIOUS
  <2>2. wiping' \in [Docs -> [index : Nat, row : BOOLEAN] \cup {None}]
    BY <1>6, <2>1 DEF DeleteRows
  <2>3. QED
    BY <1>6, <2>2 DEF DeleteRows, Mishap, rows, pass
<1>7. ASSUME NEW d \in Docs, DeleteCommit(d) PROVE TypeOK'
  <2>1. /\ job' \in [Docs -> {"none", "queued", "running", "done"}]
        /\ older' \in [Docs -> SUBSET Docs]
    <3>1. CASE wiping[d].row
      <4>1. Without(d) \in [Docs -> SUBSET Docs]
        BY DEF Without
      <4>2. QED
        BY <1>7, <3>1, <4>1 DEF DeleteCommit
    <3>2. CASE ~wiping[d].row
      BY <1>7, <3>2 DEF DeleteCommit
    <3>3. QED
      BY <3>1, <3>2
  <2>2. /\ index' \in [Docs -> Nat] /\ live' \in [Docs -> Nat \cup {None}]
        /\ \A e \in Docs : index'[e] \in {0, index[e]} /\ live'[e] \in {None, live[e]}
    BY <1>7 DEF DeleteCommit
  <2>3. wiping' \in [Docs -> [index : Nat, row : BOOLEAN] \cup {None}]
    BY <1>7 DEF DeleteCommit
  <2>4. QED
    BY <1>7, <2>1, <2>2, <2>3 DEF DeleteCommit, pass
<1>8. ASSUME NEW d \in Docs, DeleteFails(d) PROVE TypeOK'
  BY <1>8 DEF DeleteFails, rows, pass
<1>9. ASSUME NEW d \in Docs, RepairEnqueue(d) PROVE TypeOK'
  <2>1. CASE Exists(d)
    BY <1>3, <1>9, <2>1 DEF RepairEnqueue, pass
  <2>2. CASE ~Exists(d)
    BY <1>9, <2>2 DEF RepairEnqueue, rows, pass
  <2>3. QED
    BY <2>1, <2>2
<1>10. CASE RepairScan
  BY <1>10 DEF RepairScan, LowestOf, Stale, Mishap, rows, pass
<1>11. ASSUME NEW w \in Workers, Poll(w) PROVE TypeOK'
  BY <1>11 DEF Poll, rows
<1>12. ASSUME NEW w \in Workers, Claim(w) PROVE TypeOK'
  <2>1. \A d \in NextBatch : d \in Docs /\ attempts[d] < MaxAttempts
    BY DEF NextBatch, Ready
  <2>2. /\ job' \in [Docs -> {"none", "queued", "running", "done"}]
        /\ attempts' \in [Docs -> 0..MaxAttempts]
        /\ todo' \in [Workers -> SUBSET Docs]
    BY <1>12, <2>1 DEF Claim
  <2>3. /\ lock' \in Workers \cup {None}
        /\ pc' \in [Workers -> {"idle", "claim", "next", "embed", "unlocked", "finish"}]
    BY <1>12 DEF Claim, Unlock
  <2>4. QED
    BY <1>12, <2>2, <2>3 DEF Claim
<1>13. ASSUME NEW w \in Workers, NEW d \in Docs, Begin(w, d) PROVE TypeOK'
  <2>1. CASE Exists(d)
    BY <1>13, <2>1 DEF Begin, Exists, rows
  <2>2. CASE ~Exists(d)
    BY <1>13, <2>2 DEF Begin, rows
  <2>3. QED
    BY <2>1, <2>2
<1>14. ASSUME NEW w \in Workers, Embedded(w) PROVE TypeOK'
  <2>1. at[w] \in Docs /\ read[w] \in 0..MaxVersions[at[w]]
    <3>1. at[w] \in Docs /\ live[at[w]] \in 0..MaxVersions[at[w]]
      BY <1>14 DEF Embedded, Embedding, Exists, AtWork
    <3>2. read[w] \in Nat /\ read[w] <= live[at[w]]
      BY <1>14, <3>1 DEF Embedded, Embedding, Exists, AtWork
    <3>3. QED
      BY <3>1, <3>2
  <2>2. index' \in [Docs -> Nat] /\ \A d \in Docs : index'[d] \in 0..MaxVersions[d]
    BY <1>14, <2>1 DEF Embedded
  <2>3. QED
    BY <1>14, <2>2 DEF Embedded, rows
<1>15. ASSUME NEW w \in Workers, NotEmbedded(w) PROVE TypeOK'
  BY <1>15 DEF NotEmbedded, Mishap, rows
<1>16. ASSUME NEW w \in Workers, Finish(w) PROVE TypeOK'
  <2>1. job' \in [Docs -> {"none", "queued", "running", "done"}]
    BY <1>16 DEF Finish
  <2>2. /\ lock' \in Workers \cup {None}
        /\ pc' \in [Workers -> {"idle", "claim", "next", "embed", "unlocked", "finish"}]
    BY <1>16 DEF Finish, Unlock
  <2>3. QED
    BY <1>16, <2>1, <2>2 DEF Finish
<1>17. ASSUME NEW w \in Workers, Crash(w) PROVE TypeOK'
  BY <1>17 DEF Crash, Mishap, Unlock, rows
<1>18. ASSUME NEW w \in Workers, Describe(w) PROVE TypeOK'
  BY <1>18 DEF Describe, rows
<1>19. CASE UNCHANGED vars
  BY <1>19 DEF vars, rows, pass
<1>20. QED
  BY <1>1, <1>2, <1>4, <1>5, <1>6, <1>7, <1>8, <1>9, <1>10, <1>11, <1>12, <1>13, <1>14, <1>15,
     <1>16, <1>17, <1>18, <1>19 DEF Next, Work

\* A document that a worker embeds is locked, unless the worker has lost the lock:
\* then what it read grows old.
LEMMA AtWorkStep ==
  TypeOK /\ AtWork /\ [Next]_vars => AtWork'
<1> SUFFICES ASSUME TypeOK, AtWork, [Next]_vars PROVE AtWork'
  OBVIOUS
<1> USE DEF TypeOK, AtWork
<1>1. ASSUME NEW d \in Docs, Publish(d) \/ Reset(d) \/ DeleteCommit(d) PROVE AtWork'
  <2>1. /\ \A w \in Workers : pc[w] = "embed" => at[w] # d
        /\ \A e \in Docs \ {d} : live'[e] = live[e]
    BY <1>1 DEF Publish, Reset, DeleteCommit, RowFree
  <2>2. UNCHANGED <<pc, at, read>>
    BY <1>1 DEF Publish, Reset, DeleteCommit, pass
  <2>3. live'[d] # None =>
          /\ live[d] # None /\ live[d] <= live'[d]
          /\ live[d] \in Nat /\ live'[d] \in Nat
    <3>1. CASE Publish(d) \/ Reset(d)
      BY <3>1 DEF Publish, Reset, Exists
    <3>2. CASE DeleteCommit(d)
      BY <3>2 DEF DeleteCommit
    <3>3. QED
      BY <1>1, <3>1, <3>2
  <2>4. ASSUME NEW w \in Workers, pc[w] = "unlocked", live'[at[w]] # None
        PROVE  read[w] <= live'[at[w]]
    <3>1. CASE at[w] = d
      <4>1. read[w] <= live[d] /\ read[w] \in Nat
        BY <2>3, <2>4, <3>1
      <4>2. QED
        BY <2>3, <2>4, <3>1, <4>1
    <3>2. CASE at[w] # d
      BY <2>1, <2>4, <3>2
    <3>3. QED
      BY <3>1, <3>2
  <2>5. QED
    BY <2>1, <2>2, <2>4
<1>2. ASSUME NEW d \in Docs, NEW w \in Workers, Begin(w, d) PROVE AtWork'
  <2>1. CASE Exists(d)
    BY <1>2, <2>1 DEF Begin, Exists
  <2>2. CASE ~Exists(d)
    BY <1>2, <2>2 DEF Begin
  <2>3. QED
    BY <2>1, <2>2
<1>3. ASSUME NEW w \in Workers, \/ Poll(w) \/ Claim(w) \/ Embedded(w)
                                \/ NotEmbedded(w) \/ Finish(w) \/ Crash(w)
      PROVE AtWork'
  <2>1. /\ UNCHANGED live
        /\ \A v \in Workers \ {w} : /\ pc'[v] = pc[v]
                                    /\ at'[v] = at[v] /\ read'[v] = read[v]
    BY <1>3 DEF Poll, Claim, Embedded, NotEmbedded, Finish, Crash
  <2>2. /\ pc'[w] \notin {"embed", "unlocked"}
        /\ pc'[w] = "finish" => Embedding(w) /\ at'[w] = at[w]
    BY <1>3 DEF Poll, Claim, Embedded, NotEmbedded, Finish, Crash
  <2>3. QED
    BY <2>1, <2>2 DEF Embedding
<1>4. ASSUME NEW w \in Workers, Describe(w) PROVE AtWork'
  <2>1. live[at[w]] \in Nat /\ read[w] = live[at[w]] /\ at[w] \in Docs
    BY <1>4 DEF Describe
  <2>2. UNCHANGED <<live, at, read>> /\ pc[w] = "embed"
        /\ \A v \in Workers \ {w} : pc'[v] = pc[v]
    BY <1>4 DEF Describe
  <2>3. pc'[w] = "unlocked"
    BY <1>4 DEF Describe
  <2>4. QED
    BY <2>1, <2>2, <2>3
<1>5. CASE UNCHANGED <<live, pc, at, read>>
  BY <1>5
<1>6. QED
  BY <1>1, <1>2, <1>3, <1>4, <1>5 DEF Next, Work, vars, pass,
     Enqueue, LoseRequest, DeleteRows, DeleteFails, RepairScan,
     RepairEnqueue

\* A worker makes the index what is live or was, and live versions only grow.
LEMMA BehindStep == TypeOK /\ AtWork /\ Behind /\ [Next]_vars => Behind'
<1> SUFFICES ASSUME TypeOK, AtWork, Behind, [Next]_vars PROVE Behind'
  OBVIOUS
<1> USE DEF TypeOK, AtWork, Behind
<1>1. ASSUME NEW d \in Docs, Publish(d) PROVE Behind'
  BY <1>1 DEF Publish, Exists
<1>2. ASSUME NEW d \in Docs, Reset(d) \/ DeleteCommit(d) PROVE Behind'
  <2>1. /\ index'[d] \in {0, index[d]}
        /\ live'[d] = None \/ (index'[d] = 0 /\ live'[d] \in Nat)
        /\ \A e \in Docs \ {d} : live'[e] = live[e] /\ index'[e] = index[e]
    <3>1. CASE Reset(d)
      <4>1. live[d] \in Nat
        BY <3>1 DEF Reset, Exists
      <4>2. QED
        BY <3>1, <4>1 DEF Reset
    <3>2. CASE DeleteCommit(d)
      BY <3>2 DEF DeleteCommit
    <3>3. QED
      BY <1>2, <3>1, <3>2
  <2>2. QED
    BY <2>1
<1>3. ASSUME NEW w \in Workers, Embedded(w) PROVE Behind'
  <2>1. /\ UNCHANGED live /\ live[at[w]] \in Nat /\ read[w] <= live[at[w]]
        /\ index'[at[w]] \in {0, read[w]}
        /\ \A e \in Docs \ {at[w]} : index'[e] = index[e]
    BY <1>3 DEF Embedded, Embedding, Exists
  <2>2. QED
    BY <2>1
<1>4. CASE UNCHANGED <<live, index>>
  BY <1>4
<1>5. QED
  BY <1>1, <1>2, <1>3, <1>4 DEF Next, Work, vars, Enqueue,
     LoseRequest, DeleteRows, DeleteFails, RepairScan,
     RepairEnqueue, Poll, Claim, Describe, Begin, NotEmbedded,
     Finish, Crash

LEMMA AdvanceStep ==
  ASSUME TypeOK, AtWork, Behind, Alone, [Next]_vars,
         NEW d \in Docs, index'[d] \notin {0, index[d]}
  PROVE  \E w \in Workers :
           /\ at[w] = d /\ Embedding(w) /\ pc'[w] = "finish"
           /\ pc[w] = "embed" => index'[d] > index[d] /\ index'[d] = live[d]
           /\ Guarded => index'[d] > index[d]
<1>1. ASSUME NEW w \in Workers, Embedded(w)
      PROVE  /\ at[w] = d /\ Embedding(w) /\ pc'[w] = "finish"
             /\ pc[w] = "embed" => index'[d] > index[d] /\ index'[d] = live[d]
             /\ Guarded => index'[d] > index[d]
  <2>1. /\ at[w] = d /\ index'[d] = read[w] /\ index'[d] # index[d]
        /\ Embedding(w) /\ pc'[w] = "finish"
        /\ index[d] \in Nat /\ read[w] \in Nat
    BY <1>1 DEF Embedded, TypeOK
  <2>2. ASSUME pc[w] = "embed" PROVE index'[d] > index[d] /\ index'[d] = live[d]
    <3>1. index'[d] = live[d] /\ live[d] # None
      BY <2>1, <2>2 DEF AtWork
    <3>2. index[d] <= live[d]
      BY <3>1 DEF Behind
    <3>3. QED
      BY <2>1, <3>1, <3>2
  <2>3. ASSUME Guarded PROVE index'[d] > index[d]
    BY <2>1, <2>3 DEF Alone
  <2>4. QED
    BY <2>1, <2>2, <2>3
<1>2. ASSUME NEW e \in Docs, Reset(e) \/ DeleteCommit(e)
      PROVE  index'[d] \in {0, index[d]}
  BY <1>2 DEF Reset, DeleteCommit, TypeOK
<1>3. CASE UNCHANGED index
  BY <1>3
<1>4. QED
  BY <1>1, <1>2, <1>3 DEF Next, Work, vars, Publish, Enqueue,
     LoseRequest, DeleteRows, DeleteFails, RepairScan,
     RepairEnqueue, Poll, Claim, Describe, Begin, NotEmbedded,
     Finish, Crash

\* The lock is taken with the pass and given back with it.
LEMMA HeldStep == TypeOK /\ Held /\ [Next]_vars => Held'
<1> SUFFICES ASSUME TypeOK, Held, Guarded, [Next]_vars
             PROVE  \A v \in Workers : pc'[v] # "idle" => lock' = v
  BY DEF Held
<1> USE DEF TypeOK, Held, Unlock
<1>1. ASSUME NEW w \in Workers, Poll(w)
      PROVE  \A v \in Workers : pc'[v] # "idle" => lock' = v
  <2>1. lock = None /\ lock' = w /\ \A v \in Workers \ {w} : pc'[v] = pc[v]
    BY <1>1 DEF Poll
  <2>2. \A v \in Workers : pc[v] # "idle" => v = None
    BY <2>1
  <2>3. \A v \in Workers : v # None
    BY QueueAssumption
  <2>4. QED
    BY <2>1, <2>2, <2>3
<1>2. ASSUME NEW w \in Workers, Claim(w) \/ Finish(w) \/ Crash(w)
      PROVE  \A v \in Workers : pc'[v] # "idle" => lock' = v
  <2>1. /\ pc[w] # "idle" /\ \A v \in Workers \ {w} : pc'[v] = pc[v]
        /\ lock' = lock \/ pc'[w] = "idle"
    BY <1>2 DEF Claim, Finish, Crash
  <2>2. lock = w /\ \A v \in Workers \ {w} : pc[v] = "idle"
    BY <2>1
  <2>3. QED
    BY <2>1, <2>2
<1>3. ASSUME NEW w \in Workers, Describe(w) \/ Embedded(w) \/ NotEmbedded(w)
      PROVE  \A v \in Workers : pc'[v] # "idle" => lock' = v
  BY <1>3 DEF Describe, Embedded, NotEmbedded, Embedding
<1>4. ASSUME NEW d \in Docs, NEW w \in Workers, Begin(w, d)
      PROVE  \A v \in Workers : pc'[v] # "idle" => lock' = v
  BY <1>4 DEF Begin
<1>5. CASE UNCHANGED <<pc, lock>>
  BY <1>5
<1>6. QED
  BY <1>1, <1>2, <1>3, <1>4, <1>5 DEF Next, Work, vars, pass,
     Publish, Reset, Enqueue, LoseRequest, DeleteRows,
     DeleteCommit, DeleteFails, RepairScan, RepairEnqueue

\* Alone on the queue, a worker starts ahead of the index and nobody else moves it.
LEMMA AloneStep ==
  TypeOK /\ AtWork /\ Behind /\ Held /\ Alone /\ [Next]_vars => Alone'
<1> SUFFICES ASSUME TypeOK, AtWork, Behind, Held, Alone, Guarded, [Next]_vars,
                    NEW v \in Workers, Embedding(v)'
             PROVE  index'[at'[v]] <= read'[v]
  BY DEF Alone
<1> USE DEF TypeOK, Embedding
<1>1. ASSUME NEW d \in Docs, Reset(d) \/ DeleteCommit(d)
      PROVE  index'[at'[v]] <= read'[v]
  <2>1. UNCHANGED <<pc, at, read>> /\ \A e \in Docs : index'[e] \in {0, index[e]}
    BY <1>1 DEF Reset, DeleteCommit, pass
  <2>2. at[v] \in Docs /\ index[at[v]] <= read[v]
    BY <2>1 DEF AtWork, Alone
  <2>3. QED
    BY <2>1, <2>2
<1>2. ASSUME NEW w \in Workers, NEW d \in Docs, Begin(w, d)
      PROVE  index'[at'[v]] <= read'[v]
  <2>1. CASE v = w
    BY <1>2, <2>1 DEF Begin, Exists, Behind
  <2>2. CASE v # w
    BY <1>2, <2>2 DEF Begin, Alone
  <2>3. QED
    BY <2>1, <2>2
<1>3. ASSUME NEW w \in Workers, Embedded(w) PROVE index'[at'[v]] <= read'[v]
  <2>1. v # w /\ pc[v] # "idle" /\ pc[w] # "idle"
    BY <1>3 DEF Embedded
  <2>2. QED
    BY <2>1 DEF Held
<1>4. ASSUME NEW w \in Workers, \/ Poll(w) \/ Claim(w) \/ Describe(w)
                                \/ NotEmbedded(w) \/ Finish(w) \/ Crash(w)
      PROVE  index'[at'[v]] <= read'[v]
  <2>1. UNCHANGED index /\ Embedding(v) /\ UNCHANGED <<at[v], read[v]>>
    BY <1>4 DEF Poll, Claim, Describe, NotEmbedded, Finish, Crash
  <2>2. QED
    BY <2>1 DEF Alone
<1>5. CASE UNCHANGED <<index, pc, at, read>>
  BY <1>5 DEF Alone
<1>6. QED
  BY <1>1, <1>2, <1>3, <1>4, <1>5 DEF Next, Work, vars, pass, Publish,
     Enqueue, LoseRequest, DeleteRows, DeleteFails, RepairScan,
     RepairEnqueue

\* A row that is queued again comes last, and one that goes leaves no gap.
LEMMA OrderedStep == TypeOK /\ Ordered /\ [Next]_vars => Ordered'
<1> SUFFICES ASSUME TypeOK, Ordered, [Next]_vars PROVE Ordered'
  OBVIOUS
<1>1. ASSUME NEW d \in Docs, Upsert(d) PROVE Ordered'
  <2>1. /\ HasRow' = HasRow \cup {d}
        /\ older'[d] = HasRow \ {d}
        /\ \A e \in Docs \ {d} : older'[e] = older[e] \ {d}
    BY <1>1 DEF Upsert, ToBack, Without, HasRow, TypeOK
  <2>2. \A e \in Docs : older'[e] \subseteq HasRow' \ {e}
    BY <2>1 DEF Ordered
  <2>3. ASSUME NEW e \in Docs, NEW f \in older'[e] PROVE older'[f] \subseteq older'[e]
    <3>1. f \in Docs \ {d}
      BY <2>1, <2>3 DEF Ordered, HasRow
    <3>2. CASE e = d
      BY <2>1, <3>1, <3>2 DEF Ordered
    <3>3. CASE e # d
      BY <2>1, <2>3, <3>1, <3>3 DEF Ordered
    <3>4. QED
      BY <3>2, <3>3
  <2>4. ASSUME NEW e \in HasRow', NEW f \in HasRow'
        PROVE  e = f \/ e \in older'[f] \/ f \in older'[e]
    <3>1. e \in Docs /\ f \in Docs
      BY DEF HasRow
    <3>2. CASE e # d /\ f # d
      BY <2>1, <3>1, <3>2 DEF Ordered
    <3>3. CASE e = d \/ f = d
      BY <2>1, <3>3
    <3>4. QED
      BY <3>2, <3>3
  <2>5. QED
    BY <2>2, <2>3, <2>4 DEF Ordered
<1>2. ASSUME NEW d \in Docs, Enqueue(d) \/ RepairEnqueue(d) PROVE Ordered'
  <2>1. Upsert(d) \/ UNCHANGED <<job, older>>
    BY <1>2 DEF Enqueue, RepairEnqueue, rows
  <2>2. CASE UNCHANGED <<job, older>>
    BY <2>2 DEF Ordered, HasRow
  <2>3. QED
    BY <1>1, <2>1, <2>2
<1>3. ASSUME NEW d \in Docs, DeleteCommit(d) PROVE Ordered'
  <2>1. CASE wiping[d].row
    <3>1. /\ HasRow' = HasRow \ {d} /\ older'[d] = {}
          /\ \A e \in Docs \ {d} : older'[e] = older[e] \ {d}
      BY <1>3, <2>1 DEF DeleteCommit, Without, HasRow, TypeOK
    <3>2. QED
      BY <3>1 DEF Ordered, HasRow
  <2>2. CASE ~wiping[d].row
    BY <1>3, <2>2 DEF DeleteCommit, Ordered, HasRow
  <2>3. QED
    BY <2>1, <2>2
<1>4. ASSUME NEW w \in Workers, Claim(w) \/ Finish(w) PROVE Ordered'
  <2>1. older' = older /\ \A d \in Docs : job'[d] = "none" <=> job[d] = "none"
    <3>1. CASE Claim(w)
      <4>1. \A d \in NextBatch : d \in Docs /\ job[d] # "none"
        BY DEF NextBatch, Ready
      <4>2. QED
        BY <3>1, <4>1 DEF Claim
    <3>2. CASE Finish(w)
      BY <3>2 DEF Finish, TypeOK
    <3>3. QED
      BY <1>4, <3>1, <3>2
  <2>2. QED
    BY <2>1 DEF Ordered, HasRow
<1>5. CASE UNCHANGED <<job, older>>
  BY <1>5 DEF Ordered, HasRow
<1>6. QED
  BY <1>2, <1>3, <1>4, <1>5 DEF Next, Work, vars, rows,
     Publish, Reset, LoseRequest, DeleteRows, DeleteFails,
     RepairScan, Poll, Begin, Describe, Embedded, NotEmbedded, Crash

LEMMA QAlways == Spec => []QInv
<1>1. QInv /\ [Next]_vars => QInv'
  BY QTypeStep, AtWorkStep, BehindStep, HeldStep, AloneStep, OrderedStep DEF QInv
<1>2. QED
  BY QInit, <1>1, PTL DEF Spec

\* Rows, locks, batches and what workers hold stay what they are.
THEOREM TypeCorrect == Spec => []TypeOK
<1>1. QInv => TypeOK
  BY DEF QInv
<1>2. QED
  BY QAlways, <1>1, PTL

\* embed_doc: under the row lock what becomes searchable is newer than what was,
\* and is the edition that is live.  Where the lock is lost while figures are
\* described, an older edition may be written, but with the advisory lock still
\* none that is older than what was searchable.
THEOREM IndexAdvancesAlways == Spec => IndexAdvances
<1>1. QInv /\ [Next]_vars =>
        [\A d \in Docs : index'[d] \notin {0, index[d]} =>
           \E w \in Workers :
             /\ at[w] = d /\ Embedding(w) /\ pc'[w] = "finish"
             /\ pc[w] = "embed" => index'[d] > index[d] /\ index'[d] = live[d]
             /\ Guarded => index'[d] > index[d]]_vars
  BY AdvanceStep DEF QInv
<1>2. QED
  BY QAlways, <1>1, PTL DEF Spec, IndexAdvances

\* job_lock: with the advisory lock one process at a time drains the queue.
THEOREM OnePassAlways == Spec => []OnePass
<1>1. QInv => OnePass
  BY DEF QInv, Held, OnePass
<1>2. QED
  BY QAlways, <1>1, PTL
-----------------------------------------------------------------------------
\* Of some rows there is one that was queued first ...
LEMMA Oldest ==
  ASSUME Ordered, IsFiniteSet(Docs), NEW S \in SUBSET Docs, S # {}
  PROVE  \E m \in S : older[m] \cap S = {}
<1> DEFINE B == {older[e] : e \in S}
<1>1. B \subseteq SUBSET Docs /\ B # {}
  BY DEF Ordered, HasRow
<1>2. PICK X \in B : \A Y \in B : <<Y, X>> \notin StrictSubsetOrdering(Docs)
  <2> HIDE DEF B
  <2>1. QED
    BY <1>1, FS_FiniteSubsetsOfFinite, FS_StrictSubsetOrderingWellFounded, WFMin
<1>3. PICK m \in S : X = older[m]
  OBVIOUS
<1>4. ASSUME NEW e \in S, e \in older[m] PROVE FALSE
  <2> DEFINE ss == <<older[e], older[m]>>
  <2>1. ss \in (SUBSET Docs) \X (SUBSET Docs) /\ ss[1] \subseteq ss[2] /\ ss[1] # ss[2]
    BY <1>4 DEF Ordered, HasRow
  <2>2. ss \in StrictSubsetOrdering(Docs)
    BY <2>1 DEF StrictSubsetOrdering
  <2>3. QED
    BY <1>2, <1>3, <2>2
<1>5. QED
  BY <1>4

\* ... and one that was queued last.
LEMMA Youngest ==
  ASSUME Ordered, IsFiniteSet(Docs), NEW S \in SUBSET HasRow, S # {}
  PROVE  \E m \in S : S \ {m} \subseteq older[m]
<1> DEFINE B == {Docs \ older[e] : e \in S}
<1>1. B \subseteq SUBSET Docs /\ B # {} /\ S \subseteq Docs
  BY DEF HasRow
<1>2. PICK X \in B : \A Y \in B : <<Y, X>> \notin StrictSubsetOrdering(Docs)
  <2> HIDE DEF B
  <2>1. QED
    BY <1>1, FS_FiniteSubsetsOfFinite, FS_StrictSubsetOrderingWellFounded, WFMin
<1>3. PICK m \in S : X = Docs \ older[m]
  OBVIOUS
<1>4. ASSUME NEW e \in S \ {m}, e \notin older[m] PROVE FALSE
  <2> DEFINE ss == <<Docs \ older[e], Docs \ older[m]>>
  <2>1. m \in older[e] /\ m \notin older[m] /\ older[m] \subseteq older[e]
    BY <1>1, <1>4 DEF Ordered
  <2>2. ss \in (SUBSET Docs) \X (SUBSET Docs) /\ ss[1] \subseteq ss[2] /\ ss[1] # ss[2]
    BY <1>1, <2>1
  <2>3. ss \in StrictSubsetOrdering(Docs)
    BY <2>2 DEF StrictSubsetOrdering
  <2>4. QED
    BY <1>2, <1>3, <2>3
<1>5. QED
  BY <1>4

LEMMA ClaimsOldestOf == ASSUME Ordered PROVE ClaimsOldest
<1> DEFINE R == Ready
           N == NextBatch
<1>1. /\ IsFiniteSet(Docs) /\ Batch \in Nat \ {0}
      /\ R \subseteq Docs /\ R \subseteq HasRow /\ N \subseteq R
      /\ \A d \in R : d \in N <=> Cardinality(older[d] \cap R) < Batch
  <2>1. R \subseteq Docs /\ R \subseteq HasRow
    BY DEF Ready, HasRow
  <2>2. N = {d \in R : Cardinality(older[d] \cap R) < Batch}
    BY DEF NextBatch
  <2>3. IsFiniteSet(Docs) /\ Batch \in Nat \ {0}
    BY QueueAssumption
  <2>4. QED
    BY <2>1, <2>2, <2>3
<1> HIDE DEF R, N
<1>2. \A S \in SUBSET R : IsFiniteSet(S) /\ Cardinality(S) \in Nat
  BY <1>1, FS_Subset, FS_CardinalityType
<1>3. \A T \in SUBSET R : \A S \in SUBSET T : Cardinality(S) <= Cardinality(T)
  BY <1>2, FS_Subset
<1>4. ASSUME NEW d \in N, NEW e \in older[d] \cap R PROVE e \in N
  <2>1. older[e] \cap R \subseteq older[d] \cap R
    BY <1>1, <1>4 DEF Ordered
  <2>2. Cardinality(older[e] \cap R) <= Cardinality(older[d] \cap R)
    BY <1>3, <2>1
  <2>3. Cardinality(older[e] \cap R) \in Nat /\ Cardinality(older[d] \cap R) \in Nat
    BY <1>2
  <2>4. QED
    BY <1>1, <2>2, <2>3
<1>5. Cardinality(N) <= Batch
  <2>1. CASE N = {}
    BY <1>1, <1>2, <2>1, FS_EmptySet
  <2>2. CASE N # {}
    <3>1. PICK m \in N : N \ {m} \subseteq older[m]
      BY <1>1, <2>2, Youngest
    <3>2. Cardinality(N \ {m}) <= Cardinality(older[m] \cap R)
      BY <1>1, <1>3, <3>1
    <3>3. Cardinality(N \ {m}) = Cardinality(N) - 1 /\ Cardinality(N) \in Nat
      BY <1>1, <1>2, FS_RemoveElement
    <3>4. Cardinality(older[m] \cap R) < Batch /\ Cardinality(older[m] \cap R) \in Nat
      BY <1>1, <1>2
    <3>5. QED
      BY <1>1, <3>2, <3>3, <3>4
  <2>3. QED
    BY <2>1, <2>2
<1>6. ASSUME Cardinality(N) < Batch PROVE N = R
  <2> SUFFICES ASSUME R \ N # {} PROVE FALSE
    BY <1>1
  <2>1. PICK m \in R \ N : older[m] \cap (R \ N) = {}
    BY <1>1, Oldest
  <2>2. Cardinality(older[m] \cap R) <= Cardinality(N)
    BY <1>1, <1>3, <2>1
  <2>3. Cardinality(older[m] \cap R) \in Nat /\ Cardinality(N) \in Nat
    BY <1>1, <1>2
  <2>4. QED
    BY <1>1, <1>6, <2>1, <2>2, <2>3
<1>7. /\ \A d \in N : older[d] \cap R \subseteq N
      /\ Cardinality(N) <= Batch /\ (Cardinality(N) < Batch => N = R)
  BY <1>4, <1>5, <1>6
<1>8. QED
  BY <1>7 DEF R, N, ClaimsOldest

\* _claim: ORDER BY queued_at LIMIT, whatever is queued again in between.
THEOREM ClaimsOldestAlways == Spec => []ClaimsOldest
<1>1. QInv => ClaimsOldest
  BY ClaimsOldestOf DEF QInv
<1>2. QED
  BY QAlways, <1>1, PTL
=============================================================================
