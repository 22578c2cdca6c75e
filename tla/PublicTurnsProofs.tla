-------------------------- MODULE PublicTurnsProofs --------------------------
(***************************************************************************)
(* PublicTurns for any submits, viewers, links and ceilings: the ceiling   *)
(* of a link, one turn per viewer, and that a link keeps AskedTurns.       *)
(***************************************************************************)
EXTENDS PublicTurns, FiniteSetTheorems, TLAPS

\* TypeOK, and what the place of a submit says of its turn. A stale turn is
\* still running: whoever ends it takes it off that set.
Shape ==
  /\ TypeOK
  /\ stale \subseteq Running
  /\ \A s \in Submits :
       /\ pc[s] \in {"new", "lock", "check", "count", "insert"} => status[s] = "none"
       /\ pc[s] \notin Ended => shown[s] = None
       /\ pc[s] \in {"core", "finish"} => status[s] # "none"
       /\ pc[s] = "finish" => live[s] \in Final

\* A submit under admission holds the lock of its link, or had lost it.
Guard == \A s \in Submits :
  pc[s] \in {"check", "count", "insert"} /\ s \notin unlocked => Holds(s)

\* What it saw of its viewer is still so when it inserts.
Alone == \A s \in Submits : pc[s] \in {"count", "insert"} /\ s \notin unlocked =>
  \A t \in Seen(s) : ViewerOf[t] = ViewerOf[s] => t \in unlocked

\* And so is what it counted.
Room == \A s \in Submits : pc[s] = "insert" /\ s \notin unlocked =>
  Cardinality(Seen(s)) < MaxRunning + Cardinality(Unguarded(LinkOf[s]))
-----------------------------------------------------------------------------
LEMMA ShapeInit == Init => Shape
BY PublicAssumption DEF Init, Shape, TypeOK, Ended, Running

LEMMA ShapeStep == Shape /\ [Next]_vars => Shape'
<1> SUFFICES ASSUME Shape, [Next]_vars PROVE Shape'
  OBVIOUS
<1> USE PublicAssumption DEF Shape, TypeOK, Ended, Final, Go, Mishap, Running
<1>1. ASSUME NEW s \in Submits, Rollback(s)
      PROVE  expired' \subseteq expired /\ holder' \in [Links -> Submits \cup {None}]
  BY <1>1 DEF Rollback, Unlock
<1>2. ASSUME NEW s \in Submits, Reject(s), pc[s] \notin Ended PROVE Shape'
  BY <1>1, <1>2 DEF Reject, Close
<1>3. ASSUME NEW s \in Submits, NEW t \in Submits, Replay(s, t), pc[s] \in {"new", "insert"}
      PROVE  Shape'
  BY <1>1, <1>2, <1>3 DEF Replay
<1>4. ASSUME NEW s \in Submits, Lookup(s) PROVE Shape'
  <2>1. CASE pc' = [pc EXCEPT ![s] = "lock"] /\ UNCHANGED <<status, stale, expired, holder, unlocked, live, shown, mishaps>>
    BY <1>4, <2>1 DEF Lookup
  <2>2. QED
    BY <1>3, <1>4, <2>1 DEF Lookup, Same, Rows
<1>5. ASSUME NEW s \in Submits, Lock(s) \/ ExpireFails(s) PROVE Shape'
  BY <1>5 DEF Lock, ExpireFails
<1>6. ASSUME NEW s \in Submits, CheckViewer(s) \/ CheckLink(s) PROVE Shape'
  <2>1. PICK ok \in BOOLEAN, from \in {"check", "count"}, to \in {"count", "insert"} :
          Proceed(s, from, ok, to)
    <3>1. Idle(s) \in BOOLEAN /\ \A affordable \in BOOLEAN : (Below(s) /\ affordable) \in BOOLEAN
      BY DEF Idle, Below
    <3>2. QED
      BY <1>6, <3>1 DEF CheckViewer, CheckLink
  <2>2. CASE ok
    BY <2>1, <2>2 DEF Proceed
  <2>3. CASE ~ok
    BY <1>2, <2>1, <2>3 DEF Proceed
  <2>4. QED
    BY <2>2, <2>3
<1>7. ASSUME NEW s \in Submits, Insert(s) PROVE Shape'
  <2>1. CASE Clash(s) = {}
    <3>1. /\ status' = [t \in Submits |-> IF t = s THEN "running"
                                          ELSE IF t \in Mine(s) THEN "failed" ELSE status[t]]
          /\ stale' = stale \ Mine(s) /\ expired' = expired \ Mine(s)
          /\ pc' = [pc EXCEPT ![s] = "core"] /\ pc[s] = "insert"
          /\ UNCHANGED <<unlocked, live, shown, mishaps>>
      BY <1>7, <2>1 DEF Insert, Rollback
    <3>2. holder' \in [Links -> Submits \cup {None}]
      BY <1>1, <1>7, <2>1 DEF Insert
    <3>3. status' \in [Submits -> Final \cup {"none", "running"}]
      BY <3>1
    <3>4. Mine(s) \subseteq Running
      BY DEF Mine
    <3>5. \A t \in Submits \ {s} : status'[t] = "none" <=> status[t] = "none"
      BY <3>1, <3>4
    <3>6. stale' \subseteq Running'
      BY <3>1
    <3>7. \A t \in Submits :
            /\ pc'[t] \in {"new", "lock", "check", "count", "insert"} => status'[t] = "none"
            /\ pc'[t] \in {"core", "finish"} => status'[t] # "none"
      BY <3>1, <3>5
    <3>8. QED
      BY <3>1, <3>2, <3>3, <3>6, <3>7
  <2>2. QED
    BY <1>3, <1>7, <2>1 DEF Insert, Same, Rows
<1>8. ASSUME NEW t \in Submits, NEW e \in Final, Finish(t, e), UNCHANGED expired
      PROVE  /\ status' \in [Submits -> Final \cup {"none", "running"}]
             /\ expired' \subseteq stale' /\ stale' \subseteq Running'
             /\ \A r \in Submits : status'[r] = "none" <=> status[r] = "none"
  BY <1>8 DEF Finish, Unended
<1>9. ASSUME NEW s \in Submits, NEW e \in Final, Core(s, e) PROVE Shape'
  BY <1>9 DEF Core
<1>10. ASSUME NEW s \in Submits, Answer(s) PROVE Shape'
  <2>1. live[s] \in Final /\ Finish(s, live[s]) /\ UNCHANGED expired
    BY <1>10 DEF Answer
  <2>2. /\ status' \in [Submits -> Final \cup {"none", "running"}]
        /\ expired' \subseteq stale' /\ stale' \subseteq Running'
        /\ \A r \in Submits : status'[r] = "none" <=> status[r] = "none"
    BY <1>8, <2>1
  <2>3. Stored(s) \in Final
    BY <2>1, <1>10 DEF Stored, Unended, Answer
  <2>4. QED
    BY <1>10, <2>2, <2>3 DEF Answer
<1>11. ASSUME NEW s \in Submits, RunBreaks(s) \/ GiveUp(s) PROVE Shape'
  BY <1>11 DEF RunBreaks, GiveUp
<1>12. ASSUME NEW s \in Submits, NEW t \in Submits, Poll(s, t) PROVE Shape'
  BY <1>12 DEF Poll, Same, Rows
<1>13. ASSUME NEW s \in Submits, Crash(s) PROVE Shape'
  BY <1>1, <1>13 DEF Crash
<1>14. ASSUME NEW t \in Submits, Cancel(t) PROVE Shape'
  BY <1>8, <1>14 DEF Cancel
<1>15. ASSUME NEW t \in Submits, Age(t) PROVE Shape'
  BY <1>15 DEF Age
<1>16. CASE UNCHANGED vars
  BY <1>16 DEF vars
<1>17. QED
  BY <1>4, <1>5, <1>6, <1>7, <1>9, <1>10, <1>11, <1>12, <1>13, <1>14, <1>15, <1>16
     DEF Next, Admit, Run

(* The turns of a link and its locks stay what they are.                   *)
THEOREM TypeCorrect == Spec => []TypeOK
<1>1. Shape => TypeOK
  BY DEF Shape
<1>2. QED
  BY ShapeInit, ShapeStep, <1>1, PTL DEF Spec
-----------------------------------------------------------------------------
(* The lock of a link.                                                     *)

LEMMA RollbackKeeps ==
  ASSUME Shape, NEW s \in Submits, Rollback(s), NEW r \in Submits \ {s}
  PROVE  /\ Holds(r) => Holds(r)'
         /\ Mine(r) \subseteq Mine(r)'
BY PublicAssumption DEF Shape, TypeOK, Rollback, Unlock, Holds, Mine, On

LEMMA RollbackFrees ==
  ASSUME Shape, NEW s \in Submits, Rollback(s)
  PROVE  ~Holds(s)'
BY PublicAssumption DEF Shape, TypeOK, Rollback, Unlock, Holds

\* While a submit holds the lock, what it expired stays expired.
KeepsMine == \A r \in Submits : Holds(r) /\ Holds(r)' => Mine(r) \subseteq Mine(r)'

LEMMA GuardStep == Shape /\ Guard /\ [Next]_vars => Guard' /\ KeepsMine
<1> SUFFICES ASSUME Shape, Guard, [Next]_vars PROVE Guard' /\ KeepsMine
  OBVIOUS
<1>0. pc \in [Submits -> Ended \cup {"new", "lock", "check", "count", "insert", "core", "finish", "wait"}]
  BY DEF Shape, TypeOK
<1>1. ASSUME UNCHANGED <<holder, expired>> PROVE KeepsMine
  BY <1>1 DEF KeepsMine, Mine, Holds
<1>2. ASSUME NEW s \in Submits, Rollback(s), UNCHANGED unlocked,
             NEW to \in Ended \cup {"core", "wait"}, pc' = [pc EXCEPT ![s] = to]
      PROVE  Guard' /\ KeepsMine
  <2>1. KeepsMine
    BY <1>2, RollbackKeeps, RollbackFrees DEF KeepsMine
  <2>2. ASSUME NEW r \in Submits, pc'[r] \in {"check", "count", "insert"}, r \notin unlocked'
        PROVE  Holds(r)'
    <3>1. r # s /\ pc[r] \in {"check", "count", "insert"} /\ r \notin unlocked
      BY <1>0, <1>2, <2>2 DEF Ended
    <3>2. QED
      BY <1>2, <3>1, RollbackKeeps DEF Guard
  <2>3. QED
    BY <2>1, <2>2 DEF Guard
<1>3. ASSUME NEW s \in Submits, Reject(s) PROVE Guard' /\ KeepsMine
  BY <1>2, <1>3 DEF Reject, Close, Go, Ended
<1>4. ASSUME NEW s \in Submits, NEW t \in Submits, Replay(s, t) PROVE Guard' /\ KeepsMine
  BY <1>2, <1>3, <1>4 DEF Replay, Go
<1>5. ASSUME NEW s \in Submits, NEW to \in {"lock", "done", "finish"}, pc' = [pc EXCEPT ![s] = to],
             UNCHANGED <<holder, expired, unlocked>>
      PROVE  Guard' /\ KeepsMine
  BY <1>0, <1>1, <1>5 DEF Guard, Holds
<1>6. ASSUME NEW s \in Submits, Lookup(s) PROVE Guard' /\ KeepsMine
  BY <1>4, <1>5, <1>6 DEF Lookup, Same, Rows, Go
<1>7. ASSUME NEW s \in Submits, Lock(s) PROVE Guard' /\ KeepsMine
  <2>1. /\ holder[LinkOf[s]] = None /\ holder' = [holder EXCEPT ![LinkOf[s]] = s]
        /\ pc' = [pc EXCEPT ![s] = "check"] /\ expired \subseteq expired' /\ UNCHANGED unlocked
    BY <1>7 DEF Lock, Free, Go
  <2>2. Guard'
    BY <1>0, <2>1, PublicAssumption DEF Guard, Holds, Shape, TypeOK
  <2>3. KeepsMine
    BY <2>1 DEF KeepsMine, Mine
  <2>4. QED
    BY <2>2, <2>3
<1>8. ASSUME NEW s \in Submits, ExpireFails(s) PROVE Guard' /\ KeepsMine
  <2>1. /\ pc' = [pc EXCEPT ![s] = "check"] /\ unlocked' = unlocked \cup {s}
        /\ UNCHANGED <<holder, expired>>
    BY <1>8 DEF ExpireFails, Go
  <2>2. QED
    BY <1>0, <1>1, <2>1 DEF Guard, Holds
<1>9. ASSUME NEW s \in Submits, CheckViewer(s) \/ CheckLink(s) PROVE Guard' /\ KeepsMine
  <2>1. CASE ~Reject(s)
    <3>1. /\ pc[s] \in {"check", "count"} /\ UNCHANGED <<holder, expired, unlocked>>
          /\ \E to \in {"count", "insert"} : pc' = [pc EXCEPT ![s] = to]
      BY <1>9, <2>1 DEF CheckViewer, CheckLink, Proceed, Go
    <3>2. QED
      BY <1>0, <1>1, <3>1 DEF Guard, Holds
  <2>2. QED
    BY <1>3, <2>1
<1>10. ASSUME NEW s \in Submits, Insert(s) PROVE Guard' /\ KeepsMine
  <2>1. CASE Clash(s) = {}
    BY <1>2, <1>10, <2>1 DEF Insert, Go
  <2>2. QED
    BY <1>4, <1>10, <2>1 DEF Insert, Same, Rows
<1>11. ASSUME NEW s \in Submits, Run(s) \/ RunBreaks(s) PROVE Guard' /\ KeepsMine
  BY <1>5, <1>11 DEF Run, Core, Answer, GiveUp, Poll, RunBreaks, Go
<1>12. ASSUME NEW s \in Submits, Crash(s) PROVE Guard' /\ KeepsMine
  BY <1>2, <1>12 DEF Crash, Go, Ended
<1>13. ASSUME NEW t \in Submits, Cancel(t) \/ Age(t) PROVE Guard' /\ KeepsMine
  BY <1>1, <1>13 DEF Cancel, Age, Guard, Holds
<1>14. CASE UNCHANGED vars
  BY <1>1, <1>14 DEF vars, Guard, Holds
<1>15. QED
  BY <1>6, <1>7, <1>8, <1>9, <1>10, <1>11, <1>12, <1>13, <1>14 DEF Next, Admit
-----------------------------------------------------------------------------
(* Turns become running by an insert only.                                 *)

Inserts(s) == pc[s] = "insert" /\ Clash(s) = {} /\ Insert(s)

LEMMA OthersAddNothing ==
  ASSUME Shape, [Next]_vars, ~ \E s \in Submits : Inserts(s)
  PROVE  Rows' = Rows /\ Running' \subseteq Running /\ unlocked \subseteq unlocked'
<1> USE DEF Shape, TypeOK, Ended, Final, Rows, Running
<1>1. ASSUME NEW t \in Submits, NEW e \in Final, Finish(t, e)
      PROVE  Rows' = Rows /\ Running' \subseteq Running
  BY <1>1 DEF Finish, Unended
<1>2. ASSUME NEW s \in Submits, Answer(s)
      PROVE  Rows' = Rows /\ Running' \subseteq Running /\ unlocked' = unlocked
  BY <1>1, <1>2 DEF Answer
<1>3. ASSUME NEW s \in Submits, Insert(s) PROVE UNCHANGED <<status, unlocked>>
  BY <1>3 DEF Insert, Inserts, Replay, Reject
<1>4. ASSUME NEW s \in Submits, Lookup(s) \/ CheckViewer(s) \/ CheckLink(s)
      PROVE  UNCHANGED <<status, unlocked>>
  BY <1>4 DEF Lookup, CheckViewer, CheckLink, Proceed, Replay, Reject
<1>5. ASSUME NEW s \in Submits, Lock(s) \/ RunBreaks(s) \/ Crash(s) \/ Age(s) \/ GiveUp(s)
      PROVE  UNCHANGED <<status, unlocked>>
  BY <1>5 DEF Lock, RunBreaks, Crash, Age, GiveUp
<1>6. ASSUME NEW s \in Submits, (\E e \in Final : Core(s, e)) \/ (\E t \in Submits : Poll(s, t))
      PROVE  UNCHANGED <<status, unlocked>>
  BY <1>6 DEF Core, Poll
<1>7. ASSUME NEW s \in Submits, ExpireFails(s)
      PROVE  UNCHANGED status /\ unlocked \subseteq unlocked'
  BY <1>7 DEF ExpireFails
<1>8. ASSUME NEW t \in Submits, Cancel(t)
      PROVE  Rows' = Rows /\ Running' \subseteq Running /\ unlocked \subseteq unlocked'
  BY <1>1, <1>8 DEF Cancel
<1>9. QED
  BY <1>2, <1>3, <1>4, <1>5, <1>6, <1>7, <1>8 DEF Next, Admit, Run, vars

LEMMA InsertAddsOne ==
  ASSUME Shape, NEW s \in Submits, Inserts(s)
  PROVE  /\ Rows' = Rows \cup {s} /\ Running' = (Running \ Mine(s)) \cup {s} /\ s \notin Rows
         /\ unlocked' = unlocked /\ pc' = [pc EXCEPT ![s] = "core"]
<1>1. /\ status' = [t \in Submits |-> IF t = s THEN "running"
                                      ELSE IF t \in Mine(s) THEN "failed" ELSE status[t]]
      /\ unlocked' = unlocked /\ pc' = [pc EXCEPT ![s] = "core"] /\ status[s] = "none"
  BY DEF Shape, Inserts, Insert, Go
<1>2. Mine(s) \subseteq Running
  BY DEF Mine, Shape, TypeOK
<1>3. QED
  BY <1>1, <1>2 DEF Rows, Running

\* A submit arrives at a later check by passing the one before it.
LEMMA Arrivals ==
  ASSUME Shape, [Next]_vars, NEW s \in Submits
  PROVE  /\ pc'[s] = "count" => pc[s] = "count" \/ (pc[s] = "check" /\ Idle(s))
         /\ pc'[s] = "insert" => pc[s] = "insert" \/ (pc[s] = "count" /\ Below(s))
<1> USE DEF Shape, TypeOK, Ended, Go
<1>1. ASSUME NEW r \in Submits, Lookup(r) \/ Insert(r) \/ CheckViewer(r) \/ CheckLink(r)
      PROVE  /\ pc'[s] = "count" => pc[s] = "count" \/ (pc[s] = "check" /\ Idle(s))
             /\ pc'[s] = "insert" => pc[s] = "insert" \/ (pc[s] = "count" /\ Below(s))
  <2>1. CASE Lookup(r) \/ Insert(r)
    BY <2>1 DEF Lookup, Insert, Replay, Reject
  <2>2. CASE CheckViewer(r) \/ CheckLink(r)
    BY <2>2 DEF CheckViewer, CheckLink, Proceed, Reject
  <2>3. QED
    BY <1>1, <2>1, <2>2
<1>2. ASSUME NEW r \in Submits, Lock(r) \/ ExpireFails(r) \/ Run(r) \/ RunBreaks(r) \/ Crash(r) \/ Cancel(r) \/ Age(r)
      PROVE  pc'[s] \in {"count", "insert"} => pc'[s] = pc[s]
  BY <1>2 DEF Lock, ExpireFails, Run, Core, Answer, Poll, GiveUp, RunBreaks, Crash, Cancel, Age
<1>3. QED
  BY <1>1, <1>2 DEF Next, Admit, vars
-----------------------------------------------------------------------------
(* What a submit saw under its lock only grows by turns without one.       *)

LEMMA SeenStep ==
  ASSUME Shape, Guard, [Next]_vars, NEW r \in Submits, pc'[r] \in {"count", "insert"},
         r \notin unlocked'
  PROVE  /\ r \notin unlocked
         /\ pc[r] \in {"check", "count", "insert"}
         /\ (~ \E s \in Submits : Inserts(s)) => Seen(r)' \subseteq Seen(r)
         /\ \A s \in Submits : Inserts(s) =>
              /\ r # s
              /\ Seen(r)' \subseteq Seen(r) \cup {s}
              /\ LinkOf[s] # LinkOf[r] => Seen(r)' \subseteq Seen(r)
              /\ LinkOf[s] = LinkOf[r] => s \in unlocked
<1>1. pc[r] \in {"check", "count", "insert"}
  BY Arrivals
<1>2. unlocked \subseteq unlocked' /\ r \notin unlocked
  BY OthersAddNothing, InsertAddsOne
<1>3. Holds(r) /\ Holds(r)' /\ Mine(r) \subseteq Mine(r)'
  BY <1>1, <1>2, GuardStep DEF Guard, KeepsMine
<1>4. (~ \E s \in Submits : Inserts(s)) => Seen(r)' \subseteq Seen(r)
  BY <1>3, OthersAddNothing DEF Seen, On
<1>5. ASSUME NEW s \in Submits, Inserts(s)
      PROVE  /\ r # s
             /\ Seen(r)' \subseteq Seen(r) \cup {s}
             /\ LinkOf[s] # LinkOf[r] => Seen(r)' \subseteq Seen(r)
             /\ LinkOf[s] = LinkOf[r] => s \in unlocked
  <2>1. /\ Running' \subseteq Running \cup {s} /\ unlocked' = unlocked
        /\ pc' = [pc EXCEPT ![s] = "core"] /\ pc[s] = "insert"
    BY <1>5, InsertAddsOne DEF Inserts
  <2>2. r # s
    BY <2>1 DEF Shape, TypeOK
  <2>3. Seen(r)' \subseteq Seen(r) \cup {s} /\ (LinkOf[s] # LinkOf[r] => Seen(r)' \subseteq Seen(r))
    BY <1>3, <2>1 DEF Seen, On
  <2>4. s \notin unlocked => Holds(s)
    BY <2>1 DEF Guard
  <2>5. LinkOf[s] = LinkOf[r] => s \in unlocked
    BY <1>3, <2>2, <2>4 DEF Holds
  <2>6. QED
    BY <2>2, <2>3, <2>5
<1>6. QED
  BY <1>1, <1>2, <1>4, <1>5

LEMMA AloneStep ==
  Shape /\ Guard /\ Alone /\ OneEach /\ [Next]_vars => (Alone /\ OneEach)'
<1> SUFFICES ASSUME Shape, Guard, Alone, OneEach, [Next]_vars PROVE (Alone /\ OneEach)'
  OBVIOUS
<1>1. unlocked \subseteq unlocked'
  BY OthersAddNothing, InsertAddsOne
<1>2. ASSUME NEW r \in Submits, pc'[r] \in {"count", "insert"}, r \notin unlocked',
             NEW t \in Seen(r)', ViewerOf[t] = ViewerOf[r]
      PROVE  t \in unlocked'
  <2>1. t \in Seen(r) => t \in unlocked
    <3>1. r \notin unlocked
      BY <1>2, SeenStep
    <3>2. CASE pc[r] \in {"count", "insert"}
      BY <1>2, <3>1, <3>2 DEF Alone
    <3>3. CASE Idle(r)
      BY <1>2, <3>3 DEF Idle
    <3>4. QED
      BY <1>2, <3>2, <3>3, Arrivals
  <2>2. CASE t \in Seen(r)
    BY <1>1, <2>1, <2>2
  <2>3. CASE t \notin Seen(r)
    <3>1. PICK s \in Submits : Inserts(s)
      BY <1>2, <2>3, SeenStep
    <3>2. t = s /\ LinkOf[s] = LinkOf[r]
      BY <1>2, <2>3, <3>1, SeenStep
    <3>3. s \in unlocked
      BY <1>2, <3>1, <3>2, SeenStep
    <3>4. QED
      BY <1>1, <3>2, <3>3
  <2>4. QED
    BY <2>2, <2>3
<1>3. Alone'
  BY <1>2 DEF Alone
<1>4. OneEach'
  <2>1. CASE ~ \E s \in Submits : Inserts(s)
    BY <1>1, <2>1, OthersAddNothing DEF OneEach
  <2>2. ASSUME NEW s \in Submits, Inserts(s) PROVE OneEach'
    <3>1. /\ Running' = (Running \ Mine(s)) \cup {s} /\ unlocked' = unlocked /\ pc[s] = "insert"
      BY <2>2, InsertAddsOne DEF Inserts
    <3>2. ASSUME s \notin unlocked, NEW t \in Running', t # s, LinkOf[t] = LinkOf[s],
                 ViewerOf[t] = ViewerOf[s]
          PROVE  t \in unlocked
      <4>1. t \in Seen(s)
        BY <3>1, <3>2 DEF Seen, On, Running
      <4>2. QED
        BY <3>1, <3>2, <4>1 DEF Alone
    <3>3. QED
      BY <3>1, <3>2 DEF OneEach
  <2>3. QED
    BY <2>1, <2>2
<1>5. QED
  BY <1>3, <1>4

\* A viewer's conversation runs one turn at a time on a link, unless an
\* admission lost the lock of the link.
THEOREM OneEachAlways == Spec => []OneEach
<1> DEFINE I == Shape /\ Guard /\ Alone /\ OneEach
<1>1. Init => I
  BY ShapeInit DEF Init, Guard, Alone, OneEach, Running
<1>2. I /\ [Next]_vars => I'
  BY ShapeStep, GuardStep, AloneStep
<1>3. I => OneEach
  OBVIOUS
<1>4. QED
  BY <1>1, <1>2, <1>3, PTL DEF Spec
-----------------------------------------------------------------------------
(* The ceiling of a link.                                                  *)

LEMMA Counts ==
  ASSUME NEW T \in SUBSET Submits, NEW S \in SUBSET T
  PROVE  Cardinality(S) \in Nat /\ Cardinality(T) \in Nat /\ Cardinality(S) <= Cardinality(T)
<1>1. IsFiniteSet(T) /\ IsFiniteSet(S)
  BY FS_Subset, PublicAssumption
<1>2. QED
  BY <1>1, FS_Subset, FS_CardinalityType

LEMMA CountsOneMore ==
  ASSUME NEW T \in SUBSET Submits, NEW s \in Submits, NEW S \in SUBSET (T \cup {s})
  PROVE  Cardinality(S) \in Nat /\ Cardinality(T) \in Nat /\ Cardinality(S) <= Cardinality(T) + 1
<1>1. IsFiniteSet(T)
  BY FS_Subset, PublicAssumption
<1>2. Cardinality(T \cup {s}) = IF s \in T THEN Cardinality(T) ELSE Cardinality(T) + 1
  BY <1>1, FS_AddElement
<1>3. Cardinality(S) <= Cardinality(T \cup {s}) /\ Cardinality(S) \in Nat
  BY Counts
<1>4. QED
  BY <1>1, <1>2, <1>3, FS_CardinalityType

LEMMA CountsNew ==
  ASSUME NEW T \in SUBSET Submits, NEW s \in Submits \ T
  PROVE  Cardinality(T) \in Nat /\ Cardinality(T \cup {s}) = Cardinality(T) + 1
<1>1. IsFiniteSet(T)
  BY FS_Subset, PublicAssumption
<1>2. QED
  BY <1>1, FS_AddElement, FS_CardinalityType

LEMMA CeilingStep ==
  ASSUME Shape, Guard, Room, LinkCeiling, [Next]_vars
  PROVE  (Room /\ LinkCeiling)'
<1> DEFINE B(l) == Cardinality(On(l) \cap Running)  G(l) == Cardinality(Unguarded(l))
           C(r) == Cardinality(Seen(r))
<1>1. /\ \A l : /\ On(l) \cap Running \in SUBSET Submits /\ Unguarded(l) \in SUBSET Submits
                /\ (On(l) \cap Running)' \in SUBSET Submits /\ Unguarded(l)' \in SUBSET Submits
      /\ \A r : Seen(r) \in SUBSET Submits /\ Seen(r)' \in SUBSET Submits
  BY DEF Unguarded, On, Seen, Running
<1>2. /\ \A l : B(l) \in Nat /\ B(l)' \in Nat /\ G(l) \in Nat /\ G(l)' \in Nat
      /\ \A r : C(r) \in Nat /\ C(r)' \in Nat
  BY <1>1, Counts
<1> HIDE DEF B, G, C
<1>3. ASSUME NEW r \in Submits, pc'[r] = "insert", r \notin unlocked'
      PROVE  C(r) < MaxRunning + G(LinkOf[r])
  <2>1. r \notin unlocked
    BY <1>3, SeenStep
  <2>2. CASE pc[r] = "insert"
    BY <2>1, <2>2 DEF Room, C, G
  <2>3. CASE Below(r)
    <3>1. C(r) < MaxRunning
      BY <2>3 DEF Below, C
    <3>2. QED
      BY <1>2, <3>1, PublicAssumption
  <2>4. QED
    BY <1>3, <2>2, <2>3, Arrivals
<1>4. CASE ~ \E s \in Submits : Inserts(s)
  <2>1. Rows' = Rows /\ Running' \subseteq Running /\ unlocked \subseteq unlocked'
    BY <1>4, OthersAddNothing
  <2>2. \A l : /\ (On(l) \cap Running)' \subseteq On(l) \cap Running
               /\ Unguarded(l) \subseteq Unguarded(l)'
    BY <2>1 DEF Unguarded, On
  <2>3. \A l : B(l)' <= B(l)
    BY <1>1, <2>2, Counts DEF B
  <2>4. \A l : G(l) <= G(l)'
    BY <1>1, <2>2, Counts DEF G
  <2>5. \A l \in Links : B(l)' <= MaxRunning + G(l)'
    <3>1. \A l \in Links : B(l) <= MaxRunning + G(l)
      BY DEF LinkCeiling, B, G
    <3>2. QED
      BY <1>2, <2>3, <2>4, <3>1, PublicAssumption
  <2>6. ASSUME NEW r \in Submits, pc'[r] = "insert", r \notin unlocked'
        PROVE  C(r)' < MaxRunning + G(LinkOf[r])'
    <3>1. Seen(r)' \subseteq Seen(r)
      BY <1>4, <2>6, SeenStep
    <3>2. C(r)' <= C(r)
      BY <1>1, <3>1, Counts DEF C
    <3>3. QED
      BY <1>2, <1>3, <2>4, <2>6, <3>2, PublicAssumption
  <2>7. QED
    BY <2>5, <2>6 DEF Room, LinkCeiling, B, G, C
<1>5. ASSUME NEW s \in Submits, Inserts(s) PROVE (Room /\ LinkCeiling)'
  <2> DEFINE w == LinkOf[s]
  <2>1. /\ Rows' = Rows \cup {s} /\ Running' = (Running \ Mine(s)) \cup {s} /\ s \notin Rows
        /\ unlocked' = unlocked /\ pc[s] = "insert"
    BY <1>5, InsertAddsOne DEF Inserts
  <2>2. \A l : Unguarded(l) \subseteq Unguarded(l)'
    BY <2>1 DEF Unguarded
  <2>3. \A l : G(l) <= G(l)'
    BY <1>1, <2>2, Counts DEF G
  <2>4. s \in unlocked => G(w)' = G(w) + 1
    <3>1. s \in unlocked => Unguarded(w)' = Unguarded(w) \cup {s} /\ s \notin Unguarded(w)
      BY <2>1 DEF Unguarded, On
    <3>2. QED
      BY <1>1, <3>1, CountsNew DEF G
  <2>5. ASSUME NEW l \in Links PROVE B(l)' <= MaxRunning + G(l)'
    <3>1. CASE l # w
      <4>1. (On(l) \cap Running)' \subseteq On(l) \cap Running
        BY <2>1, <3>1 DEF On
      <4>2. B(l)' <= B(l)
        BY <1>1, <4>1, Counts DEF B
      <4>3. QED
        BY <1>2, <2>3, <4>2, PublicAssumption DEF LinkCeiling, B, G
    <3>2. CASE l = w /\ s \in unlocked
      <4>1. (On(l) \cap Running)' \subseteq (On(l) \cap Running) \cup {s}
        BY <2>1 DEF On
      <4>2. B(l)' <= B(l) + 1
        BY <1>1, <4>1, CountsOneMore DEF B
      <4>3. QED
        BY <1>2, <2>4, <3>2, <4>2, PublicAssumption DEF LinkCeiling, B, G
    <3>3. CASE l = w /\ s \notin unlocked
      <4>1. (On(l) \cap Running)' \subseteq Seen(s) \cup {s}
        BY <2>1, <3>3 DEF On, Seen
      <4>2. B(l)' <= C(s) + 1
        BY <1>1, <4>1, CountsOneMore DEF B, C
      <4>3. C(s) < MaxRunning + G(w)
        BY <2>1, <3>3 DEF Room, C, G
      <4>4. QED
        BY <1>2, <2>3, <3>3, <4>2, <4>3, PublicAssumption
    <3>4. QED
      BY <3>1, <3>2, <3>3
  <2>6. ASSUME NEW r \in Submits, pc'[r] = "insert", r \notin unlocked'
        PROVE  C(r)' < MaxRunning + G(LinkOf[r])'
    <3>1. CASE LinkOf[s] # LinkOf[r]
      <4>1. Seen(r)' \subseteq Seen(r)
        BY <1>5, <2>6, <3>1, SeenStep
      <4>2. C(r)' <= C(r)
        BY <1>1, <4>1, Counts DEF C
      <4>3. QED
        BY <1>2, <1>3, <2>3, <2>6, <4>2, PublicAssumption
    <3>2. CASE LinkOf[s] = LinkOf[r]
      <4>1. s \in unlocked /\ Seen(r)' \subseteq Seen(r) \cup {s}
        BY <1>5, <2>6, <3>2, SeenStep
      <4>2. C(r)' <= C(r) + 1
        BY <1>1, <4>1, CountsOneMore DEF C
      <4>3. QED
        BY <1>2, <1>3, <2>4, <2>6, <3>2, <4>1, <4>2, PublicAssumption
    <3>3. QED
      BY <3>1, <3>2
  <2>7. QED
    BY <2>5, <2>6 DEF Room, LinkCeiling, B, G, C
<1>6. QED
  BY <1>4, <1>5

LEMMA CeilingAtFirst == Init => Room /\ LinkCeiling
<1> SUFFICES ASSUME Init PROVE Room /\ LinkCeiling
  OBVIOUS
<1>1. \A l : On(l) \cap Running = {} /\ Unguarded(l) = {}
  BY DEF Init, Rows, Running, Unguarded
<1>2. \A l : Cardinality(On(l) \cap Running) = 0 /\ Cardinality(Unguarded(l)) = 0
  BY <1>1, FS_EmptySet
<1>3. Room
  BY DEF Init, Room
<1>4. QED
  BY <1>2, <1>3, PublicAssumption DEF LinkCeiling

\* The turns of a link that run at a time exceed its ceiling only by turns that
\* were admitted after their lock was lost.
THEOREM LinkCeilingAlways == Spec => []LinkCeiling
<1> DEFINE I == Shape /\ Guard /\ Room /\ LinkCeiling
<1>1. Init => I
  BY ShapeInit, CeilingAtFirst DEF Init, Guard
<1>2. I /\ [Next]_vars => I'
  BY ShapeStep, GuardStep, CeilingStep
<1>3. I => LinkCeiling
  OBVIOUS
<1>4. QED
  BY <1>1, <1>2, <1>3, PTL DEF Spec
-----------------------------------------------------------------------------
(* The bot of a link implements AskedTurns, step by step.                  *)

\* A turn that is ended is ended once.
LEMMA FinishEnds ==
  ASSUME Shape, NEW t \in Submits, NEW e \in Final, Finish(t, e), UNCHANGED shown
  PROVE  Promise!Next \/ UNCHANGED <<Rows, status, shown>>
<1> USE DEF Shape, TypeOK, Final, Rows, Finish, Unended
<1>1. CASE status[t] = "running"
  <2>1. Rows' = Rows /\ status' = [status EXCEPT ![t] = e]
    BY <1>1
  <2>2. QED
    BY <1>1, <2>1 DEF Promise!Next, Promise!End
<1>2. CASE status[t] # "running"
  BY <1>2
<1>3. QED
  BY <1>1, <1>2

\* An inserted turn is a question asked, and the turns that its transaction
\* expired end in the same step.
LEMMA InsertAsks ==
  ASSUME Shape, NEW s \in Submits, Inserts(s)
  PROVE  Promise!Next
<1>1. /\ Rows' = Rows \cup {s} /\ UNCHANGED shown /\ Mine(s) \subseteq Running
      /\ status' = [t \in Submits |-> IF t = s THEN "running"
                                      ELSE IF t \in Mine(s) THEN "failed" ELSE status[t]]
  BY InsertAddsOne DEF Inserts, Insert, Mine, Shape, TypeOK
<1>2. Promise!TurnOf(s) = {}
  BY DEF Promise!TurnOf, Inserts, Clash, Same, On, Rows
<1>3. \E dead \in SUBSET {t \in Submits : status[t] = "running"} :
        status' = [t \in Submits |-> IF t = s THEN "running"
                                     ELSE IF t \in dead THEN "failed" ELSE status[t]]
  <2>1. Mine(s) \in SUBSET {t \in Submits : status[t] = "running"}
    BY <1>1 DEF Running
  <2>2. WITNESS Mine(s) \in SUBSET {t \in Submits : status[t] = "running"}
  <2>3. QED
    BY <1>1
<1>4. Promise!Ask(s)
  BY <1>1, <1>2, <1>3 DEF Promise!Ask
<1>5. QED
  BY <1>4 DEF Promise!Next

LEMMA StepKeepsPromise ==
  ASSUME Shape, [Next]_vars
  PROVE  Promise!Next \/ UNCHANGED <<Rows, status, shown>>
<1> USE DEF Rows
<1>1. ASSUME NEW s \in Submits, Reject(s) PROVE UNCHANGED <<Rows, status, shown>>
  BY <1>1 DEF Reject
<1>2. ASSUME NEW s \in Submits, NEW t \in Submits, Replay(s, t)
      PROVE  UNCHANGED <<Rows, status, shown>>
  BY <1>1, <1>2 DEF Replay
<1>3. ASSUME NEW s \in Submits, Lookup(s) \/ Lock(s) \/ ExpireFails(s)
      PROVE  UNCHANGED <<Rows, status, shown>>
  BY <1>2, <1>3 DEF Lookup, Lock, ExpireFails, Same
<1>4. ASSUME NEW s \in Submits, CheckViewer(s) \/ CheckLink(s)
      PROVE  UNCHANGED <<Rows, status, shown>>
  BY <1>1, <1>4 DEF CheckViewer, CheckLink, Proceed
<1>5. ASSUME NEW s \in Submits, Insert(s) PROVE Promise!Next \/ UNCHANGED <<Rows, status, shown>>
  <2>1. CASE Clash(s) = {}
    BY <1>5, <2>1, InsertAsks DEF Inserts, Insert
  <2>2. CASE Clash(s) # {}
    BY <1>2, <1>5, <2>2 DEF Insert, Same
  <2>3. QED
    BY <2>1, <2>2
<1>6. ASSUME NEW s \in Submits, (\E e \in Final : Core(s, e)) \/ GiveUp(s) \/ Crash(s) \/ Age(s)
      PROVE  UNCHANGED <<Rows, status, shown>>
  BY <1>6 DEF Core, GiveUp, Crash, Age
<1>7. ASSUME NEW s \in Submits, Answer(s) PROVE Promise!Next
  <2>1. /\ shown[s] = None /\ live[s] \in Final /\ s \in Rows
        /\ shown' = [shown EXCEPT ![s] = Stored(s)] /\ Finish(s, live[s])
    BY <1>7 DEF Answer, Shape, Ended
  <2>2. CASE status[s] = "running"
    <3>1. shown' = [shown EXCEPT ![s] = live[s]] /\ status' = [status EXCEPT ![s] = live[s]]
      BY <2>1, <2>2 DEF Stored, Unended, Finish
    <3>2. Rows' = Rows
      BY <2>1, <3>1 DEF Shape, TypeOK, Final
    <3>3. QED
      BY <2>1, <2>2, <3>1, <3>2 DEF Promise!Next, Promise!End
  <2>3. CASE status[s] # "running"
    <3>1. shown' = [shown EXCEPT ![s] = status[s]] /\ UNCHANGED status /\ status[s] \in Final
      BY <2>1, <2>3 DEF Stored, Unended, Finish, Shape, TypeOK
    <3>2. s \in Promise!TurnOf(s)
      BY <2>1 DEF Promise!TurnOf
    <3>3. QED
      BY <2>1, <3>1, <3>2 DEF Promise!Next, Promise!Show
  <2>4. QED
    BY <2>2, <2>3
<1>8. ASSUME NEW s \in Submits, RunBreaks(s) PROVE Promise!Next
  <2>1. shown[s] = None /\ s \in Rows /\ UNCHANGED status /\ shown' = [shown EXCEPT ![s] = "failed"]
    BY <1>8 DEF RunBreaks, Shape, Ended
  <2>2. QED
    BY <2>1 DEF Promise!Next, Promise!Apologise
<1>9. ASSUME NEW s \in Submits, NEW t \in Submits, Poll(s, t) PROVE Promise!Next
  <2>1. /\ shown[s] = None /\ status[t] \in Final /\ UNCHANGED status
        /\ shown' = [shown EXCEPT ![s] = status[t]] /\ t \in Same(s)
    BY <1>9 DEF Poll, Shape, TypeOK, Ended, Same
  <2>2. t \in Promise!TurnOf(s)
    BY <2>1 DEF Promise!TurnOf, Same, On
  <2>3. QED
    BY <2>1, <2>2 DEF Promise!Next, Promise!Show
<1>10. ASSUME NEW t \in Submits, Cancel(t)
       PROVE  Promise!Next \/ UNCHANGED <<Rows, status, shown>>
  BY <1>10, FinishEnds DEF Cancel, Final
<1>11. CASE UNCHANGED vars
  BY <1>11 DEF vars
<1>12. QED
  BY <1>3, <1>4, <1>5, <1>6, <1>7, <1>8, <1>9, <1>10, <1>11 DEF Next, Admit, Run

\* A question that a viewer sends again is one turn, which ends once, and what
\* is shown is how it ended or that its run broke: PublicTurns refines
\* AskedTurns, the expiry inside an admission included.
THEOREM PromiseKept == Spec => KeepsPromise
<1>1. Init => Promise!Init
  BY DEF Init, Promise!Init, Rows
<1>2. Spec => []Shape
  BY ShapeInit, ShapeStep, PTL DEF Spec
<1>3. Shape /\ [Next]_vars => [Promise!Next]_(Promise!vars)
  BY StepKeepsPromise DEF Promise!vars
<1>4. QED
  BY <1>1, <1>2, <1>3, PTL DEF Spec, KeepsPromise, Promise!Spec
-----------------------------------------------------------------------------
(* The locks of a link are not left behind.                                *)

\* Whoever holds a link's lock is under admission there, and only while its
\* transaction is open are the rows locked that it expired.
HeldByAdmission ==
  /\ \A l \in Links : holder[l] # None =>
       pc[holder[l]] \in {"check", "count", "insert"} /\ LinkOf[holder[l]] = l
  /\ \A t \in expired : holder[LinkOf[t]] # None

(* Nobody waits for a lock that nobody gives up: the advisory lock of a    *)
(* link, and the rows of the turns that were expired under it, are held by *)
(* an admission that goes on, and by none that was rejected or that died.  *)
THEOREM HeldByAdmissionAlways == Spec => []HeldByAdmission
<1>1. Init => HeldByAdmission
  BY DEF Init, HeldByAdmission
<1>2. Shape /\ HeldByAdmission /\ [Next]_vars => HeldByAdmission'
  <2> SUFFICES ASSUME Shape, HeldByAdmission, [Next]_vars PROVE HeldByAdmission'
    OBVIOUS
  <2> USE PublicAssumption DEF Shape, TypeOK, Ended, HeldByAdmission, Go
  <2>1. ASSUME NEW s \in Submits, Rollback(s),
               NEW to \in Ended \cup {"core", "wait"}, pc' = [pc EXCEPT ![s] = to]
        PROVE  HeldByAdmission'
    <3>1. CASE Holds(s)
      <4>1. /\ holder' = [holder EXCEPT ![LinkOf[s]] = None]
            /\ expired' = expired \ {t \in Submits : LinkOf[t] = LinkOf[s]}
        BY <2>1, <3>1 DEF Rollback, Unlock, Mine, On
      <4>2. \A l \in Links : holder'[l] # None => l # LinkOf[s] /\ holder[l] # s
        BY <3>1, <4>1
      <4>3. QED
        BY <2>1, <4>1, <4>2
    <3>2. CASE ~Holds(s)
      BY <2>1, <3>2 DEF Rollback, Unlock, Mine, Holds
    <3>3. QED
      BY <3>1, <3>2
  <2>2. ASSUME NEW s \in Submits, Reject(s) PROVE HeldByAdmission'
    BY <2>1, <2>2 DEF Reject, Close
  <2>3. ASSUME NEW s \in Submits, NEW t \in Submits, Replay(s, t) PROVE HeldByAdmission'
    BY <2>1, <2>2, <2>3 DEF Replay
  <2>4. ASSUME NEW s \in Submits, NEW to, pc' = [pc EXCEPT ![s] = to],
               pc[s] \in {"check", "count", "insert"} => to \in {"count", "insert"},
               UNCHANGED <<holder, expired>>
        PROVE  HeldByAdmission'
    BY <2>4
  <2>5. ASSUME NEW s \in Submits, Lookup(s) PROVE HeldByAdmission'
    BY <2>3, <2>4, <2>5 DEF Lookup, Same, Rows
  <2>6. ASSUME NEW s \in Submits, Lock(s) PROVE HeldByAdmission'
    BY <2>6 DEF Lock, On
  <2>7. ASSUME NEW s \in Submits, ExpireFails(s) PROVE HeldByAdmission'
    BY <2>4, <2>7 DEF ExpireFails
  <2>8. ASSUME NEW s \in Submits, CheckViewer(s) \/ CheckLink(s) PROVE HeldByAdmission'
    <3>1. CASE ~Reject(s)
      <4>1. /\ UNCHANGED <<holder, expired>>
            /\ \E to \in {"count", "insert"} : pc' = [pc EXCEPT ![s] = to]
        BY <2>8, <3>1 DEF CheckViewer, CheckLink, Proceed
      <4>2. QED
        BY <2>4, <4>1
    <3>2. QED
      BY <2>2, <3>1
  <2>9. ASSUME NEW s \in Submits, Insert(s) PROVE HeldByAdmission'
    <3>1. CASE Clash(s) = {}
      BY <2>1, <2>9, <3>1 DEF Insert
    <3>2. QED
      BY <2>3, <2>9, <3>1 DEF Insert, Same, Rows
  <2>10. ASSUME NEW s \in Submits, Run(s) \/ RunBreaks(s) PROVE HeldByAdmission'
    BY <2>4, <2>10 DEF Run, Core, Answer, GiveUp, Poll, RunBreaks
  <2>11. ASSUME NEW s \in Submits, Crash(s) PROVE HeldByAdmission'
    BY <2>1, <2>11 DEF Crash
  <2>12. ASSUME NEW t \in Submits, Cancel(t) \/ Age(t) PROVE HeldByAdmission'
    BY <2>12 DEF Cancel, Age
  <2>13. CASE UNCHANGED vars
    BY <2>13 DEF vars
  <2>14. QED
    BY <2>5, <2>6, <2>7, <2>8, <2>9, <2>10, <2>11, <2>12, <2>13 DEF Next, Admit
<1>3. QED
  BY <1>1, <1>2, ShapeInit, ShapeStep, PTL DEF Spec
=============================================================================
