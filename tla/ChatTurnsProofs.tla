--------------------------- MODULE ChatTurnsProofs ---------------------------
(***************************************************************************)
(* ChatTurns for any submits, people, conversations and ceilings: what the *)
(* advisory lock still guarantees although expiry gives it up, and that    *)
(* the orchestrator implements AskedTurns.                                 *)
(***************************************************************************)
EXTENDS ChatTurns, FiniteSetTheorems, TLAPS

Early == {"new", "lock", "settle", "check", "count", "tally", "number", "insert"}
Admitting == {"settle", "check", "count", "tally", "number", "insert"}

\* TypeOK without the numbers of the turns, which come at the end since nothing
\* else depends on them, and what the place of a submit says of its turn.
Shape ==
  /\ status \in [Submits -> Final \cup {"none", "running"}]
  /\ stale \subseteq Submits /\ unlocked \subseteq Submits
  /\ holder \in [Users -> Submits \cup {None}]
  /\ batch \in [Submits -> SUBSET Submits]
  /\ pc \in [Submits -> Ended \cup Early \cup {"core", "finish"}]
  /\ live \in [Submits -> Final \cup {None}] /\ shown \in [Submits -> Final \cup {None}]
  /\ \A s \in Submits :
       /\ pc[s] \in Early => status[s] = "none"
       /\ pc[s] \notin Ended => shown[s] = None
       /\ pc[s] \in {"core", "finish"} => status[s] # "none"
       /\ pc[s] = "finish" => live[s] \in Final

\* A submit under admission holds its person's lock, until it settles a turn.
Guard == \A s \in Submits :
  pc[s] \in Admitting /\ s \notin unlocked => holder[UserOf[s]] = s

\* What it saw of its conversation is still so when it inserts.
Seen == \A s \in Submits : pc[s] \in {"count", "tally", "number", "insert"} /\ s \notin unlocked =>
  \A t \in Running : UserOf[t] = UserOf[s] /\ ConversationOf[t] = ConversationOf[s] =>
    t \in unlocked

\* And so is what it counted.
Room == \A s \in Submits : s \notin unlocked =>
  /\ pc[s] \in {"number", "insert"} =>
       RunningOf(UserOf[s]) < MaxRunning + Cardinality(Unguarded(UserOf[s]))
  /\ pc[s] \in {"tally", "number", "insert"} =>
       AskedBy(UserOf[s]) < PerDay + Cardinality(Unguarded(UserOf[s]))

IInv == Shape /\ Guard /\ Room /\ RunningCeiling /\ DayCeiling
-----------------------------------------------------------------------------
LEMMA ShapeInit == Init => Shape
BY DEF Init, Shape, Early, Ended

LEMMA ShapeStep == Shape /\ [Next]_vars => Shape'
<1> SUFFICES ASSUME Shape, [Next]_vars PROVE Shape'
  OBVIOUS
<1> USE ChatAssumption DEF Shape, Early, Ended, Final, Go, Release, rows, Mishap
<1>1. ASSUME NEW s \in Submits, NEW t \in Submits, Resolve(s, t), pc[s] \in {"new", "insert"},
             t \in Rows
      PROVE  Shape'
  BY <1>1 DEF Resolve, Replay, Reject, Rows
<1>2. ASSUME NEW s \in Submits, Reject(s), pc[s] \in Early PROVE Shape'
  BY <1>2 DEF Reject
<1>3. ASSUME NEW s \in Submits, Lookup(s) PROVE Shape'
  <2>1. CASE pc' = [pc EXCEPT ![s] = "lock"] /\ UNCHANGED <<rows, holder, unlocked, batch, live, shown>>
    BY <1>3, <2>1 DEF Lookup
  <2>2. QED
    BY <1>1, <1>2, <1>3, <2>1 DEF Lookup, Same, In, Rows
<1>4. ASSUME NEW s \in Submits, Lock(s) PROVE Shape'
  <2>1. Stale(ConversationOf[s]) \subseteq Submits
    BY DEF Stale, In, Rows
  <2>2. holder' \in [Users -> Submits \cup {None}] /\ batch' \in [Submits -> SUBSET Submits]
    BY <1>4, <2>1 DEF Lock
  <2>3. pc[s] = "lock" /\ \E to \in {"check", "settle"} : pc' = [pc EXCEPT ![s] = to]
    BY <1>4 DEF Lock
  <2>4. UNCHANGED <<status, stale, unlocked, live, shown>>
    BY <1>4 DEF Lock
  <2>5. QED
    BY <2>2, <2>3, <2>4
<1>5. ASSUME NEW s \in Submits, NEW t \in Submits, Settle(s, t) PROVE Shape'
  <2>1. status' \in [Submits -> Final \cup {"none", "running"}] /\ stale' \subseteq Submits
    BY <1>5 DEF Settle, Finish
  <2>2. batch' \in [Submits -> SUBSET Submits] /\ holder' \in [Users -> Submits \cup {None}]
    BY <1>5 DEF Settle
  <2>3. pc[s] = "settle" /\ \E to \in {"check", "settle"} : pc' = [pc EXCEPT ![s] = to]
    BY <1>5 DEF Settle
  <2>4. UNCHANGED <<live, shown>> /\ unlocked' \subseteq Submits
    BY <1>5 DEF Settle
  <2>5. \A r \in Submits : status'[r] = "none" <=> status[r] = "none"
    BY <1>5 DEF Settle, Finish, Unended
  <2>6. QED
    BY <2>1, <2>2, <2>3, <2>4, <2>5
<1>6. ASSUME NEW s \in Submits, CheckConversation(s) \/ CheckDay(s) \/ CheckRunning(s) \/ Number(s) PROVE Shape'
  <2>1. CASE Reject(s)
    BY <1>2, <1>6, <2>1 DEF CheckConversation, CheckDay, CheckRunning, Number, Proceed
  <2>2. CASE ~Reject(s)
    <3>1. \E to \in {"count", "tally", "number", "insert"} : pc' = [pc EXCEPT ![s] = to]
      BY <1>6, <2>2 DEF CheckConversation, CheckDay, CheckRunning, Number, Proceed
    <3>2. pc[s] \in {"check", "count", "tally", "number"} /\ UNCHANGED <<status, stale, holder, unlocked, batch, live, shown>>
      BY <1>6, <2>2 DEF CheckConversation, CheckDay, CheckRunning, Number, Proceed
    <3>3. QED
      BY <3>1, <3>2
  <2>3. QED
    BY <2>1, <2>2
<1>7. ASSUME NEW s \in Submits, Insert(s) PROVE Shape'
  <2>1. CASE status' = [status EXCEPT ![s] = "running"] /\ Clash(s) = {}
    BY <1>7, <2>1 DEF Insert
  <2>2. QED
    BY <1>1, <1>2, <1>7, <2>1 DEF Insert, Same, In, Rows
<1>8. ASSUME NEW s \in Submits, NEW e \in Final, Core(s, e) PROVE Shape'
  BY <1>8 DEF Core
<1>9. ASSUME NEW s \in Submits, Answer(s) PROVE Shape'
  BY <1>9 DEF Answer, Finish, Unended, Stored
<1>10. ASSUME NEW s \in Submits, RunBreaks(s) \/ Crash(s) PROVE Shape'
  BY <1>10 DEF RunBreaks, Crash
<1>11. ASSUME NEW t \in Submits, Cancel(t) \/ View(t) PROVE Shape'
  BY <1>11 DEF Cancel, View, Finish, Unended
<1>12. ASSUME NEW t \in Submits, Age(t) PROVE Shape'
  BY <1>12 DEF Age
<1>13. CASE UNCHANGED vars
  BY <1>13 DEF vars
<1>14. QED
  BY <1>3, <1>4, <1>5, <1>6, <1>7, <1>8, <1>9, <1>10, <1>11, <1>12, <1>13 DEF Next, Admit, Run

LEMMA GuardStep == Shape /\ Guard /\ [Next]_vars => Guard'
<1> SUFFICES ASSUME Shape, Guard, [Next]_vars PROVE Guard'
  OBVIOUS
<1> USE ChatAssumption DEF Shape, Early, Ended, Guard, Admitting, Go, Release
<1>1. ASSUME NEW s \in Submits, NEW t \in Submits, Resolve(s, t) PROVE Guard'
  BY <1>1 DEF Resolve, Replay, Reject
<1>2. ASSUME NEW s \in Submits, Reject(s) PROVE Guard'
  BY <1>2 DEF Reject
<1>3. ASSUME NEW s \in Submits, Lookup(s) PROVE Guard'
  <2>1. CASE pc' = [pc EXCEPT ![s] = "lock"] /\ UNCHANGED <<holder, unlocked>>
    BY <2>1
  <2>2. QED
    BY <1>1, <1>2, <1>3, <2>1 DEF Lookup, Same, In, Rows
<1>4. ASSUME NEW s \in Submits, Lock(s) PROVE Guard'
  <2>1. /\ holder[UserOf[s]] = None /\ holder' = [holder EXCEPT ![UserOf[s]] = s]
        /\ unlocked' = unlocked
    BY <1>4 DEF Lock, Free
  <2>2. \E to \in {"check", "settle"} : pc' = [pc EXCEPT ![s] = to]
    BY <1>4 DEF Lock
  <2>3. QED
    BY <2>1, <2>2
<1>5. ASSUME NEW s \in Submits, NEW t \in Submits, Settle(s, t) PROVE Guard'
  <2>1. \E to \in {"check", "settle"} : pc' = [pc EXCEPT ![s] = to]
    BY <1>5 DEF Settle
  <2>2. QED
    BY <1>5, <2>1 DEF Settle
<1>6. ASSUME NEW s \in Submits, CheckConversation(s) \/ CheckDay(s) \/ CheckRunning(s) \/ Number(s) PROVE Guard'
  <2>1. CASE ~Reject(s)
    <3>1. \E to \in {"count", "tally", "number", "insert"} : pc' = [pc EXCEPT ![s] = to]
      BY <1>6, <2>1 DEF CheckConversation, CheckDay, CheckRunning, Number, Proceed
    <3>2. pc[s] \in {"check", "count", "tally", "number"} /\ UNCHANGED <<holder, unlocked>>
      BY <1>6, <2>1 DEF CheckConversation, CheckDay, CheckRunning, Number, Proceed
    <3>3. QED
      BY <3>1, <3>2
  <2>2. QED
    BY <1>2, <2>1
<1>7. ASSUME NEW s \in Submits, Insert(s) PROVE Guard'
  <2>1. CASE Clash(s) = {}
    BY <1>7, <2>1 DEF Insert
  <2>2. QED
    BY <1>1, <1>2, <1>7, <2>1 DEF Insert, Same, In, Rows
<1>8. ASSUME NEW s \in Submits, Run(s) \/ RunBreaks(s) \/ Crash(s) PROVE Guard'
  BY <1>8 DEF Run, Core, Answer, RunBreaks, Crash
<1>9. ASSUME NEW t \in Submits, Cancel(t) \/ View(t) \/ Age(t) PROVE Guard'
  BY <1>9 DEF Cancel, View, Age
<1>10. CASE UNCHANGED vars
  BY <1>10 DEF vars
<1>11. QED
  BY <1>3, <1>4, <1>5, <1>6, <1>7, <1>8, <1>9, <1>10 DEF Next, Admit
-----------------------------------------------------------------------------
(* Turns become running by an insert only.                                 *)

Inserts(s) == pc[s] = "insert" /\ Clash(s) = {} /\ Insert(s)

LEMMA OthersAddNothing ==
  ASSUME Shape, [Next]_vars, ~ \E s \in Submits : Inserts(s)
  PROVE  Rows' = Rows /\ Running' \subseteq Running /\ unlocked \subseteq unlocked'
<1> USE DEF Shape, Early, Ended, Final, Rows, Running, rows
<1>1. ASSUME NEW t \in Submits, NEW e \in Final \cup {"none"}, Finish(t, e), e # "none"
      PROVE  Rows' = Rows /\ Running' \subseteq Running
  BY <1>1 DEF Finish, Unended
<1>2. ASSUME NEW s \in Submits, Answer(s) PROVE Rows' = Rows /\ Running' \subseteq Running
  BY <1>1, <1>2 DEF Answer
<1>3. ASSUME NEW s \in Submits, Insert(s) PROVE UNCHANGED <<status, unlocked>>
  BY <1>3 DEF Insert, Inserts, Resolve, Replay, Reject
<1>4. ASSUME NEW s \in Submits, Lookup(s) \/ CheckConversation(s) \/ CheckDay(s) \/ CheckRunning(s) \/ Number(s)
      PROVE  UNCHANGED <<status, unlocked>>
  BY <1>4 DEF Lookup, CheckConversation, CheckDay, CheckRunning, Number, Proceed, Resolve, Replay, Reject
<1>5. ASSUME NEW s \in Submits, Lock(s) \/ RunBreaks(s) \/ Crash(s) \/ Age(s) \/ \E e \in Final : Core(s, e)
      PROVE  UNCHANGED <<status, unlocked>>
  BY <1>5 DEF Lock, RunBreaks, Crash, Age, Core
<1>6. ASSUME NEW s \in Submits, NEW t \in Submits, Settle(s, t)
      PROVE  Rows' = Rows /\ Running' \subseteq Running /\ unlocked \subseteq unlocked'
  BY <1>1, <1>6 DEF Settle
<1>7. ASSUME NEW t \in Submits, Cancel(t) \/ View(t)
      PROVE  Rows' = Rows /\ Running' \subseteq Running /\ unlocked \subseteq unlocked'
  BY <1>1, <1>7 DEF Cancel, View
<1>8. ASSUME NEW s \in Submits, Answer(s) PROVE unlocked' = unlocked
  BY <1>8 DEF Answer
<1>9. QED
  BY <1>2, <1>3, <1>4, <1>5, <1>6, <1>7, <1>8 DEF Next, Admit, Run, vars

LEMMA InsertAddsOne ==
  ASSUME Shape, NEW s \in Submits, Inserts(s)
  PROVE  /\ Rows' = Rows \cup {s} /\ Running' = Running \cup {s} /\ s \notin Rows
         /\ unlocked' = unlocked /\ pc' = [pc EXCEPT ![s] = "core"]
BY DEF Shape, Early, Inserts, Insert, Rows, Running, Go

\* A submit arrives at a later check by passing the one before it.
LEMMA Arrivals ==
  ASSUME Shape, [Next]_vars, NEW s \in Submits
  PROVE  /\ pc'[s] = "count" => pc[s] = "count" \/ Idle(s)
         /\ pc'[s] = "tally" => pc[s] = "tally" \/ (pc[s] = "count" /\ AskedBy(UserOf[s]) < PerDay)
         /\ pc'[s] = "number" =>
              pc[s] = "number" \/ (pc[s] = "tally" /\ RunningOf(UserOf[s]) < MaxRunning)
         /\ pc'[s] = "insert" => pc[s] \in {"number", "insert"}
<1> USE DEF Shape, Early, Ended, Go
<1>1. ASSUME NEW r \in Submits, Lookup(r) \/ Insert(r) \/ CheckConversation(r) \/ CheckDay(r) \/ CheckRunning(r) \/ Number(r)
      PROVE  /\ pc'[s] = "count" => pc[s] = "count" \/ Idle(s)
             /\ pc'[s] = "tally" => pc[s] = "tally" \/ (pc[s] = "count" /\ AskedBy(UserOf[s]) < PerDay)
             /\ pc'[s] = "number" =>
                  pc[s] = "number" \/ (pc[s] = "tally" /\ RunningOf(UserOf[s]) < MaxRunning)
             /\ pc'[s] = "insert" => pc[s] \in {"number", "insert"}
  <2>1. CASE Lookup(r) \/ Insert(r)
    BY <2>1 DEF Lookup, Insert, Resolve, Replay, Reject
  <2>2. CASE CheckConversation(r) \/ CheckDay(r) \/ CheckRunning(r) \/ Number(r)
    BY <2>2 DEF CheckConversation, CheckDay, CheckRunning, Number, Proceed, Reject
  <2>3. QED
    BY <1>1, <2>1, <2>2
<1>2. ASSUME NEW r \in Submits, Lock(r) \/ Run(r) \/ RunBreaks(r) \/ Crash(r) \/ Cancel(r) \/ View(r) \/ Age(r)
      PROVE  pc'[s] \in {"count", "tally", "number", "insert"} => pc'[s] = pc[s]
  BY <1>2 DEF Lock, Run, Core, Answer, RunBreaks, Crash, Cancel, View, Age
<1>3. ASSUME NEW r \in Submits, NEW t \in Submits, Settle(r, t)
      PROVE  pc'[s] \in {"count", "tally", "number", "insert"} => pc'[s] = pc[s]
  BY <1>3 DEF Settle
<1>4. QED
  BY <1>1, <1>2, <1>3 DEF Next, Admit, vars
-----------------------------------------------------------------------------
(* One running turn of a person in a conversation.                         *)

LEMMA SeenStep ==
  Shape /\ Guard /\ Seen /\ OneAtATime /\ [Next]_vars => (Seen /\ OneAtATime)'
<1> SUFFICES ASSUME Shape, Guard, Seen, OneAtATime, [Next]_vars PROVE (Seen /\ OneAtATime)'
  OBVIOUS
<1>1. CASE ~ \E s \in Submits : Inserts(s)
  <2>1. Running' \subseteq Running /\ unlocked \subseteq unlocked'
    BY <1>1, OthersAddNothing
  <2>2. OneAtATime'
    BY <2>1 DEF OneAtATime
  <2>3. ASSUME NEW s \in Submits, pc'[s] \in {"count", "tally", "number", "insert"}, s \notin unlocked',
               NEW t \in Running', UserOf[t] = UserOf[s], ConversationOf[t] = ConversationOf[s]
        PROVE  t \in unlocked'
    <3>1. t \in Running /\ s \notin unlocked
      BY <2>1, <2>3
    <3>2. CASE pc[s] \in {"count", "tally", "number", "insert"}
      BY <2>1, <2>3, <3>1, <3>2 DEF Seen
    <3>3. CASE Idle(s)
      BY <2>3, <3>1, <3>3 DEF Idle, In, Rows, Running
    <3>4. QED
      BY <2>3, <3>2, <3>3, Arrivals
  <2>4. QED
    BY <2>2, <2>3 DEF Seen
<1>2. ASSUME NEW s \in Submits, Inserts(s) PROVE (Seen /\ OneAtATime)'
  <2>1. /\ Running' = Running \cup {s} /\ unlocked' = unlocked
        /\ pc' = [pc EXCEPT ![s] = "core"] /\ pc[s] = "insert"
    BY <1>2, InsertAddsOne DEF Inserts
  <2>2. OneAtATime'
    <3>1. ASSUME s \notin unlocked, NEW t \in Running, ConversationOf[t] = ConversationOf[s],
                 UserOf[t] = UserOf[s]
          PROVE  t \in unlocked
      BY <2>1, <3>1 DEF Seen
    <3>2. QED
      BY <2>1, <3>1 DEF OneAtATime
  <2>3. ASSUME NEW r \in Submits, pc'[r] \in {"count", "tally", "number", "insert"}, r \notin unlocked,
               UserOf[s] = UserOf[r]
        PROVE  s \in unlocked
    <3>1. r # s /\ pc[r] \in {"count", "tally", "number", "insert"}
      BY <2>1, <2>3 DEF Shape
    <3>2. holder[UserOf[r]] = r
      BY <2>3, <3>1 DEF Guard, Admitting
    <3>3. s \notin unlocked => holder[UserOf[s]] = s
      BY <2>1 DEF Guard, Admitting
    <3>4. QED
      BY <2>3, <3>1, <3>2, <3>3
  <2>4. ASSUME NEW r \in Submits, pc'[r] \in {"count", "tally", "number", "insert"}
        PROVE  pc[r] \in {"count", "tally", "number", "insert"}
    BY <2>1, <2>4 DEF Shape
  <2>5. Seen'
    BY <2>1, <2>3, <2>4 DEF Seen
  <2>6. QED
    BY <2>2, <2>5
<1>3. QED
  BY <1>1, <1>2

\* A person's question runs alone in its conversation, unless an admission
\* gave its lock up when it settled a stale turn.
THEOREM OneAtATimeAlways == Spec => []OneAtATime
<1> DEFINE I == Shape /\ Guard /\ Seen /\ OneAtATime
<1>1. Init => I
  BY ShapeInit DEF Init, Guard, Admitting, Seen, OneAtATime, Running
<1>2. I /\ [Next]_vars => I'
  BY ShapeStep, GuardStep, SeenStep
<1>3. I => OneAtATime
  OBVIOUS
<1>4. QED
  BY <1>1, <1>2, <1>3, PTL DEF Spec
-----------------------------------------------------------------------------
(* The ceilings of a person.                                               *)

LEMMA Counts ==
  ASSUME NEW T \in SUBSET Submits, NEW S \in SUBSET T
  PROVE  Cardinality(S) \in Nat /\ Cardinality(T) \in Nat /\ Cardinality(S) <= Cardinality(T)
<1>1. IsFiniteSet(T) /\ IsFiniteSet(S)
  BY FS_Subset, ChatAssumption
<1>2. QED
  BY <1>1, FS_Subset, FS_CardinalityType

LEMMA CountsNew ==
  ASSUME NEW T \in SUBSET Submits, NEW s \in Submits \ T
  PROVE  Cardinality(T) \in Nat /\ Cardinality(T \cup {s}) = Cardinality(T) + 1
<1>1. IsFiniteSet(T)
  BY FS_Subset, ChatAssumption
<1>2. QED
  BY <1>1, FS_AddElement, FS_CardinalityType

Counted(u) == Of(u) \cap Rows
Busy(u) == Of(u) \cap Running

LEMMA CeilingStep ==
  ASSUME Shape, Guard, Room, RunningCeiling, DayCeiling, [Next]_vars
  PROVE  (Room /\ RunningCeiling /\ DayCeiling)'
<1> DEFINE R(u) == RunningOf(u)  A(u) == AskedBy(u)  G(u) == Cardinality(Unguarded(u))
<1>1. \A u : /\ Busy(u) \in SUBSET Submits /\ Counted(u) \in SUBSET Submits
             /\ Unguarded(u) \in SUBSET Submits /\ Unguarded(u)' \in SUBSET Submits
             /\ Busy(u)' \in SUBSET Submits /\ Counted(u)' \in SUBSET Submits
  BY DEF Busy, Counted, Unguarded, Of
<1>2. \A u : /\ R(u) = Cardinality(Busy(u)) /\ A(u) = Cardinality(Counted(u))
             /\ R(u)' = Cardinality(Busy(u)') /\ A(u)' = Cardinality(Counted(u)')
  BY DEF RunningOf, AskedBy, Busy, Counted
<1>3. \A u : /\ R(u) \in Nat /\ A(u) \in Nat /\ G(u) \in Nat
             /\ R(u)' \in Nat /\ A(u)' \in Nat /\ G(u)' \in Nat
  BY <1>1, <1>2, Counts
<1> HIDE DEF R, A, G
<1>4. CASE ~ \E s \in Submits : Inserts(s)
  <2>1. Rows' = Rows /\ Running' \subseteq Running /\ unlocked \subseteq unlocked'
    BY <1>4, OthersAddNothing
  <2>2. \A u : /\ Busy(u)' \subseteq Busy(u) /\ Counted(u)' = Counted(u)
               /\ Unguarded(u) \subseteq Unguarded(u)'
    BY <2>1 DEF Busy, Counted, Unguarded, Of
  <2>3. \A u : R(u)' <= R(u) /\ A(u)' = A(u)
    BY <1>1, <1>2, <2>2, Counts
  <2>4. \A u : G(u) <= G(u)'
    BY <1>1, <2>2, Counts DEF G
  <2>5. \A u \in Users : R(u)' <= MaxRunning + G(u)' /\ A(u)' <= PerDay + G(u)'
    BY <1>3, <2>3, <2>4, ChatAssumption DEF RunningCeiling, DayCeiling, R, A, G
  <2>6. ASSUME NEW s \in Submits, pc'[s] \in {"number", "insert"}, s \notin unlocked'
        PROVE  R(UserOf[s])' < MaxRunning + G(UserOf[s])'
    <3>1. R(UserOf[s]) < MaxRunning + G(UserOf[s])
      <4>1. CASE pc[s] \in {"number", "insert"}
        BY <2>1, <2>6, <4>1 DEF Room, R, G
      <4>2. CASE RunningOf(UserOf[s]) < MaxRunning
        BY <1>3, <4>2, ChatAssumption DEF R
      <4>3. QED
        BY <2>6, <4>1, <4>2, Arrivals
    <3>2. QED
      BY <1>3, <2>3, <2>4, <3>1, ChatAssumption
  <2>7. ASSUME NEW s \in Submits, pc'[s] \in {"tally", "number", "insert"}, s \notin unlocked'
        PROVE  A(UserOf[s])' < PerDay + G(UserOf[s])'
    <3>1. A(UserOf[s]) < PerDay + G(UserOf[s])
      <4>1. CASE pc[s] \in {"tally", "number", "insert"}
        BY <2>1, <2>7, <4>1 DEF Room, A, G
      <4>2. CASE AskedBy(UserOf[s]) < PerDay
        BY <1>3, <4>2, ChatAssumption DEF A
      <4>3. QED
        BY <2>7, <4>1, <4>2, Arrivals
    <3>2. QED
      BY <1>3, <2>3, <2>4, <3>1, ChatAssumption
  <2>8. QED
    BY <2>5, <2>6, <2>7 DEF Room, RunningCeiling, DayCeiling, R, A, G
<1>5. ASSUME NEW s \in Submits, Inserts(s) PROVE (Room /\ RunningCeiling /\ DayCeiling)'
  <2>1. /\ Rows' = Rows \cup {s} /\ Running' = Running \cup {s} /\ s \notin Rows
        /\ unlocked' = unlocked /\ pc' = [pc EXCEPT ![s] = "core"] /\ pc[s] = "insert"
    BY <1>5, InsertAddsOne DEF Inserts
  <2>2. s \notin Running
    BY <2>1 DEF Rows, Running
  <2> DEFINE w == UserOf[s]
  <2>3. ASSUME NEW u, u # w
        PROVE  R(u)' = R(u) /\ A(u)' = A(u) /\ G(u)' = G(u)
    <3>1. Busy(u)' = Busy(u) /\ Counted(u)' = Counted(u) /\ Unguarded(u)' = Unguarded(u)
      BY <2>1, <2>3 DEF Busy, Counted, Unguarded, Of
    <3>2. QED
      BY <1>2, <3>1 DEF G
  <2>4. R(w)' = R(w) + 1 /\ A(w)' = A(w) + 1
    <3>1. /\ Busy(w)' = Busy(w) \cup {s} /\ s \notin Busy(w)
          /\ Counted(w)' = Counted(w) \cup {s} /\ s \notin Counted(w)
      BY <2>1, <2>2 DEF Busy, Counted, Of
    <3>2. QED
      BY <1>1, <1>2, <3>1, CountsNew
  <2>5. CASE s \in unlocked
    <3>1. Unguarded(w)' = Unguarded(w) \cup {s} /\ s \notin Unguarded(w)
      BY <2>1, <2>5 DEF Unguarded, Of
    <3>2. G(w)' = G(w) + 1
      BY <1>1, <3>1, CountsNew DEF G
    <3>3. \A u \in Users : R(u)' <= MaxRunning + G(u)' /\ A(u)' <= PerDay + G(u)'
      BY <1>3, <2>3, <2>4, <3>2, ChatAssumption DEF RunningCeiling, DayCeiling, R, A, G
    <3>4. ASSUME NEW r \in Submits, r \notin unlocked'
          PROVE  /\ pc'[r] \in {"number", "insert"} => R(UserOf[r])' < MaxRunning + G(UserOf[r])'
                 /\ pc'[r] \in {"tally", "number", "insert"} => A(UserOf[r])' < PerDay + G(UserOf[r])'
      <4>1. /\ r \notin unlocked
            /\ pc'[r] \in {"tally", "number", "insert"} => pc[r] = pc'[r]
        BY <2>1, <3>4 DEF Shape
      <4>2. /\ pc'[r] \in {"number", "insert"} => R(UserOf[r]) < MaxRunning + G(UserOf[r])
            /\ pc'[r] \in {"tally", "number", "insert"} => A(UserOf[r]) < PerDay + G(UserOf[r])
        BY <4>1 DEF Room, R, A, G
      <4>3. CASE UserOf[r] = w
        BY <1>3, <2>4, <3>2, <4>2, <4>3, ChatAssumption
      <4>4. CASE UserOf[r] # w
        BY <2>3, <4>2, <4>4
      <4>5. QED
        BY <4>3, <4>4
    <3>5. QED
      BY <3>3, <3>4 DEF Room, RunningCeiling, DayCeiling, R, A, G
  <2>6. CASE s \notin unlocked
    <3>1. Unguarded(w)' = Unguarded(w)
      BY <2>1, <2>6 DEF Unguarded
    <3>2. G(w)' = G(w)
      BY <3>1 DEF G
    <3>3. R(w) < MaxRunning + G(w) /\ A(w) < PerDay + G(w)
      BY <2>1, <2>6 DEF Room, R, A, G
    <3>4. \A u \in Users : R(u)' <= MaxRunning + G(u)' /\ A(u)' <= PerDay + G(u)'
      BY <1>3, <2>3, <2>4, <3>2, <3>3, ChatAssumption DEF RunningCeiling, DayCeiling, R, A, G
    <3>5. ASSUME NEW r \in Submits, pc'[r] \in {"tally", "number", "insert"}, r \notin unlocked'
          PROVE  /\ pc'[r] # "tally" => R(UserOf[r])' < MaxRunning + G(UserOf[r])'
                 /\ A(UserOf[r])' < PerDay + G(UserOf[r])'
      <4>1. r # s /\ pc[r] = pc'[r] /\ r \notin unlocked
        BY <2>1, <3>5 DEF Shape
      <4>2. holder[UserOf[r]] = r /\ holder[w] = s
        BY <2>1, <2>6, <3>5, <4>1 DEF Guard, Admitting
      <4>3. UserOf[r] # w
        BY <4>1, <4>2
      <4>4. /\ pc'[r] # "tally" => R(UserOf[r]) < MaxRunning + G(UserOf[r])
            /\ A(UserOf[r]) < PerDay + G(UserOf[r])
        BY <3>5, <4>1 DEF Room, R, A, G
      <4>5. QED
        BY <2>3, <4>3, <4>4
    <3>6. QED
      BY <3>4, <3>5 DEF Room, RunningCeiling, DayCeiling, R, A, G
  <2>7. QED
    BY <2>5, <2>6
<1>6. QED
  BY <1>4, <1>5

LEMMA CeilingsAtFirst == Init => Room /\ RunningCeiling /\ DayCeiling
<1> SUFFICES ASSUME Init PROVE Room /\ RunningCeiling /\ DayCeiling
  OBVIOUS
<1>1. Rows = {} /\ Running = {}
  BY DEF Init, Rows, Running
<1>2. \A u : Of(u) \cap Rows = {} /\ Of(u) \cap Running = {} /\ Unguarded(u) = {}
  BY <1>1 DEF Unguarded
<1>3. \A u : RunningOf(u) = 0 /\ AskedBy(u) = 0 /\ Cardinality(Unguarded(u)) = 0
  BY <1>2, FS_EmptySet DEF RunningOf, AskedBy
<1>4. Room
  BY DEF Init, Room
<1>5. QED
  BY <1>3, <1>4, ChatAssumption DEF RunningCeiling, DayCeiling

LEMMA Ceilings == Spec => []IInv
<1>1. Init => IInv
  BY ShapeInit, CeilingsAtFirst DEF IInv, Init, Guard, Admitting
<1>2. IInv /\ [Next]_vars => IInv'
  BY ShapeStep, GuardStep, CeilingStep DEF IInv
<1>3. QED
  BY <1>1, <1>2, PTL DEF Spec

\* However many submits a person sends at once, the turns that run at a time
\* exceed the ceiling only by turns that were admitted without the lock.
THEOREM RunningCeilingAlways == Spec => []RunningCeiling
<1>1. IInv => RunningCeiling
  BY DEF IInv
<1>2. QED
  BY Ceilings, <1>1, PTL

\* The same of the questions of a day.
THEOREM DayCeilingAlways == Spec => []DayCeiling
<1>1. IInv => DayCeiling
  BY DEF IInv
<1>2. QED
  BY Ceilings, <1>1, PTL
-----------------------------------------------------------------------------
(* The orchestrator implements AskedTurns, step by step.                   *)

\* A turn that is ended is ended once, and its outcome is what was asked for.
LEMMA FinishEnds ==
  ASSUME Shape, NEW t \in Submits, NEW e \in Final, Finish(t, e), UNCHANGED shown
  PROVE  Promise!Next \/ UNCHANGED <<Rows, status, shown>>
<1> USE DEF Shape, Final, Rows, Finish, Unended
<1>1. CASE status[t] = "running"
  <2>1. Rows' = Rows /\ status' = [status EXCEPT ![t] = e]
    BY <1>1
  <2>2. QED
    BY <1>1, <2>1 DEF Promise!Next, Promise!End
<1>2. CASE status[t] # "running"
  BY <1>2
<1>3. QED
  BY <1>1, <1>2

\* A submit that finds its turn ended is shown how it ended.
LEMMA ResolveShows ==
  ASSUME Shape, NEW s \in Submits, pc[s] \in {"new", "insert"}, NEW t \in Same(s), Resolve(s, t)
  PROVE  Promise!Next \/ UNCHANGED <<Rows, status, shown>>
<1> USE DEF Shape, Final, Early, Ended, Rows, rows
<1>1. CASE Replay(s, t)
  <2>1. /\ status[t] \in Final /\ shown[s] = None /\ t \in Rows
        /\ shown' = [shown EXCEPT ![s] = status[t]] /\ UNCHANGED status
    BY <1>1 DEF Replay, Same, In
  <2>2. t \in Promise!TurnOf(s)
    BY <2>1 DEF Promise!TurnOf, Same, In
  <2>3. UNCHANGED Rows
    BY <2>1
  <2>4. QED
    BY <2>1, <2>2, <2>3 DEF Promise!Next, Promise!Show, Same, In
<1>2. CASE Reject(s)
  BY <1>2 DEF Reject
<1>3. QED
  BY <1>1, <1>2 DEF Resolve

LEMMA StepKeepsPromise ==
  ASSUME Shape, [Next]_vars
  PROVE  Promise!Next \/ UNCHANGED <<Rows, status, shown>>
<1> USE DEF rows, Rows
<1>1. ASSUME NEW s \in Submits, Reject(s) PROVE UNCHANGED <<Rows, status, shown>>
  BY <1>1 DEF Reject
<1>2. ASSUME NEW s \in Submits, Lookup(s) PROVE Promise!Next \/ UNCHANGED <<Rows, status, shown>>
  BY <1>1, <1>2, ResolveShows DEF Lookup
<1>3. ASSUME NEW s \in Submits, CheckConversation(s) \/ CheckDay(s) \/ CheckRunning(s) \/ Number(s) \/ Lock(s)
      PROVE  UNCHANGED <<Rows, status, shown>>
  BY <1>1, <1>3 DEF CheckConversation, CheckDay, CheckRunning, Number, Proceed, Lock
<1>4. ASSUME NEW s \in Submits, NEW t \in Submits, Settle(s, t)
      PROVE  Promise!Next \/ UNCHANGED <<Rows, status, shown>>
  BY <1>4, FinishEnds DEF Settle, Final
<1>5. ASSUME NEW s \in Submits, Insert(s) PROVE Promise!Next \/ UNCHANGED <<Rows, status, shown>>
  <2>1. CASE Clash(s) = {}
    <3>1. /\ Rows' = Rows \cup {s} /\ s \notin Rows
          /\ status' = [status EXCEPT ![s] = "running"] /\ UNCHANGED shown
      BY <1>5, <2>1 DEF Insert, Shape, Early
    <3>2. Promise!TurnOf(s) = {}
      BY <2>1 DEF Promise!TurnOf, Clash, In
    <3>3. \E dead \in SUBSET {t \in Submits : status[t] = "running"} :
            status' = [t \in Submits |-> IF t = s THEN "running"
                                         ELSE IF t \in dead THEN "failed" ELSE status[t]]
      <4>1. status' = [t \in Submits |-> IF t = s THEN "running"
                                         ELSE IF t \in {} THEN "failed" ELSE status[t]]
        BY <3>1 DEF Shape
      <4>2. {} \in SUBSET {t \in Submits : status[t] = "running"}
        OBVIOUS
      <4>3. WITNESS {} \in SUBSET {t \in Submits : status[t] = "running"}
      <4>4. QED
        BY <4>1
    <3>4. Promise!Ask(s)
      BY <3>1, <3>2, <3>3 DEF Promise!Ask
    <3>5. QED
      BY <3>4 DEF Promise!Next
  <2>2. CASE Clash(s) # {}
    BY <1>1, <1>5, <2>2, ResolveShows DEF Insert
  <2>3. QED
    BY <2>1, <2>2
<1>6. ASSUME NEW s \in Submits, NEW e \in Final, Core(s, e) PROVE UNCHANGED <<Rows, status, shown>>
  BY <1>6 DEF Core
<1>7. ASSUME NEW s \in Submits, Answer(s) PROVE Promise!Next
  <2>1. /\ shown[s] = None /\ live[s] \in Final /\ s \in Rows
        /\ shown' = [shown EXCEPT ![s] = Stored(s)] /\ Finish(s, live[s])
    BY <1>7 DEF Answer, Shape, Ended
  <2>2. CASE status[s] = "running"
    <3>1. shown' = [shown EXCEPT ![s] = live[s]] /\ status' = [status EXCEPT ![s] = live[s]]
      BY <2>1, <2>2 DEF Stored, Unended, Finish
    <3>2. Rows' = Rows
      BY <2>1, <3>1 DEF Shape, Final
    <3>3. QED
      BY <2>1, <2>2, <3>1, <3>2 DEF Promise!Next, Promise!End
  <2>3. CASE status[s] # "running"
    <3>1. shown' = [shown EXCEPT ![s] = status[s]] /\ UNCHANGED status /\ status[s] \in Final
      BY <2>1, <2>3 DEF Stored, Unended, Finish, Shape
    <3>2. s \in Promise!TurnOf(s)
      BY <2>1 DEF Promise!TurnOf
    <3>3. QED
      BY <2>1, <3>1, <3>2 DEF Promise!Next, Promise!Show
  <2>4. QED
    BY <2>2, <2>3
<1>8. ASSUME NEW s \in Submits, RunBreaks(s) PROVE Promise!Next
  <2>1. shown[s] = None /\ s \in Rows /\ UNCHANGED status /\ shown' = [shown EXCEPT ![s] = "failed"]
    BY <1>8 DEF RunBreaks, Shape, Ended
  <2>2. QED
    BY <2>1 DEF Promise!Next, Promise!Apologise
<1>9. ASSUME NEW s \in Submits, Crash(s) \/ Age(s) PROVE UNCHANGED <<Rows, status, shown>>
  BY <1>9 DEF Crash, Age
<1>10. ASSUME NEW t \in Submits, Cancel(t) \/ View(t)
       PROVE  Promise!Next \/ UNCHANGED <<Rows, status, shown>>
  BY <1>10, FinishEnds DEF Cancel, View, Final
<1>11. CASE UNCHANGED vars
  BY <1>11 DEF vars
<1>12. QED
  BY <1>2, <1>3, <1>4, <1>5, <1>6, <1>7, <1>8, <1>9, <1>10, <1>11 DEF Next, Admit, Run

\* A question sent again is one turn, which ends once, and what its asker is
\* shown is how it ended or that its run broke: ChatTurns refines AskedTurns.
THEOREM PromiseKept == Spec => KeepsPromise
<1>1. Init => Promise!Init
  BY DEF Init, Promise!Init, Rows
<1>2. Spec => []Shape
  BY ShapeInit, ShapeStep, PTL DEF Spec
<1>3. Shape /\ [Next]_vars => [Promise!Next]_(Promise!vars)
  BY StepKeepsPromise DEF Promise!vars
<1>4. QED
  BY <1>1, <1>2, <1>3, PTL DEF Spec, KeepsPromise, Promise!Spec
-----------------------------------------------------------------------------
(* The numbers of the turns: one more than the greatest of a finite set.   *)

\* Of the sets with some property there is one, none of whose smaller ones has
\* it.
LEMMA Smallest ==
  ASSUME NEW X, IsFiniteSet(X), NEW B \in SUBSET SUBSET X, B # {}
  PROVE  \E S \in B : \A p \in S : S \ {p} \notin B
<1>1. PICK S \in B : \A T \in B : <<T, S>> \notin StrictSubsetOrdering(X)
  BY FS_FiniteSubsetsOfFinite, FS_StrictSubsetOrderingWellFounded, WFMin
<1>2. ASSUME NEW p \in S, S \ {p} \in B PROVE FALSE
  <2> DEFINE ss == <<S \ {p}, S>>
  <2>1. ss \in (SUBSET X) \X (SUBSET X) /\ ss[1] \subseteq ss[2] /\ ss[1] # ss[2]
    OBVIOUS
  <2>2. ss \in StrictSubsetOrdering(X)
    BY <2>1 DEF StrictSubsetOrdering
  <2>3. QED
    BY <1>1, <1>2, <2>2
<1>3. QED
  BY <1>2

\* A finite set of numbers that is not empty has a greatest one.
LEMMA Greatest ==
  ASSUME NEW T \in SUBSET Nat, IsFiniteSet(T), T # {}
  PROVE  Max(T) \in T
<1> DEFINE Has(S) == \E x \in S : \A y \in S : x >= y
           B == {S \in SUBSET T : S # {} /\ ~Has(S)}
<1>1. B = {}
  <2> SUFFICES ASSUME B # {} PROVE FALSE
    OBVIOUS
  <2>1. PICK S \in B : \A p \in S : S \ {p} \notin B
    BY Smallest
  <2>2. PICK x \in S : TRUE
    BY <2>1
  <2>3. CASE S = {x}
    BY <2>1, <2>3
  <2>4. CASE S # {x}
    <3>1. S \ {x} \in SUBSET T /\ S \ {x} # {}
      BY <2>4
    <3>2. PICK y \in S \ {x} : \A z \in S \ {x} : y >= z
      BY <2>1, <3>1
    <3>3. CASE x >= y
      <4>1. \A z \in S : x >= z
        BY <3>2, <3>3
      <4>2. QED
        BY <2>1, <4>1
    <3>4. CASE ~(x >= y)
      <4>1. \A z \in S : y >= z
        BY <3>2, <3>4
      <4>2. QED
        BY <2>1, <4>1
    <3>5. QED
      BY <3>3, <3>4
  <2>5. QED
    BY <2>3, <2>4
<1>2. T \notin B
  BY <1>1
<1> HIDE DEF B
<1>3. \E x \in T : \A y \in T : x >= y
  BY <1>2 DEF B
<1>4. QED
  BY <1>3 DEF Max

\* The next number of a conversation is a number.
LEMMA NextNumber ==
  ASSUME seq \in [Submits -> Nat], NEW c
  PROVE  Max({0} \cup {seq[t] : t \in In(c)}) + 1 \in Nat
<1> DEFINE N == {seq[t] : t \in In(c)}
<1>1. In(c) \in SUBSET Submits
  BY DEF In, Rows
<1>2. IsFiniteSet(In(c))
  BY <1>1, FS_Subset, ChatAssumption
<1>3. IsFiniteSet(N)
  <2> DEFINE f == [t \in In(c) |-> seq[t]]
  <2>1. f \in Surjection(In(c), N)
    BY DEF Surjection
  <2> HIDE DEF f, N
  <2>2. QED
    BY <1>2, <2>1, FS_Surjection
<1>4. N \in SUBSET Nat
  BY <1>1
<1> HIDE DEF N
<1>5. IsFiniteSet({0} \cup N)
  BY <1>3, FS_AddElement
<1>6. Max({0} \cup N) \in {0} \cup N
  BY <1>4, <1>5, Greatest
<1>7. {0} \cup N \subseteq Nat
  BY <1>4
<1>8. Max({0} \cup N) \in Nat
  BY <1>6, <1>7
<1>9. QED
  BY <1>8 DEF N

\* The state stays in its types: every turn is numbered, ended at most one way,
\* and the mishaps stay within their bound.
THEOREM TypeCorrect == Spec => []TypeOK
<1> DEFINE Numbers == seq \in [Submits -> Nat] /\ mishaps \in 0..MaxMishaps
<1>1. Init => Numbers
  BY ChatAssumption DEF Init
<1>2. Numbers /\ [Next]_vars => Numbers'
  <2> SUFFICES ASSUME Numbers, [Next]_vars PROVE Numbers'
    OBVIOUS
  <2>1. seq' \in [Submits -> Nat]
    <3>1. ASSUME NEW s \in Submits, Number(s) PROVE seq' \in [Submits -> Nat]
      BY <3>1, NextNumber DEF Number
    <3>2. CASE \A s \in Submits : ~Number(s)
      BY <3>2 DEF Next, vars, rows, Admit, Run, Lookup, Resolve, Replay, Reject, Lock, Settle,
         CheckConversation, CheckDay, CheckRunning, Proceed, Insert, Core, Answer, RunBreaks, Crash,
         Cancel, View, Age
    <3>3. QED
      BY <3>1, <3>2
  <2>2. mishaps' = mishaps \/ Mishap
    BY DEF Next, vars, Admit, Run, Lookup, Resolve, Replay, Reject, Lock, Settle,
       CheckConversation, CheckDay, CheckRunning, Proceed, Number, Insert, Core, Answer, RunBreaks, Crash,
       Cancel, View, Age
  <2>3. mishaps' \in 0..MaxMishaps
    BY <2>2, ChatAssumption DEF Mishap
  <2>4. QED
    BY <2>1, <2>3
<1>3. Shape /\ Numbers => TypeOK
  BY DEF Shape, Early, TypeOK
<1>4. QED
  BY <1>1, <1>2, <1>3, ShapeInit, ShapeStep, PTL DEF Spec
-----------------------------------------------------------------------------
(* The lock of a person is not left behind.                                *)

\* Whoever holds a lock is under admission, for the person it is the lock of.
HeldByAdmission == \A u \in Users : holder[u] # None =>
  pc[holder[u]] \in Admitting /\ UserOf[holder[u]] = u

(* Nobody waits for a lock that nobody gives up: it is held by a submit    *)
(* under admission, which goes on, and by none that was answered, rejected *)
(* or that died (begin: every way out commits or rolls back).              *)
THEOREM HeldByAdmissionAlways == Spec => []HeldByAdmission
<1>1. Init => HeldByAdmission
  BY DEF Init, HeldByAdmission
<1>2. Shape /\ HeldByAdmission /\ [Next]_vars => HeldByAdmission'
  <2> SUFFICES ASSUME Shape, HeldByAdmission, [Next]_vars PROVE HeldByAdmission'
    OBVIOUS
  <2> USE ChatAssumption DEF Shape, Early, Ended, Admitting, HeldByAdmission, Go, Release
  <2>1. ASSUME NEW s \in Submits, NEW t \in Submits, Resolve(s, t) PROVE HeldByAdmission'
    BY <2>1 DEF Resolve, Replay, Reject
  <2>2. ASSUME NEW s \in Submits, Reject(s) PROVE HeldByAdmission'
    BY <2>2 DEF Reject
  <2>3. ASSUME NEW s \in Submits, Lookup(s) PROVE HeldByAdmission'
    <3>1. CASE pc[s] = "new" /\ pc' = [pc EXCEPT ![s] = "lock"] /\ UNCHANGED holder
      BY <3>1
    <3>2. QED
      BY <2>1, <2>2, <2>3, <3>1 DEF Lookup, Same, In, Rows
  <2>4. ASSUME NEW s \in Submits, Lock(s) PROVE HeldByAdmission'
    <3>1. holder' = [holder EXCEPT ![UserOf[s]] = s] /\ pc[s] = "lock"
      BY <2>4 DEF Lock
    <3>2. \E to \in {"check", "settle"} : pc' = [pc EXCEPT ![s] = to]
      BY <2>4 DEF Lock
    <3>3. QED
      BY <3>1, <3>2
  <2>5. ASSUME NEW s \in Submits, NEW t \in Submits, Settle(s, t) PROVE HeldByAdmission'
    <3>1. \E to \in {"check", "settle"} : pc' = [pc EXCEPT ![s] = to]
      BY <2>5 DEF Settle
    <3>2. QED
      BY <2>5, <3>1 DEF Settle
  <2>6. ASSUME NEW s \in Submits, CheckConversation(s) \/ CheckDay(s) \/ CheckRunning(s) \/ Number(s)
        PROVE  HeldByAdmission'
    <3>1. CASE ~Reject(s)
      <4>1. /\ \E to \in {"count", "tally", "number", "insert"} : pc' = [pc EXCEPT ![s] = to]
            /\ UNCHANGED holder
        BY <2>6, <3>1 DEF CheckConversation, CheckDay, CheckRunning, Number, Proceed
      <4>2. QED
        BY <4>1
    <3>2. QED
      BY <2>2, <3>1
  <2>7. ASSUME NEW s \in Submits, Insert(s) PROVE HeldByAdmission'
    <3>1. CASE Clash(s) = {}
      BY <2>7, <3>1 DEF Insert
    <3>2. QED
      BY <2>1, <2>2, <2>7, <3>1 DEF Insert, Same, In, Rows
  <2>8. ASSUME NEW s \in Submits, Run(s) \/ RunBreaks(s) \/ Crash(s) PROVE HeldByAdmission'
    BY <2>8 DEF Run, Core, Answer, RunBreaks, Crash
  <2>9. ASSUME NEW t \in Submits, Cancel(t) \/ View(t) \/ Age(t) PROVE HeldByAdmission'
    BY <2>9 DEF Cancel, View, Age
  <2>10. CASE UNCHANGED vars
    BY <2>10 DEF vars
  <2>11. QED
    BY <2>3, <2>4, <2>5, <2>6, <2>7, <2>8, <2>9, <2>10 DEF Next, Admit
<1>3. QED
  BY <1>1, <1>2, ShapeInit, ShapeStep, PTL DEF Spec
=============================================================================
