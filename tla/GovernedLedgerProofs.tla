------------------------ MODULE GovernedLedgerProofs ------------------------
(* What GovernedLedger promises for any number of queries, users, sources, *)
(* runs, workers, days and mishaps, and for any budgets.                   *)
EXTENDS GovernedLedger, FiniteSetTheorems, TLAPS

(* The ledger never leaves its type; in particular, an answer is only ever *)
(* given for a query that was executed.                                    *)
THEOREM TypeCorrect == Spec => []TypeOK
<1>1. Init => TypeOK
  BY LedgerAssumption DEF Init, TypeOK, Outcomes
<1>2. TypeOK /\ [Next]_vars => TypeOK'
  <2> SUFFICES ASSUME TypeOK, [Next]_vars PROVE TypeOK'
    OBVIOUS
  <2> USE LedgerAssumption DEF TypeOK, row
  <2>1. ASSUME NEW q \in Queries, Open(q) PROVE TypeOK'
    BY <2>1 DEF Open, Go
  <2>2. ASSUME NEW q \in Queries, NEW k \in Keys, Lock(q, k) PROVE TypeOK'
    BY <2>2 DEF Lock
  <2>3. ASSUME NEW q \in Queries, Count(q) PROVE TypeOK'
    BY <2>3 DEF Count, Go, Release
  <2>4. ASSUME NEW q \in Queries, Insert(q) PROVE TypeOK'
    BY <2>4 DEF Insert, Go, Release, Mishap, Outcomes
  <2>5. ASSUME NEW q \in Queries, BeginFails(q) PROVE TypeOK'
    BY <2>5 DEF BeginFails, Go, Release, Mishap
  <2>6. ASSUME NEW q \in Queries, RecordRefusal(q) PROVE TypeOK'
    BY <2>6 DEF RecordRefusal, Go, Outcomes
  <2>7. ASSUME NEW q \in Queries, Start(q) PROVE TypeOK'
    BY <2>7 DEF Start, Go
  <2>8. ASSUME NEW q \in Queries, NotStarted(q) PROVE TypeOK'
    BY <2>8 DEF NotStarted, Go
  <2>9. ASSUME NEW q \in Queries, Return(q) PROVE TypeOK'
    BY <2>9 DEF Return, Go
  <2>10. ASSUME NEW q \in Queries, Finish(q) PROVE TypeOK'
    BY <2>10 DEF Finish, Go, Ends, Bills, Outcomes
  <2>11. ASSUME NEW q \in Queries, FinishFails(q) PROVE TypeOK'
    BY <2>11 DEF FinishFails, Go, Mishap
  <2>12. ASSUME NEW u \in Users, NEW r \in Runs, CancelRun(u, r) PROVE TypeOK'
    BY <2>12 DEF CancelRun
  <2>13. ASSUME NEW w \in Workers, Tick(w) PROVE TypeOK'
    BY <2>13 DEF Tick, Heartbeat, RunningIds
  <2>14. ASSUME NEW q \in Queries, CancelTold(q) PROVE TypeOK'
    BY <2>14 DEF CancelTold, Go
  <2>15. ASSUME NEW q \in Queries, Recover(q) PROVE TypeOK'
    BY <2>15 DEF Recover, Outcomes
  <2>16. ASSUME NEW w \in Workers, Crash(w) PROVE TypeOK'
    BY <2>16 DEF Crash, Mishap
  <2>17. ASSUME NewDay PROVE TypeOK'
    BY <2>17 DEF NewDay, Mishap
  <2>18. ASSUME UNCHANGED vars PROVE TypeOK'
    BY <2>18 DEF vars, row
  <2>19. QED
    BY <2>1, <2>2, <2>3, <2>4, <2>5, <2>6, <2>7, <2>8, <2>9, <2>10, <2>11,
      <2>12, <2>13, <2>15, <2>16, <2>17, <2>18, <2>14 DEF Next, Step
<1>3. QED
  BY <1>1, <1>2, PTL DEF Spec

\* Until it is inserted, a query has no row; until its statement starts, it has
\* not run; until it ends, its row is running or was recovered; and a watcher
\* only is about to cancel statements that run.
PlaceInv ==
  \A q \in Queries :
    /\ pc[q] \in {"new", "lock", "insert", "refuse"} => status[q] = "none"
    /\ pc[q] \in {"new", "lock", "insert", "refuse", "probe"} =>
         q \notin executed
    /\ pc[q] \in {"probe", "execute", "stopping", "finish", "stopped"} =>
         status[q] \in {"running", "abandoned"}
    /\ q \in told => pc[q] = "execute"

\* PlaceInv is inductive.
LEMMA PlaceInductive == TypeOK /\ PlaceInv /\ [Next]_vars => PlaceInv'
<1> SUFFICES ASSUME TypeOK, PlaceInv, [Next]_vars PROVE PlaceInv'
  OBVIOUS
<1> USE DEF TypeOK, PlaceInv, row
<1>1. ASSUME NEW q \in Queries, Open(q) PROVE PlaceInv'
  BY <1>1 DEF Open, Go
<1>2. ASSUME NEW q \in Queries, NEW k \in Keys, Lock(q, k) PROVE PlaceInv'
  BY <1>2 DEF Lock
<1>3. ASSUME NEW q \in Queries, Count(q) PROVE PlaceInv'
  BY <1>3 DEF Count, Go, Release
<1>4. ASSUME NEW q \in Queries, Insert(q) PROVE PlaceInv'
  BY <1>4 DEF Insert, Go, Release, Mishap
<1>5. ASSUME NEW q \in Queries, BeginFails(q) PROVE PlaceInv'
  BY <1>5 DEF BeginFails, Go, Release, Mishap
<1>6. ASSUME NEW q \in Queries, RecordRefusal(q) PROVE PlaceInv'
  BY <1>6 DEF RecordRefusal, Go
<1>7. ASSUME NEW q \in Queries, Start(q) PROVE PlaceInv'
  BY <1>7 DEF Start, Go
<1>8. ASSUME NEW q \in Queries, NotStarted(q) PROVE PlaceInv'
  BY <1>8 DEF NotStarted, Go
<1>9. ASSUME NEW q \in Queries, Return(q) PROVE PlaceInv'
  BY <1>9 DEF Return, Go
<1>10. ASSUME NEW q \in Queries, Finish(q) PROVE PlaceInv'
  BY <1>10 DEF Finish, Go, Ends, Outcomes
<1>11. ASSUME NEW q \in Queries, FinishFails(q) PROVE PlaceInv'
  BY <1>11 DEF FinishFails, Go, Mishap
<1>12. ASSUME NEW u \in Users, NEW r \in Runs, CancelRun(u, r) PROVE PlaceInv'
  BY <1>12 DEF CancelRun
<1>13. ASSUME NEW w \in Workers, Tick(w) PROVE PlaceInv'
  BY <1>13 DEF Tick, Heartbeat, RunningIds
<1>14. ASSUME NEW q \in Queries, CancelTold(q) PROVE PlaceInv'
  BY <1>14 DEF CancelTold, Go
<1>15. ASSUME NEW q \in Queries, Recover(q) PROVE PlaceInv'
  BY <1>15 DEF Recover
<1>16. ASSUME NEW w \in Workers, Crash(w) PROVE PlaceInv'
  BY <1>16 DEF Crash, Mishap
<1>17. ASSUME NewDay PROVE PlaceInv'
  BY <1>17 DEF NewDay, Mishap
<1>18. ASSUME UNCHANGED vars PROVE PlaceInv'
  BY <1>18 DEF vars, row
<1>19. QED
  BY <1>1, <1>2, <1>3, <1>4, <1>5, <1>6, <1>7, <1>8, <1>9, <1>10, <1>11,
    <1>12, <1>13, <1>15, <1>16, <1>17, <1>18, <1>14 DEF Next, Step

\* Every state satisfies PlaceInv.
LEMMA Places == Spec => []PlaceInv
<1>1. Init => PlaceInv
  BY DEF Init, PlaceInv
<1>2. QED
  BY <1>1, TypeCorrect, PlaceInductive, PTL DEF Spec

\* No two rows carry one consent.
NonceInv ==
  \A p, q \in Queries : nonce[p] = nonce[q] /\ p # q => nonce[p] = None

(* A consent lets one query run, however many requests carry it and        *)
(* whatever became of the first (uq_gqe_consent_nonce).                    *)
THEOREM ConsentUsedOnce == Spec => []ConsentOnce
<1>1. Init => NonceInv
  BY DEF Init, NonceInv
<1>2. TypeOK /\ NonceInv /\ [Next]_vars => NonceInv'
  <2> SUFFICES ASSUME TypeOK, NonceInv, [Next]_vars PROVE NonceInv'
    OBVIOUS
  <2> USE DEF TypeOK, NonceInv, row
  <2>1. ASSUME NEW q \in Queries, Open(q) PROVE NonceInv'
    BY <2>1 DEF Open, Go
  <2>2. ASSUME NEW q \in Queries, NEW k \in Keys, Lock(q, k) PROVE NonceInv'
    BY <2>2 DEF Lock
  <2>3. ASSUME NEW q \in Queries, Count(q) PROVE NonceInv'
    BY <2>3 DEF Count, Go, Release
  <2>4. ASSUME NEW q \in Queries, Insert(q) PROVE NonceInv'
    BY <2>4 DEF Insert, Go, Release, Mishap, Used
  <2>5. ASSUME NEW q \in Queries, BeginFails(q) PROVE NonceInv'
    BY <2>5 DEF BeginFails, Go, Release, Mishap
  <2>6. ASSUME NEW q \in Queries, RecordRefusal(q) PROVE NonceInv'
    BY <2>6 DEF RecordRefusal, Go
  <2>7. ASSUME NEW q \in Queries, Start(q) PROVE NonceInv'
    BY <2>7 DEF Start, Go
  <2>8. ASSUME NEW q \in Queries, NotStarted(q) PROVE NonceInv'
    BY <2>8 DEF NotStarted, Go
  <2>9. ASSUME NEW q \in Queries, Return(q) PROVE NonceInv'
    BY <2>9 DEF Return, Go
  <2>10. ASSUME NEW q \in Queries, Finish(q) PROVE NonceInv'
    BY <2>10 DEF Finish, Go
  <2>11. ASSUME NEW q \in Queries, FinishFails(q) PROVE NonceInv'
    BY <2>11 DEF FinishFails, Go, Mishap
  <2>12. ASSUME NEW u \in Users, NEW r \in Runs, CancelRun(u, r) PROVE NonceInv'
    BY <2>12 DEF CancelRun
  <2>13. ASSUME NEW w \in Workers, Tick(w) PROVE NonceInv'
    BY <2>13 DEF Tick
  <2>14. ASSUME NEW q \in Queries, CancelTold(q) PROVE NonceInv'
    BY <2>14 DEF CancelTold, Go
  <2>15. ASSUME NEW q \in Queries, Recover(q) PROVE NonceInv'
    BY <2>15 DEF Recover
  <2>16. ASSUME NEW w \in Workers, Crash(w) PROVE NonceInv'
    BY <2>16 DEF Crash, Mishap
  <2>17. ASSUME NewDay PROVE NonceInv'
    BY <2>17 DEF NewDay, Mishap
  <2>18. ASSUME UNCHANGED vars PROVE NonceInv'
    BY <2>18 DEF vars, row
  <2>19. QED
    BY <2>1, <2>2, <2>3, <2>4, <2>5, <2>6, <2>7, <2>8, <2>9, <2>10, <2>11,
      <2>12, <2>13, <2>15, <2>16, <2>17, <2>18, <2>14 DEF Next, Step
<1>3. TypeOK /\ NonceInv => ConsentOnce
  BY DEF TypeOK, NonceInv, ConsentOnce
<1>4. QED
  BY <1>1, <1>2, <1>3, TypeCorrect, PTL DEF Spec

\* A query is only stopped, or about to be, when its row was marked.
StopInv ==
  \A q \in Queries :
    q \in told \/ pc[q] \in {"stopping", "stopped"} \/ status[q] = "cancelled"
      => q \in marked

(* No query ends as cancelled that its own user did not ask to cancel      *)
(* (CancelWatcher.tick cancels what heartbeat returned, and nothing else). *)
THEOREM CancelledWasAskedFor == Spec => []CancelledWasAsked
<1>1. Init => StopInv
  BY DEF Init, StopInv
<1>2. TypeOK /\ StopInv /\ [Next]_vars => StopInv'
  <2> SUFFICES ASSUME TypeOK, StopInv, [Next]_vars PROVE StopInv'
    OBVIOUS
  <2> USE DEF TypeOK, StopInv, row
  <2>1. ASSUME NEW q \in Queries, Open(q) PROVE StopInv'
    BY <2>1 DEF Open, Go
  <2>2. ASSUME NEW q \in Queries, NEW k \in Keys, Lock(q, k) PROVE StopInv'
    BY <2>2 DEF Lock
  <2>3. ASSUME NEW q \in Queries, Count(q) PROVE StopInv'
    BY <2>3 DEF Count, Go, Release
  <2>4. ASSUME NEW q \in Queries, Insert(q) PROVE StopInv'
    BY <2>4 DEF Insert, Go, Release, Mishap
  <2>5. ASSUME NEW q \in Queries, BeginFails(q) PROVE StopInv'
    BY <2>5 DEF BeginFails, Go, Release, Mishap
  <2>6. ASSUME NEW q \in Queries, RecordRefusal(q) PROVE StopInv'
    BY <2>6 DEF RecordRefusal, Go
  <2>7. ASSUME NEW q \in Queries, Start(q) PROVE StopInv'
    BY <2>7 DEF Start, Go
  <2>8. ASSUME NEW q \in Queries, NotStarted(q) PROVE StopInv'
    BY <2>8 DEF NotStarted, Go
  <2>9. ASSUME NEW q \in Queries, Return(q) PROVE StopInv'
    BY <2>9 DEF Return, Go
  <2>10. ASSUME NEW q \in Queries, Finish(q) PROVE StopInv'
    BY <2>10 DEF Finish, Go, Ends
  <2>11. ASSUME NEW q \in Queries, FinishFails(q) PROVE StopInv'
    BY <2>11 DEF FinishFails, Go, Mishap
  <2>12. ASSUME NEW u \in Users, NEW r \in Runs, CancelRun(u, r) PROVE StopInv'
    BY <2>12 DEF CancelRun
  <2>13. ASSUME NEW w \in Workers, Tick(w) PROVE StopInv'
    BY <2>13 DEF Tick, Heartbeat, RunningIds
  <2>14. ASSUME NEW q \in Queries, CancelTold(q) PROVE StopInv'
    BY <2>14 DEF CancelTold, Go
  <2>15. ASSUME NEW q \in Queries, Recover(q) PROVE StopInv'
    BY <2>15 DEF Recover
  <2>16. ASSUME NEW w \in Workers, Crash(w) PROVE StopInv'
    BY <2>16 DEF Crash, Mishap
  <2>17. ASSUME NewDay PROVE StopInv'
    BY <2>17 DEF NewDay, Mishap
  <2>18. ASSUME UNCHANGED vars PROVE StopInv'
    BY <2>18 DEF vars, row
  <2>19. QED
    BY <2>1, <2>2, <2>3, <2>4, <2>5, <2>6, <2>7, <2>8, <2>9, <2>10, <2>11,
      <2>12, <2>13, <2>15, <2>16, <2>17, <2>18, <2>14 DEF Next, Step
<1>3. StopInv => CancelledWasAsked
  BY DEF StopInv, CancelledWasAsked
<1>4. QED
  BY <1>1, <1>2, <1>3, TypeCorrect, PTL DEF Spec

(* The ledger implements AuditLedger: nothing reaches the warehouse before *)
(* its row, no row changes after it ended, and an answer is only given by  *)
(* the write that ends its query as ok.                                    *)
THEOREM PromiseKept == Spec => KeepsPromise
<1> USE DEF Promise!vars
<1>1. Init => Promise!Init
  BY DEF Init, Promise!Init
<1>2. TypeOK /\ PlaceInv /\ [Next]_vars => [Promise!Next]_(Promise!vars)
  <2> SUFFICES ASSUME TypeOK, PlaceInv, [Next]_vars
               PROVE  [Promise!Next]_(Promise!vars)
    OBVIOUS
  <2> USE DEF TypeOK, PlaceInv, row
  <2> DEFINE Kept == [Promise!Next]_(Promise!vars)
  <2>1. ASSUME NEW q \in Queries, Open(q) PROVE Kept
    BY <2>1 DEF Open, Go
  <2>2. ASSUME NEW q \in Queries, NEW k \in Keys, Lock(q, k) PROVE Kept
    BY <2>2 DEF Lock
  <2>3. ASSUME NEW q \in Queries, Count(q) PROVE Kept
    BY <2>3 DEF Count, Go, Release
  <2>4. ASSUME NEW q \in Queries, Insert(q) PROVE Kept
    <3>1. Promise!Record(q)
      BY <2>4 DEF Insert, Go, Release, Mishap, Promise!Record
    <3>2. QED
      BY <3>1 DEF Promise!Next
  <2>5. ASSUME NEW q \in Queries, BeginFails(q) PROVE Kept
    BY <2>5 DEF BeginFails, Go, Release, Mishap
  <2>6. ASSUME NEW q \in Queries, RecordRefusal(q) PROVE Kept
    <3>1. Promise!Record(q)
      BY <2>6 DEF RecordRefusal, Go, Promise!Record
    <3>2. QED
      BY <3>1 DEF Promise!Next
  <2>7. ASSUME NEW q \in Queries, Start(q) PROVE Kept
    <3>1. Promise!Execute(q)
      BY <2>7 DEF Start, Go, Promise!Execute
    <3>2. QED
      BY <3>1 DEF Promise!Next
  <2>8. ASSUME NEW q \in Queries, NotStarted(q) PROVE Kept
    BY <2>8 DEF NotStarted, Go
  <2>9. ASSUME NEW q \in Queries, Return(q) PROVE Kept
    BY <2>9 DEF Return, Go
  <2>10. ASSUME NEW q \in Queries, Finish(q) PROVE Kept
    <3>1. PICK o \in Ends(q) :
             /\ status' = [status EXCEPT ![q] = o]
             /\ answered' = answered \cup (IF o = "ok" THEN {q} ELSE {})
      BY <2>10 DEF Finish
    <3>2. /\ o \in Promise!Terminal
          /\ o = "ok" => q \in executed
      BY DEF Ends, Promise!Terminal
    <3>3. status[q] = "running" /\ UNCHANGED executed
      BY <2>10 DEF Finish, Unended
    <3>4. Promise!End(q)
      BY <3>1, <3>2, <3>3 DEF Promise!End
    <3>5. QED
      BY <3>4 DEF Promise!Next
  <2>11. ASSUME NEW q \in Queries, FinishFails(q) PROVE Kept
    BY <2>11 DEF FinishFails, Go, Mishap
  <2>12. ASSUME NEW u \in Users, NEW r \in Runs, CancelRun(u, r) PROVE Kept
    BY <2>12 DEF CancelRun
  <2>13. ASSUME NEW w \in Workers, Tick(w) PROVE Kept
    BY <2>13 DEF Tick
  <2>14. ASSUME NEW q \in Queries, CancelTold(q) PROVE Kept
    BY <2>14 DEF CancelTold, Go
  <2>15. ASSUME NEW q \in Queries, Recover(q) PROVE Kept
    <3>1. Promise!End(q)
      BY <2>15 DEF Recover, Promise!End, Promise!Terminal
    <3>2. QED
      BY <3>1 DEF Promise!Next
  <2>16. ASSUME NEW w \in Workers, Crash(w) PROVE Kept
    BY <2>16 DEF Crash, Mishap
  <2>17. ASSUME NewDay PROVE Kept
    BY <2>17 DEF NewDay, Mishap
  <2>18. ASSUME UNCHANGED vars PROVE Kept
    BY <2>18 DEF vars, row
  <2>19. QED
    BY <2>1, <2>2, <2>3, <2>4, <2>5, <2>6, <2>7, <2>8, <2>9, <2>10, <2>11,
      <2>12, <2>13, <2>15, <2>16, <2>17, <2>18, <2>14 DEF Next, Step
<1>3. QED
  BY <1>1, <1>2, TypeCorrect, Places, PTL DEF Spec, KeepsPromise, Promise!Spec

-----------------------------------------------------------------------------
(* The budgets.  What begin counted stays true until it inserts, because   *)
(* only an insert adds to a count and it needs the lock of its scope.      *)

\* A subset counts no more.
LEMMA Counts ==
  ASSUME NEW T \in SUBSET Queries, NEW S \in SUBSET T
  PROVE  /\ Cardinality(S) \in Nat /\ Cardinality(T) \in Nat
         /\ Cardinality(S) <= Cardinality(T)
<1>1. IsFiniteSet(T) /\ IsFiniteSet(S)
  BY FS_Subset, LedgerAssumption
<1>2. QED
  BY <1>1, FS_Subset, FS_CardinalityType

\* One more query adds at most one to a count.
LEMMA CountsOneMore ==
  ASSUME NEW T \in SUBSET Queries, NEW q \in Queries, NEW S \in SUBSET (T \cup {q})
  PROVE  /\ Cardinality(S) \in Nat /\ Cardinality(T) \in Nat
         /\ Cardinality(S) <= Cardinality(T) + 1
<1>1. IsFiniteSet(T)
  BY FS_Subset, LedgerAssumption
<1>2. Cardinality(T) \in Nat
  BY <1>1, FS_CardinalityType
<1>3. Cardinality(T \cup {q}) =
        IF q \in T THEN Cardinality(T) ELSE Cardinality(T) + 1
  BY <1>1, FS_AddElement
<1>4. T \cup {q} \in SUBSET Queries
  OBVIOUS
<1>5. /\ Cardinality(S) \in Nat
      /\ Cardinality(S) <= Cardinality(T \cup {q})
  BY <1>4, Counts
<1>6. QED
  BY <1>2, <1>3, <1>5

\* No row is charged, or runs, that did not before, and what is charged keeps
\* its day.
AddsNothing ==
  \A p \in Queries :
    /\ Charged(p)' => Charged(p) /\ day'[p] = day[p]
    /\ status'[p] = "running" => status[p] = "running"

\* Every step but an insert adds nothing.
LEMMA OnlyInsertAdds ==
  ASSUME TypeOK, PlaceInv, [Next]_vars, ~\E q \in Queries : Insert(q)
  PROVE  AddsNothing
<1> USE DEF TypeOK, PlaceInv, AddsNothing, Charged, row
<1>1. ASSUME NEW q \in Queries, Open(q) PROVE AddsNothing
  BY <1>1 DEF Open, Go
<1>2. ASSUME NEW q \in Queries, NEW k \in Keys, Lock(q, k) PROVE AddsNothing
  BY <1>2 DEF Lock
<1>3. ASSUME NEW q \in Queries, Count(q) PROVE AddsNothing
  BY <1>3 DEF Count, Go, Release
<1>4. ASSUME NEW q \in Queries, Insert(q) PROVE AddsNothing
  BY <1>4
<1>5. ASSUME NEW q \in Queries, BeginFails(q) PROVE AddsNothing
  BY <1>5 DEF BeginFails, Go, Release, Mishap
<1>6. ASSUME NEW q \in Queries, RecordRefusal(q) PROVE AddsNothing
  BY <1>6 DEF RecordRefusal, Go
<1>7. ASSUME NEW q \in Queries, Start(q) PROVE AddsNothing
  BY <1>7 DEF Start, Go
<1>8. ASSUME NEW q \in Queries, NotStarted(q) PROVE AddsNothing
  BY <1>8 DEF NotStarted, Go
<1>9. ASSUME NEW q \in Queries, Return(q) PROVE AddsNothing
  BY <1>9 DEF Return, Go
<1>10. ASSUME NEW q \in Queries, Finish(q) PROVE AddsNothing
  BY <1>10 DEF Finish, Go, Unended
<1>11. ASSUME NEW q \in Queries, FinishFails(q) PROVE AddsNothing
  BY <1>11 DEF FinishFails, Go, Mishap
<1>12. ASSUME NEW u \in Users, NEW r \in Runs, CancelRun(u, r) PROVE AddsNothing
  BY <1>12 DEF CancelRun
<1>13. ASSUME NEW w \in Workers, Tick(w) PROVE AddsNothing
  BY <1>13 DEF Tick
<1>14. ASSUME NEW q \in Queries, CancelTold(q) PROVE AddsNothing
  BY <1>14 DEF CancelTold, Go
<1>15. ASSUME NEW q \in Queries, Recover(q) PROVE AddsNothing
  BY <1>15 DEF Recover
<1>16. ASSUME NEW w \in Workers, Crash(w) PROVE AddsNothing
  BY <1>16 DEF Crash, Mishap
<1>17. ASSUME NewDay PROVE AddsNothing
  BY <1>17 DEF NewDay, Mishap
<1>18. ASSUME UNCHANGED vars PROVE AddsNothing
  BY <1>18 DEF vars, row
<1>19. QED
  BY <1>1, <1>2, <1>3, <1>4, <1>5, <1>6, <1>7, <1>8, <1>9, <1>10, <1>11,
    <1>12, <1>13, <1>15, <1>16, <1>17, <1>18, <1>14 DEF Next, Step

\* Then no count grows.
LEMMA NothingAdded ==
  ASSUME TypeOK, AddsNothing
  PROVE  /\ \A r \in Runs : OfRun(r)' \subseteq OfRun(r)
         /\ \A u \in Users, d \in Int :
              Since(u, d)' \subseteq Since(u, d) /\ DayOf(u, d)' \subseteq DayOf(u, d)
         /\ \A s \in Sources : Running(s)' \subseteq Running(s)
  BY DEF TypeOK, AddsNothing, OfRun, Since, DayOf, Running

\* An insert adds its own query, to the counts of its own scopes.
LEMMA InsertAddsOne ==
  ASSUME TypeOK, NEW q \in Queries, Insert(q)
  PROVE  /\ \A r \in Runs : OfRun(r)' \subseteq
              OfRun(r) \cup (IF r = RunOf[q] THEN {q} ELSE {})
         /\ \A u \in Users, d \in Int :
              /\ Since(u, d)' \subseteq
                   Since(u, d) \cup (IF u = UserOf[q] THEN {q} ELSE {})
              /\ DayOf(u, d)' \subseteq
                   DayOf(u, d) \cup (IF u = UserOf[q] /\ d = day[q] THEN {q} ELSE {})
         /\ \A s \in Sources : Running(s)' \subseteq
              Running(s) \cup (IF s = SourceOf[q] THEN {q} ELSE {})
  BY DEF TypeOK, Insert, OfRun, Since, DayOf, Running, Charged

\* While a query is about to be inserted it holds all its locks, and there is
\* room for it.
LockInv == \A q \in Queries : pc[q] = "insert" => Locked(q)

RunRoom(q) == Cardinality(OfRun(RunOf[q])) < MaxPerRun
DayRoom(q) == Cardinality(Since(UserOf[q], day[q])) < MaxPerDay
SourceRoom(q) == Cardinality(Running(SourceOf[q])) < MaxConcurrent

RoomInv ==
  \A q \in Queries : pc[q] = "insert" => RunRoom(q) /\ DayRoom(q) /\ SourceRoom(q)

\* The locks are held until the insert.
LEMMA LockInductive == TypeOK /\ LockInv /\ [Next]_vars => LockInv'
<1> SUFFICES ASSUME TypeOK, LockInv, [Next]_vars PROVE LockInv'
  OBVIOUS
<1>1. \A q \in Queries : Scopes(q) \subseteq Keys
  BY LedgerAssumption DEF Scopes, Keys
<1> USE <1>1 DEF TypeOK, LockInv, Locked, row
<1>2. ASSUME NEW q \in Queries, Open(q) PROVE LockInv'
  BY <1>2 DEF Open, Go
<1>3. ASSUME NEW q \in Queries, NEW k \in Keys, Lock(q, k) PROVE LockInv'
  BY <1>3, LedgerAssumption DEF Lock
<1>4. ASSUME NEW q \in Queries, Count(q) PROVE LockInv'
  BY <1>4 DEF Count, Go, Release
<1>5. ASSUME NEW q \in Queries, Insert(q) PROVE LockInv'
  BY <1>5 DEF Insert, Go, Release, Mishap
<1>6. ASSUME NEW q \in Queries, BeginFails(q) PROVE LockInv'
  BY <1>6 DEF BeginFails, Go, Release, Mishap
<1>7. ASSUME NEW q \in Queries, RecordRefusal(q) PROVE LockInv'
  BY <1>7 DEF RecordRefusal, Go
<1>8. ASSUME NEW q \in Queries, Start(q) PROVE LockInv'
  BY <1>8 DEF Start, Go
<1>9. ASSUME NEW q \in Queries, NotStarted(q) PROVE LockInv'
  BY <1>9 DEF NotStarted, Go
<1>10. ASSUME NEW q \in Queries, Return(q) PROVE LockInv'
  BY <1>10 DEF Return, Go
<1>11. ASSUME NEW q \in Queries, Finish(q) PROVE LockInv'
  BY <1>11 DEF Finish, Go
<1>12. ASSUME NEW q \in Queries, FinishFails(q) PROVE LockInv'
  BY <1>12 DEF FinishFails, Go, Mishap
<1>13. ASSUME NEW u \in Users, NEW r \in Runs, CancelRun(u, r) PROVE LockInv'
  BY <1>13 DEF CancelRun
<1>14. ASSUME NEW w \in Workers, Tick(w) PROVE LockInv'
  BY <1>14 DEF Tick
<1>15. ASSUME NEW q \in Queries, CancelTold(q) PROVE LockInv'
  BY <1>15 DEF CancelTold, Go
<1>16. ASSUME NEW q \in Queries, Recover(q) PROVE LockInv'
  BY <1>16 DEF Recover
<1>17. ASSUME NEW w \in Workers, Crash(w) PROVE LockInv'
  BY <1>17 DEF Crash, Mishap
<1>18. ASSUME NewDay PROVE LockInv'
  BY <1>18 DEF NewDay, Mishap
<1>19. ASSUME UNCHANGED vars PROVE LockInv'
  BY <1>19 DEF vars, row
<1>20. QED
  BY <1>2, <1>3, <1>4, <1>5, <1>6, <1>7, <1>8, <1>9, <1>10, <1>11, <1>12,
    <1>13, <1>14, <1>16, <1>17, <1>18, <1>19, <1>15 DEF Next, Step

\* Two queries about to be inserted share no scope.
LEMMA ScopesDisjoint ==
  ASSUME TypeOK, LockInv, NEW p \in Queries, NEW q \in Queries, p # q,
         pc[p] = "insert", pc[q] = "insert"
  PROVE  RunOf[p] # RunOf[q] /\ UserOf[p] # UserOf[q] /\ SourceOf[p] # SourceOf[q]
  BY DEF LockInv, Locked, Scopes

\* Only a count brings a query about to be inserted there.
LEMMA StillAbout ==
  ASSUME TypeOK, [Next]_vars, NEW p \in Queries, pc'[p] = "insert", ~Count(p)
  PROVE  pc[p] = "insert" /\ day'[p] = day[p]
<1> USE DEF TypeOK, row
<1> DEFINE Was == pc[p] = "insert" /\ day'[p] = day[p]
<1>1. ASSUME NEW q \in Queries, Open(q) PROVE Was
  BY <1>1 DEF Open, Go
<1>2. ASSUME NEW q \in Queries, NEW k \in Keys, Lock(q, k) PROVE Was
  BY <1>2 DEF Lock
<1>3. ASSUME NEW q \in Queries, Count(q) PROVE Was
  BY <1>3 DEF Count, Go
<1>4. ASSUME NEW q \in Queries, Insert(q) PROVE Was
  BY <1>4 DEF Insert, Go, Release, Mishap
<1>5. ASSUME NEW q \in Queries, BeginFails(q) PROVE Was
  BY <1>5 DEF BeginFails, Go, Release, Mishap
<1>6. ASSUME NEW q \in Queries, RecordRefusal(q) PROVE Was
  BY <1>6 DEF RecordRefusal, Go
<1>7. ASSUME NEW q \in Queries, Start(q) PROVE Was
  BY <1>7 DEF Start, Go
<1>8. ASSUME NEW q \in Queries, NotStarted(q) PROVE Was
  BY <1>8 DEF NotStarted, Go
<1>9. ASSUME NEW q \in Queries, Return(q) PROVE Was
  BY <1>9 DEF Return, Go
<1>10. ASSUME NEW q \in Queries, Finish(q) PROVE Was
  BY <1>10 DEF Finish, Go
<1>11. ASSUME NEW q \in Queries, FinishFails(q) PROVE Was
  BY <1>11 DEF FinishFails, Go, Mishap
<1>12. ASSUME NEW u \in Users, NEW r \in Runs, CancelRun(u, r) PROVE Was
  BY <1>12 DEF CancelRun
<1>13. ASSUME NEW w \in Workers, Tick(w) PROVE Was
  BY <1>13 DEF Tick
<1>14. ASSUME NEW q \in Queries, CancelTold(q) PROVE Was
  BY <1>14 DEF CancelTold, Go
<1>15. ASSUME NEW q \in Queries, Recover(q) PROVE Was
  BY <1>15 DEF Recover
<1>16. ASSUME NEW w \in Workers, Crash(w) PROVE Was
  BY <1>16 DEF Crash, Mishap
<1>17. ASSUME NewDay PROVE Was
  BY <1>17 DEF NewDay, Mishap
<1>18. ASSUME UNCHANGED vars PROVE Was
  BY <1>18 DEF vars, row
<1>19. QED
  BY <1>1, <1>2, <1>3, <1>4, <1>5, <1>6, <1>7, <1>8, <1>9, <1>10, <1>11,
      <1>12, <1>13, <1>15, <1>16, <1>17, <1>18, <1>14 DEF Next, Step

\* Meanwhile nothing is added to the counts of its scopes.
LEMMA ScopesSteady ==
  ASSUME TypeOK, PlaceInv, LockInv, [Next]_vars, NEW p \in Queries, NEW d \in Int,
         pc[p] = "insert", pc'[p] = "insert"
  PROVE  /\ OfRun(RunOf[p])' \subseteq OfRun(RunOf[p])
         /\ Since(UserOf[p], d)' \subseteq Since(UserOf[p], d)
         /\ Running(SourceOf[p])' \subseteq Running(SourceOf[p])
<1>1. RunOf[p] \in Runs /\ UserOf[p] \in Users /\ SourceOf[p] \in Sources
  BY LedgerAssumption
<1>2. CASE \E i \in Queries : Insert(i)
  <2>1. PICK i \in Queries : Insert(i)
    BY <1>2
  <2>2. i # p /\ pc[i] = "insert"
    BY <2>1 DEF Insert, Go, TypeOK
  <2>3. RunOf[i] # RunOf[p] /\ UserOf[i] # UserOf[p] /\ SourceOf[i] # SourceOf[p]
    BY <2>2, ScopesDisjoint
  <2>4. QED
    BY <1>1, <2>1, <2>3, InsertAddsOne
<1>3. CASE ~\E i \in Queries : Insert(i)
  BY <1>1, <1>3, OnlyInsertAdds, NothingAdded
<1>4. QED
  BY <1>2, <1>3

\* The room that was counted under the locks is there until the insert.
LEMMA RoomInductive ==
  TypeOK /\ TypeOK' /\ PlaceInv /\ LockInv /\ RoomInv /\ [Next]_vars => RoomInv'
<1> SUFFICES ASSUME TypeOK, TypeOK', PlaceInv, LockInv, RoomInv, [Next]_vars,
                    NEW p \in Queries, pc'[p] = "insert"
             PROVE  (RunRoom(p) /\ DayRoom(p) /\ SourceRoom(p))'
  BY DEF RoomInv
<1>1. CASE Count(p)
  <2>1. RunRoom(p) /\ DayRoom(p) /\ SourceRoom(p)
    BY <1>1 DEF Count, Fits, Go, RunRoom, DayRoom, SourceRoom, TypeOK
  <2>2. /\ OfRun(RunOf[p])' = OfRun(RunOf[p])
        /\ Since(UserOf[p], day[p])' = Since(UserOf[p], day[p])
        /\ Running(SourceOf[p])' = Running(SourceOf[p])
    BY <1>1 DEF Count, row, OfRun, Since, Running, Charged
  <2>3. QED
    BY <2>1, <2>2 DEF RunRoom, DayRoom, SourceRoom
<1>2. CASE ~Count(p)
  <2>1. pc[p] = "insert" /\ day'[p] = day[p]
    BY <1>2, StillAbout
  <2>2. PICK d \in Int : d = day[p]
    BY DEF TypeOK
  <2>3. RunOf[p] \in Runs /\ UserOf[p] \in Users /\ SourceOf[p] \in Sources
    BY LedgerAssumption
  <2>4. /\ OfRun(RunOf[p])' \subseteq OfRun(RunOf[p])
        /\ Since(UserOf[p], d)' \subseteq Since(UserOf[p], d)
        /\ Running(SourceOf[p])' \subseteq Running(SourceOf[p])
    BY <2>1, ScopesSteady
  <2>5. /\ Cardinality(OfRun(RunOf[p])) < MaxPerRun
        /\ Cardinality(Since(UserOf[p], d)) < MaxPerDay
        /\ Cardinality(Running(SourceOf[p])) < MaxConcurrent
    BY <2>1, <2>2 DEF RoomInv, RunRoom, DayRoom, SourceRoom
  <2>6. /\ OfRun(RunOf[p]) \subseteq Queries
        /\ Since(UserOf[p], d) \subseteq Queries
        /\ Running(SourceOf[p]) \subseteq Queries
    BY DEF OfRun, Since, Running
  <2>7. /\ Cardinality(OfRun(RunOf[p])') < MaxPerRun
        /\ Cardinality(Since(UserOf[p], d)') < MaxPerDay
        /\ Cardinality(Running(SourceOf[p])') < MaxConcurrent
    BY <2>4, <2>5, <2>6, Counts, LedgerAssumption
  <2>8. Since(UserOf[p], day[p])' = Since(UserOf[p], d)'
    BY <2>1, <2>2 DEF Since
  <2>9. QED
    BY <2>7, <2>8 DEF RunRoom, DayRoom, SourceRoom
<1>3. QED
  BY <1>1, <1>2

\* No step goes over a budget: an insert has room, the others add nothing.
LEMMA BudgetsInductive ==
  TypeOK /\ PlaceInv /\ LockInv /\ RoomInv /\ Budgets /\ [Next]_vars => Budgets'
<1> SUFFICES ASSUME TypeOK, PlaceInv, LockInv, RoomInv, Budgets, [Next]_vars
             PROVE  Budgets'
  OBVIOUS
<1>1. CASE ~\E p \in Queries : Insert(p)
  <2>1. AddsNothing
    BY <1>1, OnlyInsertAdds
  <2>2. ASSUME NEW r \in Runs PROVE (Cardinality(OfRun(r)) <= MaxPerRun)'
    <3>1. OfRun(r)' \subseteq OfRun(r) /\ OfRun(r) \subseteq Queries
      BY <2>1, NothingAdded DEF OfRun
    <3>2. Cardinality(OfRun(r)) <= MaxPerRun
      BY DEF Budgets, RunBudget
    <3>3. QED
      BY <3>1, <3>2, Counts, LedgerAssumption
  <2>3. ASSUME NEW u \in Users, NEW d \in 1..MaxDays
        PROVE  (Cardinality(DayOf(u, d)) <= MaxPerDay)'
    <3>1. DayOf(u, d)' \subseteq DayOf(u, d) /\ DayOf(u, d) \subseteq Queries
      BY <2>1, NothingAdded DEF DayOf, Since
    <3>2. Cardinality(DayOf(u, d)) <= MaxPerDay
      BY DEF Budgets, DayBudget
    <3>3. QED
      BY <3>1, <3>2, Counts, LedgerAssumption
  <2>4. ASSUME NEW s \in Sources PROVE (Cardinality(Running(s)) <= MaxConcurrent)'
    <3>1. Running(s)' \subseteq Running(s) /\ Running(s) \subseteq Queries
      BY <2>1, NothingAdded DEF Running
    <3>2. Cardinality(Running(s)) <= MaxConcurrent
      BY DEF Budgets, SourceBudget
    <3>3. QED
      BY <3>1, <3>2, Counts, LedgerAssumption
  <2>5. QED
    BY <2>2, <2>3, <2>4 DEF Budgets, RunBudget, DayBudget, SourceBudget
<1>2. ASSUME NEW q \in Queries, Insert(q) PROVE Budgets'
  <2>1. pc[q] = "insert"
    BY <1>2 DEF Insert
  <2>2. RunRoom(q) /\ DayRoom(q) /\ SourceRoom(q)
    BY <2>1 DEF RoomInv
  <2>3. ASSUME NEW r \in Runs PROVE (Cardinality(OfRun(r)) <= MaxPerRun)'
    <3>1. OfRun(r) \subseteq Queries
      BY DEF OfRun
    <3>2. Cardinality(OfRun(r)) <= MaxPerRun
      BY DEF Budgets, RunBudget
    <3>3. CASE r = RunOf[q]
      <4>1. OfRun(r)' \subseteq OfRun(r) \cup {q}
        BY <1>2, <3>3, InsertAddsOne
      <4>2. Cardinality(OfRun(r)) < MaxPerRun
        BY <2>2, <3>3 DEF RunRoom
      <4>3. QED
        BY <3>1, <4>1, <4>2, CountsOneMore, LedgerAssumption
    <3>4. CASE r # RunOf[q]
      <4>1. OfRun(r)' \subseteq OfRun(r)
        BY <1>2, <3>4, InsertAddsOne
      <4>2. QED
        BY <3>1, <3>2, <4>1, Counts, LedgerAssumption
    <3>5. QED
      BY <3>3, <3>4
  <2>4. ASSUME NEW u \in Users, NEW d \in 1..MaxDays
        PROVE  (Cardinality(DayOf(u, d)) <= MaxPerDay)'
    <3>1. DayOf(u, d) \subseteq Since(u, d) /\ Since(u, d) \subseteq Queries
      BY DEF DayOf, Since
    <3>2. Cardinality(DayOf(u, d)) <= MaxPerDay
      BY DEF Budgets, DayBudget
    <3>3. CASE u = UserOf[q] /\ d = day[q]
      <4>1. DayOf(u, d)' \subseteq DayOf(u, d) \cup {q}
        BY <1>2, <3>3, InsertAddsOne
      <4>2. Cardinality(Since(u, d)) < MaxPerDay
        BY <2>2, <3>3 DEF DayRoom
      <4>3. Cardinality(DayOf(u, d)) < MaxPerDay
        BY <3>1, <4>2, Counts, LedgerAssumption
      <4>4. QED
        BY <3>1, <4>1, <4>3, CountsOneMore, LedgerAssumption
    <3>4. CASE ~(u = UserOf[q] /\ d = day[q])
      <4>1. DayOf(u, d)' \subseteq DayOf(u, d)
        BY <1>2, <3>4, InsertAddsOne
      <4>2. QED
        BY <3>1, <3>2, <4>1, Counts, LedgerAssumption
    <3>5. QED
      BY <3>3, <3>4
  <2>5. ASSUME NEW s \in Sources PROVE (Cardinality(Running(s)) <= MaxConcurrent)'
    <3>1. Running(s) \subseteq Queries
      BY DEF Running
    <3>2. Cardinality(Running(s)) <= MaxConcurrent
      BY DEF Budgets, SourceBudget
    <3>3. CASE s = SourceOf[q]
      <4>1. Running(s)' \subseteq Running(s) \cup {q}
        BY <1>2, <3>3, InsertAddsOne
      <4>2. Cardinality(Running(s)) < MaxConcurrent
        BY <2>2, <3>3 DEF SourceRoom
      <4>3. QED
        BY <3>1, <4>1, <4>2, CountsOneMore, LedgerAssumption
    <3>4. CASE s # SourceOf[q]
      <4>1. Running(s)' \subseteq Running(s)
        BY <1>2, <3>4, InsertAddsOne
      <4>2. QED
        BY <3>1, <3>2, <4>1, Counts, LedgerAssumption
    <3>5. QED
      BY <3>3, <3>4
  <2>6. QED
    BY <2>3, <2>4, <2>5 DEF Budgets, RunBudget, DayBudget, SourceBudget
<1>3. QED
  BY <1>1, <1>2

\* At first nothing is charged.
LEMMA BudgetsAtFirst == Init => LockInv /\ RoomInv /\ Budgets
<1> SUFFICES ASSUME Init PROVE LockInv /\ RoomInv /\ Budgets
  OBVIOUS
<1>1. LockInv /\ RoomInv
  BY DEF Init, LockInv, RoomInv
<1>2. /\ \A r \in Runs : OfRun(r) = {}
      /\ \A u \in Users, d \in 1..MaxDays : DayOf(u, d) = {}
      /\ \A s \in Sources : Running(s) = {}
  BY DEF Init, OfRun, DayOf, Since, Running, Charged
<1>3. Cardinality({}) = 0
  BY FS_EmptySet
<1>4. /\ \A r \in Runs : Cardinality(OfRun(r)) = 0
      /\ \A u \in Users, d \in 1..MaxDays : Cardinality(DayOf(u, d)) = 0
      /\ \A s \in Sources : Cardinality(Running(s)) = 0
  BY <1>2, <1>3
<1>5. Budgets
  BY <1>4, LedgerAssumption DEF Budgets, RunBudget, DayBudget, SourceBudget
<1>6. QED
  BY <1>1, <1>5

\* No budget of queries is ever exceeded, whatever begins at once.
THEOREM BudgetsKept == Spec => []Budgets
<1>1. Spec => [](LockInv /\ RoomInv /\ Budgets)
  BY BudgetsAtFirst, LockInductive, RoomInductive, BudgetsInductive, TypeCorrect,
     Places, PTL DEF Spec
<1>2. QED
  BY <1>1, PTL

(* However many begins race, no run has more executions than its budget    *)
(* (PostgresLedger.begin: locked, counted, inserted).                      *)
THEOREM RunBudgetKept == Spec => []RunBudget
<1>1. Budgets => RunBudget
  BY DEF Budgets
<1>2. QED
  BY <1>1, BudgetsKept, PTL

(* No user has more executions on one day than the daily budget, though    *)
(* begins that straddle midnight insert rows of the day before.            *)
THEOREM DayBudgetKept == Spec => []DayBudget
<1>1. Budgets => DayBudget
  BY DEF Budgets
<1>2. QED
  BY <1>1, BudgetsKept, PTL

(* No source has more running rows than its limit of concurrent queries.   *)
THEOREM SourceBudgetKept == Spec => []SourceBudget
<1>1. Budgets => SourceBudget
  BY DEF Budgets
<1>2. QED
  BY <1>1, BudgetsKept, PTL
-----------------------------------------------------------------------------
(* Sums over finite sets: the fold that Sum is, as a function on the       *)
(* subsets of a finite set, and what is known of it for any numbers c.     *)

Pick(s) == CHOOSE p \in s : TRUE
Adds(g, c, S) ==
  g = [s \in SUBSET S |-> IF s = {} THEN 0 ELSE c[Pick(s)] + g[s \ {Pick(s)}]]
Total(c, X) == CHOOSE g : Adds(g, c, X)

\* A set of numbers that is not empty has a least one.
LEMMA Least ==
  ASSUME NEW T \in SUBSET Nat, T # {}
  PROVE  \E n \in T : \A m \in T : n <= m
<1>1. PICK n \in T : \A m \in T : ~(<<m, n>> \in OpToRel(<, Nat))
  BY NatLessThanWellFounded, WFMin
<1>2. ASSUME NEW m \in T, m < n PROVE FALSE
  <2>1. <<m, n>> \in Nat \X Nat /\ <<m, n>>[1] < <<m, n>>[2]
    BY <1>2
  <2>2. <<m, n>> \in OpToRel(<, Nat)
    BY <2>1 DEF OpToRel
  <2>3. QED
    BY <1>1, <2>2
<1>3. QED
  BY <1>2

\* Of finite sets with some property there is one, none of whose smaller ones
\* has it.
LEMMA Smallest ==
  ASSUME NEW X, IsFiniteSet(X), NEW B \in SUBSET SUBSET X, B # {}
  PROVE  \E S \in B : \A p \in S : S \ {p} \notin B
<1>1. PICK S \in B : \A T \in B : <<T, S>> \notin StrictSubsetOrdering(X)
  BY FS_FiniteSubsetsOfFinite, FS_StrictSubsetOrderingWellFounded, WFMin
<1>2. ASSUME NEW p \in S, S \ {p} \in B PROVE FALSE
  <2> DEFINE ss == <<S \ {p}, S>>
  <2>1. ss \in (SUBSET X) \X (SUBSET X) /\ ss[1] \subseteq ss[2] /\ ss[1] # ss[2]
    OBVIOUS
  <2>2. ss \in StrictSubsetOrdering(X)
    BY <2>1 DEF StrictSubsetOrdering
  <2>3. QED
    BY <1>1, <1>2, <2>2
<1>3. QED
  BY <1>2

\* There is one sum of the numbers c at most ...
LEMMA AddsOne ==
  ASSUME NEW X, IsFiniteSet(X), NEW c, NEW g, NEW h, Adds(g, c, X), Adds(h, c, X)
  PROVE  g = h
<1> DEFINE B == {s \in SUBSET X : g[s] # h[s]}
<1>1. B = {}
  <2> SUFFICES ASSUME B # {} PROVE FALSE
    OBVIOUS
  <2>1. PICK S \in B : \A p \in S : S \ {p} \notin B
    BY Smallest
  <2>2. S # {} => Pick(S) \in S
    BY DEF Pick
  <2>3. g[S] = (IF S = {} THEN 0 ELSE c[Pick(S)] + g[S \ {Pick(S)}])
    BY DEF Adds
  <2>4. h[S] = (IF S = {} THEN 0 ELSE c[Pick(S)] + h[S \ {Pick(S)}])
    BY DEF Adds
  <2>5. S # {} => g[S \ {Pick(S)}] = h[S \ {Pick(S)}]
    BY <2>1, <2>2
  <2>6. QED
    BY <2>3, <2>4, <2>5
<1>2. /\ g = [s \in SUBSET X |-> g[s]]
      /\ h = [s \in SUBSET X |-> h[s]]
  BY Zenon DEF Adds
<1>3. QED
  BY <1>1, <1>2

\* ... and there is one: the recursion defines it.
LEMMA AddsSome ==
  ASSUME NEW X, IsFiniteSet(X), NEW c \in [X -> Nat]
  PROVE  \E g \in [SUBSET X -> Nat] : Adds(g, c, X)
<1> DEFINE Unfold(g, s) == IF s = {} THEN 0 ELSE c[Pick(s)] + g[s \ {Pick(s)}]
           Good(g, n) == \A s \in SUBSET X : Cardinality(s) <= n => g[s] = Unfold(g, s)
           Bad == {n \in Nat : ~ \E g \in [SUBSET X -> Nat] : Good(g, n)}
<1>1. \A s \in SUBSET X : IsFiniteSet(s) /\ Cardinality(s) \in Nat
  BY FS_Subset, FS_CardinalityType
<1>2. \A s \in SUBSET X : s # {} => Pick(s) \in s /\ Cardinality(s \ {Pick(s)}) = Cardinality(s) - 1
  BY <1>1, FS_RemoveElement DEF Pick
<1>3. \A g \in [SUBSET X -> Nat], s \in SUBSET X : Unfold(g, s) \in Nat
  <2> SUFFICES ASSUME NEW g \in [SUBSET X -> Nat], NEW s \in SUBSET X, s # {}
               PROVE  c[Pick(s)] + g[s \ {Pick(s)}] \in Nat
    OBVIOUS
  <2>1. c[Pick(s)] \in Nat /\ g[s \ {Pick(s)}] \in Nat
    BY <1>2
  <2>2. QED
    BY <2>1
<1>4. Bad = {}
  <2> SUFFICES ASSUME Bad # {} PROVE FALSE
    OBVIOUS
  <2>1. PICK n \in Bad : \A m \in Bad : n <= m
    BY Least
  <2>2. CASE n = 0
    <3> DEFINE z == [s \in SUBSET X |-> 0]
    <3>1. z \in [SUBSET X -> Nat]
      OBVIOUS
    <3>2. \A s \in SUBSET X : Cardinality(s) <= 0 => s = {}
      BY <1>1, FS_EmptySet
    <3>3. Good(z, 0)
      BY <3>2
    <3>4. QED
      BY <2>1, <2>2, <3>1, <3>3
  <2>3. CASE n # 0
    <3>1. n - 1 \in Nat /\ n - 1 \notin Bad
      <4>1. n \in Nat
        OBVIOUS
      <4> HIDE DEF Bad
      <4>2. QED
        BY <2>1, <2>3, <4>1
    <3>2. PICK g \in [SUBSET X -> Nat] : Good(g, n - 1)
      BY <3>1
    <3> DEFINE h == [s \in SUBSET X |-> Unfold(g, s)]
    <3>3. h \in [SUBSET X -> Nat]
      BY <1>3
    <3>4. ASSUME NEW s \in SUBSET X, Cardinality(s) <= n PROVE h[s] = Unfold(h, s)
      <4>1. CASE s = {}
        BY <4>1
      <4>2. CASE s # {}
        <5>1. Cardinality(s \ {Pick(s)}) <= n - 1 /\ s \ {Pick(s)} \in SUBSET X
          BY <1>1, <1>2, <2>1, <3>4, <4>2
        <5>2. g[s \ {Pick(s)}] = Unfold(g, s \ {Pick(s)})
          BY <3>2, <5>1
        <5>3. h[s \ {Pick(s)}] = Unfold(g, s \ {Pick(s)})
          BY <5>1
        <5>4. QED
          BY <4>2, <5>2, <5>3
      <4>3. QED
        BY <4>1, <4>2
    <3>5. Good(h, n)
      BY <3>4
    <3> HIDE DEF h, Good
    <3>6. QED
      BY <2>1, <3>3, <3>5
  <2>4. QED
    BY <2>2, <2>3
<1>5. PICK g \in [SUBSET X -> Nat] : Good(g, Cardinality(X))
  BY <1>1, <1>4
<1>6. \A s \in SUBSET X : Cardinality(s) <= Cardinality(X)
  BY FS_Subset
<1>7. \A s \in SUBSET X : g[s] = Unfold(g, s)
  BY <1>5, <1>6
<1>8. Adds(g, c, X)
  BY <1>7 DEF Adds
<1>9. QED
  BY <1>8

\* What the sum over the subsets of X is.
LEMMA TotalIs ==
  ASSUME NEW X, IsFiniteSet(X), NEW c \in [X -> Nat]
  PROVE  /\ Total(c, X) \in [SUBSET X -> Nat]
         /\ Total(c, X)[{}] = 0
         /\ \A S \in SUBSET X : S # {} =>
              /\ Pick(S) \in S
              /\ Total(c, X)[S] = c[Pick(S)] + Total(c, X)[S \ {Pick(S)}]
<1>1. PICK g \in [SUBSET X -> Nat] : Adds(g, c, X)
  BY AddsSome
<1>2. Adds(Total(c, X), c, X)
  BY <1>1 DEF Total
<1>3. Total(c, X) = g
  BY <1>1, <1>2, AddsOne
<1>4. \A S : S # {} => Pick(S) \in S
  BY DEF Pick
<1>5. \A S \in SUBSET X :
        Total(c, X)[S] = IF S = {} THEN 0 ELSE c[Pick(S)] + Total(c, X)[S \ {Pick(S)}]
  BY <1>2 DEF Adds
<1>6. QED
  BY <1>1, <1>3, <1>4, <1>5

\* In whatever order it is taken, an element adds its own.
LEMMA TotalAdd ==
  ASSUME NEW X, IsFiniteSet(X), NEW c \in [X -> Nat], NEW S \in SUBSET X, NEW x \in X, x \notin S
  PROVE  Total(c, X)[S \cup {x}] = Total(c, X)[S] + c[x]
<1> DEFINE F == Total(c, X)
           B == {T \in SUBSET X : \E y \in X \ T : F[T \cup {y}] # F[T] + c[y]}
<1>1. F \in [SUBSET X -> Nat] /\ F[{}] = 0
  BY TotalIs
<1>2. \A T \in SUBSET X : T # {} => Pick(T) \in T /\ F[T] = c[Pick(T)] + F[T \ {Pick(T)}]
  BY TotalIs
<1> HIDE DEF F
<1>3. B = {}
  <2> SUFFICES ASSUME B # {} PROVE FALSE
    OBVIOUS
  <2>1. PICK T \in B : \A p \in T : T \ {p} \notin B
    BY Smallest
  <2>2. PICK y \in X \ T : F[T \cup {y}] # F[T] + c[y]
    BY <2>1
  <2> DEFINE U == T \cup {y}
             p == Pick(U)
  <2>3. U \in SUBSET X /\ p \in U /\ F[U] = c[p] + F[U \ {p}]
    BY <1>2, <2>2
  <2>4. CASE p = y
    <3>1. U \ {p} = T
      BY <2>2, <2>4
    <3>2. F[T] \in Nat /\ c[y] \in Nat
      BY <1>1
    <3> HIDE DEF U, p
    <3>3. F[U] = c[y] + F[T]
      BY <2>3, <2>4, <3>1
    <3>4. F[U] = F[T] + c[y]
      BY <3>2, <3>3
    <3>5. QED
      BY <2>2, <3>4 DEF U
  <2>5. CASE p # y
    <3> DEFINE V == T \ {p}
    <3>1. p \in T /\ U \ {p} = V \cup {y} /\ V \cup {p} = T /\ V \in SUBSET X
      BY <2>2, <2>3, <2>5
    <3>2. V \notin B
      BY <2>1, <3>1
    <3>3. F[V \cup {y}] = F[V] + c[y] /\ F[V \cup {p}] = F[V] + c[p]
      BY <2>2, <3>1, <3>2
    <3>4. F[V] \in Nat /\ c[y] \in Nat /\ c[p] \in Nat
      BY <1>1, <3>1
    <3> HIDE DEF U, V, p, B
    <3>5. F[U] = c[p] + (F[V] + c[y]) /\ F[T] = F[V] + c[p]
      BY <2>3, <3>1, <3>3
    <3>6. F[U] = F[T] + c[y]
      BY <3>4, <3>5
    <3>7. QED
      BY <2>2, <3>6 DEF U
  <2>6. QED
    BY <2>4, <2>5
<1>4. QED
  BY <1>3 DEF F

\* A sum is at most another when what it adds, the other adds as well.
LEMMA TotalLeq ==
  ASSUME NEW X, IsFiniteSet(X), NEW c \in [X -> Nat], NEW d \in [X -> Nat],
         NEW S \in SUBSET X, NEW T \in SUBSET X,
         \A p \in S : c[p] = 0 \/ (p \in T /\ c[p] <= d[p])
  PROVE  Total(c, X)[S] <= Total(d, X)[T]
<1> DEFINE F == Total(c, X)
           G == Total(d, X)
           Under(U, V) == \A p \in U : c[p] = 0 \/ (p \in V /\ c[p] <= d[p])
           B == {U \in SUBSET X : \E V \in SUBSET X : Under(U, V) /\ ~(F[U] <= G[V])}
<1>1. F \in [SUBSET X -> Nat] /\ F[{}] = 0 /\ G \in [SUBSET X -> Nat]
  BY TotalIs
<1>2. \A U \in SUBSET X, p \in X : p \in U => /\ F[U] = F[U \ {p}] + c[p]
                                            /\ G[U] = G[U \ {p}] + d[p]
  <2> SUFFICES ASSUME NEW U \in SUBSET X, NEW p \in X, p \in U
               PROVE  F[U] = F[U \ {p}] + c[p] /\ G[U] = G[U \ {p}] + d[p]
    OBVIOUS
  <2>1. (U \ {p}) \cup {p} = U /\ U \ {p} \in SUBSET X /\ p \notin U \ {p}
    OBVIOUS
  <2>2. F[(U \ {p}) \cup {p}] = F[U \ {p}] + c[p]
    BY <2>1, TotalAdd
  <2>3. G[(U \ {p}) \cup {p}] = G[U \ {p}] + d[p]
    BY <2>1, TotalAdd
  <2>4. QED
    BY <2>1, <2>2, <2>3
<1> HIDE DEF F, G
<1>3. B = {}
  <2> SUFFICES ASSUME B # {} PROVE FALSE
    OBVIOUS
  <2>1. PICK U \in B : \A p \in U : U \ {p} \notin B
    BY Smallest
  <2>2. PICK V \in SUBSET X : Under(U, V) /\ ~(F[U] <= G[V])
    BY <2>1
  <2>3. F[U] \in Nat /\ G[V] \in Nat
    BY <1>1, <2>1
  <2>4. U # {}
    <3> SUFFICES ASSUME U = {} PROVE FALSE
      OBVIOUS
    <3>1. F[U] = 0
      BY <1>1
    <3> HIDE DEF B, Under
    <3>2. QED
      BY <2>2, <2>3, <3>1
  <2>5. PICK p \in X : p \in U
    BY <2>1, <2>4
  <2>6. U \ {p} \in SUBSET X /\ U \ {p} \notin B /\ F[U] = F[U \ {p}] + c[p]
    BY <1>2, <2>1, <2>5
  <2>7. F[U \ {p}] \in Nat /\ c[p] \in Nat /\ d[p] \in Nat
    BY <1>1, <2>6
  <2>8. CASE c[p] = 0
    <3>1. Under(U \ {p}, V)
      BY <2>2
    <3>2. F[U \ {p}] <= G[V]
      BY <2>6, <3>1
    <3>3. QED
      BY <2>2, <2>3, <2>6, <2>7, <2>8, <3>2
  <2>9. CASE c[p] # 0
    <3>1. p \in V /\ c[p] <= d[p]
      BY <2>2, <2>5, <2>9
    <3>2. Under(U \ {p}, V \ {p}) /\ V \ {p} \in SUBSET X
      BY <2>2
    <3>3. F[U \ {p}] <= G[V \ {p}]
      BY <2>6, <3>2
    <3>4. G[V] = G[V \ {p}] + d[p] /\ G[V \ {p}] \in Nat
      BY <1>1, <1>2, <3>1, <3>2
    <3>5. QED
      BY <2>2, <2>3, <2>6, <2>7, <3>1, <3>3, <3>4
  <2>10. QED
    BY <2>8, <2>9
<1>4. QED
  BY <1>3 DEF F, G

\* The sum over the subsets of a subset is the same sum.
LEMMA AddsSub ==
  ASSUME NEW X, IsFiniteSet(X), NEW c \in [X -> Nat], NEW S \in SUBSET X
  PROVE  /\ Adds([s \in SUBSET S |-> Total(c, X)[s]], c, S)
         /\ \A h : Adds(h, c, S) => h[S] = Total(c, X)[S]
<1> DEFINE F == Total(c, X)
<1>1. F[{}] = 0
  BY TotalIs
<1>2. \A s \in SUBSET X : s # {} => /\ Pick(s) \in s
                                      /\ F[s] = c[Pick(s)] + F[s \ {Pick(s)}]
  BY TotalIs
<1> HIDE DEF F
<1> DEFINE g == [s \in SUBSET S |-> F[s]]
<1>3. g = [s \in SUBSET S |-> IF s = {} THEN 0 ELSE c[Pick(s)] + g[s \ {Pick(s)}]]
  BY <1>1, <1>2
<1>4. Adds(g, c, S)
  BY <1>3 DEF Adds
<1>5. IsFiniteSet(S)
  BY FS_Subset
<1>6. ASSUME NEW h, Adds(h, c, S) PROVE h[S] = F[S]
  <2>1. h = g
    BY <1>4, <1>5, <1>6, AddsOne
  <2>2. QED
    BY <2>1
<1>7. QED
  BY <1>4, <1>6 DEF F
-----------------------------------------------------------------------------
(* The bytes.  What a day costs is such a sum: a running row counts all    *)
(* that it reserved, so that a row only ever comes to cost less.           *)

Costs == [p \in Queries |-> Cost(p)]
Bytes(S) == Total(Costs, Queries)[S]

\* A row that has not ended has billed nothing.
BilledInv == \A q \in Queries : status[q] \in {"none", "running"} => billed[q] = None

\* What was left of the bytes under the locks is left until the insert.
BytesRoom ==
  \A q \in Queries : pc[q] = "insert" /\ Reserve[q] > 0 =>
    Bytes(Since(UserOf[q], day[q])) + Reserve[q] <= MaxBytes

DayBytes == \A u \in Users, d \in 1..MaxDays : Bytes(DayOf(u, d)) <= MaxBytes

BytesInv == BilledInv /\ BytesRoom /\ DayBytes

LEMMA CostsType == ASSUME TypeOK PROVE Costs \in [Queries -> Nat]
BY LedgerAssumption DEF TypeOK, Costs, Cost

LEMMA BytesType ==
  ASSUME TypeOK PROVE \A S \in SUBSET Queries : Bytes(S) \in Nat
<1>1. Total(Costs, Queries) \in [SUBSET Queries -> Nat]
  BY CostsType, TotalIs, LedgerAssumption
<1>2. QED
  BY <1>1 DEF Bytes

\* The sum of the module is this sum.
LEMMA SpentBytes ==
  ASSUME TypeOK, NEW S \in SUBSET Queries
  PROVE  Spent(S) = Bytes(S)
<1> DEFINE It(h) == h = [s \in SUBSET S |-> IF s = {} THEN 0
                           ELSE Cost(CHOOSE p \in s : TRUE) + h[s \ {CHOOSE p \in s : TRUE}]]
<1>1. Costs \in [Queries -> Nat] /\ IsFiniteSet(Queries)
  BY CostsType, LedgerAssumption
<1>2. \A h : It(h) <=> Adds(h, Costs, S)
  <2> SUFFICES ASSUME NEW h PROVE It(h) <=> Adds(h, Costs, S)
    OBVIOUS
  <2>1. \A s \in SUBSET S : s # {} => Pick(s) \in Queries /\ Costs[Pick(s)] = Cost(Pick(s))
    BY DEF Pick, Costs
  <2>2. [s \in SUBSET S |-> IF s = {} THEN 0 ELSE Cost(Pick(s)) + h[s \ {Pick(s)}]]
          = [s \in SUBSET S |-> IF s = {} THEN 0 ELSE Costs[Pick(s)] + h[s \ {Pick(s)}]]
    BY <2>1
  <2>3. QED
    BY <2>2 DEF Adds, Pick
<1>3. Spent(S) = (CHOOSE h : It(h))[S]
  BY DEF Spent, MapThenFoldSet
<1> HIDE DEF It
<1>4. \E h : It(h)
  BY <1>1, <1>2, AddsSub
<1>5. It(CHOOSE h : It(h))
  BY <1>4
<1>6. QED
  BY <1>1, <1>2, <1>3, <1>5, AddsSub DEF Bytes

\* Rows bill once, and no more than they reserved.
LEMMA BilledStep ==
  ASSUME TypeOK, PlaceInv, BilledInv, [Next]_vars
  PROVE  /\ BilledInv'
         /\ \A p \in Queries : Cost(p)' <= Cost(p)
<1> USE LedgerAssumption DEF TypeOK, PlaceInv, BilledInv, row
<1>1. \A p \in Queries : Cost(p) \in Nat
  BY DEF Cost
<1>2. CASE \E q \in Queries : Finish(q)
  <2>1. PICK q \in Queries : Finish(q)
    BY <1>2
  <2>2. /\ status[q] = "running" /\ billed[q] = None /\ status'[q] \in Outcomes
        /\ \A p \in Queries : p # q => status'[p] = status[p] /\ billed'[p] = billed[p]
    BY <2>1 DEF Finish, Unended, Ends, Outcomes
  <2>3. billed'[q] \in 0..Reserve[q] \cup {None}
    BY <2>1 DEF Finish, Bills
  <2>4. Cost(q)' <= Cost(q)
    BY <2>2, <2>3 DEF Cost
  <2>5. \A p \in Queries : p # q => Cost(p)' <= Cost(p)
    BY <1>1, <2>2 DEF Cost
  <2>6. BilledInv'
    BY <2>2 DEF Outcomes
  <2>7. QED
    BY <2>4, <2>5, <2>6
<1>3. CASE ~\E q \in Queries : Finish(q)
  <2>1. billed' = billed
    BY <1>3 DEF Next, Step, vars, Open, Lock, Count, Insert, BeginFails, RecordRefusal, Start,
       NotStarted, Return, FinishFails, CancelRun, Tick, CancelTold, Recover, Crash, NewDay
  <2>2. \A p \in Queries : Cost(p)' <= Cost(p)
    BY <1>1, <2>1 DEF Cost
  <2>3. \A p \in Queries : status'[p] \in {"none", "running"} => status[p] \in {"none", "running"}
    BY <1>3 DEF Next, Step, vars, Open, Lock, Count, Insert, BeginFails, RecordRefusal, Start,
       NotStarted, Return, FinishFails, CancelRun, Tick, CancelTold, Recover, Crash, NewDay
  <2>4. QED
    BY <2>1, <2>2, <2>3
<1>4. QED
  BY <1>2, <1>3

\* So the rows of a set that was larger cost no more after a step ...
LEMMA BytesFall ==
  ASSUME TypeOK, TypeOK', PlaceInv, BilledInv, [Next]_vars,
         NEW S \in SUBSET Queries, NEW T \in SUBSET Queries, T \subseteq S
  PROVE  /\ Total(Costs', Queries)[T] <= Bytes(S)
         /\ Total(Costs', Queries)[T] \in Nat /\ Bytes(S) \in Nat
<1>1. Costs \in [Queries -> Nat] /\ IsFiniteSet(Queries)
  BY CostsType, LedgerAssumption
<1>2. Costs' \in [Queries -> Nat]
  BY LedgerAssumption DEF TypeOK, Costs, Cost
<1>3. \A p \in T : p \in S /\ Costs'[p] <= Costs[p]
  BY BilledStep DEF Costs
<1>4. Total(Costs', Queries)[T] <= Total(Costs, Queries)[S]
  BY <1>1, <1>2, <1>3, TotalLeq
<1>5. Total(Costs', Queries) \in [SUBSET Queries -> Nat]
  BY <1>1, <1>2, TotalIs
<1>6. QED
  BY <1>4, <1>5, BytesType DEF Bytes

\* ... and one row more costs what it reserved at most.
LEMMA BytesOneMore ==
  ASSUME TypeOK, TypeOK', PlaceInv, BilledInv, NEW q \in Queries, Insert(q),
         NEW S \in SUBSET Queries, NEW T \in SUBSET (S \cup {q})
  PROVE  /\ Total(Costs', Queries)[T] <= Bytes(S) + Reserve[q]
         /\ Total(Costs', Queries)[T] \in Nat
<1>1. [Next]_vars
  BY DEF Next, Step
<1>2. Costs' \in [Queries -> Nat] /\ IsFiniteSet(Queries)
  BY LedgerAssumption DEF TypeOK, Costs, Cost
<1>3. Costs'[q] = Reserve[q] /\ Reserve[q] \in Nat
  BY LedgerAssumption DEF Costs, Cost, Insert, PlaceInv, BilledInv
<1> DEFINE R == T \ {q}
<1>4. R \in SUBSET Queries /\ R \subseteq S /\ q \notin R
  OBVIOUS
<1>5. CASE q \in T
  <2>1. R \cup {q} = T
    BY <1>5
  <2> HIDE DEF R
  <2>2. Total(Costs', Queries)[R \cup {q}] = Total(Costs', Queries)[R] + Costs'[q]
    BY <1>2, <1>4, TotalAdd
  <2>3. /\ Total(Costs', Queries)[R] <= Bytes(S)
        /\ Total(Costs', Queries)[R] \in Nat /\ Bytes(S) \in Nat
    BY <1>1, <1>4, BytesFall
  <2>4. QED
    BY <1>3, <2>1, <2>2, <2>3
<1>6. CASE q \notin T
  <2>1. T \subseteq S /\ T \in SUBSET Queries
    BY <1>6
  <2>2. /\ Total(Costs', Queries)[T] <= Bytes(S)
        /\ Total(Costs', Queries)[T] \in Nat /\ Bytes(S) \in Nat
    BY <1>1, <2>1, BytesFall
  <2>3. QED
    BY <1>3, <2>2
<1>7. QED
  BY <1>5, <1>6

\* What is left of the bytes stays, for the locks keep other inserts out.
LEMMA BytesRoomStep ==
  ASSUME TypeOK, TypeOK', PlaceInv, LockInv, BilledInv, BytesRoom, [Next]_vars
  PROVE  BytesRoom'
<1> SUFFICES ASSUME NEW p \in Queries, pc'[p] = "insert", Reserve[p] > 0
             PROVE  (Bytes(Since(UserOf[p], day[p])))' + Reserve[p] <= MaxBytes
  BY DEF BytesRoom
<1> DEFINE S == Since(UserOf[p], day[p])
           T == Since(UserOf[p], day[p])'
<1>1. /\ S \in SUBSET Queries /\ T \in SUBSET Queries
      /\ Reserve[p] \in Nat /\ MaxBytes \in Nat
  BY LedgerAssumption DEF Since
<1>2. T \subseteq S /\ Bytes(S) + Reserve[p] <= MaxBytes
  <2>1. CASE Count(p)
    <3>1. Fits(p)
      BY <2>1 DEF Count, Go, TypeOK
    <3>2. Spent(S) + Reserve[p] <= MaxBytes
      BY <3>1 DEF Fits
    <3>3. Spent(S) = Bytes(S)
      BY <1>1, SpentBytes
    <3>4. T = S
      BY <2>1 DEF Count, row, Since, Charged
    <3> HIDE DEF S, T
    <3>5. QED
      BY <3>2, <3>3, <3>4
  <2>2. CASE ~Count(p)
    <3>1. pc[p] = "insert" /\ day'[p] = day[p]
      BY <2>2, StillAbout
    <3>2. PICK d \in Int : d = day[p]
      BY DEF TypeOK
    <3>3. Since(UserOf[p], d)' \subseteq Since(UserOf[p], d)
      BY <3>1, ScopesSteady
    <3>4. QED
      BY <3>1, <3>2, <3>3 DEF BytesRoom, Since
  <2>3. QED
    BY <2>1, <2>2
<1>3. (Bytes(Since(UserOf[p], day[p])))' = Total(Costs', Queries)[T]
  BY DEF Bytes
<1> HIDE DEF S, T
<1>4. Total(Costs', Queries)[T] <= Bytes(S) /\ Total(Costs', Queries)[T] \in Nat /\ Bytes(S) \in Nat
  BY <1>1, <1>2, BytesFall
<1>5. QED
  BY <1>1, <1>2, <1>3, <1>4

\* No day comes to cost more than its budget.
LEMMA DayBytesStep ==
  ASSUME TypeOK, TypeOK', PlaceInv, LockInv, BilledInv, BytesRoom, DayBytes, [Next]_vars
  PROVE  DayBytes'
<1> SUFFICES ASSUME NEW u \in Users, NEW d \in 1..MaxDays
             PROVE  (Bytes(DayOf(u, d)))' <= MaxBytes
  BY DEF DayBytes
<1> DEFINE S == DayOf(u, d)
           T == DayOf(u, d)'
<1>1. /\ S \in SUBSET Queries /\ T \in SUBSET Queries /\ MaxBytes \in Nat
      /\ d \in Int /\ Bytes(S) <= MaxBytes
  BY LedgerAssumption DEF DayOf, Since, DayBytes
<1>2. (Bytes(DayOf(u, d)))' = Total(Costs', Queries)[T]
  BY DEF Bytes
<1>3. CASE T \subseteq S
  <2> HIDE DEF S, T
  <2>1. Total(Costs', Queries)[T] <= Bytes(S) /\ Total(Costs', Queries)[T] \in Nat /\ Bytes(S) \in Nat
    BY <1>1, <1>3, BytesFall
  <2>2. QED
    BY <1>1, <1>2, <2>1
<1>4. CASE ~(T \subseteq S)
  <2>1. PICK q \in Queries : Insert(q)
    BY <1>1, <1>4, OnlyInsertAdds, NothingAdded
  <2>2. u = UserOf[q] /\ d = day[q] /\ T \subseteq S \cup {q} /\ Reserve[q] \in Nat
    BY <1>1, <1>4, <2>1, InsertAddsOne, LedgerAssumption
  <2>3. S \subseteq Since(u, d) /\ Since(u, d) \in SUBSET Queries
    BY DEF DayOf, Since
  <2>4. CASE Reserve[q] = 0
    <3> HIDE DEF S, T
    <3>1. /\ Total(Costs', Queries)[T] <= Bytes(S) + Reserve[q]
          /\ Total(Costs', Queries)[T] \in Nat
      BY <1>1, <2>1, <2>2, BytesOneMore
    <3>2. Bytes(S) \in Nat
      BY <1>1, BytesType
    <3>3. QED
      BY <1>1, <1>2, <2>4, <3>1, <3>2
  <2>5. CASE Reserve[q] > 0
    <3>1. Bytes(Since(u, d)) + Reserve[q] <= MaxBytes
      BY <2>1, <2>2, <2>5 DEF BytesRoom, Insert
    <3>2. T \subseteq Since(u, d) \cup {q}
      BY <2>2, <2>3
    <3> HIDE DEF S, T
    <3>3. /\ Total(Costs', Queries)[T] <= Bytes(Since(u, d)) + Reserve[q]
          /\ Total(Costs', Queries)[T] \in Nat
      BY <2>1, <2>3, <3>2, BytesOneMore
    <3>4. Bytes(Since(u, d)) \in Nat
      BY <2>3, BytesType
    <3>5. QED
      BY <1>1, <1>2, <2>2, <3>1, <3>3, <3>4
  <2>6. QED
    BY <2>2, <2>4, <2>5
<1>5. QED
  BY <1>3, <1>4

(* The bytes that the queries of a user and day billed, or may still bill, *)
(* never exceed the daily budget: however many begin at once, over         *)
(* midnight, and whatever becomes of their workers (_check_budgets).       *)
THEOREM BytesBudgetKept == Spec => []BytesBudget
<1>1. Init => BytesInv
  <2> SUFFICES ASSUME Init PROVE BytesInv
    OBVIOUS
  <2>1. TypeOK
    BY LedgerAssumption DEF Init, TypeOK, Outcomes
  <2>2. Bytes({}) = 0
    BY <2>1, CostsType, TotalIs, LedgerAssumption DEF Bytes
  <2>3. \A u \in Users, d \in 1..MaxDays : DayOf(u, d) = {}
    BY DEF Init, DayOf, Since, Charged
  <2>4. \A u \in Users, d \in 1..MaxDays : Bytes(DayOf(u, d)) = 0
    BY <2>2, <2>3
  <2>5. MaxBytes \in Nat
    BY LedgerAssumption
  <2>6. DayBytes
    BY <2>4, <2>5 DEF DayBytes
  <2>7. QED
    BY <2>6 DEF Init, BytesInv, BilledInv, BytesRoom
<1>2. TypeOK /\ TypeOK' /\ PlaceInv /\ LockInv /\ BytesInv /\ [Next]_vars => BytesInv'
  BY BilledStep, BytesRoomStep, DayBytesStep DEF BytesInv
<1>3. Spec => []LockInv
  BY BudgetsAtFirst, LockInductive, TypeCorrect, PTL DEF Spec
<1>4. TypeOK /\ BytesInv => BytesBudget
  <2> SUFFICES ASSUME TypeOK, BytesInv, NEW u \in Users, NEW d \in 1..MaxDays
               PROVE  Spent(DayOf(u, d)) <= MaxBytes
    BY DEF BytesBudget
  <2>1. DayOf(u, d) \in SUBSET Queries
    BY DEF DayOf, Since
  <2>2. Spent(DayOf(u, d)) = Bytes(DayOf(u, d))
    BY <2>1, SpentBytes
  <2>3. QED
    BY <2>2 DEF BytesInv, DayBytes
<1>5. QED
  BY <1>1, <1>2, <1>3, <1>4, TypeCorrect, Places, PTL DEF Spec
-----------------------------------------------------------------------------
(* The locks.  Begins wait for each other, but never in a circle.          *)

\* A lock is held by a query that is about to begin, with all of its scopes
\* that sort before it.
HeldInOrder ==
  \A k \in Keys, q \in Queries : holder[k] = q =>
    pc[q] \in {"lock", "insert"} /\ k \in Scopes(q) /\ InOrder(q, k)

\* While any waits, one is not held up: it inserts, counts, or locks a scope.
BeginsGoOn ==
  (\E q \in Queries : pc[q] = "lock") =>
    \E q \in Queries :
      \/ pc[q] = "insert"
      \/ pc[q] = "lock" /\ Locked(q)
      \/ pc[q] = "lock" /\ \E k \in Scopes(q) : holder[k] = None /\ InOrder(q, k)

LEMMA HeldInOrderStep == TypeOK /\ PlaceInv /\ HeldInOrder /\ [Next]_vars => HeldInOrder'
<1> SUFFICES ASSUME TypeOK, PlaceInv, HeldInOrder, [Next]_vars PROVE HeldInOrder'
  OBVIOUS
<1>1. \A q \in Queries : Scopes(q) \subseteq Keys /\ q # None
  BY LedgerAssumption DEF Scopes, Keys
<1> USE <1>1 DEF TypeOK, HeldInOrder, InOrder, row
<1>2. ASSUME NEW q \in Queries, Open(q) PROVE HeldInOrder'
  BY <1>2 DEF Open, Go
<1>3. ASSUME NEW q \in Queries, NEW k \in Keys, Lock(q, k) PROVE HeldInOrder'
  BY <1>3 DEF Lock
<1>4. ASSUME NEW q \in Queries, Count(q) PROVE HeldInOrder'
  BY <1>4 DEF Count, Go, Release
<1>5. ASSUME NEW q \in Queries, Insert(q) PROVE HeldInOrder'
  BY <1>5 DEF Insert, Go, Release, Mishap
<1>6. ASSUME NEW q \in Queries, BeginFails(q) PROVE HeldInOrder'
  BY <1>6 DEF BeginFails, Go, Release, Mishap
<1>7. ASSUME NEW q \in Queries, RecordRefusal(q) PROVE HeldInOrder'
  BY <1>7 DEF RecordRefusal, Go
<1>8. ASSUME NEW q \in Queries, Start(q) \/ NotStarted(q) PROVE HeldInOrder'
  BY <1>8 DEF Start, NotStarted, Go
<1>9. ASSUME NEW q \in Queries, Return(q) PROVE HeldInOrder'
  BY <1>9 DEF Return, Go
<1>10. ASSUME NEW q \in Queries, Finish(q) PROVE HeldInOrder'
  BY <1>10 DEF Finish, Go
<1>11. ASSUME NEW q \in Queries, FinishFails(q) PROVE HeldInOrder'
  BY <1>11 DEF FinishFails, Go, Mishap
<1>12. ASSUME NEW u \in Users, NEW r \in Runs, CancelRun(u, r) PROVE HeldInOrder'
  BY <1>12 DEF CancelRun
<1>13. ASSUME NEW w \in Workers, Tick(w) PROVE HeldInOrder'
  BY <1>13 DEF Tick, Heartbeat, RunningIds
<1>14. ASSUME NEW q \in Queries, CancelTold(q) PROVE HeldInOrder'
  BY <1>14 DEF CancelTold, Go, PlaceInv
<1>15. ASSUME NEW q \in Queries, Recover(q) PROVE HeldInOrder'
  BY <1>15 DEF Recover
<1>16. ASSUME NEW w \in Workers, Crash(w) PROVE HeldInOrder'
  BY <1>16 DEF Crash, Mishap
<1>17. ASSUME NewDay PROVE HeldInOrder'
  BY <1>17 DEF NewDay, Mishap
<1>18. ASSUME UNCHANGED vars PROVE HeldInOrder'
  BY <1>18 DEF vars, row
<1>19. QED
  BY <1>2, <1>3, <1>4, <1>5, <1>6, <1>7, <1>8, <1>9, <1>10, <1>11, <1>12,
    <1>13, <1>15, <1>16, <1>17, <1>18, <1>14 DEF Next, Step

\* Of finitely many, one comes last.
LEMMA Last ==
  ASSUME NEW T, IsFiniteSet(T), T # {}, NEW f \in [T -> Int]
  PROVE  \E x \in T : \A y \in T : f[x] >= f[y]
<1> DEFINE Has(S) == \E x \in S : \A y \in S : f[x] >= f[y]
           B == {S \in SUBSET T : S # {} /\ ~Has(S)}
<1>1. B = {}
  <2> SUFFICES ASSUME B # {} PROVE FALSE
    OBVIOUS
  <2>1. PICK S \in B : \A p \in S : S \ {p} \notin B
    BY Smallest
  <2>2. PICK x \in S : TRUE
    BY <2>1
  <2>3. CASE S = {x}
    BY <2>1, <2>3
  <2>4. CASE S # {x}
    <3>1. S \ {x} \in SUBSET T /\ S \ {x} # {}
      BY <2>4
    <3>2. PICK y \in S \ {x} : \A z \in S \ {x} : f[y] >= f[z]
      BY <2>1, <3>1
    <3>3. CASE f[x] >= f[y]
      <4>1. \A z \in S : f[x] >= f[z]
        BY <3>2, <3>3
      <4>2. QED
        BY <2>1, <4>1
    <3>4. CASE ~(f[x] >= f[y])
      <4>1. \A z \in S : f[y] >= f[z]
        BY <3>2, <3>4
      <4>2. QED
        BY <2>1, <4>1
    <3>5. QED
      BY <3>3, <3>4
  <2>5. QED
    BY <2>3, <2>4
<1>2. T \notin B
  BY <1>1
<1>3. QED
  BY <1>2

\* The locks that anybody wants are finitely many.
LEMMA FiniteScopes ==
  /\ \A q \in Queries : IsFiniteSet(Scopes(q))
  /\ IsFiniteSet(UNION {Scopes(q) : q \in Queries})
<1>1. ASSUME NEW q \in Queries PROVE IsFiniteSet(Scopes(q))
  <2>1. IsFiniteSet({UserOf[q]})
    BY FS_Singleton
  <2>2. IsFiniteSet({UserOf[q]} \cup {SourceOf[q]})
    BY <2>1, FS_AddElement
  <2>3. IsFiniteSet(({UserOf[q]} \cup {SourceOf[q]}) \cup {RunOf[q]})
    BY <2>2, FS_AddElement
  <2>4. Scopes(q) = ({UserOf[q]} \cup {SourceOf[q]}) \cup {RunOf[q]}
    BY DEF Scopes
  <2>5. QED
    BY <2>3, <2>4
<1> DEFINE All == {Scopes(q) : q \in Queries}
<1>2. IsFiniteSet(All)
  <2> DEFINE f == [q \in Queries |-> Scopes(q)]
  <2>1. f \in Surjection(Queries, All)
    BY DEF Surjection
  <2> HIDE DEF f, All
  <2>2. QED
    BY <2>1, FS_Surjection, LedgerAssumption
<1>3. \A S \in All : IsFiniteSet(S)
  BY <1>1
<1> HIDE DEF All
<1>4. IsFiniteSet(UNION All)
  BY <1>2, <1>3, FS_UNION
<1>5. QED
  BY <1>1, <1>4 DEF All

\* A query that has yet to lock a scope has one that comes next.
LEMMA NextScope ==
  ASSUME NEW q \in Queries, ~Locked(q)
  PROVE  \E k \in Scopes(q) : holder[k] # q /\ InOrder(q, k)
<1> DEFINE T == {k \in Scopes(q) : holder[k] # q}
           f == [k \in T |-> -Rank[k]]
<1>1. \A k \in Scopes(q) : Rank[k] \in Int
  BY LedgerAssumption DEF Scopes, Keys
<1>2. T # {} /\ IsFiniteSet(T) /\ f \in [T -> Int]
  BY <1>1, FiniteScopes, FS_Subset DEF Locked
<1>3. PICK k \in T : \A j \in T : f[k] >= f[j]
  <2> HIDE DEF T, f
  <2>1. QED
    BY <1>2, Last
<1>4. ASSUME NEW j \in Scopes(q), Rank[j] < Rank[k] PROVE holder[j] = q
  <2>1. CASE j \in T
    <3>1. f[k] >= f[j]
      BY <1>3, <2>1
    <3>2. f[k] = -Rank[k] /\ f[j] = -Rank[j]
      BY <2>1
    <3>3. QED
      BY <1>1, <1>4, <3>1, <3>2
  <2>2. CASE j \notin T
    BY <2>2
  <2>3. QED
    BY <2>1, <2>2
<1>5. QED
  BY <1>4 DEF InOrder

(* Begins wait for each other's scopes, but never in a circle: whoever     *)
(* holds the lock that sorts last finds the next one it needs free         *)
(* (begin: "sorted: two begins never wait on each other in a cycle").      *)
THEOREM BeginsGoOnAlways == Spec => []BeginsGoOn
<1>1. Init => HeldInOrder
  BY LedgerAssumption DEF Init, HeldInOrder
<1>2. TypeOK /\ HeldInOrder => BeginsGoOn
  <2> SUFFICES ASSUME TypeOK, HeldInOrder, NEW p \in Queries, pc[p] = "lock"
               PROVE  \E q \in Queries :
                        \/ pc[q] = "insert"
                        \/ pc[q] = "lock" /\ Locked(q)
                        \/ pc[q] = "lock" /\ \E k \in Scopes(q) : holder[k] = None /\ InOrder(q, k)
    BY DEF BeginsGoOn
  <2> DEFINE T == {k \in Keys : holder[k] # None}
  <2>1. \A q \in Queries : Scopes(q) \subseteq Keys
    BY LedgerAssumption DEF Scopes, Keys
  <2>2. CASE T = {}
    <3>1. CASE Locked(p)
      BY <3>1
    <3>2. CASE ~Locked(p)
      BY <2>1, <2>2, <3>2, NextScope
    <3>3. QED
      BY <3>1, <3>2
  <2>3. CASE T # {}
    <3> DEFINE f == [k \in T |-> Rank[k]]
    <3>1. \A k \in T : holder[k] \in Queries /\ k \in Scopes(holder[k])
      BY DEF TypeOK, HeldInOrder
    <3>2. T \in SUBSET UNION {Scopes(q) : q \in Queries} /\ f \in [T -> Int]
      BY <3>1, LedgerAssumption
    <3>3. IsFiniteSet(T)
      BY <3>2, FiniteScopes, FS_Subset
    <3>4. PICK k \in T : \A j \in T : f[k] >= f[j]
      <4> HIDE DEF T, f
      <4>1. QED
        BY <2>3, <3>2, <3>3, Last
    <3>5. PICK q \in Queries : holder[k] = q
      BY <3>1
    <3>6. pc[q] \in {"lock", "insert"} /\ InOrder(q, k)
      BY <3>5 DEF HeldInOrder
    <3>7. CASE Locked(q) \/ pc[q] = "insert"
      BY <3>6, <3>7
    <3>8. CASE ~Locked(q) /\ pc[q] = "lock"
      <4>1. PICK j \in Scopes(q) : holder[j] # q /\ InOrder(q, j)
        BY <3>8, NextScope
      <4>2. j \in Keys /\ Rank[j] \in Int /\ Rank[k] \in Int /\ j # k
        BY <2>1, <3>5, <4>1, LedgerAssumption
      <4>3. Rank[j] # Rank[k]
        BY <4>2, LedgerAssumption
      <4>4. ~(Rank[j] < Rank[k])
        BY <3>6, <4>1 DEF InOrder
      <4>5. ASSUME j \in T PROVE FALSE
        <5>1. f[k] >= f[j] /\ f[k] = Rank[k] /\ f[j] = Rank[j]
          BY <3>4, <4>5
        <5>2. QED
          BY <4>2, <4>3, <4>4, <5>1
      <4>6. QED
        BY <3>8, <4>1, <4>2, <4>5
    <3>9. QED
      BY <3>6, <3>7, <3>8
  <2>4. QED
    BY <2>2, <2>3
<1>3. QED
  BY <1>1, <1>2, HeldInOrderStep, TypeCorrect, Places, PTL DEF Spec
=============================================================================
