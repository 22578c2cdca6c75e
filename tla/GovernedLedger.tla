--------------------------- MODULE GovernedLedger ----------------------------
(***************************************************************************)
(* The audit ledger of governed reads at work (governed_query/ledger.py,   *)
(* service.py): the transaction that checks the budgets under advisory     *)
(* locks and inserts the running row, the statement at the warehouse, the  *)
(* conditional write that ends the row, cancellation through the row by    *)
(* another worker, and the recovery of rows whose worker is gone.          *)
(***************************************************************************)
EXTENDS Integers, FiniteSets, Folds

CONSTANTS
  Queries, Users, Sources, Runs, Consents, Workers,
  UserOf, SourceOf, RunOf, WorkerOf,  \* of each query
  ConsentsOf,     \* the consents that its request may carry, or None
  Reserve,        \* the bytes it may bill, 0 for a source that bills none
  Rank,           \* the numbers that the budget scopes hash to
  MaxPerRun, MaxPerDay, MaxBytes, MaxConcurrent,  \* LedgerBudgets
  None,
  MaxDays,
  MaxMishaps  \* bounds crashes, failures of the database, and midnights

Keys == Users \cup Sources \cup Runs

ASSUME LedgerAssumption ==
  /\ IsFiniteSet(Queries)
  /\ UserOf \in [Queries -> Users] /\ SourceOf \in [Queries -> Sources]
  /\ RunOf \in [Queries -> Runs]
  /\ ConsentsOf \in [Queries -> SUBSET (Consents \cup {None})]
  /\ WorkerOf \in [Queries -> Workers]
  /\ Reserve \in [Queries -> Nat]
  /\ Rank \in [Keys -> Int] /\ \A j, k \in Keys : Rank[j] = Rank[k] => j = k
  /\ {MaxPerRun, MaxPerDay, MaxBytes, MaxConcurrent} \subseteq Nat \ {0}
  /\ None \notin Queries \cup Consents \cup Nat
  /\ MaxDays \in Nat \ {0} /\ MaxMishaps \in Nat

VARIABLES
  today,
  status,     \* of each query's row; "none" while there is none
  day,        \* started_at: the day its transaction began
  billed,     \* bytes_processed
  nonce,      \* consent_nonce
  marked,     \* rows with cancel_requested_at
  holder,     \* who holds the advisory lock of each budget scope
  pc,         \* where the request of each query is
  executed,   \* queries whose statement was sent to the warehouse
  answered,   \* queries whose rows were given to the caller
  told,       \* queries that a watcher has read as marked and not yet cancelled
  mishaps

row == <<status, day, billed, nonce, marked>>
vars == <<today, row, holder, pc, executed, answered, told, mishaps>>

\* "error" stands for a timeout too.
Outcomes == {"ok", "refused", "error", "cancelled"}

TypeOK ==
  /\ today \in 1..MaxDays
  /\ status \in [Queries -> Outcomes \cup {"none", "running", "abandoned"}]
  /\ day \in [Queries -> 0..MaxDays]
  /\ billed \in [Queries -> Nat \cup {None}]
  /\ nonce \in [Queries -> Consents \cup {None}]
  /\ marked \subseteq Queries
  /\ holder \in [Keys -> Queries \cup {None}]
  /\ pc \in [Queries -> {"new", "lock", "insert", "refuse", "probe", "execute",
                         "stopping", "finish", "stopped", "done"}]
  /\ executed \subseteq Queries /\ answered \subseteq executed
  /\ told \subseteq Queries
  /\ mishaps \in 0..MaxMishaps

Init ==
  /\ today = 1
  /\ status = [q \in Queries |-> "none"] /\ day = [q \in Queries |-> 0]
  /\ billed = [q \in Queries |-> None] /\ nonce = billed /\ marked = {}
  /\ holder = [k \in Keys |-> None]
  /\ pc = [q \in Queries |-> "new"] /\ executed = {} /\ answered = {}
  /\ told = {} /\ mishaps = 0

Mishap == mishaps < MaxMishaps /\ mishaps' = mishaps + 1

Go(q, where) == pc' = [pc EXCEPT ![q] = where]
-----------------------------------------------------------------------------
(* begin: the budgets are checked and the running row inserted in one      *)
(* transaction, under the advisory locks of the budget scopes.             *)

Scopes(q) == {UserOf[q], SourceOf[q], RunOf[q]}

Release(q) ==
  holder' = [k \in Keys |-> IF holder[k] = q THEN None ELSE holder[k]]

Open(q) ==
  /\ pc[q] = "new" /\ Go(q, "lock")
  /\ day' = [day EXCEPT ![q] = today]
  /\ UNCHANGED <<today, status, billed, nonce, marked, holder, executed,
                 answered, told, mishaps>>

\* Slip: the scopes are locked as they come.
AsTheyCome(q, k) == TRUE

\* "sorted: two begins never wait on each other in a cycle"
InOrder(q, k) == \A j \in Scopes(q) : Rank[j] < Rank[k] => holder[j] = q

Lock(q, k) ==
  /\ pc[q] = "lock" /\ k \in Scopes(q) /\ holder[k] = None /\ InOrder(q, k)
  /\ holder' = [holder EXCEPT ![k] = q]
  /\ UNCHANGED <<today, row, pc, executed, answered, told, mishaps>>

\* Refused rows are not executions and do not consume a budget.
Charged(p) == status[p] \notin {"none", "refused"}

OfRun(r) == {p \in Queries : RunOf[p] = r /\ Charged(p)}
Since(u, d) == {p \in Queries : UserOf[p] = u /\ Charged(p) /\ day[p] >= d}
Running(s) == {p \in Queries : SourceOf[p] = s /\ status[p] = "running"}

\* Slip: what billed nothing yet costs nothing.
SpentBilled(S) ==
  LET billedOf(p) == IF billed[p] = None THEN 0 ELSE billed[p]
  IN  MapThenFoldSet(+, 0, billedOf, LAMBDA T : CHOOSE p \in T : TRUE, S)

\* What a query costs: what it billed, else all that it reserved.
Cost(p) == IF billed[p] = None THEN Reserve[p] ELSE billed[p]
Spent(S) == MapThenFoldSet(+, 0, Cost, LAMBDA T : CHOOSE p \in T : TRUE, S)

\* _check_budgets
Fits(q) ==
  /\ Cardinality(OfRun(RunOf[q])) < MaxPerRun
  /\ Cardinality(Since(UserOf[q], day[q])) < MaxPerDay
  /\ Reserve[q] > 0 => Spent(Since(UserOf[q], day[q])) + Reserve[q] <= MaxBytes
  /\ Cardinality(Running(SourceOf[q])) < MaxConcurrent

\* Slip: the budgets are counted before the locks are held.
Unlocked(q) == TRUE

Locked(q) == \A k \in Scopes(q) : holder[k] = q

\* The budgets are counted.  Over budget, this transaction ends without a row.
Count(q) ==
  /\ pc[q] = "lock" /\ Locked(q)
  /\ \/ Fits(q) /\ Go(q, "insert") /\ UNCHANGED holder
     \/ ~Fits(q) /\ Go(q, "refuse") /\ Release(q)
  /\ UNCHANGED <<today, row, executed, answered, told, mishaps>>

\* Slip: only a running query keeps its consent.
HeldByRunning(c) == \E p \in Queries : nonce[p] = c /\ status[p] = "running"

\* uq_gqe_consent_nonce
Used(c) == c # None /\ \E p \in Queries : nonce[p] = c

\* The running row and its commit: the caller goes on, or it never hears of the
\* commit and refuses audit_unavailable.
Insert(q) ==
  /\ pc[q] = "insert"
  /\ \E c \in ConsentsOf[q] : ~Used(c) /\ nonce' = [nonce EXCEPT ![q] = c]
  /\ status' = [status EXCEPT ![q] = "running"]
  /\ \/ Go(q, "probe") /\ UNCHANGED mishaps
     \/ Go(q, "done") /\ Mishap
  /\ Release(q)
  /\ UNCHANGED <<today, day, billed, marked, executed, answered, told>>

\* The consent was used, or the database fails: no row, and nothing runs.
BeginFails(q) ==
  /\ pc[q] \in {"lock", "insert", "refuse"} /\ Go(q, "done") /\ Release(q)
  /\ \/ /\ pc[q] = "insert" /\ \E c \in ConsentsOf[q] : Used(c)
        /\ UNCHANGED mishaps
     \/ Mishap
  /\ UNCHANGED <<today, row, executed, answered, told>>

\* The refused row, in a transaction of its own, consumes no consent.
RecordRefusal(q) ==
  /\ pc[q] = "refuse" /\ Go(q, "done")
  /\ status' = [status EXCEPT ![q] = "refused"]
  /\ day' = [day EXCEPT ![q] = today]
  /\ UNCHANGED <<today, billed, nonce, marked, holder, executed,
                 answered, told, mishaps>>
-----------------------------------------------------------------------------
(* execute: the statement, and the end of the row.                         *)

\* The engine reports the backend that runs the statement ...
Start(q) ==
  /\ pc[q] = "probe" /\ Go(q, "execute")
  /\ executed' = executed \cup {q}
  /\ UNCHANGED <<today, row, holder, answered, told, mishaps>>

\* ... unless a relationship key does not hold, or cannot be probed.
NotStarted(q) ==
  /\ pc[q] = "probe" /\ Go(q, "finish")
  /\ UNCHANGED <<today, row, holder, executed, answered, told, mishaps>>

\* The statement ends, or stops because its query was cancelled.  A watcher
\* that is about to cancel it will come too late.
Return(q) ==
  /\ \/ pc[q] = "execute" /\ Go(q, "finish")
     \/ pc[q] = "stopping" /\ Go(q, "stopped")
  /\ told' = told \ {q}
  /\ UNCHANGED <<today, row, holder, executed, answered, mishaps>>

\* How a read can end.  A cancelled one is cancelled, however its statement
\* ended; a result with a column that was not asked for is refused.
Ends(q) ==
  IF pc[q] = "stopped" THEN {"cancelled"}
  ELSE {"refused", "error"} \cup (IF q \in executed THEN {"ok"} ELSE {})

\* The bytes that the job has reported by the time it has ended, if it did.
Bills(q) ==
  IF Reserve[q] = 0 \/ q \notin executed THEN {None} ELSE 0..Reserve[q] \cup {None}

\* Slip: the row is ended whatever it says.
EndedAnyhow(q) == TRUE

\* The first terminal write wins.
Unended(q) == status[q] = "running"

\* finish; then the caller has its rows, or what went wrong.
Finish(q) ==
  /\ pc[q] \in {"finish", "stopped"} /\ Unended(q) /\ Go(q, "done")
  /\ \E o \in Ends(q) :
       /\ status' = [status EXCEPT ![q] = o]
       /\ \E b \in Bills(q) : billed' = [billed EXCEPT ![q] = b]
       /\ answered' = answered \cup (IF o = "ok" THEN {q} ELSE {})
  /\ UNCHANGED <<today, day, nonce, marked, holder, executed, told, mishaps>>

\* The write is refused as a conflict, or fails: no answer.
FinishFails(q) ==
  /\ pc[q] \in {"finish", "stopped"} /\ Go(q, "done")
  /\ \/ status[q] # "running" /\ UNCHANGED mishaps
     \/ Mishap
  /\ UNCHANGED <<today, row, holder, executed, answered, told>>
-----------------------------------------------------------------------------
(* Cancellation, recovery, crashes.                                        *)

\* request_cancel_run, by the user whose run it is.
CancelRun(u, r) ==
  /\ marked' = marked \cup {q \in Queries : /\ RunOf[q] = r /\ UserOf[q] = u
                                            /\ status[q] = "running"}
  /\ marked' # marked
  /\ UNCHANGED <<today, status, day, billed, nonce, holder, pc,
                 executed, answered, told, mishaps>>

RunningIds(w) == {q \in Queries : /\ pc[q] = "execute" /\ WorkerOf[q] = w
                                  /\ status[q] = "running"}

\* Slip: all that were renewed are taken for marked.
HeartbeatAll(w) == RunningIds(w)

\* The leases of what runs here are renewed, which tells what is marked.
Heartbeat(w) == RunningIds(w) \cap marked

\* A tick of the CancelWatcher of w reads them ...
Tick(w) ==
  /\ \A q \in told : WorkerOf[q] # w
  /\ Heartbeat(w) # {} /\ told' = told \cup Heartbeat(w)
  /\ UNCHANGED <<today, row, holder, pc, executed, answered, mishaps>>

\* ... and then cancels one after the other.  One whose statement has ended by
\* then does not notice: its answer stands.
CancelTold(q) ==
  /\ q \in told /\ told' = told \ {q} /\ Go(q, "stopping")
  /\ UNCHANGED <<today, row, holder, executed, answered, mishaps>>

\* recover_stale_running, by the watcher of any worker: rows that were not
\* renewed in time, if only because a probe or the database was slow.
Recover(q) ==
  /\ status[q] = "running"
  /\ status' = [status EXCEPT ![q] = "abandoned"]
  /\ UNCHANGED <<today, day, billed, nonce, marked, holder, pc,
                 executed, answered, told, mishaps>>

\* A worker dies, and with it its requests, its sessions and its registry.
Crash(w) ==
  LET its == {q \in Queries : WorkerOf[q] = w /\ pc[q] \notin {"new", "done"}}
  IN  /\ its # {} /\ Mishap
      /\ pc' = [q \in Queries |-> IF q \in its THEN "done" ELSE pc[q]]
      /\ holder' = [k \in Keys |-> IF holder[k] \in its THEN None ELSE holder[k]]
      /\ told' = {q \in told : WorkerOf[q] # w}
      /\ UNCHANGED <<today, row, executed, answered>>

NewDay ==
  /\ today < MaxDays /\ today' = today + 1 /\ Mishap
  /\ UNCHANGED <<row, holder, pc, executed, answered, told>>

Step(q) ==
  \/ \E k \in Keys : Lock(q, k)
  \/ Count(q) \/ Insert(q) \/ BeginFails(q) \/ RecordRefusal(q)
  \/ Start(q) \/ NotStarted(q) \/ Return(q) \/ Finish(q) \/ FinishFails(q)

Next ==
  \/ \E q \in Queries : Open(q) \/ Step(q) \/ CancelTold(q) \/ Recover(q)
  \/ \E u \in Users, r \in Runs : CancelRun(u, r)
  \/ \E w \in Workers : Tick(w) \/ Crash(w)
  \/ NewDay

Spec == Init /\ [][Next]_vars

(* A request that has begun goes on while its process lives, statements    *)
(* have timeouts, and every worker's watcher recovers lost rows.           *)
FairSpec ==
  /\ Spec
  /\ \A q \in Queries : WF_vars(Step(q)) /\ WF_vars(pc[q] = "done" /\ Recover(q))
-----------------------------------------------------------------------------
(* However many requests begin at once, and over midnight: no run, no day  *)
(* of a user and no source ever goes over its budget (PostgresLedger:      *)
(* "Budgets are reserved INSIDE begin, atomically").                       *)
RunBudget == \A r \in Runs : Cardinality(OfRun(r)) <= MaxPerRun

DayOf(u, d) == {p \in Since(u, d) : day[p] = d}

DayBudget ==
  \A u \in Users, d \in 1..MaxDays : Cardinality(DayOf(u, d)) <= MaxPerDay

SourceBudget == \A s \in Sources : Cardinality(Running(s)) <= MaxConcurrent

Budgets == RunBudget /\ DayBudget /\ SourceBudget

(* The bytes that the queries of one user and day billed, or may still     *)
(* bill, stay within the daily budget.                                     *)
BytesBudget ==
  \A u \in Users, d \in 1..MaxDays : Spent(DayOf(u, d)) <= MaxBytes

(* A consent to drop a filter lets one query run (uq_gqe_consent_nonce: "a *)
(* consent runs at most once"), through refusals, crashes and recovery.    *)
ConsentOnce ==
  \A p, q \in executed : nonce[p] = nonce[q] /\ p # q => nonce[p] = None

(* Only what its own user asked to cancel ends as cancelled.               *)
CancelledWasAsked == \A q \in Queries : status[q] = "cancelled" => q \in marked

(* Every query that begins comes to an end and leaves no running row       *)
(* behind: no two begins wait for each other's locks, and the row of a     *)
(* worker that died is recovered.                                          *)
EveryQueryEnds ==
  \A q \in Queries :
    pc[q] = "lock" ~> (pc[q] = "done" /\ status[q] # "running")

(* The ledger keeps the promise stated in AuditLedger.                     *)
Promise == INSTANCE AuditLedger
KeepsPromise == Promise!Spec

(* "Refused rows are not executions and do not consume a budget"           *)
(* (_check_budgets): a row that ends as refused never reached the          *)
(* warehouse.  The code does not keep this (see README).                   *)
RefusedNeverRan == \A q \in executed : status[q] # "refused"
=============================================================================
