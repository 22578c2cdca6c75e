----------------------------- MODULE AuditLedger -----------------------------
(***************************************************************************)
(* What the ledger of governed reads promises (governed_query/audit.py,    *)
(* models/governed_query_execution.py): a query reaches the warehouse at   *)
(* most once and only after its row was written, a row that has ended      *)
(* never changes, and an answer is given only by the write that ends the   *)
(* query's row as ok.                                                      *)
(***************************************************************************)
CONSTANT Queries

VARIABLES
  status,    \* of the row of each query; "none" while it has no row
  executed,  \* the queries whose statement was sent to the warehouse
  answered   \* the queries whose rows were given to the caller

vars == <<status, executed, answered>>

Terminal == {"ok", "refused", "error", "cancelled", "abandoned"}

Init ==
  /\ status = [q \in Queries |-> "none"]
  /\ executed = {} /\ answered = {}

\* The row of a query is written, as running or as refused.
Record(q) ==
  /\ status[q] = "none"
  /\ \E s \in {"running", "refused"} : status' = [status EXCEPT ![q] = s]
  /\ UNCHANGED <<executed, answered>>

Execute(q) ==
  /\ status[q] \notin {"none", "refused"} /\ q \notin executed
  /\ executed' = executed \cup {q}
  /\ UNCHANGED <<status, answered>>

\* A running row ends; if it ends as ok, its query may be answered.
End(q) ==
  /\ status[q] = "running"
  /\ \E s \in Terminal :
       /\ status' = [status EXCEPT ![q] = s]
       /\ \/ UNCHANGED answered
          \/ s = "ok" /\ q \in executed /\ answered' = answered \cup {q}
  /\ UNCHANGED executed

Next == \E q \in Queries : Record(q) \/ Execute(q) \/ End(q)

Spec == Init /\ [][Next]_vars
=============================================================================
