------------------------------ MODULE AiGateway ------------------------------
(***************************************************************************)
(* The Model Gateway (ai_runtime/gateway.py) and its callers (llm_client,  *)
(* the Agent step): the worst case of a paid call is reserved against the  *)
(* ceilings of all that it bills, in one transaction; the call is made;    *)
(* the reservation is replaced by what the provider reports, freed when    *)
(* nothing was sent, and kept when nobody knows.                           *)
(***************************************************************************)
EXTENDS Integers, FiniteSets, Folds

CONSTANTS
  Calls,
  Accounts,     \* the scopes a call bills: global, a user, a link, a turn
  AccountsOf,
  Turns,        \* the accounts that are turns: they have no window
  Limit,        \* the USD ceiling of each account, of any 24 hours or of the turn
  MaxCalls,     \* AI_MAX_MODEL_CALLS_PER_TURN
  Worst,        \* worst_case_usd of each call
  MaxBill,      \* bounds what a provider bills for a call
  None,
  Span,         \* 24 hours, in ticks of the clock
  MaxTime,
  MaxMishaps    \* bounds crashes, failures of the ledger, and the clock's ticks

ASSUME GatewayAssumption ==
  /\ IsFiniteSet(Calls)
  /\ AccountsOf \in [Calls -> (SUBSET Accounts) \ {{}}] /\ Turns \subseteq Accounts
  /\ Limit \in [Accounts -> Nat] /\ MaxCalls \in Nat \ {0}
  /\ Worst \in [Calls -> Nat] /\ MaxBill \in Nat
  /\ None \notin Calls /\ None \notin 0..MaxBill
  /\ Span \in Nat /\ MaxTime \in Nat \ {0} /\ MaxMishaps \in Nat

VARIABLES
  clock,
  status,    \* of each call's row in the ledger; "none" while there is none
  made,      \* created_at
  actual,    \* actual_usd, None while it is not known
  since,     \* where the 24 hours of an authorization begin
  holder,    \* who holds the advisory locks
  left,      \* the ceilings that a call under authorization has still to be held to
  pc,
  billed,    \* what the provider will charge for the call
  reported,  \* the usage it reported for it
  mishaps

ledger == <<status, made, actual>>
vars == <<clock, ledger, since, holder, left, pc, billed, reported, mishaps>>

Ceilings == {"usd", "calls"}

TypeOK ==
  /\ clock \in 1..MaxTime
  /\ status \in [Calls -> {"none", "reserved", "settled", "unknown", "released"}]
  /\ made \in [Calls -> 0..MaxTime]
  /\ actual \in [Calls -> Nat \cup {None}]
  /\ since \in [Calls -> Int]
  /\ holder \in Calls \cup {None}
  /\ left \in [Calls -> SUBSET (Accounts \X Ceilings)]
  /\ \A c \in Calls : left[c] = {} \/ pc[c] = "check"
  /\ pc \in [Calls -> {"new", "lock", "check", "insert", "send", "sent", "unsent",
                       "done", "refused", "crashed"}]
  /\ billed \in [Calls -> Nat] /\ reported \in [Calls -> Nat \cup {None}]
  /\ mishaps \in 0..MaxMishaps

Init ==
  /\ clock = 1
  /\ status = [c \in Calls |-> "none"] /\ made = [c \in Calls |-> 0]
  /\ actual = [c \in Calls |-> None] /\ reported = actual
  /\ since = made /\ billed = made /\ holder = None
  /\ left = [c \in Calls |-> {}]
  /\ pc = [c \in Calls |-> "new"]
  /\ mishaps = 0

Go(c, where) == pc' = [pc EXCEPT ![c] = where]
Mishap == mishaps < MaxMishaps /\ mishaps' = mishaps + 1

\* The transaction ends.
Release(c) ==
  /\ holder' = IF holder = c THEN None ELSE holder
  /\ left' = [left EXCEPT ![c] = {}]
-----------------------------------------------------------------------------
(* authorize                                                               *)

\* The window is read before the locks are. A prompt that is too long is
\* refused here.
Open(c) ==
  /\ pc[c] = "new" /\ since' = [since EXCEPT ![c] = clock - Span]
  /\ \E to \in {"lock", "refused"} : Go(c, to)
  /\ UNCHANGED <<clock, ledger, holder, left, billed, reported, mishaps>>

\* Slip: no call waits for another.
Unlocked(c) == TRUE

\* Every call locks "ai:global" first: the sorted keys of the other scopes are
\* locked under it, so that no call ever waits for those.
Free(c) == holder = None

\* Each scope's money is a check of its own, and so is a turn's number of calls.
Checks(c) ==
  (AccountsOf[c] \X {"usd"}) \cup ((AccountsOf[c] \cap Turns) \X {"calls"})

Lock(c) ==
  /\ pc[c] = "lock" /\ Free(c) /\ holder' = c /\ Go(c, "check")
  /\ left' = [left EXCEPT ![c] = Checks(c)]
  /\ UNCHANGED <<clock, ledger, since, billed, reported, mishaps>>

Counted(p) == status[p] \notin {"none", "released"}

Cost(p) == IF actual[p] = None THEN Worst[p] ELSE actual[p]

Rows(a) == {p \in Calls : a \in AccountsOf[p] /\ Counted(p)}
Window(c, a) == IF a \in Turns THEN Rows(a) ELSE {p \in Rows(a) : made[p] >= since[c]}

Sum(S, f(_)) == MapThenFoldSet(+, 0, f, LAMBDA T : CHOOSE p \in T : TRUE, S)
Used(c, a) == Sum(Window(c, a), Cost)

\* Slip: the call that reaches the limit is let through.
OneMoreCall(c, a, what) ==
  IF what = "usd" THEN Used(c, a) + Worst[c] <= Limit[a]
                  ELSE Cardinality(Rows(a)) <= MaxCalls

Fits(c, a, what) ==
  IF what = "usd" THEN Used(c, a) + Worst[c] <= Limit[a]
                  ELSE Cardinality(Rows(a)) < MaxCalls

Refuse(c) ==
  /\ Go(c, "refused") /\ Release(c)
  /\ UNCHANGED <<clock, ledger, since, billed, reported>>

\* One statement for each check, while other calls are settled. The code has
\* an order for them; here it is any.
Check(c) ==
  /\ pc[c] = "check"
  /\ \E a \in Accounts, what \in Ceilings :
       /\ <<a, what>> \in left[c]
       /\ IF Fits(c, a, what)
          THEN /\ left' = [left EXCEPT ![c] = @ \ {<<a, what>>}]
               /\ Go(c, IF left'[c] = {} THEN "insert" ELSE "check")
               /\ UNCHANGED <<clock, ledger, since, holder, billed, reported>>
          ELSE Refuse(c)
  /\ UNCHANGED mishaps

\* A ledger that cannot be read or written refuses the call.
LedgerFails(c) == pc[c] \in {"lock", "check", "insert"} /\ Mishap /\ Refuse(c)

Insert(c) ==
  /\ pc[c] = "insert" /\ Go(c, "send") /\ Release(c)
  /\ status' = [status EXCEPT ![c] = "reserved"]
  /\ made' = [made EXCEPT ![c] = clock]
  /\ UNCHANGED <<clock, actual, since, billed, reported, mishaps>>
-----------------------------------------------------------------------------
(* The call, and what settles it.                                          *)

\* The connection was refused: nothing was sent, nothing is billed.
NotSent(c) ==
  /\ pc[c] = "send" /\ Go(c, "unsent")
  /\ UNCHANGED <<clock, ledger, since, holder, left, billed, reported, mishaps>>

\* The provider answers, and what it reports, which is taken to be what it
\* bills, may exceed the worst case; or the answer is lost or reports no tokens,
\* and nobody learns what was billed.
Send(c) ==
  /\ pc[c] = "send" /\ Go(c, "sent")
  /\ \E usd \in 0..MaxBill :
       /\ billed' = [billed EXCEPT ![c] = usd]
       /\ \/ usd > 0 /\ reported' = [reported EXCEPT ![c] = usd]
          \/ usd <= Worst[c] /\ UNCHANGED reported
  /\ UNCHANGED <<clock, ledger, since, holder, left, mishaps>>

\* Slip: a call without an answer costs nothing.
CountedFree(c) == IF reported[c] = None THEN 0 ELSE reported[c]

\* The reported usage, else the worst case.
Spent(c) == IF reported[c] = None THEN Worst[c] ELSE reported[c]

Close(c, s, usd) ==
  /\ Go(c, "done")
  /\ IF status[c] = "reserved"
     THEN status' = [status EXCEPT ![c] = s] /\ actual' = [actual EXCEPT ![c] = usd]
     ELSE UNCHANGED <<status, actual>>
  /\ UNCHANGED <<clock, made, since, holder, left, billed, reported, mishaps>>

Settle(c) ==
  /\ pc[c] = "sent"
  /\ Close(c, IF reported[c] = None THEN "unknown" ELSE "settled", Spent(c))

ReleaseCall(c) == pc[c] = "unsent" /\ Close(c, "released", 0)

\* "settle failed; the worst case stays reserved"
SettleFails(c) ==
  /\ pc[c] \in {"sent", "unsent"} /\ Mishap /\ Go(c, "done")
  /\ UNCHANGED <<clock, ledger, since, holder, left, billed, reported>>

\* The worker dies, with its transaction or with the call under way.
Crash(c) ==
  /\ pc[c] \in {"lock", "check", "insert", "send", "sent", "unsent"} /\ Mishap
  /\ Go(c, "crashed") /\ Release(c)
  /\ UNCHANGED <<clock, ledger, since, billed, reported>>

Tick ==
  /\ clock < MaxTime /\ Mishap /\ clock' = clock + 1
  /\ UNCHANGED <<ledger, since, holder, left, pc, billed, reported>>

Step(c) ==
  \/ Lock(c) \/ Check(c) \/ Insert(c)
  \/ NotSent(c) \/ Send(c) \/ Settle(c) \/ ReleaseCall(c)

Next ==
  \/ \E c \in Calls : Open(c) \/ Step(c) \/ LedgerFails(c) \/ SettleFails(c) \/ Crash(c)
  \/ Tick

Spec == Init /\ [][Next]_vars
-----------------------------------------------------------------------------
(* Properties *)

\* What a call was billed, as far as its worst case had foreseen it.
Foreseen(c) == IF billed[c] < Worst[c] THEN billed[c] ELSE Worst[c]

\* No ceiling is exceeded by what the providers really bill, but for what a
\* call costs beyond its worst case: not by calls that are authorized at once,
\* not by calls that fail, lose their answer, or die with their worker; and not
\* in any 24 hours, wherever they begin.
CeilingsHold ==
  /\ \A a \in Accounts \cap Turns :
       Sum({c \in Calls : a \in AccountsOf[c]}, Foreseen) <= Limit[a]
  /\ \A a \in Accounts \ Turns : \A t \in 1..MaxTime :
       Sum({c \in Calls : a \in AccountsOf[c] /\ made[c] \in t..t + Span}, Foreseen) <= Limit[a]

\* A turn never makes more model calls than it may, the ones that never left
\* aside, although its calls are made by several threads.
TurnCalls == \A a \in Turns : Cardinality(Rows(a)) <= MaxCalls

\* A call that may have been billed is never counted as free: what the ledger
\* charges for it covers what the provider billed, up to the worst case.
NeverFree == \A c \in Calls :
  pc[c] \in {"sent", "done", "crashed"} /\ billed[c] > 0 =>
    Counted(c) /\ Cost(c) >= Foreseen(c)
=============================================================================
