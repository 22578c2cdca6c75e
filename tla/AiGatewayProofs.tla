--------------------------- MODULE AiGatewayProofs ---------------------------
(***************************************************************************)
(* AiGateway for any calls, accounts, limits, bills and mishaps: types, the *)
(* calls of a turn, that no billed call is counted as free, and that no     *)
(* ceiling is ever exceeded, for which sums over finite sets come first.    *)
(***************************************************************************)
EXTENDS AiGateway, FiniteSetTheorems, TLAPS

\* Between its count and its row a call holds the lock of all scopes.
Locked == \A c \in Calls : pc[c] \in {"check", "insert"} => holder = c

\* It has passed the check of a ceiling, and holds the lock since.
Passed(c, a, what) == pc[c] \in {"check", "insert"} /\ <<a, what>> \notin left[c]

\* What it counted is still true when it writes its row.
Room == \A c \in Calls : \A a \in AccountsOf[c] \cap Turns :
  Passed(c, a, "calls") => Cardinality(Rows(a)) < MaxCalls

CountInv == TypeOK /\ Locked /\ Room /\ TurnCalls

\* Where a call is, and what its row and its bill say.
Place(c) ==
  /\ pc[c] \in {"new", "lock", "check", "insert"} => status[c] = "none" /\ actual[c] = None
  /\ pc[c] \in {"send", "sent", "unsent"} => status[c] = "reserved" /\ actual[c] = None
  /\ pc[c] \notin {"sent", "done", "crashed"} => billed[c] = 0 /\ reported[c] = None
  /\ reported[c] \in {None, billed[c]}
  /\ reported[c] = None => billed[c] <= Worst[c]

BillInv == TypeOK /\ (\A c \in Calls : Place(c)) /\ NeverFree
-----------------------------------------------------------------------------
LEMMA TypeInit == Init => TypeOK
BY GatewayAssumption DEF Init, TypeOK

LEMMA TypeNext == TypeOK /\ [Next]_vars => TypeOK'
<1> SUFFICES ASSUME TypeOK, [Next]_vars PROVE TypeOK'
  OBVIOUS
<1> USE GatewayAssumption DEF TypeOK, Go, Mishap, Release, ledger
<1>1. ASSUME NEW c \in Calls, Open(c) PROVE TypeOK'
  BY <1>1 DEF Open
<1>2. ASSUME NEW c \in Calls, Lock(c) PROVE TypeOK'
  BY <1>2 DEF Lock, Checks, Ceilings
<1>3. ASSUME NEW c \in Calls, Check(c) PROVE TypeOK'
  BY <1>3 DEF Check, Refuse
<1>4. ASSUME NEW c \in Calls, LedgerFails(c) PROVE TypeOK'
  BY <1>4 DEF LedgerFails, Refuse
<1>5. ASSUME NEW c \in Calls, Insert(c) PROVE TypeOK'
  BY <1>5 DEF Insert
<1>6. ASSUME NEW c \in Calls, NotSent(c) \/ Send(c) PROVE TypeOK'
  BY <1>6 DEF NotSent, Send
<1>7. ASSUME NEW c \in Calls, Settle(c) \/ ReleaseCall(c) PROVE TypeOK'
  <2>1. Spent(c) \in Nat
    BY DEF Spent
  <2>2. \E s \in {"settled", "unknown", "released"}, usd \in Nat : Close(c, s, usd)
    BY <1>7, <2>1 DEF Settle, ReleaseCall
  <2>3. QED
    <3>1. PICK s \in {"settled", "unknown", "released"}, usd \in Nat : Close(c, s, usd)
      BY <2>2
    <3>2. /\ status' \in [Calls -> {"none", "reserved", "settled", "unknown", "released"}]
          /\ actual' \in [Calls -> Nat \cup {None}]
      BY <3>1 DEF Close
    <3>3. pc[c] # "check"
      <4>1. CASE Settle(c)
        BY <4>1 DEF Settle
      <4>2. CASE ReleaseCall(c)
        BY <4>2 DEF ReleaseCall
      <4>3. QED
        BY <1>7, <4>1, <4>2
    <3>4. \A d \in Calls : left'[d] = {} \/ pc'[d] = "check"
      BY <3>1, <3>3 DEF Close
    <3>5. QED
      BY <3>1, <3>2, <3>4 DEF Close
<1>8. ASSUME NEW c \in Calls, SettleFails(c) \/ Crash(c) PROVE TypeOK'
  BY <1>8 DEF SettleFails, Crash
<1>9. CASE Tick
  BY <1>9 DEF Tick
<1>10. CASE UNCHANGED vars
  BY <1>10 DEF vars
<1>11. QED
  BY <1>1, <1>2, <1>4, <1>5, <1>6, <1>7, <1>8, <1>9, <1>10, <1>3 DEF Next, Step

(* The ledger, the calls and what they are billed stay what they are.       *)
THEOREM TypeCorrect == Spec => []TypeOK
BY TypeInit, TypeNext, PTL DEF Spec
-----------------------------------------------------------------------------
\* A larger set of calls has no smaller number.
LEMMA Counts ==
  ASSUME NEW T \in SUBSET Calls, NEW S \in SUBSET T
  PROVE  Cardinality(S) \in Nat /\ Cardinality(T) \in Nat /\ Cardinality(S) <= Cardinality(T)
<1>1. IsFiniteSet(T) /\ IsFiniteSet(S)
  BY FS_Subset, GatewayAssumption
<1>2. QED
  BY <1>1, FS_Subset, FS_CardinalityType

LEMMA CountsOneMore ==
  ASSUME NEW T \in SUBSET Calls, NEW c \in Calls, NEW S \in SUBSET (T \cup {c})
  PROVE  Cardinality(S) \in Nat /\ Cardinality(T) \in Nat /\ Cardinality(S) <= Cardinality(T) + 1
<1>1. IsFiniteSet(T)
  BY FS_Subset, GatewayAssumption
<1>2. Cardinality(T \cup {c}) = IF c \in T THEN Cardinality(T) ELSE Cardinality(T) + 1
  BY <1>1, FS_AddElement
<1>3. Cardinality(S) <= Cardinality(T \cup {c}) /\ Cardinality(S) \in Nat
  BY Counts
<1>4. QED
  BY <1>1, <1>2, <1>3, FS_CardinalityType

\* Only the insertion of a row makes a row count, and it is the row of a call
\* that holds the lock.
LEMMA OnlyInsertCounts ==
  ASSUME TypeOK, [Next]_vars, ~ \E c \in Calls : Insert(c)
  PROVE  \A a : Rows(a)' \subseteq Rows(a)
<1>1. \A p \in Calls : Counted(p)' => Counted(p)
  <2> USE DEF Counted, TypeOK
  <2>1. CASE UNCHANGED status
    BY <2>1
  <2>2. ASSUME NEW c \in Calls, Settle(c) \/ ReleaseCall(c) PROVE <1>1
    <3>1. PICK s \in {"settled", "unknown", "released"} : \E usd : Close(c, s, usd)
      BY <2>2 DEF Settle, ReleaseCall
    <3>2. CASE status[c] = "reserved"
      BY <3>1, <3>2 DEF Close
    <3>3. CASE status[c] # "reserved"
      BY <3>1, <3>3 DEF Close
    <3>4. QED
      BY <3>2, <3>3
  <2>3. QED
    BY <2>1, <2>2 DEF Next, Step, vars, ledger, Open, Lock, Check, Refuse, LedgerFails, NotSent,
       Send, SettleFails, Crash, Tick
<1>2. QED
  BY <1>1 DEF Rows

LEMMA LockedStep == TypeOK /\ Locked /\ [Next]_vars => Locked'
<1> SUFFICES ASSUME TypeOK, Locked, [Next]_vars PROVE Locked'
  OBVIOUS
<1> USE GatewayAssumption DEF TypeOK, Locked, Go, Release
<1>1. ASSUME NEW c \in Calls, Open(c) \/ Lock(c) \/ LedgerFails(c) \/ Insert(c) PROVE Locked'
  BY <1>1 DEF Open, Lock, Free, LedgerFails, Refuse, Insert
<1>2. ASSUME NEW c \in Calls, Check(c) PROVE Locked'
  <2>1. /\ pc[c] = "check" /\ \A d \in Calls \ {c} : pc'[d] = pc[d]
        /\ holder' = holder \/ (holder' = None /\ pc'[c] = "refused")
    BY <1>2 DEF Check, Refuse
  <2>2. QED
    BY <2>1
<1>3. ASSUME NEW c \in Calls, NotSent(c) \/ Send(c) \/ Settle(c) \/ ReleaseCall(c) \/ SettleFails(c)
      PROVE Locked'
  BY <1>3 DEF NotSent, Send, Settle, ReleaseCall, Close, SettleFails
<1>4. ASSUME NEW c \in Calls, Crash(c) PROVE Locked'
  BY <1>4 DEF Crash
<1>5. CASE Tick \/ UNCHANGED vars
  BY <1>5 DEF Tick, vars
<1>6. QED
  BY <1>1, <1>3, <1>4, <1>5, <1>2 DEF Next, Step

\* A ceiling is passed by the check of it, under the lock.
LEMMA NewlyPassed ==
  ASSUME TypeOK, [Next]_vars, NEW c \in Calls, NEW a, NEW what, <<a, what>> \in Checks(c),
         Passed(c, a, what)', ~Passed(c, a, what)
  PROVE  Check(c) /\ Fits(c, a, what)
<1> USE GatewayAssumption DEF TypeOK, Passed, Go, Release, ledger
<1>1. ASSUME NEW d \in Calls, Lock(d) PROVE FALSE
  <2>1. left'[c] = IF c = d THEN Checks(c) ELSE left[c]
    BY <1>1 DEF Lock
  <2>2. c # d => pc'[c] = pc[c]
    BY <1>1 DEF Lock
  <2>3. QED
    BY <2>1, <2>2
<1>2. ASSUME NEW d \in Calls, Check(d) PROVE c = d /\ Fits(c, a, what)
  BY <1>2 DEF Check, Refuse
<1>3. ASSUME NEW d \in Calls, Open(d) \/ LedgerFails(d) \/ Insert(d) \/ NotSent(d) \/ Send(d)
      PROVE  FALSE
  BY <1>3 DEF Open, LedgerFails, Refuse, Insert, NotSent, Send
<1>4. ASSUME NEW d \in Calls, Settle(d) \/ ReleaseCall(d) \/ SettleFails(d) \/ Crash(d)
      PROVE  FALSE
  BY <1>4 DEF Settle, ReleaseCall, Close, SettleFails, Crash
<1>5. CASE Tick \/ UNCHANGED vars
  BY <1>5 DEF Tick, vars
<1>6. QED
  BY <1>1, <1>2, <1>3, <1>4, <1>5 DEF Next, Step

LEMMA CountStep == CountInv /\ [Next]_vars => CountInv'
<1> SUFFICES ASSUME CountInv, [Next]_vars PROVE CountInv'
  OBVIOUS
<1>1. TypeOK' /\ Locked'
  BY TypeNext, LockedStep DEF CountInv
<1>2. \A a : Rows(a) \in SUBSET Calls /\ Rows(a)' \in SUBSET Calls
  BY DEF Rows
<1>3. CASE ~ \E c \in Calls : Insert(c)
  <2>1. \A a : /\ Cardinality(Rows(a)') \in Nat /\ Cardinality(Rows(a)) \in Nat
               /\ Cardinality(Rows(a)') <= Cardinality(Rows(a))
    BY <1>2, <1>3, OnlyInsertCounts, Counts DEF CountInv
  <2>2. TurnCalls'
    BY <2>1, GatewayAssumption DEF CountInv, TurnCalls
  <2>3. ASSUME NEW c \in Calls, NEW a \in AccountsOf[c] \cap Turns, Passed(c, a, "calls")'
        PROVE  Cardinality(Rows(a)') < MaxCalls
    <3>1. CASE Passed(c, a, "calls")
      BY <2>1, <3>1, GatewayAssumption DEF CountInv, Room
    <3>2. CASE ~Passed(c, a, "calls")
      <4>1. Fits(c, a, "calls")
        BY <2>3, <3>2, NewlyPassed, GatewayAssumption DEF CountInv, Checks, Ceilings
      <4>2. Cardinality(Rows(a)) < MaxCalls
        BY <4>1 DEF Fits
      <4>3. QED
        BY <2>1, <4>2, GatewayAssumption
    <3>3. QED
      BY <3>1, <3>2
  <2>4. QED
    BY <1>1, <2>2, <2>3 DEF CountInv, Room
<1>4. ASSUME NEW c \in Calls, Insert(c) PROVE CountInv'
  <2>1. \A p \in Calls \ {c} : Counted(p)' = Counted(p)
    BY <1>4 DEF Insert, Counted, CountInv, TypeOK
  <2>2. \A a : Rows(a)' \subseteq Rows(a) \cup {c}
    BY <2>1 DEF Rows
  <2>3. ASSUME NEW a \in Turns PROVE Cardinality(Rows(a)') <= MaxCalls
    <3>1. CASE a \in AccountsOf[c]
      <4>1. Cardinality(Rows(a)) < MaxCalls
        BY <1>4, <3>1 DEF Insert, CountInv, TypeOK, Room, Passed
      <4>2. /\ Cardinality(Rows(a)') \in Nat /\ Cardinality(Rows(a)) \in Nat
            /\ Cardinality(Rows(a)') <= Cardinality(Rows(a)) + 1
        BY <1>2, <2>2, CountsOneMore
      <4>3. QED
        BY <4>1, <4>2, GatewayAssumption
    <3>2. CASE a \notin AccountsOf[c]
      <4>1. Rows(a)' \subseteq Rows(a)
        BY <2>1, <3>2 DEF Rows
      <4>2. /\ Cardinality(Rows(a)') \in Nat /\ Cardinality(Rows(a)) \in Nat
            /\ Cardinality(Rows(a)') <= Cardinality(Rows(a))
        BY <1>2, <4>1, Counts
      <4>3. QED
        BY <4>2, GatewayAssumption DEF CountInv, TurnCalls
    <3>3. QED
      BY <3>1, <3>2
  <2>4. ASSUME NEW d \in Calls PROVE pc'[d] \notin {"check", "insert"}
    <3>1. holder = c /\ pc' = [pc EXCEPT ![c] = "send"]
      BY <1>4 DEF Insert, CountInv, Locked, Go
    <3>2. QED
      BY <3>1 DEF CountInv, Locked, TypeOK
  <2>5. QED
    BY <1>1, <2>3, <2>4 DEF CountInv, TurnCalls, Room, Passed
<1>5. QED
  BY <1>3, <1>4

LEMMA CountInit == Init => CountInv
<1> SUFFICES ASSUME Init PROVE CountInv
  OBVIOUS
<1>1. \A a : Rows(a) = {}
  BY DEF Init, Rows, Counted
<1>2. Cardinality({}) = 0
  BY FS_EmptySet
<1>3. ASSUME NEW a \in Turns PROVE Cardinality(Rows(a)) <= MaxCalls
  <2>1. Cardinality(Rows(a)) = 0
    BY <1>1, <1>2
  <2>2. MaxCalls \in Nat
    BY GatewayAssumption
  <2>3. QED
    BY <2>1, <2>2
<1>4. Locked /\ Room
  BY DEF Init, Locked, Room, Passed
<1>5. QED
  BY <1>3, <1>4, TypeInit DEF CountInv, TurnCalls

\* A turn never makes more model calls than it may, however many threads make
\* them: they count and write their rows under one lock.
THEOREM TurnCallsAlways == Spec => []TurnCalls
<1>1. CountInv => TurnCalls
  BY DEF CountInv
<1>2. QED
  BY CountInit, CountStep, <1>1, PTL DEF Spec
-----------------------------------------------------------------------------
LEMMA BillStep == BillInv /\ [Next]_vars => BillInv'
<1> SUFFICES ASSUME BillInv, [Next]_vars PROVE BillInv'
  OBVIOUS
<1>1. TypeOK'
  BY TypeNext DEF BillInv
<1>2. SUFFICES ASSUME NEW c \in Calls
               PROVE  /\ Place(c)'
                      /\ (pc[c] \in {"sent", "done", "crashed"} /\ billed[c] > 0 =>
                            Counted(c) /\ Cost(c) >= Foreseen(c))'
  BY <1>1 DEF BillInv, NeverFree
<1> DEFINE Charged == pc[c] \in {"sent", "done", "crashed"} /\ billed[c] > 0 =>
                        Counted(c) /\ Cost(c) >= Foreseen(c)
<1>3. TypeOK /\ Place(c) /\ Charged
  BY DEF BillInv, NeverFree
<1> USE GatewayAssumption DEF TypeOK, Place, Counted, Cost, Foreseen, Go
<1>4. CASE UNCHANGED <<status[c], actual[c], pc[c], billed[c], reported[c]>>
  BY <1>3, <1>4
<1>5. ASSUME NEW d \in Calls, Open(d) \/ Lock(d) \/ Check(d) \/ LedgerFails(d)
      PROVE  Place(c)' /\ Charged'
  BY <1>3, <1>5 DEF Open, Lock, Check, LedgerFails, Refuse, ledger
<1>6. ASSUME NEW d \in Calls, Insert(d) PROVE Place(c)' /\ Charged'
  BY <1>3, <1>6 DEF Insert
<1>7. ASSUME NEW d \in Calls, NotSent(d) PROVE Place(c)' /\ Charged'
  BY <1>3, <1>7 DEF NotSent, ledger
<1>8. ASSUME NEW d \in Calls, Send(d) PROVE Place(c)' /\ Charged'
  <2>1. CASE c = d
    <3>1. PICK usd \in 0..MaxBill :
            /\ billed' = [billed EXCEPT ![c] = usd]
            /\ \/ usd > 0 /\ reported' = [reported EXCEPT ![c] = usd]
               \/ usd <= Worst[c] /\ UNCHANGED reported
      BY <1>8, <2>1 DEF Send
    <3>2. /\ pc'[c] = "sent" /\ status'[c] = "reserved" /\ actual'[c] = None
          /\ billed[c] = 0 /\ Worst[c] \in Nat
      BY <1>3, <1>8, <2>1 DEF Send, ledger
    <3>3. billed'[c] = usd /\ usd \in Nat
      BY <1>3, <3>1
    <3>4. Charged'
      BY <3>2, <3>3
    <3>5. reported'[c] = usd \/ (usd <= Worst[c] /\ reported'[c] = reported[c])
      BY <1>3, <3>1
    <3>6. reported[c] = None
      BY <1>3, <1>8, <2>1 DEF Send
    <3>7. QED
      BY <3>2, <3>3, <3>4, <3>5, <3>6
  <2>2. CASE c # d
    BY <1>3, <1>8, <2>2 DEF Send, ledger
  <2>3. QED
    BY <2>1, <2>2
<1>9. ASSUME NEW d \in Calls, Settle(d) PROVE Place(c)' /\ Charged'
  BY <1>3, <1>9 DEF Settle, Close, Spent
<1>10. ASSUME NEW d \in Calls, ReleaseCall(d) PROVE Place(c)' /\ Charged'
  BY <1>3, <1>10 DEF ReleaseCall, Close
<1>11. ASSUME NEW d \in Calls, SettleFails(d) \/ Crash(d) PROVE Place(c)' /\ Charged'
  BY <1>3, <1>11 DEF SettleFails, Crash, ledger
<1>12. CASE Tick \/ UNCHANGED vars
  BY <1>3, <1>12 DEF Tick, vars, ledger
<1>13. QED
  BY <1>5, <1>6, <1>7, <1>8, <1>9, <1>10, <1>11, <1>12 DEF Next, Step

LEMMA BillInit == Init => BillInv
BY TypeInit, GatewayAssumption DEF Init, BillInv, Place, NeverFree

\* What may have been billed is charged: the row of a call that was sent is
\* never free, through lost answers, failed settlements and crashes.
THEOREM NeverFreeAlways == Spec => []NeverFree
<1>1. BillInv => NeverFree
  BY DEF BillInv
<1>2. QED
  BY BillInit, BillStep, <1>1, PTL DEF Spec
-----------------------------------------------------------------------------
(* Sums over finite sets: the fold that Sum is, as a function on the       *)
(* subsets of a finite set, and what is known of it for any numbers c.     *)

Pick(s) == CHOOSE p \in s : TRUE
Adds(g, c, S) ==
  g = [s \in SUBSET S |-> IF s = {} THEN 0 ELSE c[Pick(s)] + g[s \ {Pick(s)}]]
Total(c, X) == CHOOSE g : Adds(g, c, X)

\* A set of numbers that is not empty has a least one.
LEMMA Least ==
  ASSUME NEW T \in SUBSET Nat, T # {}
  PROVE  \E n \in T : \A m \in T : n <= m
<1>1. PICK n \in T : \A m \in T : ~(<<m, n>> \in OpToRel(<, Nat))
  BY NatLessThanWellFounded, WFMin
<1>2. ASSUME NEW m \in T, m < n PROVE FALSE
  <2>1. <<m, n>> \in Nat \X Nat /\ <<m, n>>[1] < <<m, n>>[2]
    BY <1>2
  <2>2. <<m, n>> \in OpToRel(<, Nat)
    BY <2>1 DEF OpToRel
  <2>3. QED
    BY <1>1, <2>2
<1>3. QED
  BY <1>2

\* Of finite sets with some property there is one, none of whose smaller ones
\* has it.
LEMMA Smallest ==
  ASSUME NEW X, IsFiniteSet(X), NEW B \in SUBSET SUBSET X, B # {}
  PROVE  \E S \in B : \A p \in S : S \ {p} \notin B
<1>1. PICK S \in B : \A T \in B : <<T, S>> \notin StrictSubsetOrdering(X)
  BY FS_FiniteSubsetsOfFinite, FS_StrictSubsetOrderingWellFounded, WFMin
<1>2. ASSUME NEW p \in S, S \ {p} \in B PROVE FALSE
  <2> DEFINE ss == <<S \ {p}, S>>
  <2>1. ss \in (SUBSET X) \X (SUBSET X) /\ ss[1] \subseteq ss[2] /\ ss[1] # ss[2]
    OBVIOUS
  <2>2. ss \in StrictSubsetOrdering(X)
    BY <2>1 DEF StrictSubsetOrdering
  <2>3. QED
    BY <1>1, <1>2, <2>2
<1>3. QED
  BY <1>2

\* There is one sum of the numbers c at most ...
LEMMA AddsOne ==
  ASSUME NEW X, IsFiniteSet(X), NEW c, NEW g, NEW h, Adds(g, c, X), Adds(h, c, X)
  PROVE  g = h
<1> DEFINE B == {s \in SUBSET X : g[s] # h[s]}
<1>1. B = {}
  <2> SUFFICES ASSUME B # {} PROVE FALSE
    OBVIOUS
  <2>1. PICK S \in B : \A p \in S : S \ {p} \notin B
    BY Smallest
  <2>2. S # {} => Pick(S) \in S
    BY DEF Pick
  <2>3. g[S] = (IF S = {} THEN 0 ELSE c[Pick(S)] + g[S \ {Pick(S)}])
    BY DEF Adds
  <2>4. h[S] = (IF S = {} THEN 0 ELSE c[Pick(S)] + h[S \ {Pick(S)}])
    BY DEF Adds
  <2>5. S # {} => g[S \ {Pick(S)}] = h[S \ {Pick(S)}]
    BY <2>1, <2>2
  <2>6. QED
    BY <2>3, <2>4, <2>5
<1>2. /\ g = [s \in SUBSET X |-> g[s]]
      /\ h = [s \in SUBSET X |-> h[s]]
  BY Zenon DEF Adds
<1>3. QED
  BY <1>1, <1>2

\* ... and there is one: the recursion defines it.
LEMMA AddsSome ==
  ASSUME NEW X, IsFiniteSet(X), NEW c \in [X -> Nat]
  PROVE  \E g \in [SUBSET X -> Nat] : Adds(g, c, X)
<1> DEFINE Unfold(g, s) == IF s = {} THEN 0 ELSE c[Pick(s)] + g[s \ {Pick(s)}]
           Good(g, n) == \A s \in SUBSET X : Cardinality(s) <= n => g[s] = Unfold(g, s)
           Bad == {n \in Nat : ~ \E g \in [SUBSET X -> Nat] : Good(g, n)}
<1>1. \A s \in SUBSET X : IsFiniteSet(s) /\ Cardinality(s) \in Nat
  BY FS_Subset, FS_CardinalityType
<1>2. \A s \in SUBSET X : s # {} => Pick(s) \in s /\ Cardinality(s \ {Pick(s)}) = Cardinality(s) - 1
  BY <1>1, FS_RemoveElement DEF Pick
<1>3. \A g \in [SUBSET X -> Nat], s \in SUBSET X : Unfold(g, s) \in Nat
  <2> SUFFICES ASSUME NEW g \in [SUBSET X -> Nat], NEW s \in SUBSET X, s # {}
               PROVE  c[Pick(s)] + g[s \ {Pick(s)}] \in Nat
    OBVIOUS
  <2>1. c[Pick(s)] \in Nat /\ g[s \ {Pick(s)}] \in Nat
    BY <1>2
  <2>2. QED
    BY <2>1
<1>4. Bad = {}
  <2> SUFFICES ASSUME Bad # {} PROVE FALSE
    OBVIOUS
  <2>1. PICK n \in Bad : \A m \in Bad : n <= m
    BY Least
  <2>2. CASE n = 0
    <3> DEFINE z == [s \in SUBSET X |-> 0]
    <3>1. z \in [SUBSET X -> Nat]
      OBVIOUS
    <3>2. \A s \in SUBSET X : Cardinality(s) <= 0 => s = {}
      BY <1>1, FS_EmptySet
    <3>3. Good(z, 0)
      BY <3>2
    <3>4. QED
      BY <2>1, <2>2, <3>1, <3>3
  <2>3. CASE n # 0
    <3>1. n - 1 \in Nat /\ n - 1 \notin Bad
      <4>1. n \in Nat
        OBVIOUS
      <4> HIDE DEF Bad
      <4>2. QED
        BY <2>1, <2>3, <4>1
    <3>2. PICK g \in [SUBSET X -> Nat] : Good(g, n - 1)
      BY <3>1
    <3> DEFINE h == [s \in SUBSET X |-> Unfold(g, s)]
    <3>3. h \in [SUBSET X -> Nat]
      BY <1>3
    <3>4. ASSUME NEW s \in SUBSET X, Cardinality(s) <= n PROVE h[s] = Unfold(h, s)
      <4>1. CASE s = {}
        BY <4>1
      <4>2. CASE s # {}
        <5>1. Cardinality(s \ {Pick(s)}) <= n - 1 /\ s \ {Pick(s)} \in SUBSET X
          BY <1>1, <1>2, <2>1, <3>4, <4>2
        <5>2. g[s \ {Pick(s)}] = Unfold(g, s \ {Pick(s)})
          BY <3>2, <5>1
        <5>3. h[s \ {Pick(s)}] = Unfold(g, s \ {Pick(s)})
          BY <5>1
        <5>4. QED
          BY <4>2, <5>2, <5>3
      <4>3. QED
        BY <4>1, <4>2
    <3>5. Good(h, n)
      BY <3>4
    <3> HIDE DEF h, Good
    <3>6. QED
      BY <2>1, <3>3, <3>5
  <2>4. QED
    BY <2>2, <2>3
<1>5. PICK g \in [SUBSET X -> Nat] : Good(g, Cardinality(X))
  BY <1>1, <1>4
<1>6. \A s \in SUBSET X : Cardinality(s) <= Cardinality(X)
  BY FS_Subset
<1>7. \A s \in SUBSET X : g[s] = Unfold(g, s)
  BY <1>5, <1>6
<1>8. Adds(g, c, X)
  BY <1>7 DEF Adds
<1>9. QED
  BY <1>8

\* What the sum over the subsets of X is.
LEMMA TotalIs ==
  ASSUME NEW X, IsFiniteSet(X), NEW c \in [X -> Nat]
  PROVE  /\ Total(c, X) \in [SUBSET X -> Nat]
         /\ Total(c, X)[{}] = 0
         /\ \A S \in SUBSET X : S # {} =>
              /\ Pick(S) \in S
              /\ Total(c, X)[S] = c[Pick(S)] + Total(c, X)[S \ {Pick(S)}]
<1>1. PICK g \in [SUBSET X -> Nat] : Adds(g, c, X)
  BY AddsSome
<1>2. Adds(Total(c, X), c, X)
  BY <1>1 DEF Total
<1>3. Total(c, X) = g
  BY <1>1, <1>2, AddsOne
<1>4. \A S : S # {} => Pick(S) \in S
  BY DEF Pick
<1>5. \A S \in SUBSET X :
        Total(c, X)[S] = IF S = {} THEN 0 ELSE c[Pick(S)] + Total(c, X)[S \ {Pick(S)}]
  BY <1>2 DEF Adds
<1>6. QED
  BY <1>1, <1>3, <1>4, <1>5

\* In whatever order it is taken, an element adds its own.
LEMMA TotalAdd ==
  ASSUME NEW X, IsFiniteSet(X), NEW c \in [X -> Nat], NEW S \in SUBSET X, NEW x \in X, x \notin S
  PROVE  Total(c, X)[S \cup {x}] = Total(c, X)[S] + c[x]
<1> DEFINE F == Total(c, X)
           B == {T \in SUBSET X : \E y \in X \ T : F[T \cup {y}] # F[T] + c[y]}
<1>1. F \in [SUBSET X -> Nat] /\ F[{}] = 0
  BY TotalIs
<1>2. \A T \in SUBSET X : T # {} => Pick(T) \in T /\ F[T] = c[Pick(T)] + F[T \ {Pick(T)}]
  BY TotalIs
<1> HIDE DEF F
<1>3. B = {}
  <2> SUFFICES ASSUME B # {} PROVE FALSE
    OBVIOUS
  <2>1. PICK T \in B : \A p \in T : T \ {p} \notin B
    BY Smallest
  <2>2. PICK y \in X \ T : F[T \cup {y}] # F[T] + c[y]
    BY <2>1
  <2> DEFINE U == T \cup {y}
             p == Pick(U)
  <2>3. U \in SUBSET X /\ p \in U /\ F[U] = c[p] + F[U \ {p}]
    BY <1>2, <2>2
  <2>4. CASE p = y
    <3>1. U \ {p} = T
      BY <2>2, <2>4
    <3>2. F[T] \in Nat /\ c[y] \in Nat
      BY <1>1
    <3> HIDE DEF U, p
    <3>3. F[U] = c[y] + F[T]
      BY <2>3, <2>4, <3>1
    <3>4. F[U] = F[T] + c[y]
      BY <3>2, <3>3
    <3>5. QED
      BY <2>2, <3>4 DEF U
  <2>5. CASE p # y
    <3> DEFINE V == T \ {p}
    <3>1. p \in T /\ U \ {p} = V \cup {y} /\ V \cup {p} = T /\ V \in SUBSET X
      BY <2>2, <2>3, <2>5
    <3>2. V \notin B
      BY <2>1, <3>1
    <3>3. F[V \cup {y}] = F[V] + c[y] /\ F[V \cup {p}] = F[V] + c[p]
      BY <2>2, <3>1, <3>2
    <3>4. F[V] \in Nat /\ c[y] \in Nat /\ c[p] \in Nat
      BY <1>1, <3>1
    <3> HIDE DEF U, V, p, B
    <3>5. F[U] = c[p] + (F[V] + c[y]) /\ F[T] = F[V] + c[p]
      BY <2>3, <3>1, <3>3
    <3>6. F[U] = F[T] + c[y]
      BY <3>4, <3>5
    <3>7. QED
      BY <2>2, <3>6 DEF U
  <2>6. QED
    BY <2>4, <2>5
<1>4. QED
  BY <1>3 DEF F

\* A sum is at most another when what it adds, the other adds as well.
LEMMA TotalLeq ==
  ASSUME NEW X, IsFiniteSet(X), NEW c \in [X -> Nat], NEW d \in [X -> Nat],
         NEW S \in SUBSET X, NEW T \in SUBSET X,
         \A p \in S : c[p] = 0 \/ (p \in T /\ c[p] <= d[p])
  PROVE  Total(c, X)[S] <= Total(d, X)[T]
<1> DEFINE F == Total(c, X)
           G == Total(d, X)
           Under(U, V) == \A p \in U : c[p] = 0 \/ (p \in V /\ c[p] <= d[p])
           B == {U \in SUBSET X : \E V \in SUBSET X : Under(U, V) /\ ~(F[U] <= G[V])}
<1>1. F \in [SUBSET X -> Nat] /\ F[{}] = 0 /\ G \in [SUBSET X -> Nat]
  BY TotalIs
<1>2. \A U \in SUBSET X, p \in X : p \in U => /\ F[U] = F[U \ {p}] + c[p]
                                            /\ G[U] = G[U \ {p}] + d[p]
  <2> SUFFICES ASSUME NEW U \in SUBSET X, NEW p \in X, p \in U
               PROVE  F[U] = F[U \ {p}] + c[p] /\ G[U] = G[U \ {p}] + d[p]
    OBVIOUS
  <2>1. (U \ {p}) \cup {p} = U /\ U \ {p} \in SUBSET X /\ p \notin U \ {p}
    OBVIOUS
  <2>2. F[(U \ {p}) \cup {p}] = F[U \ {p}] + c[p]
    BY <2>1, TotalAdd
  <2>3. G[(U \ {p}) \cup {p}] = G[U \ {p}] + d[p]
    BY <2>1, TotalAdd
  <2>4. QED
    BY <2>1, <2>2, <2>3
<1> HIDE DEF F, G
<1>3. B = {}
  <2> SUFFICES ASSUME B # {} PROVE FALSE
    OBVIOUS
  <2>1. PICK U \in B : \A p \in U : U \ {p} \notin B
    BY Smallest
  <2>2. PICK V \in SUBSET X : Under(U, V) /\ ~(F[U] <= G[V])
    BY <2>1
  <2>3. F[U] \in Nat /\ G[V] \in Nat
    BY <1>1, <2>1
  <2>4. U # {}
    <3> SUFFICES ASSUME U = {} PROVE FALSE
      OBVIOUS
    <3>1. F[U] = 0
      BY <1>1
    <3> HIDE DEF B, Under
    <3>2. QED
      BY <2>2, <2>3, <3>1
  <2>5. PICK p \in X : p \in U
    BY <2>1, <2>4
  <2>6. U \ {p} \in SUBSET X /\ U \ {p} \notin B /\ F[U] = F[U \ {p}] + c[p]
    BY <1>2, <2>1, <2>5
  <2>7. F[U \ {p}] \in Nat /\ c[p] \in Nat /\ d[p] \in Nat
    BY <1>1, <2>6
  <2>8. CASE c[p] = 0
    <3>1. Under(U \ {p}, V)
      BY <2>2
    <3>2. F[U \ {p}] <= G[V]
      BY <2>6, <3>1
    <3>3. QED
      BY <2>2, <2>3, <2>6, <2>7, <2>8, <3>2
  <2>9. CASE c[p] # 0
    <3>1. p \in V /\ c[p] <= d[p]
      BY <2>2, <2>5, <2>9
    <3>2. Under(U \ {p}, V \ {p}) /\ V \ {p} \in SUBSET X
      BY <2>2
    <3>3. F[U \ {p}] <= G[V \ {p}]
      BY <2>6, <3>2
    <3>4. G[V] = G[V \ {p}] + d[p] /\ G[V \ {p}] \in Nat
      BY <1>1, <1>2, <3>1, <3>2
    <3>5. QED
      BY <2>2, <2>3, <2>6, <2>7, <3>1, <3>3, <3>4
  <2>10. QED
    BY <2>8, <2>9
<1>4. QED
  BY <1>3 DEF F, G

\* The sum over the subsets of a subset is the same sum.
LEMMA AddsSub ==
  ASSUME NEW X, IsFiniteSet(X), NEW c \in [X -> Nat], NEW S \in SUBSET X
  PROVE  /\ Adds([s \in SUBSET S |-> Total(c, X)[s]], c, S)
         /\ \A h : Adds(h, c, S) => h[S] = Total(c, X)[S]
<1> DEFINE F == Total(c, X)
<1>1. F[{}] = 0
  BY TotalIs
<1>2. \A s \in SUBSET X : s # {} => /\ Pick(s) \in s
                                      /\ F[s] = c[Pick(s)] + F[s \ {Pick(s)}]
  BY TotalIs
<1> HIDE DEF F
<1> DEFINE g == [s \in SUBSET S |-> F[s]]
<1>3. g = [s \in SUBSET S |-> IF s = {} THEN 0 ELSE c[Pick(s)] + g[s \ {Pick(s)}]]
  BY <1>1, <1>2
<1>4. Adds(g, c, S)
  BY <1>3 DEF Adds
<1>5. IsFiniteSet(S)
  BY FS_Subset
<1>6. ASSUME NEW h, Adds(h, c, S) PROVE h[S] = F[S]
  <2>1. h = g
    BY <1>4, <1>5, <1>6, AddsOne
  <2>2. QED
    BY <2>1
<1>7. QED
  BY <1>4, <1>6 DEF F
-----------------------------------------------------------------------------
\* What the ledger charges for a call, as far as its worst case had foreseen
\* it: this can only fall once the row is there.
Charge(c) ==
  IF Counted(c) THEN (IF Cost(c) < Worst[c] THEN Cost(c) ELSE Worst[c]) ELSE 0

Charges == [p \in Calls |-> Charge(p)]
Costs == [p \in Calls |-> Cost(p)]
Bills == [p \in Calls |-> Foreseen(p)]
Charged(S) == Total(Charges, Calls)[S]

Of(a) == {p \in Calls : a \in AccountsOf[p]}
Within(a, t) == {p \in Of(a) : made[p] \in t..t + Span}
From(c, a) == IF a \in Turns THEN Of(a) ELSE {p \in Of(a) : made[p] >= since[c]}

\* What is charged stays within every ceiling ...
ChargesHold ==
  /\ \A a \in Accounts \cap Turns : Charged(Of(a)) <= Limit[a]
  /\ \A a \in Accounts \ Turns : \A t \in 1..MaxTime : Charged(Within(a, t)) <= Limit[a]

\* ... because a call under authorization still finds the room it has counted,
\* since the beginning of a window that is no later than 24 hours ago.
Spare == \A c \in Calls : \A a \in AccountsOf[c] :
  Passed(c, a, "usd") => Charged(From(c, a)) + Worst[c] <= Limit[a]
Early == \A c \in Calls : pc[c] # "new" => since[c] <= clock - Span

SpendInv == CountInv /\ BillInv /\ ChargesHold /\ Spare /\ Early

LEMMA ChargesType == ASSUME TypeOK PROVE Charges \in [Calls -> Nat]
BY GatewayAssumption DEF TypeOK, Charges, Charge, Cost

LEMMA CostsType == ASSUME TypeOK PROVE Costs \in [Calls -> Nat]
BY GatewayAssumption DEF TypeOK, Costs, Cost

LEMMA BillsType == ASSUME TypeOK PROVE Bills \in [Calls -> Nat]
BY GatewayAssumption DEF TypeOK, Bills, Foreseen

\* The sums of the module are these sums.
LEMMA CostSum ==
  ASSUME TypeOK, NEW S \in SUBSET Calls
  PROVE  Sum(S, Cost) = Total(Costs, Calls)[S]
<1> DEFINE It(h) == h = [s \in SUBSET S |-> IF s = {} THEN 0
                           ELSE Cost(CHOOSE p \in s : TRUE) + h[s \ {CHOOSE p \in s : TRUE}]]
<1>1. Costs \in [Calls -> Nat] /\ IsFiniteSet(Calls)
  BY CostsType, GatewayAssumption
<1>2. \A h : It(h) <=> Adds(h, Costs, S)
  <2> SUFFICES ASSUME NEW h PROVE It(h) <=> Adds(h, Costs, S)
    OBVIOUS
  <2>1. \A s \in SUBSET S : s # {} => Pick(s) \in Calls /\ Costs[Pick(s)] = Cost(Pick(s))
    BY DEF Pick, Costs
  <2>2. [s \in SUBSET S |-> IF s = {} THEN 0 ELSE Cost(Pick(s)) + h[s \ {Pick(s)}]]
          = [s \in SUBSET S |-> IF s = {} THEN 0 ELSE Costs[Pick(s)] + h[s \ {Pick(s)}]]
    BY <2>1
  <2>3. QED
    BY <2>2 DEF Adds, Pick
<1>3. Sum(S, Cost) = (CHOOSE h : It(h))[S]
  BY DEF Sum, MapThenFoldSet
<1> HIDE DEF It
<1>4. \E h : It(h)
  BY <1>1, <1>2, AddsSub
<1>5. It(CHOOSE h : It(h))
  BY <1>4
<1>6. QED
  BY <1>1, <1>2, <1>3, <1>5, AddsSub

LEMMA BillSum ==
  ASSUME TypeOK, NEW S \in SUBSET Calls
  PROVE  Sum(S, Foreseen) = Total(Bills, Calls)[S]
<1> DEFINE It(h) == h = [s \in SUBSET S |-> IF s = {} THEN 0
                           ELSE Foreseen(CHOOSE p \in s : TRUE) + h[s \ {CHOOSE p \in s : TRUE}]]
<1>1. Bills \in [Calls -> Nat] /\ IsFiniteSet(Calls)
  BY BillsType, GatewayAssumption
<1>2. \A h : It(h) <=> Adds(h, Bills, S)
  <2> SUFFICES ASSUME NEW h PROVE It(h) <=> Adds(h, Bills, S)
    OBVIOUS
  <2>1. \A s \in SUBSET S : s # {} => Pick(s) \in Calls /\ Bills[Pick(s)] = Foreseen(Pick(s))
    BY DEF Pick, Bills
  <2>2. [s \in SUBSET S |-> IF s = {} THEN 0 ELSE Foreseen(Pick(s)) + h[s \ {Pick(s)}]]
          = [s \in SUBSET S |-> IF s = {} THEN 0 ELSE Bills[Pick(s)] + h[s \ {Pick(s)}]]
    BY <2>1
  <2>3. QED
    BY <2>2 DEF Adds, Pick
<1>3. Sum(S, Foreseen) = (CHOOSE h : It(h))[S]
  BY DEF Sum, MapThenFoldSet
<1> HIDE DEF It
<1>4. \E h : It(h)
  BY <1>1, <1>2, AddsSub
<1>5. It(CHOOSE h : It(h))
  BY <1>4
<1>6. QED
  BY <1>1, <1>2, <1>3, <1>5, AddsSub

\* Only the insertion of its row makes a call cost more.
LEMMA ChargesFall ==
  ASSUME BillInv, [Next]_vars, ~ \E c \in Calls : Insert(c), NEW p \in Calls
  PROVE  Charge(p)' <= Charge(p)
<1> USE GatewayAssumption DEF TypeOK, Charge, Counted, Cost, Go
<1>1. TypeOK /\ TypeOK' /\ Place(p)
  BY TypeNext DEF BillInv
<1>2. Charge(p) \in Nat
  BY <1>1
<1>3. CASE UNCHANGED <<status[p], actual[p]>>
  BY <1>2, <1>3
<1>4. ASSUME NEW c \in Calls, Settle(c) PROVE Charge(p)' <= Charge(p)
  <2>1. CASE c = p
    <3>1. status[p] = "reserved" /\ actual[p] = None
      BY <1>1, <1>4, <2>1 DEF Settle, Place
    <3>2. Charge(p) = Worst[p] /\ Worst[p] \in Nat
      BY <1>1, <3>1
    <3>3. actual'[p] \in Nat \cup {None}
      BY <1>1
    <3>4. Charge(p)' <= Worst[p]
      BY <3>2, <3>3
    <3>5. QED
      BY <3>2, <3>4
  <2>2. CASE c # p
    BY <1>1, <1>3, <1>4, <2>2 DEF Settle, Close
  <2>3. QED
    BY <2>1, <2>2
<1>5. ASSUME NEW c \in Calls, ReleaseCall(c) PROVE Charge(p)' <= Charge(p)
  <2>1. CASE c = p
    <3>1. status'[p] = "released"
      BY <1>1, <1>5, <2>1 DEF ReleaseCall, Close, Place
    <3>2. QED
      BY <1>2, <3>1
  <2>2. CASE c # p
    BY <1>1, <1>3, <1>5, <2>2 DEF ReleaseCall, Close
  <2>3. QED
    BY <2>1, <2>2
<1>6. CASE UNCHANGED <<status, actual>>
  BY <1>3, <1>6
<1>7. QED
  BY <1>4, <1>5, <1>6 DEF Next, Step, vars, ledger, Open, Lock, Check, Refuse, LedgerFails,
     NotSent, Send, SettleFails, Crash, Tick

\* What a call counts covers what is charged since its window began.
LEMMA UsedCovers ==
  ASSUME TypeOK, NEW c \in Calls, NEW a
  PROVE  Charged(From(c, a)) <= Used(c, a)
<1>1. Window(c, a) \in SUBSET Calls /\ From(c, a) \in SUBSET Calls
  BY DEF Window, Rows, From, Of
<1>2. Used(c, a) = Total(Costs, Calls)[Window(c, a)]
  BY <1>1, CostSum DEF Used
<1>3. ASSUME NEW p \in From(c, a)
      PROVE  Charges[p] = 0 \/ (p \in Window(c, a) /\ Charges[p] <= Costs[p])
  <2>1. p \in Calls /\ Cost(p) \in Nat /\ Worst[p] \in Nat
    BY <1>1, GatewayAssumption DEF TypeOK, Cost
  <2>2. CASE Counted(p)
    BY <2>1, <2>2 DEF Charges, Charge, Costs, From, Window, Rows, Of
  <2>3. CASE ~Counted(p)
    BY <2>1, <2>3 DEF Charges, Charge
  <2>4. QED
    BY <2>2, <2>3
<1>4. QED
  BY <1>1, <1>2, <1>3, TotalLeq, ChargesType, CostsType, GatewayAssumption DEF Charged

\* No call charges more than the ceilings can bear: without an insertion.
LEMMA SpendSteady ==
  ASSUME SpendInv, [Next]_vars, ~ \E c \in Calls : Insert(c)
  PROVE  (ChargesHold /\ Spare)'
<1>1. TypeOK /\ TypeOK' /\ made' = made
  <2>1. made' = made
    BY DEF Next, Step, vars, ledger, Open, Lock, Check, Refuse, LedgerFails, NotSent, Send, Settle,
       ReleaseCall, Close, SettleFails, Crash, Tick
  <2>2. QED
    BY <2>1, TypeNext DEF SpendInv, BillInv
<1>2. Charges \in [Calls -> Nat] /\ Charges' \in [Calls -> Nat]
  BY <1>1, ChargesType, GatewayAssumption DEF TypeOK, Charges, Charge, Cost
<1>3. \A p \in Calls : Charges'[p] <= Charges[p]
  BY ChargesFall DEF SpendInv, Charges
<1>4. ASSUME NEW S \in SUBSET Calls
      PROVE  /\ Total(Charges', Calls)[S] <= Total(Charges, Calls)[S]
             /\ Total(Charges', Calls)[S] \in Nat /\ Total(Charges, Calls)[S] \in Nat
  <2>1. \A p \in S : Charges'[p] = 0 \/ (p \in S /\ Charges'[p] <= Charges[p])
    BY <1>3
  <2>2. Total(Charges', Calls)[S] <= Total(Charges, Calls)[S]
    BY <1>2, <2>1, TotalLeq, GatewayAssumption
  <2>3. IsFiniteSet(Calls)
    BY GatewayAssumption
  <2>4. Total(Charges', Calls) \in [SUBSET Calls -> Nat]
    BY <1>2, <2>3, TotalIs
  <2>5. Total(Charges, Calls) \in [SUBSET Calls -> Nat]
    BY <1>2, <2>3, TotalIs
  <2>6. QED
    BY <2>2, <2>4, <2>5
<1>5. ASSUME NEW a \in Accounts \cap Turns PROVE Charged(Of(a))' <= Limit[a]
  <2>1. Of(a) \in SUBSET Calls /\ Limit[a] \in Nat
    BY GatewayAssumption DEF Of
  <2>2. Total(Charges, Calls)[Of(a)] <= Limit[a]
    BY DEF SpendInv, ChargesHold, Charged
  <2>3. Total(Charges', Calls)[Of(a)] <= Limit[a]
    BY <1>4, <2>1, <2>2
  <2>4. QED
    BY <2>3 DEF Charged, Of
<1>6. ASSUME NEW a \in Accounts \ Turns, NEW t \in 1..MaxTime
      PROVE  Charged(Within(a, t))' <= Limit[a]
  <2>1. Within(a, t) \in SUBSET Calls /\ Limit[a] \in Nat /\ Within(a, t)' = Within(a, t)
    BY <1>1, GatewayAssumption DEF Within, Of
  <2>2. Total(Charges, Calls)[Within(a, t)] <= Limit[a]
    BY DEF SpendInv, ChargesHold, Charged
  <2>3. Total(Charges', Calls)[Within(a, t)] <= Limit[a]
    BY <1>4, <2>1, <2>2
  <2>4. QED
    BY <2>1, <2>3 DEF Charged
<1>7. ASSUME NEW c \in Calls, NEW a \in AccountsOf[c], Passed(c, a, "usd")'
      PROVE  Charged(From(c, a))' + Worst[c] <= Limit[a]
  <2>1. a \in Accounts /\ pc[c] # "new" /\ since'[c] = since[c]
    <3>1. a \in Accounts /\ pc'[c] \in {"check", "insert"}
      BY <1>7, GatewayAssumption DEF Passed
    <3>2. ASSUME NEW d \in Calls, Open(d) PROVE c # d /\ pc[c] # "new" /\ since'[c] = since[c]
      BY <1>1, <3>1, <3>2 DEF TypeOK, Open, Go
    <3>3. CASE \A d \in Calls : ~Open(d)
      <4>1. since' = since
        BY <3>3 DEF Next, Step, vars, Lock, Check, Refuse, LedgerFails, Insert, NotSent, Send, Settle,
           ReleaseCall, Close, SettleFails, Crash, Tick
      <4>2. pc[c] # "new"
        <5>1. ASSUME NEW d \in Calls, Lock(d) \/ Check(d) \/ LedgerFails(d) \/ Insert(d) PROVE pc[c] # "new"
          BY <1>1, <3>1, <5>1 DEF TypeOK, Go, Lock, Check, Refuse, LedgerFails, Insert
        <5>2. ASSUME NEW d \in Calls,
                     NotSent(d) \/ Send(d) \/ Settle(d) \/ ReleaseCall(d) \/ SettleFails(d) \/ Crash(d)
              PROVE  pc[c] # "new"
          BY <1>1, <3>1, <5>2 DEF TypeOK, Go, NotSent, Send, Settle, ReleaseCall, Close, SettleFails, Crash
        <5>3. CASE Tick \/ UNCHANGED vars
          BY <3>1, <5>3 DEF Tick, vars
        <5>4. QED
          BY <3>3, <5>1, <5>2, <5>3 DEF Next, Step
      <4>3. QED
        BY <3>1, <4>1, <4>2
    <3>4. QED
      BY <3>1, <3>2, <3>3
  <2>2. /\ From(c, a)' = From(c, a) /\ From(c, a) \in SUBSET Calls
        /\ Limit[a] \in Nat /\ Worst[c] \in Nat
    BY <1>1, <2>1, GatewayAssumption DEF From, Of
  <2>3. Charged(From(c, a)) + Worst[c] <= Limit[a]
    <3>1. CASE Passed(c, a, "usd")
      BY <3>1 DEF SpendInv, Spare
    <3>2. CASE ~Passed(c, a, "usd")
      <4>1. Fits(c, a, "usd")
        BY <1>1, <1>7, <2>1, <3>2, NewlyPassed DEF Checks
      <4>2. Used(c, a) + Worst[c] <= Limit[a]
        BY <4>1 DEF Fits
      <4>3. Charged(From(c, a)) <= Used(c, a) /\ Charged(From(c, a)) \in Nat
        BY <1>1, <1>4, <2>2, UsedCovers DEF Charged
      <4>4. Used(c, a) \in Nat
        <5>1. Window(c, a) \in SUBSET Calls
          BY DEF Window, Rows
        <5>2. Total(Costs, Calls) \in [SUBSET Calls -> Nat]
          BY <1>1, CostsType, TotalIs, GatewayAssumption
        <5>3. QED
          BY <1>1, <5>1, <5>2, CostSum DEF Used
      <4>5. QED
        BY <2>2, <4>2, <4>3, <4>4
    <3>3. QED
      BY <3>1, <3>2
  <2>4. Charged(From(c, a))' = Total(Charges', Calls)[From(c, a)]
    BY <2>2 DEF Charged
  <2>5. QED
    BY <1>4, <2>2, <2>3, <2>4 DEF Charged
<1>8. QED
  BY <1>5, <1>6, <1>7 DEF ChargesHold, Spare

\* The row of a new call adds its worst case, to the windows it lies in only.
LEMMA SpendInsert ==
  ASSUME SpendInv, NEW c \in Calls, Insert(c)
  PROVE  (ChargesHold /\ Spare)'
<1> USE DEF Go
<1>1. TypeOK /\ Place(c) /\ holder = c /\ pc[c] = "insert"
  BY DEF SpendInv, BillInv, CountInv, Locked, Insert
<1>2. /\ status' = [status EXCEPT ![c] = "reserved"] /\ made' = [made EXCEPT ![c] = clock]
      /\ pc' = [pc EXCEPT ![c] = "send"] /\ UNCHANGED <<actual, since, clock>>
  BY DEF Insert
<1>3. ASSUME NEW p \in Calls, p # c PROVE Charge(p)' = Charge(p) /\ made'[p] = made[p]
  BY <1>1, <1>2, <1>3 DEF TypeOK, Charge, Counted, Cost
<1>4. Charge(c)' = Worst[c] /\ made'[c] = clock /\ Worst[c] \in Nat
  <2>1. status'[c] = "reserved" /\ actual'[c] = None /\ made'[c] = clock /\ Worst[c] \in Nat
    BY <1>1, <1>2, GatewayAssumption DEF TypeOK, Place
  <2>2. QED
    BY <2>1 DEF Charge, Counted, Cost
<1>5. Charges \in [Calls -> Nat] /\ Charges' \in [Calls -> Nat] /\ IsFiniteSet(Calls)
  <2>1. \A p \in Calls : Charge(p) \in Nat
    BY <1>1, ChargesType DEF Charges
  <2>2. \A p \in Calls : Charge(p)' \in Nat
    BY <1>3, <1>4, <2>1
  <2>3. QED
    BY <2>1, <2>2, GatewayAssumption DEF Charges
<1>6. /\ \A p \in Calls : p # c => Charges'[p] = Charges[p]
      /\ Charges'[c] = Worst[c]
  BY <1>3, <1>4 DEF Charges
<1>7. ASSUME NEW S \in SUBSET Calls, NEW T \in SUBSET Calls, S \subseteq T, c \notin S
      PROVE  Total(Charges', Calls)[S] <= Total(Charges, Calls)[T]
  <2>1. \A p \in S : p \in T /\ Charges'[p] <= Charges[p]
    BY <1>5, <1>6, <1>7
  <2>2. QED
    BY <1>5, <2>1, TotalLeq
<1>8. ASSUME NEW S \in SUBSET Calls
      PROVE  Total(Charges', Calls)[S] \in Nat /\ Total(Charges, Calls)[S] \in Nat
  <2>1. Total(Charges', Calls) \in [SUBSET Calls -> Nat]
    BY <1>5, TotalIs
  <2>2. Total(Charges, Calls) \in [SUBSET Calls -> Nat]
    BY <1>5, TotalIs
  <2>3. QED
    BY <2>1, <2>2
<1>9. ASSUME NEW a \in AccountsOf[c], NEW S \in SUBSET Calls, S \ {c} \subseteq From(c, a)
      PROVE  Total(Charges', Calls)[S] <= Limit[a]
  <2>1. /\ From(c, a) \in SUBSET Calls /\ Limit[a] \in Nat /\ Worst[c] \in Nat
        /\ S \ {c} \in SUBSET Calls
    BY GatewayAssumption DEF From, Of
  <2>2. Total(Charges, Calls)[From(c, a)] + Worst[c] <= Limit[a]
    BY <1>1, <1>9 DEF SpendInv, Spare, Passed, TypeOK, Charged
  <2>3. Total(Charges', Calls)[S \ {c}] <= Total(Charges, Calls)[From(c, a)]
    BY <1>7, <1>9, <2>1
  <2>4. Total(Charges', Calls)[S \ {c}] + Worst[c] <= Limit[a]
    BY <1>8, <2>1, <2>2, <2>3
  <2>5. CASE c \in S
    <3> DEFINE R == S \ {c}
    <3>1. R \cup {c} = S /\ c \notin R /\ R \in SUBSET Calls
      BY <2>1, <2>5
    <3>2. Total(Charges', Calls)[R] + Worst[c] <= Limit[a]
      BY <2>4
    <3> HIDE DEF R
    <3>3. Total(Charges', Calls)[R \cup {c}] = Total(Charges', Calls)[R] + Charges'[c]
      BY <1>5, <3>1, TotalAdd
    <3>4. QED
      BY <1>6, <3>1, <3>2, <3>3
  <2>6. CASE c \notin S
    <3>1. S \ {c} = S
      BY <2>6
    <3>2. Total(Charges', Calls)[S] + Worst[c] <= Limit[a]
      BY <2>4, <3>1
    <3>3. Total(Charges', Calls)[S] \in Nat
      BY <1>8
    <3>4. QED
      BY <2>1, <3>2, <3>3
  <2>7. QED
    BY <2>5, <2>6
<1>10. ASSUME NEW a \in Accounts \cap Turns PROVE Charged(Of(a))' <= Limit[a]
  <2>1. Of(a)' = Of(a) /\ Of(a) \in SUBSET Calls /\ Limit[a] \in Nat
    BY GatewayAssumption DEF Of
  <2>2. Charged(Of(a))' = Total(Charges', Calls)[Of(a)]
    BY <2>1 DEF Charged
  <2>3. CASE a \in AccountsOf[c]
    BY <1>9, <2>1, <2>2, <2>3 DEF From
  <2>4. CASE a \notin AccountsOf[c]
    <3>1. Total(Charges', Calls)[Of(a)] <= Total(Charges, Calls)[Of(a)]
      BY <1>7, <2>1, <2>4 DEF Of
    <3>2. Total(Charges, Calls)[Of(a)] <= Limit[a]
      BY DEF SpendInv, ChargesHold, Charged
    <3>3. QED
      BY <1>8, <2>1, <2>2, <3>1, <3>2
  <2>5. QED
    BY <2>3, <2>4
<1>11. ASSUME NEW a \in Accounts \ Turns, NEW t \in 1..MaxTime
       PROVE  Charged(Within(a, t))' <= Limit[a]
  <2> DEFINE W == {p \in Of(a) : made'[p] \in t..t + Span}
  <2>1. W \in SUBSET Calls /\ Limit[a] \in Nat /\ t \in Nat /\ Span \in Nat /\ clock \in Nat
    BY <1>1, GatewayAssumption DEF Of, TypeOK
  <2>2. Charged(Within(a, t))' = Total(Charges', Calls)[W]
    BY DEF Charged, Within, Of
  <2>3. CASE c \in W
    <3>1. a \in AccountsOf[c] /\ t <= clock /\ clock <= t + Span
      BY <1>4, <2>1, <2>3 DEF Of
    <3>2. since[c] <= clock - Span /\ since[c] \in Int
      BY <1>1 DEF SpendInv, Early, TypeOK
    <3>3. ASSUME NEW p \in W, p # c PROVE p \in From(c, a)
      <4>1. p \in Of(a) /\ made[p] \in Nat /\ made[p] >= t
        BY <1>1, <1>3, <2>1, <3>3 DEF Of, TypeOK
      <4>2. made[p] >= since[c]
        BY <2>1, <3>1, <3>2, <4>1
      <4>3. QED
        BY <4>1, <4>2 DEF From
    <3> HIDE DEF W
    <3>4. W \ {c} \subseteq From(c, a)
      BY <3>3
    <3>5. QED
      BY <1>9, <2>1, <2>2, <3>1, <3>4
  <2>4. CASE c \notin W
    <3>1. W \subseteq Within(a, t) /\ Within(a, t) \in SUBSET Calls
      BY <1>3, <2>4 DEF Within, Of
    <3>2. Total(Charges, Calls)[Within(a, t)] <= Limit[a]
      BY DEF SpendInv, ChargesHold, Charged
    <3> HIDE DEF W
    <3>3. Total(Charges', Calls)[W] <= Total(Charges, Calls)[Within(a, t)]
      BY <1>7, <2>1, <2>4, <3>1
    <3>4. QED
      BY <1>8, <2>1, <2>2, <3>1, <3>2, <3>3
  <2>5. QED
    BY <2>3, <2>4
<1>12. ASSUME NEW d \in Calls PROVE pc'[d] \notin {"check", "insert"}
  BY <1>1, <1>2 DEF SpendInv, CountInv, Locked, TypeOK
<1>13. QED
  BY <1>10, <1>11, <1>12 DEF ChargesHold, Spare, Passed

LEMMA EarlyStep == TypeOK /\ Early /\ [Next]_vars => Early'
<1> SUFFICES ASSUME TypeOK, Early, [Next]_vars, NEW c \in Calls, pc'[c] # "new"
             PROVE  since'[c] <= clock' - Span
  BY DEF Early
<1> USE GatewayAssumption DEF TypeOK, Early, Go, ledger
<1>1. ASSUME NEW d \in Calls, Open(d) PROVE since'[c] <= clock' - Span
  BY <1>1 DEF Open
<1>2. CASE pc[c] # "new" /\ UNCHANGED <<since, clock>>
  BY <1>2
<1>3. CASE Tick
  BY <1>3 DEF Tick
<1>4. CASE (\A d \in Calls : ~Open(d)) /\ ~Tick
  <2>1. pc[c] # "new" /\ UNCHANGED <<since, clock>>
    BY <1>4 DEF Next, Step, vars, Lock, Check, Refuse, LedgerFails, Insert, NotSent, Send, Settle,
       ReleaseCall, Close, SettleFails, Crash
  <2>2. QED
    BY <1>2, <2>1
<1>5. QED
  BY <1>1, <1>3, <1>4

\* What the provider billed, as far as it was foreseen, has been charged.
LEMMA ForeseenCharged ==
  ASSUME BillInv, NEW p \in Calls
  PROVE  Foreseen(p) <= Charge(p)
<1>1. Place(p) /\ billed[p] \in Nat /\ Worst[p] \in Nat /\ Cost(p) \in Nat
  BY GatewayAssumption DEF BillInv, TypeOK, Cost
<1>2. CASE billed[p] = 0
  <2>1. Charge(p) \in Nat /\ Foreseen(p) = 0
    BY <1>1, <1>2 DEF Charge, Foreseen
  <2>2. QED
    BY <2>1
<1>3. CASE billed[p] > 0
  <2>1. pc[p] \in {"sent", "done", "crashed"}
    BY <1>1, <1>3 DEF Place
  <2>2. Counted(p) /\ Cost(p) >= Foreseen(p)
    BY <1>3, <2>1 DEF BillInv, NeverFree
  <2>3. Foreseen(p) <= Worst[p]
    BY <1>1 DEF Foreseen
  <2>4. QED
    BY <2>2, <2>3 DEF Charge
<1>4. QED
  BY <1>1, <1>2, <1>3

\* No ceiling of money is exceeded by what the providers bill, as far as the
\* worst case foresees it, in a turn or in any 24 hours, through calls made at
\* once, lost answers, failures of the ledger and crashes.
THEOREM CeilingsHoldAlways == Spec => []CeilingsHold
<1>1. Init => SpendInv
  <2> SUFFICES ASSUME Init PROVE ChargesHold /\ Spare /\ Early
    BY TypeInit, CountInit, BillInit DEF SpendInv
  <2>1. TypeOK
    BY TypeInit
  <2>2. ASSUME NEW S \in SUBSET Calls, NEW a \in Accounts PROVE Charged(S) <= Limit[a]
    <3>1. \A p \in S : Charges[p] = 0
      BY DEF Init, Charges, Charge, Counted
    <3>2. Total(Charges, Calls)[S] <= Total(Charges, Calls)[{}]
      BY <2>1, <3>1, ChargesType, TotalLeq, GatewayAssumption
    <3>3. Total(Charges, Calls)[{}] = 0 /\ Total(Charges, Calls) \in [SUBSET Calls -> Nat]
      BY <2>1, ChargesType, TotalIs, GatewayAssumption
    <3>4. Total(Charges, Calls)[S] \in Nat /\ Limit[a] \in Nat
      BY <3>3, GatewayAssumption
    <3>5. QED
      BY <3>2, <3>3, <3>4 DEF Charged
  <2>3. ChargesHold
    BY <2>2 DEF ChargesHold, Within, Of
  <2>4. QED
    BY <2>3 DEF Init, Spare, Passed, Early
<1>2. SpendInv /\ [Next]_vars => SpendInv'
  <2> SUFFICES ASSUME SpendInv, [Next]_vars PROVE SpendInv'
    OBVIOUS
  <2>1. (CountInv /\ BillInv)' /\ Early'
    BY CountStep, BillStep, EarlyStep DEF SpendInv, BillInv
  <2>2. (ChargesHold /\ Spare)'
    BY SpendSteady, SpendInsert
  <2>3. QED
    BY <2>1, <2>2 DEF SpendInv
<1>3. SpendInv => CeilingsHold
  <2> SUFFICES ASSUME SpendInv PROVE CeilingsHold
    OBVIOUS
  <2>1. TypeOK
    BY DEF SpendInv, BillInv
  <2>2. ASSUME NEW S \in SUBSET Calls
        PROVE  /\ Sum(S, Foreseen) <= Charged(S)
               /\ Sum(S, Foreseen) \in Nat /\ Charged(S) \in Nat
    <3>1. Sum(S, Foreseen) = Total(Bills, Calls)[S]
      BY <2>1, BillSum
    <3>2. Bills \in [Calls -> Nat] /\ Charges \in [Calls -> Nat] /\ IsFiniteSet(Calls)
      BY <2>1, BillsType, ChargesType, GatewayAssumption
    <3>3. \A p \in S : p \in S /\ Bills[p] <= Charges[p]
      BY ForeseenCharged DEF SpendInv, Bills, Charges
    <3>4. Total(Bills, Calls)[S] <= Total(Charges, Calls)[S]
      BY <3>2, <3>3, TotalLeq
    <3>5. Total(Bills, Calls) \in [SUBSET Calls -> Nat]
      BY <3>2, TotalIs
    <3>6. Total(Charges, Calls) \in [SUBSET Calls -> Nat]
      BY <3>2, TotalIs
    <3>7. QED
      BY <3>1, <3>4, <3>5, <3>6 DEF Charged
  <2>3. ASSUME NEW a \in Accounts \cap Turns
        PROVE  Sum({c \in Calls : a \in AccountsOf[c]}, Foreseen) <= Limit[a]
    <3>1. Of(a) \in SUBSET Calls /\ Charged(Of(a)) <= Limit[a] /\ Limit[a] \in Nat
      BY GatewayAssumption DEF SpendInv, ChargesHold, Of
    <3>2. Sum(Of(a), Foreseen) <= Limit[a]
      BY <2>2, <3>1
    <3>3. QED
      BY <3>2 DEF Of
  <2>4. ASSUME NEW a \in Accounts \ Turns, NEW t \in 1..MaxTime
        PROVE  Sum({c \in Calls : a \in AccountsOf[c] /\ made[c] \in t..t + Span}, Foreseen)
                 <= Limit[a]
    <3>1. /\ Within(a, t) \in SUBSET Calls /\ Charged(Within(a, t)) <= Limit[a]
          /\ Limit[a] \in Nat
      BY GatewayAssumption DEF SpendInv, ChargesHold, Within, Of
    <3>2. Sum(Within(a, t), Foreseen) <= Limit[a]
      BY <2>2, <3>1
    <3>3. Within(a, t) = {c \in Calls : a \in AccountsOf[c] /\ made[c] \in t..t + Span}
      BY DEF Within, Of
    <3>4. QED
      BY <3>2, <3>3
  <2>5. QED
    BY <2>3, <2>4 DEF CeilingsHold
<1>4. QED
  BY <1>1, <1>2, <1>3, PTL DEF Spec
=============================================================================
