----------------------------- MODULE PublicTurns -----------------------------
(***************************************************************************)
(* The turns of the AI bot of a public link (answer_core/public_turn.py,   *)
(* api/public.py): admission under the link's advisory lock, where turns   *)
(* of dead workers are expired in the same transaction as the new turn is  *)
(* inserted; the run; the conditional write that ends a turn; Stop; and a  *)
(* repeated send, which waits for the turn it was before.                  *)
(***************************************************************************)
EXTENDS Integers, FiniteSets

CONSTANTS
  Submits,          \* the sends of a question
  LinkOf, Links,
  ViewerOf,         \* conversation_key: one viewer's conversation
  KeyOf,            \* idempotency_key
  MaxRunning,       \* MAX_RUNNING_PER_LINK
  None,
  MaxMishaps        \* bounds crashes, lost connections and failed statements

ASSUME PublicAssumption ==
  /\ IsFiniteSet(Submits)
  /\ LinkOf \in [Submits -> Links]
  /\ MaxRunning \in Nat \ {0}
  /\ None \notin Submits
  /\ MaxMishaps \in Nat

VARIABLES
  status,    \* of the turn that each submit inserted; "none" while there is none
  stale,     \* running turns older than ten minutes
  expired,   \* turns that an open transaction set to failed: their rows are locked
  holder,    \* who holds the advisory lock of each link
  unlocked,  \* submits that gave their lock up with a failed statement
  pc, live, shown, mishaps

vars == <<status, stale, expired, holder, unlocked, pc, live, shown, mishaps>>

\* "answered" stands for every ending that the Answer Core decides itself.
Final == {"answered", "failed", "cancelled"}
Ended == {"done", "rejected", "crashed"}

TypeOK ==
  /\ status \in [Submits -> Final \cup {"none", "running"}]
  /\ stale \subseteq Submits /\ expired \subseteq stale
  /\ holder \in [Links -> Submits \cup {None}]
  /\ unlocked \subseteq Submits
  /\ pc \in [Submits -> Ended \cup {"new", "lock", "check", "count", "insert", "core", "finish", "wait"}]
  /\ live \in [Submits -> Final \cup {None}]
  /\ shown \in [Submits -> Final \cup {None}]
  /\ mishaps \in 0..MaxMishaps

Init ==
  /\ status = [s \in Submits |-> "none"] /\ stale = {} /\ expired = {}
  /\ holder = [l \in Links |-> None] /\ unlocked = {}
  /\ pc = [s \in Submits |-> "new"]
  /\ live = [s \in Submits |-> None] /\ shown = live
  /\ mishaps = 0

Go(s, where) == pc' = [pc EXCEPT ![s] = where]
Mishap == mishaps < MaxMishaps /\ mishaps' = mishaps + 1

Rows == {t \in Submits : status[t] # "none"}
Running == {t \in Submits : status[t] = "running"}
On(l) == {t \in Submits : LinkOf[t] = l}
Same(s) == {t \in Rows \cap On(LinkOf[s]) : KeyOf[t] = KeyOf[s]}
-----------------------------------------------------------------------------
(* The transaction of begin: committed with the new turn, or rolled back.  *)

Holds(s) == holder[LinkOf[s]] = s
Unlock(s) == holder' = IF Holds(s) THEN [holder EXCEPT ![LinkOf[s]] = None] ELSE holder

\* What the transaction of s expired. Its own reads see it done.
Mine(s) == IF Holds(s) THEN expired \cap On(LinkOf[s]) ELSE {}

Rollback(s) == Unlock(s) /\ expired' = expired \ Mine(s)

\* Slip: a request that is rejected keeps its session.
KeepOpen(s) == UNCHANGED <<holder, expired>>

Close(s) == Rollback(s)

Reject(s) ==
  /\ Go(s, "rejected") /\ Close(s)
  /\ UNCHANGED <<status, stale, unlocked, live, shown, mishaps>>

\* The same key of another viewer is refused; the viewer's own is answered by
\* the turn it was before.
Replay(s, t) ==
  IF ViewerOf[t] = ViewerOf[s]
  THEN /\ Go(s, "wait") /\ Rollback(s)
       /\ UNCHANGED <<status, stale, unlocked, live, shown, mishaps>>
  ELSE Reject(s)

Lookup(s) ==
  /\ pc[s] = "new"
  /\ \/ \E t \in Same(s) : Replay(s, t)
     \/ Same(s) = {} /\ Go(s, "lock")
        /\ UNCHANGED <<status, stale, expired, holder, unlocked, live, shown, mishaps>>

\* Slip: the lock is tried, not waited for.
Tried(s) == TRUE

Free(s) == holder[LinkOf[s]] = None

\* The lock is taken, and the link's stale turns are updated under it.
Lock(s) ==
  /\ pc[s] = "lock" /\ Free(s) /\ Go(s, "check")
  /\ holder' = [holder EXCEPT ![LinkOf[s]] = s]
  /\ expired' = expired \cup (stale \cap On(LinkOf[s]))
  /\ UNCHANGED <<status, stale, unlocked, live, shown, mishaps>>

\* The update fails and is rolled back, with the lock; the admission goes on.
ExpireFails(s) ==
  /\ pc[s] = "lock" /\ Free(s) /\ Mishap /\ Go(s, "check")
  /\ unlocked' = unlocked \cup {s}
  /\ UNCHANGED <<status, stale, expired, holder, live, shown>>

Seen(s) == (Running \cap On(LinkOf[s])) \ Mine(s)

Proceed(s, from, ok, to) ==
  /\ pc[s] = from
  /\ IF ok
     THEN /\ Go(s, to)
          /\ UNCHANGED <<status, stale, expired, holder, unlocked, live, shown, mishaps>>
     ELSE Reject(s)

Idle(s) == {t \in Seen(s) : ViewerOf[t] = ViewerOf[s]} = {}
CheckViewer(s) == Proceed(s, "check", Idle(s), "count")

Below(s) == Cardinality(Seen(s)) < MaxRunning

\* What the link spent, and was asked this hour, may forbid the turn as well:
\* what a turn may spend is AiGateway's to decide.
CheckLink(s) == \E affordable \in BOOLEAN :
  Proceed(s, "count", Below(s) /\ affordable, "insert")

\* Slip: the key is only looked up, it is not unique.
Lenient(s) == {}

\* uq_public_answer_turns_link_idem
Clash(s) == Same(s)

Insert(s) ==
  /\ pc[s] = "insert"
  /\ IF Clash(s) = {}
     THEN /\ status' = [t \in Submits |-> IF t = s THEN "running"
                                          ELSE IF t \in Mine(s) THEN "failed" ELSE status[t]]
          /\ stale' = stale \ Mine(s) /\ Rollback(s) /\ Go(s, "core")
          /\ UNCHANGED <<unlocked, live, shown, mishaps>>
     ELSE \E t \in Same(s) : Replay(s, t)
-----------------------------------------------------------------------------
(* run                                                                     *)

Core(s, e) ==
  /\ pc[s] = "core"
  /\ e = "cancelled" => status[s] # "running"
  /\ live' = [live EXCEPT ![s] = e] /\ Go(s, "finish")
  /\ UNCHANGED <<status, stale, expired, holder, unlocked, shown, mishaps>>

Unended(t) == status[t] = "running"

\* A row that a transaction updated is waited for.
Finish(t, e) ==
  /\ t \notin expired
  /\ status' = IF Unended(t) THEN [status EXCEPT ![t] = e] ELSE status
  /\ stale' = stale \ {t}

\* A run that lost answers what is stored.
Stored(s) == IF Unended(s) THEN live[s] ELSE status[s]

Answer(s) ==
  /\ pc[s] = "finish" /\ Finish(s, live[s])
  /\ shown' = [shown EXCEPT ![s] = Stored(s)] /\ Go(s, "done")
  /\ live' = [live EXCEPT ![s] = None]
  /\ UNCHANGED <<expired, holder, unlocked, mishaps>>

RunBreaks(s) ==
  /\ pc[s] = "finish" /\ Mishap
  /\ shown' = [shown EXCEPT ![s] = "failed"] /\ Go(s, "done")
  /\ UNCHANGED <<status, stale, expired, holder, unlocked, live>>

\* A repeated send polls its turn, and gives up after four minutes.
Poll(s, t) ==
  /\ pc[s] = "wait" /\ t \in Same(s) /\ status[t] # "running"
  /\ shown' = [shown EXCEPT ![s] = status[t]] /\ Go(s, "done")
  /\ UNCHANGED <<status, stale, expired, holder, unlocked, live, mishaps>>

GiveUp(s) ==
  /\ pc[s] = "wait" /\ Go(s, "done")
  /\ UNCHANGED <<status, stale, expired, holder, unlocked, live, shown, mishaps>>

\* The worker dies, or the viewer leaves before the answer's stream is read.
Crash(s) ==
  /\ pc[s] \notin Ended \cup {"new"} /\ Mishap
  /\ Go(s, "crashed") /\ Rollback(s)
  /\ UNCHANGED <<status, stale, unlocked, live, shown>>
-----------------------------------------------------------------------------
Cancel(t) ==
  /\ t \in Running /\ Finish(t, "cancelled")
  /\ UNCHANGED <<expired, holder, unlocked, pc, live, shown, mishaps>>

Age(t) ==
  /\ t \in Running \ stale /\ stale' = stale \cup {t}
  /\ UNCHANGED <<status, expired, holder, unlocked, pc, live, shown, mishaps>>

Admit(s) == Lock(s) \/ CheckViewer(s) \/ CheckLink(s) \/ Insert(s)

Run(s) ==
  \/ Answer(s) \/ GiveUp(s)
  \/ \E e \in Final : Core(s, e)
  \/ \E t \in Submits : Poll(s, t)

Next ==
  \E s \in Submits :
    \/ Lookup(s) \/ Admit(s) \/ ExpireFails(s) \/ Run(s) \/ RunBreaks(s) \/ Crash(s)
    \/ Cancel(s) \/ Age(s)

Fairness == \A s \in Submits : WF_vars(Admit(s)) /\ WF_vars(Run(s))

Spec == Init /\ [][Next]_vars /\ Fairness
-----------------------------------------------------------------------------
(* Properties *)

\* The turns of a link whose admission went on without the lock.
Unguarded(l) == On(l) \cap Rows \cap unlocked

\* No link ever runs more turns than MAX_RUNNING_PER_LINK, although turns are
\* expired, stopped and finished at any moment of an admission; a turn that
\* was admitted after its lock was lost may be one more.
LinkCeiling == \A l \in Links :
  Cardinality(On(l) \cap Running) <= MaxRunning + Cardinality(Unguarded(l))

\* A viewer's conversation runs one turn at a time, with the same exception.
OneEach == \A s, t \in Running :
  s # t /\ LinkOf[s] = LinkOf[t] /\ ViewerOf[s] = ViewerOf[t] =>
    s \in unlocked \/ t \in unlocked

\* The promise of AskedTurns, kept on a link too. A turn that an open
\* transaction expires has ended only when that transaction commits.
Promise == INSTANCE AskedTurns WITH
  QuestionOf <- [s \in Submits |-> <<LinkOf[s], KeyOf[s]>>],
  asked <- Rows, outcome <- status

KeepsPromise == Promise!Spec

\* Every submit is answered or rejected; nobody waits for ever for the lock of
\* the link or for a row that an admission expires.
EverySubmitEnds == \A s \in Submits : pc[s] = "lock" ~> pc[s] \in Ended
=============================================================================
