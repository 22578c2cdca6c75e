------------------------------ MODULE ChatTurns ------------------------------
(***************************************************************************)
(* The turns of AI Chat (chat/orchestrator.py, chat/conversations.py,      *)
(* api/chat.py): admission under the person's advisory lock, the run of    *)
(* the Data Core in a worker thread, the one conditional write that ends a *)
(* turn, Stop, and the expiry of turns whose worker died. A conversation   *)
(* may be shared, so several people ask in it, each under a lock of their  *)
(* own; and expiry commits, which gives the lock up.                       *)
(***************************************************************************)
EXTENDS Integers, FiniteSets, FiniteSetsExt

CONSTANTS
  Submits,              \* the sends of a question: a retry is a second one
  UserOf, ConversationOf, KeyOf,
  Users,
  MaxRunning,           \* AI_CHAT_MAX_RUNNING_PER_USER
  PerDay,               \* AI_CHAT_TURNS_PER_USER_DAY
  None,
  MaxMishaps            \* bounds the crashes and the errors of a run

ASSUME ChatAssumption ==
  /\ IsFiniteSet(Submits)
  /\ UserOf \in [Submits -> Users]
  /\ MaxRunning \in Nat \ {0} /\ PerDay \in Nat \ {0}
  /\ None \notin Submits
  /\ MaxMishaps \in Nat

VARIABLES
  status,    \* of the turn that each submit inserted; "none" while there is none
  seq,       \* the number it read for its turn
  stale,     \* running turns older than AI_CHAT_TURN_STALE_SECONDS
  holder,    \* who holds the advisory lock of each person
  unlocked,  \* submits that gave their lock up when they settled a stale turn
  batch,     \* the stale turns a submit read
  pc, live,  \* where each submit is, and what the Data Core answered it
  shown,     \* the envelope it was answered
  mishaps

rows == <<status, seq, stale>>
vars == <<rows, holder, unlocked, batch, pc, live, shown, mishaps>>

\* "answered" stands for every ending that the Data Core decides itself.
Final == {"answered", "failed", "cancelled"}
Ended == {"done", "rejected", "crashed"}

TypeOK ==
  /\ status \in [Submits -> Final \cup {"none", "running"}]
  /\ seq \in [Submits -> Nat]
  /\ stale \subseteq Submits
  /\ holder \in [Users -> Submits \cup {None}]
  /\ unlocked \subseteq Submits
  /\ batch \in [Submits -> SUBSET Submits]
  /\ pc \in [Submits -> Ended \cup {"new", "lock", "settle", "check", "count",
                                    "tally", "number", "insert", "core", "finish"}]
  /\ live \in [Submits -> Final \cup {None}]
  /\ shown \in [Submits -> Final \cup {None}]
  /\ mishaps \in 0..MaxMishaps

Init ==
  /\ status = [s \in Submits |-> "none"] /\ seq = [s \in Submits |-> 0]
  /\ stale = {}
  /\ holder = [u \in Users |-> None] /\ unlocked = {}
  /\ batch = [s \in Submits |-> {}]
  /\ pc = [s \in Submits |-> "new"]
  /\ live = [s \in Submits |-> None] /\ shown = live
  /\ mishaps = 0

Go(s, where) == pc' = [pc EXCEPT ![s] = where]
Mishap == mishaps < MaxMishaps /\ mishaps' = mishaps + 1
-----------------------------------------------------------------------------
(* Reading the turns of a conversation or of a person.                     *)

Rows == {t \in Submits : status[t] # "none"}
Running == {t \in Submits : status[t] = "running"}
Of(u) == {t \in Submits : UserOf[t] = u}
In(c) == {t \in Rows : ConversationOf[t] = c}
Same(s) == {t \in In(ConversationOf[s]) : KeyOf[t] = KeyOf[s]}

(* The one write that ends a turn, and commits.                            *)

\* Slip: the turn is ended whatever its status.
AnyStatus(t) == TRUE

Unended(t) == status[t] = "running"

Finish(t, e) ==
  /\ status' = IF Unended(t) THEN [status EXCEPT ![t] = e] ELSE status
  /\ stale' = stale \ {t}

\* Slip: a rejected submit returns without ending its transaction.
Kept(s) == UNCHANGED holder

\* The transaction ends, and with it what it locked.
Release(s) ==
  holder' = [u \in Users |-> IF holder[u] = s THEN None ELSE holder[u]]

Reject(s) ==
  /\ Go(s, "rejected") /\ Release(s)
  /\ UNCHANGED <<rows, unlocked, batch, live, shown, mishaps>>
-----------------------------------------------------------------------------
(* begin: one request, from the look for its key to its running row.       *)

\* A submit that was sent before is answered by the turn it became.
Replay(s, t) ==
  /\ UserOf[t] = UserOf[s] /\ status[t] # "running"
  /\ Go(s, "done") /\ shown' = [shown EXCEPT ![s] = status[t]]
  /\ Release(s)
  /\ UNCHANGED <<rows, unlocked, batch, live, mishaps>>

Resolve(s, t) == IF UserOf[t] = UserOf[s] /\ status[t] # "running"
                 THEN Replay(s, t) ELSE Reject(s)

\* No access, a chat that is switched off or has no model is refused here too.
Lookup(s) ==
  /\ pc[s] = "new"
  /\ \/ \E t \in Same(s) : Resolve(s, t)
     \/ Same(s) = {} /\ Go(s, "lock")
        /\ UNCHANGED <<rows, holder, unlocked, batch, live, shown, mishaps>>
     \/ Reject(s)

Stale(c) == In(c) \cap stale

\* Slip: the lock is tried, not waited for.
Tried(s) == TRUE

Free(s) == holder[UserOf[s]] = None

\* The lock is taken, and the first thing read under it is what is stale.
Lock(s) ==
  /\ pc[s] = "lock" /\ Free(s)
  /\ holder' = [holder EXCEPT ![UserOf[s]] = s]
  /\ batch' = [batch EXCEPT ![s] = Stale(ConversationOf[s])]
  /\ Go(s, IF batch'[s] = {} THEN "check" ELSE "settle")
  /\ UNCHANGED <<rows, unlocked, live, shown, mishaps>>

\* Each stale turn is ended by a write of its own, which commits: the lock,
\* scoped to the transaction, is gone for the rest of the admission.
Settle(s, t) ==
  /\ pc[s] = "settle" /\ t \in batch[s]
  /\ Finish(t, "failed") /\ Release(s) /\ unlocked' = unlocked \cup {s}
  /\ batch' = [batch EXCEPT ![s] = @ \ {t}]
  /\ Go(s, IF batch'[s] = {} THEN "check" ELSE "settle")
  /\ UNCHANGED <<seq, live, shown, mishaps>>

Proceed(s, from, ok, to) ==
  /\ pc[s] = from
  /\ IF ok
     THEN Go(s, to) /\ UNCHANGED <<rows, holder, unlocked, batch, live, shown, mishaps>>
     ELSE Reject(s)

Idle(s) == In(ConversationOf[s]) \cap Running = {}

CheckConversation(s) == Proceed(s, "check", Idle(s), "count")

AskedBy(u) == Cardinality(Of(u) \cap Rows)
RunningOf(u) == Cardinality(Of(u) \cap Running)

\* Two statements, between which another turn of the person may end.
CheckDay(s) == Proceed(s, "count", AskedBy(UserOf[s]) < PerDay, "tally")
CheckRunning(s) == Proceed(s, "tally", RunningOf(UserOf[s]) < MaxRunning, "number")

Number(s) ==
  /\ pc[s] = "number" /\ Go(s, "insert")
  /\ seq' = [seq EXCEPT ![s] = Max({0} \cup {seq[t] : t \in In(ConversationOf[s])}) + 1]
  /\ UNCHANGED <<status, stale, holder, unlocked, batch, live, shown, mishaps>>

\* uq_chat_turns_seq and uq_chat_turns_idempotency
Clash(s) == {t \in In(ConversationOf[s]) : seq[t] = seq[s] \/ KeyOf[t] = KeyOf[s]}

Insert(s) ==
  /\ pc[s] = "insert"
  /\ IF Clash(s) = {}
     THEN /\ status' = [status EXCEPT ![s] = "running"]
          /\ Go(s, "core") /\ Release(s)
          /\ UNCHANGED <<seq, stale, unlocked, batch, live, shown, mishaps>>
     ELSE \/ \E t \in Same(s) : Resolve(s, t)
          \/ Same(s) = {} /\ Reject(s)
-----------------------------------------------------------------------------
(* run: the Data Core in a thread, stopped when the turn no longer runs.   *)

Core(s, e) ==
  /\ pc[s] = "core"
  /\ e = "cancelled" => status[s] # "running"
  /\ live' = [live EXCEPT ![s] = e] /\ Go(s, "finish")
  /\ UNCHANGED <<rows, holder, unlocked, batch, shown, mishaps>>

\* Slip: what is stored is read before the run's own write.
StoredBefore(s) == status[s]

\* A run that lost answers what is stored.
Stored(s) == IF Unended(s) THEN live[s] ELSE status[s]

Answer(s) ==
  /\ pc[s] = "finish" /\ Finish(s, live[s])
  /\ shown' = [shown EXCEPT ![s] = Stored(s)] /\ Go(s, "done")
  /\ live' = [live EXCEPT ![s] = None]
  /\ UNCHANGED <<seq, holder, unlocked, batch, mishaps>>

\* An error outside the Data Core: the asker is told, the row stays as it is.
RunBreaks(s) ==
  /\ pc[s] = "finish" /\ Mishap
  /\ shown' = [shown EXCEPT ![s] = "failed"] /\ Go(s, "done")
  /\ UNCHANGED <<rows, holder, unlocked, batch, live>>

\* The worker dies: its transaction is rolled back, its row stays.
Crash(s) ==
  /\ pc[s] \notin Ended \cup {"new"} /\ Mishap
  /\ Go(s, "crashed") /\ Release(s)
  /\ UNCHANGED <<rows, unlocked, batch, live, shown>>
-----------------------------------------------------------------------------
(* The asker's Stop, and whoever opens the conversation.                   *)

Cancel(t) ==
  /\ t \in Running /\ Finish(t, "cancelled")
  /\ UNCHANGED <<seq, holder, unlocked, batch, pc, live, shown, mishaps>>

View(t) ==
  /\ t \in Stale(ConversationOf[t]) /\ Finish(t, "failed")
  /\ UNCHANGED <<seq, holder, unlocked, batch, pc, live, shown, mishaps>>

Age(t) ==
  /\ t \in Running \ stale /\ stale' = stale \cup {t}
  /\ UNCHANGED <<status, seq, holder, unlocked, batch, pc, live, shown, mishaps>>

Admit(s) ==
  \/ Lock(s) \/ \E t \in Submits : Settle(s, t)
  \/ CheckConversation(s) \/ CheckDay(s) \/ CheckRunning(s) \/ Number(s)
  \/ Insert(s)

Run(s) == Answer(s) \/ \E e \in Final : Core(s, e)

Next ==
  \E s \in Submits :
    \/ Lookup(s) \/ Admit(s) \/ Run(s) \/ RunBreaks(s) \/ Crash(s)
    \/ Cancel(s) \/ View(s) \/ Age(s)

\* Requests and runs go on; time passes; somebody opens the conversation again.
Fairness == \A s \in Submits :
  WF_vars(Admit(s)) /\ WF_vars(Run(s)) /\ WF_vars(Age(s)) /\ WF_vars(View(s))

Spec == Init /\ [][Next]_vars /\ Fairness
-----------------------------------------------------------------------------
(* Properties *)

\* The turns that a person's submits inserted after they lost their lock.
Unguarded(u) == Of(u) \cap Rows \cap unlocked

\* "two simultaneous submits cannot both pass": a person's running turns stay
\* within the ceiling, but for at most one more for each turn whose admission
\* had settled a stale turn and so went on without its lock.
RunningCeiling == \A u \in Users :
  RunningOf(u) <= MaxRunning + Cardinality(Unguarded(u))

\* The same of the questions of a day.
DayCeiling == \A u \in Users :
  AskedBy(u) <= PerDay + Cardinality(Unguarded(u))

\* Two turns of a conversation only run at once when two people asked, or when
\* the admission of one of them had lost its lock.
OneAtATime == \A s, t \in Running :
  s # t /\ ConversationOf[s] = ConversationOf[t] =>
    UserOf[s] # UserOf[t] \/ s \in unlocked \/ t \in unlocked

\* The promise of AskedTurns: a question that is sent again is the same turn,
\* a turn ends once, and its asker is shown the answer that is stored.
Promise == INSTANCE AskedTurns WITH
  QuestionOf <- [s \in Submits |-> <<ConversationOf[s], KeyOf[s]>>],
  asked <- Rows, outcome <- status

KeepsPromise == Promise!Spec

\* Every admitted submit is answered or rejected, and its turn ends: by its
\* run, or when the conversation is opened after its worker died.
EveryTurnEnds == \A s \in Submits :
  pc[s] = "lock" ~> pc[s] \in Ended /\ status[s] # "running"
=============================================================================
