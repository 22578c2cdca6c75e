---------------------------- MODULE DocIndexQueue ----------------------------
(***************************************************************************)
(* The queue through which every knowledge document is indexed for         *)
(* retrieval (govern_doc_index_queue): one job row per document, upserted  *)
(* by whoever changes it, drained by a polling thread in every worker      *)
(* process, and refilled by a repair scan.  Requests commit the document   *)
(* first and enqueue it afterwards; workers die; the embedding provider    *)
(* fails, for some documents always; and the lock that is to serialize the *)
(* writers of a document is lost while its figures are being described.    *)
(***************************************************************************)
EXTENDS Naturals, FiniteSets

CONSTANTS
  Docs, Workers,
  Bad,          \* the documents that are never embedded: the provider
                \* always fails, they are blocked, or nothing is in them
  Pictured,     \* those with figures for a provider to describe
  Id,           \* the ids of the documents
  RepairLimit,  \* how many of them one repair enqueues
  Guarded,      \* whether the advisory lock of job_lock can be taken at all
  Batch,        \* _BATCH
  MaxAttempts,  \* _MAX_ATTEMPTS
  None,
  MaxVersions,  \* bounds how often each document is published,
  MaxMishaps    \* and what happens besides: failures, crashes, deletes ...

ASSUME QueueAssumption ==
  /\ IsFiniteSet(Docs) /\ Bad \subseteq Docs /\ Pictured \subseteq Docs
  /\ Id \in [Docs -> Nat] /\ RepairLimit \in Nat \ {0} /\ Guarded \in BOOLEAN
  /\ \A d, e \in Docs : Id[d] = Id[e] => d = e
  /\ Batch \in Nat \ {0} /\ MaxAttempts \in Nat \ {0}
  /\ None \notin Docs \cup Workers
  /\ MaxVersions \in [Docs -> Nat] /\ MaxMishaps \in Nat

VARIABLES
  live,      \* what each document is to be indexed as, its published text and
             \* its embedding profile, by number; 0: none, None: deleted
  index,     \* the version its chunks were made from, 0 for none
  job,       \* the state of its row in govern_doc_index_job
  attempts,  \* attempts of that row
  older,     \* the order of queued_at: the rows that were queued before each
  wiping,    \* what an uncommitted delete of the document has deleted so far
  asked,     \* documents committed by a request that has yet to enqueue them
  found,     \* documents the running repair has yet to enqueue
  lock,      \* the process that holds the advisory lock
  pc, todo, at, read, outcome,          \* the pass of each worker
  mishaps    \* counted only to bound them

rows == <<job, attempts, older>>
pass == <<pc, todo, at, read, outcome, lock>>
vars == <<live, index, rows, wiping, asked, found, pass, mishaps>>

Exists(d) == live[d] # None
Published(d) == Exists(d) /\ live[d] > 0

TypeOK ==
  /\ live \in [Docs -> Nat \cup {None}] /\ index \in [Docs -> Nat]
  /\ \A d \in Docs : /\ live[d] \in 0..MaxVersions[d] \cup {None}
                     /\ index[d] \in 0..MaxVersions[d]
  /\ job \in [Docs -> {"none", "queued", "running", "done"}]
  /\ attempts \in [Docs -> 0..MaxAttempts]
  /\ older \in [Docs -> SUBSET Docs]
  /\ wiping \in [Docs -> [index : Nat, row : BOOLEAN] \cup {None}]
  /\ asked \subseteq Docs /\ found \subseteq Docs
  /\ lock \in Workers \cup {None}
  /\ pc \in [Workers -> {"idle", "claim", "next", "embed", "unlocked", "finish"}]
  /\ todo \in [Workers -> SUBSET Docs]
  /\ at \in [Workers -> Docs \cup {None}]
  /\ read \in [Workers -> Nat]
  /\ outcome \in [Workers -> {"done", "queued"}]
  /\ mishaps \in 0..MaxMishaps

Init ==
  /\ live = [d \in Docs |-> 0] /\ index = live
  /\ job = [d \in Docs |-> "none"] /\ attempts = live
  /\ older = [d \in Docs |-> {}]
  /\ wiping = [d \in Docs |-> None]
  /\ asked = {} /\ found = {} /\ lock = None
  /\ pc = [w \in Workers |-> "idle"] /\ todo = [w \in Workers |-> {}]
  /\ at = [w \in Workers |-> None] /\ read = [w \in Workers |-> 0]
  /\ outcome = [w \in Workers |-> "done"]
  /\ mishaps = 0
-----------------------------------------------------------------------------
(* The requests.                                                           *)

Mishap == mishaps < MaxMishaps /\ mishaps' = mishaps + 1

\* Slip: embed_doc does not lock the document's row.
RowShared(d) == TRUE

\* embed_doc holds the document's row FOR UPDATE until its session commits.
RowFree(d) == \A w \in Workers : pc[w] = "embed" => at[w] # d

\* What an uncommitted delete has locked is waited for: the job row ...
JobFree(d) == wiping[d] # None => ~wiping[d].row

\* ... and the chunks.
ChunksFree(d) == wiping[d] # None => wiping[d].index = 0

\* queued_at = NOW(): d comes after all others; a row that goes leaves the order.
HasRow == {d \in Docs : job[d] # "none"}
Without(d) == [e \in Docs |-> older[e] \ {d}]
ToBack(d) == older' = [Without(d) EXCEPT ![d] = HasRow \ {d}]

\* Slip: a row that is being worked on is left as it is.
UpsertUnlessRunning(d) ==
  IF job[d] = "running" THEN UNCHANGED rows
  ELSE /\ job' = [job EXCEPT ![d] = "queued"]
       /\ attempts' = [attempts EXCEPT ![d] = 0]
       /\ ToBack(d)

\* enqueue: one row per document, new work whatever it was doing before.
Upsert(d) ==
  /\ job' = [job EXCEPT ![d] = "queued"]
  /\ attempts' = [attempts EXCEPT ![d] = 0]
  /\ ToBack(d)

\* publish_version, a first publishing save or a source sync commits ...
Publish(d) ==
  /\ Exists(d) /\ live[d] < MaxVersions[d] /\ RowFree(d) /\ wiping[d] = None
  /\ live' = [live EXCEPT ![d] = @ + 1]
  /\ asked' = asked \cup {d}
  /\ UNCHANGED <<wiping, index, rows, found, pass, mishaps>>

\* ... a reset changes the embedding profile and wipes the index first ...
Reset(d) ==
  /\ Exists(d) /\ RowFree(d) /\ ChunksFree(d) /\ Mishap
  /\ live[d] = 0 \/ live[d] < MaxVersions[d]
  /\ live' = [live EXCEPT ![d] = IF @ = 0 THEN 0 ELSE @ + 1]
  /\ index' = [index EXCEPT ![d] = 0]
  /\ asked' = asked \cup {d}
  /\ UNCHANGED <<wiping, rows, found, pass>>

\* ... and then enqueues, in a transaction of its own.
Enqueue(d) ==
  /\ d \in asked /\ asked' = asked \ {d}
  /\ JobFree(d) /\ Upsert(d)
  /\ UNCHANGED <<wiping, live, index, found, pass, mishaps>>

\* The enqueue fails and is swallowed, or its process dies.
LoseRequest(d) ==
  /\ d \in asked /\ asked' = asked \ {d} /\ Mishap
  /\ UNCHANGED <<wiping, live, index, rows, found, pass>>

\* delete_knowledge_doc deletes the chunks and the job row that it sees, ...
DeleteRows(d) ==
  /\ Exists(d) /\ wiping[d] = None /\ Mishap
  /\ wiping' = [wiping EXCEPT ![d] = [index |-> index[d],
                                        row |-> job[d] # "none"]]
  /\ UNCHANGED <<live, index, rows, asked, found, pass>>

\* ... waits for the document's row, deletes it and commits.  Chunks that were
\* written since, and a job row that was not there, stay behind.
DeleteCommit(d) ==
  /\ wiping[d] # None /\ RowFree(d)
  /\ wiping' = [wiping EXCEPT ![d] = None]
  /\ live' = [live EXCEPT ![d] = None]
  /\ index' = [index EXCEPT ![d] = IF @ = wiping[d].index THEN 0 ELSE @]
  /\ IF wiping[d].row
       THEN /\ job' = [job EXCEPT ![d] = "none"]
            /\ older' = [Without(d) EXCEPT ![d] = {}]
       ELSE UNCHANGED <<job, older>>
  /\ UNCHANGED <<attempts, asked, found, pass, mishaps>>

\* It is the victim of a deadlock with embed_doc, or dies.
DeleteFails(d) ==
  /\ wiping[d] # None /\ wiping' = [wiping EXCEPT ![d] = None]
  /\ UNCHANGED <<live, index, rows, asked, found, pass, mishaps>>

\* Nothing is left for the queue to do.
Quiet ==
  /\ \A w \in Workers : pc[w] \in {"idle", "claim"}
  /\ \A d \in Docs : job[d] = "queued" => attempts[d] >= MaxAttempts

\* stale_index_docs: the published documents whose index is not theirs.
Stale == {d \in Docs : Published(d) /\ index[d] # live[d]}

\* sorted(stale)[:limit]
LowestOf(S) == {d \in S : Cardinality({e \in S : Id[e] < Id[d]}) < RepairLimit}

\* repair_stale_index takes the first of them (a scan that meets a queue still
\* at work counts as a mishap)
RepairScan ==
  /\ found = {} /\ Stale # {}
  /\ IF Quiet THEN UNCHANGED mishaps ELSE Mishap
  /\ found' = LowestOf(Stale)
  /\ UNCHANGED <<wiping, live, index, rows, asked, pass>>

\* and enqueues them one after the other.
RepairEnqueue(d) ==
  /\ d \in found /\ found' = found \ {d}
  /\ IF Exists(d) THEN JobFree(d) /\ Upsert(d) ELSE UNCHANGED rows
  /\ UNCHANGED <<wiping, live, index, asked, pass, mishaps>>
-----------------------------------------------------------------------------
(* The worker.                                                             *)

\* Slip: a row that has used up its attempts is claimed again.
ReadyUnbounded == {d \in Docs : job[d] = "queued"}

\* The queued rows that have attempts left, locked ones skipped ...
Ready == {d \in Docs : job[d] = "queued" /\ attempts[d] < MaxAttempts /\ JobFree(d)}

\* ... and the oldest of them.
NextBatch == {d \in Ready : Cardinality(older[d] \cap Ready) < Batch}

Unlock(w) == lock' = IF lock = w THEN None ELSE lock

\* _pass: something is queued and the lock is free, or cannot be had at all.
Poll(w) ==
  /\ pc[w] = "idle" /\ \E d \in Docs : job[d] = "queued"
  /\ IF Guarded THEN lock = None /\ lock' = w ELSE UNCHANGED lock
  /\ pc' = [pc EXCEPT ![w] = "claim"]
  /\ UNCHANGED <<wiping, live, index, rows, asked, found, todo, at, read, outcome,
                 mishaps>>

\* _claim
Claim(w) ==
  /\ pc[w] = "claim"
  /\ job' = [d \in Docs |-> IF d \in NextBatch THEN "running" ELSE job[d]]
  /\ attempts' = [d \in Docs |-> IF d \in NextBatch THEN attempts[d] + 1
                                 ELSE attempts[d]]
  /\ todo' = [todo EXCEPT ![w] = NextBatch]
  /\ IF NextBatch = {} THEN pc' = [pc EXCEPT ![w] = "idle"] /\ Unlock(w)
     ELSE pc' = [pc EXCEPT ![w] = "next"] /\ UNCHANGED lock
  /\ UNCHANGED <<wiping, live, index, older, asked, found, at, read, outcome,
                 mishaps>>

\* drain takes the next document; embed_doc locks its row and reads what is
\* live.  One that was deleted while queued is done.
Begin(w, d) ==
  /\ pc[w] = "next" /\ d \in todo[w]
  /\ todo' = [todo EXCEPT ![w] = @ \ {d}] /\ at' = [at EXCEPT ![w] = d]
  /\ IF Exists(d)
       THEN /\ RowFree(d) /\ pc' = [pc EXCEPT ![w] = "embed"]
            /\ read' = [read EXCEPT ![w] = live[d]] /\ UNCHANGED outcome
       ELSE /\ pc' = [pc EXCEPT ![w] = "finish"]
            /\ outcome' = [outcome EXCEPT ![w] = "done"] /\ UNCHANGED read
  /\ UNCHANGED <<wiping, live, index, rows, asked, found, lock, mishaps>>

\* describe_figures has had figures described and records that: log_egress
\* commits the session, and the row lock of embed_doc is gone with it.  What
\* was read of the document is kept.
Describe(w) ==
  /\ pc[w] = "embed" /\ at[w] \in Pictured /\ index[at[w]] # read[w]
  /\ pc' = [pc EXCEPT ![w] = "unlocked"]
  /\ UNCHANGED <<wiping, live, index, rows, asked, found, todo, at, read, outcome,
                 lock, mishaps>>

Embedding(w) == pc[w] \in {"embed", "unlocked"}

\* The chunks are replaced in one transaction, or are already those; those of
\* a document that is blocked or empty are removed ...
Embedded(w) ==
  /\ Embedding(w) /\ Exists(at[w])
  /\ pc[w] = "unlocked" => RowFree(at[w])
  /\ ChunksFree(at[w]) \/ (index[at[w]] = read[w] /\ pc[w] = "embed")
  /\ pc' = [pc EXCEPT ![w] = "finish"]
  /\ index' = [index EXCEPT ![at[w]] = IF at[w] \in Bad THEN 0 ELSE read[w]]
  /\ read' = [read EXCEPT ![w] = 0] /\ outcome' = [outcome EXCEPT ![w] = "done"]
  /\ UNCHANGED <<wiping, live, rows, asked, found, todo, at, lock, mishaps>>

\* What breaks an embedding off whatever the provider does: a deadlock with a
\* delete or with another writer, and a document that is gone.
Disturbed(w) ==
  \/ ~Exists(at[w]) \/ ~ChunksFree(at[w])
  \/ \E v \in Workers \ {w} : Embedding(v) /\ at[v] = at[w]

\* ... or the embedding fails: the old ones stay and the job is retried.
NotEmbedded(w) ==
  /\ Embedding(w)
  /\ IF at[w] \in Bad \/ Disturbed(w) THEN UNCHANGED mishaps ELSE Mishap
  /\ pc' = [pc EXCEPT ![w] = "finish"]
  /\ read' = [read EXCEPT ![w] = 0]
  /\ outcome' = [outcome EXCEPT ![w] = "queued"]
  /\ UNCHANGED <<wiping, live, index, rows, asked, found, todo, at, lock>>

\* _finish writes the outcome, whatever has become of the row.
Finish(w) ==
  /\ pc[w] = "finish" /\ JobFree(at[w])
  /\ job' = [job EXCEPT ![at[w]] = IF @ = "none" THEN @ ELSE outcome[w]]
  /\ at' = [at EXCEPT ![w] = None] /\ outcome' = [outcome EXCEPT ![w] = "done"]
  /\ IF todo[w] = {} THEN pc' = [pc EXCEPT ![w] = "idle"] /\ Unlock(w)
     ELSE pc' = [pc EXCEPT ![w] = "next"] /\ UNCHANGED lock
  /\ UNCHANGED <<wiping, live, index, attempts, older, asked, found, todo, read,
                 mishaps>>

\* The process dies; its session, and with it the lock, ends.
Crash(w) ==
  /\ pc[w] # "idle" /\ Mishap
  /\ pc' = [pc EXCEPT ![w] = "idle"] /\ todo' = [todo EXCEPT ![w] = {}]
  /\ at' = [at EXCEPT ![w] = None] /\ Unlock(w)
  /\ read' = [read EXCEPT ![w] = 0] /\ outcome' = [outcome EXCEPT ![w] = "done"]
  /\ UNCHANGED <<wiping, live, index, rows, asked, found>>

Work(w) ==
  \/ Poll(w) \/ Claim(w) \/ Describe(w) \/ Embedded(w) \/ NotEmbedded(w)
  \/ Finish(w) \/ \E d \in Docs : Begin(w, d)

Next ==
  \/ \E w \in Workers : Work(w) \/ Crash(w)
  \/ \E d \in Docs : \/ Publish(d) \/ Reset(d) \/ Enqueue(d) \/ LoseRequest(d)
                     \/ DeleteRows(d) \/ DeleteCommit(d) \/ DeleteFails(d)
                     \/ RepairEnqueue(d)
  \/ RepairScan

Spec == Init /\ [][Next]_vars

(* The threads keep polling, a request that committed goes on to enqueue,  *)
(* and the repair runs every day (GOVERN_INDEX_AUTO_REPAIR is on).         *)
FairSpec ==
  /\ Spec /\ WF_vars(RepairScan)
  /\ \A w \in Workers : WF_vars(Work(w))
  /\ \A d \in Docs : /\ WF_vars(Enqueue(d)) /\ WF_vars(RepairEnqueue(d))
                   /\ WF_vars(DeleteCommit(d) \/ DeleteFails(d))
-----------------------------------------------------------------------------
(* Retrieval never goes back to an older edition of a document: what       *)
(* becomes searchable is newer than what was, and is the edition that is   *)
(* live at that moment (embed_doc: "Without this lock ... can finish out   *)
(* of order").  Only a worker that has lost the row lock may write an      *)
(* edition that is no longer live, and it goes back only if another worker *)
(* can be on the document, which the advisory lock rules out.              *)
IndexAdvances ==
  [][\A d \in Docs : index'[d] \notin {0, index[d]} =>
       \E w \in Workers :
         /\ at[w] = d /\ Embedding(w) /\ pc'[w] = "finish"
         /\ pc[w] = "embed" => index'[d] > index[d] /\ index'[d] = live[d]
         /\ Guarded => index'[d] > index[d]]_vars

(* While the advisory lock can be had, one worker at most is at work on    *)
(* the queue, through crashes too (job_lock).                              *)
OnePass == Guarded =>
  \A v, w \in Workers : pc[v] # "idle" /\ pc[w] # "idle" => v = w

(* A pass takes the oldest jobs there are, as many as fit into a batch: no *)
(* document is passed over for a younger one (_claim: "ORDER BY queued_at  *)
(* LIMIT").                                                                *)
ClaimsOldest ==
  /\ \A d \in NextBatch : older[d] \cap Ready \subseteq NextBatch
  /\ Cardinality(NextBatch) <= Batch
  /\ Cardinality(NextBatch) < Batch => NextBatch = Ready

(* Those of which the documents in B do not fill every repair.             *)
WithinReach(d, B) ==
  Cardinality({e \in B : Published(e) /\ Id[e] < Id[d]}) < RepairLimit

(* Once people leave it alone every published document that can be         *)
(* embedded is searchable as it is, though requests were lost, workers     *)
(* died holding jobs, an older edition was written last, the provider      *)
(* failed, and other documents stay stale for ever, as long as these are   *)
(* fewer than a repair takes (drain: "one bad document must not stop the   *)
(* queue behind it").                                                      *)
IndexCatchesUp ==
  <>[](\A d \in Docs \ Bad :
         Published(d) /\ WithinReach(d, Bad) => index[d] = live[d])

(* A library is repaired "over several passes" however many of its         *)
(* documents stay stale (repair_stale_index).  The code does not keep this *)
(* (see README).                                                           *)
LibraryHeals == <>[](\A d \in Docs \ Bad : Published(d) => index[d] = live[d])

(* No writer leaves an edition that is not live: "Without this lock, a     *)
(* reset to model B and a scheduled sync still running on model A can      *)
(* finish out of order" (embed_doc).  The code does not keep this, for the *)
(* lock is lost (see README).                                              *)
WritesWhatIsLive ==
  [][\A d \in Docs : index'[d] \notin {0, index[d]} => index'[d] = live[d]]_vars

(* A job that says 'done' is of the edition that is live: "the worker      *)
(* started from a snapshot that no longer includes the newest edit, so the *)
(* work has to happen again rather than be assumed complete" (enqueue).    *)
(* The code does not keep this (see README).                               *)
DoneMeansCurrent ==
  \A d \in Docs : job[d] = "done" /\ Published(d) /\ d \notin asked
                    => index[d] = live[d]
=============================================================================
