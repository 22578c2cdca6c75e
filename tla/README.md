# AppBI: a verification project

TLA+ modules, TLC configurations and TLAPS proofs kept beside AppBI, a governed
business-intelligence platform. They are about the part of the backend
(`src/backend/app`) that is hardest to test: what several worker processes do to
shared rows when they interleave, die, retry and time out.

All paths below are relative to `src/backend/app/`; `services/` is left out where
it is plain from the name.

1. [The system](#1-the-system): inventory
2. [The modules and the code](#2-the-modules-and-the-code)
3. [The runs](#3-the-runs): what is checked, bounds, fairness, what was found
4. [The proofs](#4-the-proofs)
5. [What is only model-checked, and what is not modelled](#5-what-is-only-model-checked-and-what-is-not-modelled)
6. [The plan](#6-the-plan)
7. [How to run it](#7-how-to-run-it)

## 1. The system

The backend is a FastAPI application run as **several uvicorn workers** over one
PostgreSQL database. The workers also share a small **SQLite file**
(`query_cache`), which holds cached results, *leases* (a row with an expiry and
no owner) and mirrors of progress and Stop flags. Each worker runs request
threads, background threads (rebuilds, a publish and its heartbeat, the
knowledge-index worker, the cancel watcher) and schedulers that elect one
process with a PostgreSQL advisory lock (`core/scheduler_lock`). A separate
process renders PDFs; the Next.js front end and an MCP server are clients of the
HTTP API.

Data flows through five layers: data sources, then datasets with a semantic model,
then knowledge and AI, then outputs (dashboards, Explore, the AI bot, Workboards),
then activation (MCP, public links, embedding, PDF). Governance and observability
cut across them.

| Component | State it keeps | Operations | What is hard | What makes it correct |
|---|---|---|---|---|
| Writer exclusion (`dataset_publish_service`, `snapshot_service`, `query_cache`, `sync_progress`) | two leases per dataset in SQLite, a registry and a mutex per worker, refresh-run rows, progress records | start a Sync & Publish, a TTL rebuild, a source check, the legacy Refresh; poll; reconcile; reap at startup | leases have no owner, are tested by taking them, and run out; crashes; records of one worker judged by another | one writer per dataset; a live run is never failed; an orphan is settled; nobody waits for ever |
| Sync & Publish (`dataset_publish_service`, `snapshot_service`, `sync_control`) | snapshot rows and physical tables, generations, the published pin and its design, `publish_state` | build, resume, reuse, stop, validate, compare the design, pin, collect, invalidate, reap | edits, Stop and crashes during a sync; tables shared by generations; resumption of judged work | what is served is complete, exists, does not change and was built from the design it is pinned with |
| Knowledge index queue (`govern_doc_index_queue`, `govern_doc_index_worker`, `govern_doc_embeddings`, `governance_service`) | documents, chunks, one job row per document | publish, reset, delete, enqueue, claim, embed, finish, repair | enqueue after commit; two workers on one document; lost jobs; a document that always fails | the index never goes back to an older edition and catches up |
| Governed-read ledger (`governed_query/`) | one row per query in `governed_query_executions` | begin under budgets, run, finish, cancel, heartbeat, recover | concurrent begins; midnight; late finish against recovery; lost commits | budgets, single use of consents, first terminal write wins, every query ends |
| Chat turns (`chat/orchestrator`, `chat/conversations`) | conversations, numbered turns, idempotency keys | submit, run, finish, cancel, expire | ceilings counted under a lock that a commit gives back; retries; late answers | a question becomes one turn, which ends once and whose stored answer is the one shown; ceilings hold |
| Public answer turns (`answer_core/public_turn`) | turns per public link | the same, per link | expiry inside the open transaction, so a row can be ended for one request and running for the others | the same |
| AI cost gateway (`ai_runtime/gateway`) | reservations in USD | authorize, settle, release | several threads authorize at once; a moving window of 24 hours; lost answers, dead workers, a call that costs more than reserved | what providers bill stays within each ceiling, up to what no worst case foresaw |
| Export jobs (`pdf_export_service`, `scripts/pdf_worker`) | jobs, attempts, files | create, claim, heartbeat, complete, fail, cancel, clean up | lease expiry, cancel against completion | one worker per job, what is downloaded is a whole file, and no job waits for ever |
| Query cache and coalescing (`query_cache`) | results, in-flight markers | get, set, coalesce, invalidate | leader dies, follower takes over, invalidation during a computation | a result from before an invalidation is not served after it |
| Composition (`dataset_composition_service`) | parents and their pinned generations | pin, cascade `changes_pending` | a parent republished while a child builds | a child is served with the generations it was built on |
| Provider breaker (`dashboard_ai_bot/providers/breaker`) | failures, open until | record, allow | one probe at a time when half open | it does not stay half open |
| Semantic engine, join resolver, planners (`semantic_*`, `per_measure_*`) | none | compile a request to SQL | fan-out, role ambiguity | no measure is counted twice |
| Charts, live queries, filters (`chart_service`, `live_query_service`, `filter_*`) | none | merge filters, query | precedence of filter layers | no filter of a stronger layer is lost |
| Dataset model, quality, calendar | authored design | edits | (an edit is an action of Sync & Publish) | |
| Data sources, connectors, manual assets | connections, files | query, load, upload | external input and output | |
| Governance documents and their sources | versions | edit, publish, sync | (publication is an action of the index queue) | |
| Knowledge retrieval, AI bot, data core | none beyond a request | answer | quality of text | |
| Agent flows (`agent_flows/`) | flows, versions, runs | publish, dispatch, execute nodes under limits | budgets inside one request, fallback | a run ends within its limits |
| Workboards (`modules/workboards`) | screens, rows, sync runs, presence | write, webhook sync, push | version checks; cancel of a sync; restart | no lost update; a sync run is settled |
| Dashboards, public links, embedding, auth, sharing, tokens | rows | one transaction per request | | |
| Observability, anomalies, notifications | incidents | periodic jobs | | |
| MCP, front end, migrations, deployment | | | | |

How the modelled parts touch each other:
- Sync & Publish (`DatasetPublish`) runs *inside* the exclusion of `WriterLeases`,
  between `BeginPublish` and `SettlePublish`.
- A chat turn (`ChatTurns`) and a turn of a public link (`PublicTurns`) are the same
  promise (`AskedTurns`) kept by two different admissions. While they run the Data
  Core (`Core`), every paid call is one of `AiGateway`'s and every read of governed
  data is one of `GovernedLedger`'s; a Stop reaches both through rows in Postgres,
  and none of the three waits for another's lock.
- `ReportCache` and `WriterLeases` use the same SQLite table of claims without an
  owner (`live_query_inflight`) under different keys; both models take its atomic
  INSERT, its DELETE by key and its expiry as the whole of that interface.
- The index queue and the export queue share only the database with the rest.

`PROJECT.json` lists every component with its files, and under `hazards` the
places in the code that are hard to test, with the properties that watch them.

## 2. The modules and the code

| Module | About | Extended by |
|---|---|---|
| `WriterLeases` | who may build the tables of one dataset | `MCLeases`, `WriterLeasesProofs` |
| `DatasetPublish` | what one Sync & Publish does | `MCPublish`, `PublicationProofs` |
| `DocIndexQueue` | the knowledge-index queue | `MCDocIndex`, `DocIndexQueueProofs` |
| `AuditLedger` | what the audit ledger promises | instantiated by `GovernedLedger` |
| `GovernedLedger` | the audit ledger of governed reads | `MCLedger`, `GovernedLedgerProofs` |
| `AskedTurns` | what a question to the AI promises | instantiated by `ChatTurns` and `PublicTurns` |
| `ChatTurns` | the turns of signed-in conversations | `MCChat`, `ChatTurnsProofs` |
| `PublicTurns` | the turns of public links | `MCPublic`, `PublicTurnsProofs` |
| `AiGateway` | reservations for paid model calls | `MCGateway`, `AiGatewayProofs` |
| `ExportJobs` | the PDF export queue and its workers | `MCExport`, `ExportJobsProofs` |
| `ReportCache` | the cached structure of public reports | `MCReport`, `PublicationProofs` |

Every definition that models code is listed in `PROJECT.json` ("map") with the
lines it stands for. A definition marked `Slip` is a plausible mistake in the
definition that follows it; it is not part of the model and is used only to make
sure that each property would notice such a mistake.

### WriterLeases

One dataset; `Jobs` are threads that do one piece of work after the other, on the
worker `Home[j]`, of the kinds `Kinds[j]`. `pc[j]` is the place in the code and
`kind[j]` the work:
Sync & Publish (`start_sync_and_publish`), a TTL rebuild (`trigger_async_refresh`),
a source-change check (`schedule_source_change_check`), the legacy Refresh
(`start_manual_refresh`), and the two polls that *test* a lease
(`datasets_rebuilding`, `reconcile_stuck_runs`).

- `lease` is the pair of rows `datasetpublish::<id>` and `snaprebuild::<id>` of
  `live_query_inflight`. `Claim` is the atomic INSERT, `Release` the DELETE by
  key, which needs no ownership. `is_claimed_global` claims for a second and
  releases, so a test is two steps (`ProbeRebuild`/`ProbedRebuild`, ...), and
  in between it can refuse somebody else: this is in the model.
- A row past its expiry goes away (`Lapse`). A dead holder's always may; a live
  holder's only at the places in `LapsableAt`. The publish lease is renewed by a
  heartbeat; a rebuild's is not, and lasts a fixed time (`snapshot_service`,
  line 1788). `Unleased` are the rebuilds that have outlived theirs: their row may be
  somebody else's by then, and their end deletes it all the same.
- The end of a sync is four steps, each a commit or a write of its own:
  `ConcludePublish` (the state of the dataset), `ReportPublish` (the progress record),
  `SettlePublish` (the run row), `EndPublish` (the lease). That of a rebuild is
  `SettleRebuild`, `ReportRebuild`, `GiveSlotBack`, `EndRebuild`, and its start
  `OpenRebuild` and then `BeginRebuild`.
- `HandOff` is the click that waits for a source check to give the lease back. The ten
  seconds it retries for are not timed: it may give up at any moment, so that no
  property says of a click that it is served.
- `inflight` and `mutex` are the worker's `_async_refresh_inflight` and
  `_async_refresh_lock`; the mutex is held across the claims, as in
  `_reserve_rebuild_slot`.
- `runs`, `seen`, `progress`, `mirror` are the running refresh rows, the rows a
  reader of the history loaded, and the two copies of `sync_progress`, of which a
  worker prefers its own (`sync_progress.get`).
- The history is read (`ReadHistory`), the lease tested (`ProbeHistory`,
  `ProbedHistory`), the record looked at (`Judge`) and the rows failed (`Reconcile`) in
  steps of their own.
- `Crash`, then `ReapRead`, `ReapLease`, `ReapSync` (`reap_stuck_syncs`) and `SweepLoad`,
  `SweepLease`, `SweepRuns` (the reconciler at startup) are a restart, with other workers
  between each two of them.

### DatasetPublish

One dataset and one sync at a time (WriterLeases), with its tables built in
parallel threads (`BuildStart`, `Reuse`, `BuildDone`, `BuildFail`). `rows` is
`dataset_table_snapshots` without the retired rows: table, generation, the load
(`at`) that made its physical table, the design it was built from (`fp`), ready
or superseded. `physical` is the set of tables that exist in the warehouse.
`Choose` is `_resumable_generation`, which may pass over a newer resumable generation
for its age or its sources, so that any of them may be resumed, or none; `Plan` keeps what
is ready in the generation and fails tables whose source drifted; `EndBuild` and `Retire` are
`gc_dataset_snapshots` in its two effects, the DROPs and the later commit, which may
fail and be rolled back while the sync goes on (`"retire"` in `RaisesDuring`);
`Validate`, `CheckDesign`, `Pin`, `Settle` are the rest of
`_sync_and_publish_blocking` and its bookkeeping. Around it: `Edit` and its
`Invalidate`, `RefreshState` (`refresh_publish_state`, by any reader),
`RequestStop`, `Raise` (at any place in `RaisesDuring`), `Crash`, `Reap`. Time is abstracted to the order of the
syncs: the collector's grace period is "anything built by sync `old` or before",
for any `old`, and whether a generation is too old to resume is a choice.

### DocIndexQueue

`live` numbers what each document is to be indexed as (its published edition and its
embedding profile), `index` what its chunks were made from. A request commits a document
(`Publish`; `Reset`, which changes the profile and removes the chunks) and
enqueues it afterwards (`Enqueue`), or loses the request in between. A deletion
deletes chunks and job row first, then waits for the document's row
(`DeleteRows`, `DeleteCommit`). The worker's pass is `Poll`, `Claim`, `Begin`,
`Embedded`/`NotEmbedded`, `Finish`. `older` is the order of `queued_at`: for every
document the rows that were queued before its own; `NextBatch` are the `Batch` oldest of
the rows that can be claimed (`Ready`).

Two locks are to keep the writers of a document apart, and both can be missing:
- `embed_doc` takes the document's row FOR UPDATE (`Begin`) and means to hold it until the
  chunks are replaced (`RowFree`). For a `Pictured` document, one that may be sent out in
  full and has figures without text, `ensure_ast` has them described on the way, and
  `log_egress` *commits the same session* (`govern_doc_embeddings`, line 458): the lock is
  gone, what was read is kept (`Describe`, place "unlocked"). From then on a publication, a
  reset, a deletion or a second worker can come in between, and `Embedded` writes what was
  read before them.
- `Guarded` is FALSE when the advisory lock of `job_lock` cannot be taken at all and
  the job runs without it, as that code does when the lock service fails.

`Bad` documents are those that never get an index: the provider fails for them, or they are
blocked or empty, in which case the job is `done` and the chunks are removed. All of them
stay stale. `RepairScan` is `repair_stale_index`: it takes the `RepairLimit` stale documents with
the *lowest* ids (`LowestOf`), and `RepairEnqueue` enqueues them one by one.

### GovernedLedger and AuditLedger

`Open`, `Lock`, `Count`, `Insert` are the transaction of `PostgresLedger.begin`:
its locks are taken one by one in the order of the numbers the scopes hash to
(`Rank`), the budgets are counted, the running row is inserted. `Insert` also
covers the commit whose acknowledgement is lost. `RecordRefusal` is the refused
row written in a second transaction. `Start`, `NotStarted`, `Return`, `Finish`,
`FinishFails` are `GovernedQueryService.execute`/`_run` and `finish`. `CancelRun`
marks rows; `Tick` is the watcher of a worker that renews the leases of the
queries it runs and reads which of them are marked (`told`), and `CancelTold` cancels
those one after the other, while their statements end or do not; `Recover` abandons a row that was
not renewed in time, *whether or not* its worker lives. `day` is the day of
`started_at`, which is when the transaction began; `NewDay` may fall anywhere.

`AuditLedger` keeps three things of each query: the status of its row, whether
its statement was sent, whether it was answered. Its three steps say that a
statement is sent at most once and only after the row was written, that a
terminal row never changes, and that an answer is given only by the write that
ends the row as ok. The refinement mapping is the identity on `status`,
`executed`, `answered`.

### AskedTurns, ChatTurns and PublicTurns

`AskedTurns` keeps three things of a question: which of its sends became a turn
(`asked`), how that turn stands (`outcome`), and what each send was shown. It says
that a question becomes at most one turn however often it is sent, that a turn ends
once, and that a send is shown the stored outcome, or that something failed. Both
detailed modules map `asked` to the rows that exist and `outcome` to `status`.

`ChatTurns`: one submit is one HTTP request, and `pc[s]` is its place in
`orchestrator.begin`, `run` and `conversations`. `Lookup` is the search for the
idempotency key, made before any lock. `Lock` takes `pg_advisory_xact_lock` for the
person and reads the stale turns of the conversation. `Settle` ends one of them
through `finish`, which *commits*: the lock belongs to the transaction and is gone,
so `Settle` releases it, and `unlocked` remembers that the rest of this admission is
unguarded. `CheckConversation`, `CheckDay`, `CheckRunning`, `Number` and `Insert` are the
rest of `begin` in its order, each with a statement of its own; `Insert` meets the two unique keys of the table (`Clash`) and
then resolves to the turn that was first. `Core`, `Answer`, `RunBreaks` are `run`:
the answer is written by one conditional UPDATE (`Finish`), and a run that lost
answers what is stored. `Cancel`, `View` and `Age` are Stop, a reader of the
conversation who settles stale turns, and the passing of
`AI_CHAT_TURN_STALE_SECONDS`. A behaviour lies within 24 hours, so that the questions
of a day are all the rows.

`PublicTurns` is the same machine under a link's lock, with the difference that
matters: its `expire_stale` does *not* commit. Stale turns are set to failed inside the
admission's transaction (`expired`), where its own reads see them ended (`Seen`) and
their rows are locked for everybody else (`Finish` waits for them); they end with
`Insert`, or come back with `Rollback`. `ExpireFails` is the failed UPDATE, after which
`begin` goes on with a new transaction and no lock. A repeated send waits for its turn
(`Poll`) and gives up after four minutes (`GiveUp`). What a link spent or was
asked this hour may refuse a turn too, by a choice (`CheckLink`).

### AiGateway

A call bills a set of accounts (`AccountsOf`): everything, a person, a link, a turn.
`Open` reads the clock (`since`, the beginning of the window of 24 hours) *before*
`Lock`; `Check` is one statement, which adds up what counts of one account towards one of
its ceilings and compares with the worst case of this call (`left` are the checks still
to make); `Insert` writes the reservation and commits. `Free` is about one holder,
since the sorted keys of every call begin with `ai:global`: no call ever waits
for the locks after it. `Send` chooses what the provider bills and whether its report
arrives; a bill may exceed the worst case, and is then known. `NotSent` is the
refused connection, after which the reservation is freed; `Settle` writes what was
reported, or the worst case; a report of no tokens is none. `LedgerFails`, `SettleFails` and `Crash` are the failures
in between. Accounts of turns have no window and also a number of calls.

### ExportJobs

`status`, `attempts`, `fresh` (a heartbeat within the lease), `path`, `expired` are
columns of the job, `file` its bytes on disk: all workers write the same
`{job.id}.pdf`, and opening it truncates it. A worker claims (`Claim`: one statement
with FOR UPDATE SKIP LOCKED), and before each page looks for a Stop (`Check`) and
writes a heartbeat (`Beat`), renders (`Render`), merges and writes
(`Open`, `Flush`), completes (`Complete`). `seen` is the job as its session last
loaded it: `Fail` decides by that copy whether attempts are left, and writes a column
only where it differs from it. Neither `Complete` nor `Fail` asks whose job it is.
`Lapse` is the missed lease, of a dead worker or of a live one whose page takes
long; `lapsed` records the second. `CleanupFiles` deletes the files of a batch of expired
jobs and `CleanupRows` commits that they are gone.

### ReportCache

`cache` is the structure stored under a report's token, `claimed` the row of the
in-flight table, `edition` the version in Postgres, `loaded` what a view that builds
has read of it. A view looks (`Look`), claims
(`Claim`), waits (`Poll` reads the result, and when there is none a second step tries
the claim; a read may fail), gives up (`GiveUp`:
builds *without* a claim), loads the dashboard (`Load`), stores what it made
(`Store`) and deletes the claim (`End`), whoever made it. `Publish` commits and
`Drop` empties the cache afterwards, or `DropFails`. `visible`, `raced`, `must` and
`overrun` are history: the latest publish that emptied the cache, builds
that were under way then, what was visible when a view began, and whether
somebody built without a claim since the last moment nobody did.


## 3. The runs

| Run | Shows | Bounds |
|---|---|---|
| `leases_safety` | `OneWriter`, `OnePublisher`, `OneRebuilderPerWorker`, `LiveSyncStaysOpen` | three jobs, two of them on one worker, each of every kind but the legacy Refresh; rebuilds may outlive their lease; no crash |
| `leases_recovery` | `OrphanSettles`, `JobsEnd` | three jobs, two of them on one worker and after its mutex, with a share of the kinds each; rebuilds may outlive their lease; one crash |
| `leases_manual_refresh` | `OneWriter` fails with the legacy Refresh | three jobs, no crash |
| `publish_safety` | `PublishedServable`, `OneCurrent`, `RefusedNotServed`, `PublishedFrozen`, `PinnedUnjudged`, `PinnedAsDesigned`, `SyncSettles` | two tables, three syncs, one edit, one Stop, one crash; exceptions anywhere but inside the collector |
| `publish_resumed_design` | `ServedAsDesigned` fails | two syncs, one Stop, one edit between them |
| `doc_index` | `IndexAdvances`, `IndexCatchesUp` | two documents (the one with the lower id never embeds, the other has figures), repairs of two, two workers, two attempts, no advisory lock, three publications, one mishap |
| `ledger_budgets` | `Budgets` (per run, day and source), `BytesBudget`, `ConsentOnce`, `CancelledWasAsked`, `KeepsPromise`, `EveryQueryEnds` | three queries, two workers, two sources, two days, one mishap |
| `chat_turns` | `OneAtATime`, `KeepsPromise`, `EveryTurnEnds` | three sends of one person in one conversation, two of them the same question; ceilings of two; one mishap |
| `public_turns` | `LinkCeiling`, `KeepsPromise`, `EverySubmitEnds` | four sends by two viewers of a link that may run one turn, one a retry; one mishap |
| `ai_gateway` | `CeilingsHold`, `TurnCalls`, `NeverFree` | three calls of one turn and a dearer one of another; two mishaps or ticks |
| `export_jobs` | `OneRenderer`, `ServedWhole`, `JobsEnd` | two jobs of two pages, two workers, two attempts, two mishaps |
| `report_cache` | `OneBuild`, `NextViewNew`, `OldGoes` | three views, two publishes, one mishap |

`TypeOK` is checked where it is listed in the run's cfg; for the other modules it is a
theorem only.

**Why the bounds are enough.** *Leases*: exclusion is between two holders, and a
third job is what can take or free a lease between two steps of the others; two
jobs share a worker (its mutex and registry) and one is elsewhere. With a crash the
kinds are shared out so that the liveness check stays feasible: the first worker has a
thread that publishes, refreshes the legacy way or opens the history, and one that rebuilds,
so that both want its mutex while leases held elsewhere send them back; the second worker
publishes and opens the history. *Publish*: two
tables are needed for a generation of which only a part is new; three syncs for
one that publishes, one that is interrupted or refused and one that resumes; the
collector keeps two complete generations, so the third sync can retire. Edits may
land at every place of a sync but between the comparison and the pin; crashes and
exceptions at every place but inside the collector. Those two windows are in the model and
are left out of the run by `EditsDuring`, `CrashesDuring` and `RaisesDuring`. Designs only move forward
(`Reverts = FALSE`): the code compares hashes, and
an edit that is undone before the comparison is not noticed, which is a listed
hazard. *Index*: two workers are needed for two embeddings of one document, two
documents for a failing one that must not hold up the other, though every repair takes it
first; and the mishap (crash, lost request, reset, deletion, failing provider, a repair at
a bad moment) may be any one of them, anywhere. Without the advisory lock two workers can be
on the document whose figures cost the first its row lock, which is the worst case for both
properties; with it, `OnePass` says that there is one pass at a time. *Ledger*: every budget is scarce,
so that any two or all three queries compete: q1 and q3 for a source, q1 and q2
for the bytes and a consent, all three for run and day. *Chat*: a question, its
retry and the next question of the conversation are what an admission can meet: the
same key before and after the unique index decides, a stale turn that it must settle,
a full ceiling. More sends of more people exceed the time a liveness check may take;
the theorems cover any number of them. *Public*: with one running turn per link,
every pair of the four sends competes for it; a second viewer reuses a key of the
first. *Gateway*: two cheap calls reach a ceiling, a cheap
and a dear one exceed it, and so do three unless two were billed less than foreseen; three ticks with a
window of one give rows inside the window, at its edge and outside, and a worst case of 2
with a bill of up to 3 gives the call that costs more than foreseen. An account of everything
and one of a turn are the two sorts, with a window and without; those of persons and links
are of the first. The three calls of one turn may be exchanged (`SYMMETRY`; the run checks
invariants only). *Export*: a second worker is what a missed lease or a retry brings
in, a second job what it can turn to in between; two attempts are a first and a last; two
mishaps are for instance a Stop and a failed render. *Report*: a builder, one that
waits and takes over, and one that looks later; two authors whose `Publish` and `Drop`
cross; entries and the claims of the dead expire freely, any one more thing may go wrong.

**Fairness** is assumed only in the runs with a liveness property.
- `leases_recovery`: a thread that is running keeps running (weak); a thread that
  needs the worker's mutex gets it though others take it in between (strong: a
  `threading.Lock` with finitely many competitors); rows of the dead expire, a
  dead run's record goes stale (both are clocks); a restarted worker runs its
  startup hooks; and somebody keeps opening the refresh history (strong), since
  `reconcile_stuck_runs` has no timer of its own and runs when that page is
  polled. Without the last assumption an orphan of a worker that never restarts
  would stay.
- `publish_safety`: a running sync goes on, and a state left `syncing` is reaped
  (at startup, or by the reconciler).
- `doc_index`: the polling threads run, a request that committed goes on to
  enqueue, a pending deletion ends, the repair runs daily (the switch
  `GOVERN_INDEX_AUTO_REPAIR` is assumed on). Publications and
  mishaps are bounded, so `<>[]` means "once people leave it alone".
- `ledger_budgets`: a request in flight goes on (statements have timeouts), and a
  row whose request is gone is recovered. `recover_stale_running` is called by
  the `CancelWatcher` of any live worker, which is started by the first chat turn
  that worker serves: the assumption is that some worker has served one.
- `chat_turns`: an admission that can go on does (`Lock` waits for a lock whose
  holder is at work or dead, and a dead holder's transaction is rolled back), a run
  ends (the Data Core has timeouts), a running turn grows old, and somebody opens
  the conversation again. The last one is needed: nothing else settles the turn of a
  dead worker, except the next question in that conversation.
- `public_turns`: admissions and runs go on. Nothing is assumed about expiry: the
  property is about the sends, and a turn whose worker died is settled only by the
  next admission of its link.
- `export_jobs`: workers take jobs and work on, leases lapse, and a Stop that has
  read its job writes it. Nobody need clean up.
- `report_cache`: entries and claims expire (clocks of the store), views go on once
  begun, and a publisher that committed goes on to drop, unless it dies.

Nothing is assumed of crashes, cancellations or new requests.

`CHECK_DEADLOCK FALSE` is set for all but the lease runs: a bounded number of
syncs, sends, calls or jobs comes to an end and then nothing is left to do. (An entry
of `ReportCache` may go, and then nobody has to look again.)

**What was found.** Two runs expect a violation and stay in the project; each quotes
the comment it contradicts (`findings` in `PROJECT.json`):

1. The legacy Refresh tests the publish lease *before* it claims its own, so it
   and a Sync & Publish can both start (`leases_manual_refresh`).
2. A stopped sync, an edit, and a resumed sync in which the edited table drifts or
   fails publish the *old* table under the *new* design: superseded rows count as
   coverage (`publish_resumed_design`).

**Known divergences without a run of their own.** Each was found with TLC on the
modules as they are; the second column says how to see it again.

| What the code does, against what it says | To reproduce |
|---|---|
| A worker whose own, older progress record says "done" prefers it to the live shared one and fails the run of a rebuild elsewhere. "Only a provably dead run is reaped" (`dataset_publish_service.py:181`) | `MCLeases.cfg` with `{"ttl", "pollPublish"}` as every job's kinds, INVARIANT `LiveRunStaysOpen` |
| The reconciler writes `failed` on rows it loaded before it tested the lease, over a run that ended well since. "Idempotent — only updates a still-running row" (`:95`) | `MCLeases.cfg` with `{"publish", "pollPublish"}` as every job's kinds, PROPERTY `SettledOnce` |
| A rebuild's lease is good for half an hour and is not renewed. One that takes longer may be joined by a rebuild or a sync of another worker, and the end of either deletes the other's lease. "two uvicorn workers can no longer both rebuild the same dataset" (`_reserve_rebuild_slot`, `snapshot_service.py`). `OneRebuilderPerWorker` is what is left, and `OneWriter` exempts the rebuilds that are `Unleased` | `MCLeases.cfg`, INVARIANT `OneRebuilder` |
| A process that dies between the collector's DROPs and its commit, or a commit that fails there, leaves current rows without a table; the next sync resumes and publishes them. The collector is to drop tables "ONLY when they are no longer needed for consistent reads" (`snapshot_service.py:1359`) | `MCPublish.cfg` with `EditsDuring = {}`, `CrashesDuring = {"retire"}`, `MaxEdits = 0`, `MaxStops = 0`, INVARIANT `PublishedServable`; or, with no crash at all, `"retire"` in `RaisesDuring` |
| A sync that resumes an older, unjudged generation publishes it over a newer one, since superseded rows count as coverage (the cause of the second finding). The interface keeps a client on the largest generation it has seen and sorts out responses "older than the newest generation seen" (`/src/frontend/src/lib/snapshot-coherence.ts:11`). Two tables and three syncs, as in `publish_safety`, are too few for it | `MCPublish.cfg` with three tables, `MaxSyncs = 5`, `MaxEdits = 1`, `MaxStops = 3`, `MaxCrashes = 0`, PROPERTY `[][published' >= published]_published` |
| A document published again while it is being embedded has its re-queued job overwritten with `done`. "the work has to happen again rather than be assumed complete" (`govern_doc_index_queue.py:40`). The daily repair finds it, which is why `IndexCatchesUp` holds | `MCDocIndex.cfg` with `Guarded = TRUE`, `MaxMishaps = 0`, INVARIANT `DoneMeansCurrent` |
| A document whose figures are described while it is embedded loses its row lock, and what its worker read before is written after a newer publication or reset (with the advisory lock: until the next job or repair; without it also over a newer index). "Without this lock, a reset to model B and a scheduled sync still running on model A can finish out of order" (`dashboard_ai_bot/govern_doc_embeddings.py:681`) | `MCDocIndex.cfg`, PROPERTY `WritesWhatIsLive` |
| Every repair takes the stale documents with the lowest ids. Twenty-five that never get an index (blocked, empty, failing) are all it ever takes, and one behind them whose job was lost or overwritten is not indexed until somebody changes it. "Bounded by `limit` so a large library repairs over several passes" (`repair_stale_index`) | `MCDocIndex.cfg` with `RepairLimit = 1`, `Guarded = TRUE`, `MaxMishaps = 0`, PROPERTY `LibraryHeals` |
| A result that carries a column nobody asked for is recorded as `refused` after the statement ran (and was billed). "Refused rows are not executions and do not consume a budget" (`governed_query/ledger.py:143`) | `MCLedger.cfg` with `MaxMishaps = 0`, INVARIANT `RefusedNeverRan` |
| The worker of a job's *last* attempt dies: no claim takes the row again and nothing fails it, the job says `running` for ever. A stale row is requeued "so a killed container never strands a viewer on a spinner" (`pdf_export_service.py:15`) | `MCExport.cfg` with `Pages = 1`, PROPERTY `NeverStranded` |
| A build that loaded the dashboard before a publish stores it after the publish emptied the cache, and views are served it until it expires. "A publish must be visible on the next view, not a minute later" (`api/dashboards.py:3313`) | `MCReport.cfg`, INVARIANT `PublishVisible` |

Three more are visible in the exceptions that the properties have to make:
- "two simultaneous submits cannot both pass" (`chat/orchestrator.py:110`) holds but for
  the submits that settled a stale turn and so lost their lock: `Unguarded` in
  `ChatTurns`, `unlocked` in `OneAtATime`. `PublicTurns` has the same exception for a
  failed expiry only.
- In `ExportJobs`, `lapsed` is the exception: a live worker that misses its lease is
  joined by a second one, whose `Open` truncates a file that the first has completed,
  and whose `fail_job` may put the finished job back in the queue. Without a missed
  lease, a cancelled job whose render fails is queued again, because `fail_job` looks at
  its session's copy; and a file that was written by a worker that died before it
  completed the job is never cleaned up.
- In `ReportCache`, `overrun`: after one view that gave up waiting, its end deletes
  the claim of the real builder, and each next view may find it free, until nobody builds.

## 4. The proofs

TLAPS proves the following for every value of the constants, under the `ASSUME`s
of the modules (finite sets of queries or sends, hash numbers that do not collide, bounds
in Nat), which TLC evaluates in the runs.

**`WriterLeasesProofs`** (for any number of jobs and workers)

| Theorem | Further assumptions |
|---|---|
| `TypeCorrect`: `[]TypeOK` | none |
| `OneRebuilderPerWorkerAlways`: `[]OneRebuilderPerWorker` | none |
| `OnePublisherHolds`: `[]OnePublisher` | `PublishRenewed`, `ReapersSpareLive`; crashes and lapses of rebuilds allowed |
| `LiveSyncStaysOpenHolds`: `[]LiveSyncStaysOpen` | `PublishRenewed`, `ReapersSpareLive`; crashes and lapses of rebuilds allowed |
| `OneWriterHolds`: `[]OneWriter` | `PublishRenewed`, `ReapersSpareLive`, no legacy Refresh; crashes and lapses of rebuilds allowed |
| `NothingLeftBehindAlways`: `[]NothingLeftBehind` | none |

The invariants are not inductive as they stand. A lease has no owner, so the
strengthening says *whose row is stored*: `PublishLeaseInv` states that a job at any place
between its claim of the publish lease and its release is the one stored, which makes
every release its own. `PublishRenewed` is the assumption that a live job outlives its lease
only at the places of a rebuild (`LapsableAt`): it is what the publisher's heartbeat is for, and the
other places that hold a lease are a few statements apart. Nothing of the kind is assumed of
rebuilds: nobody renews theirs, so that it may run out or be deleted under them at any time,
and the theorems say what holds all the same. `OneWriter` exempts the `Unleased`;
`OneRebuilderPerWorker` needs no lease, for the worker's registry stands behind it, and
follows from the invariant of `NothingLeftBehind` below. `ReapersSpareLive` says that no startup
reaper frees the publish lease of a live job; it is a property of behaviours, not of
the constants, because the reaper frees the lease by its key without asking who
holds it, and that is the only step which breaks the exclusion of publishers. The lemma
`NoRestart` shows that it holds where no worker dies, as in the run that checks
`OneWriter`. It cannot be dropped: with one crash TLC finds a sync that dies, another
that starts, and the restarted worker's `SweepLease`, after its `SweepLoad` read the first one's record,
freeing the second's lease for a third to overlap it (`MCLeases.cfg` with
`MaxCrashes = 1`). `OneWriter` needs
`ExclusionInv`: a publisher past its probe and a rebuild past its own are never
there together, because each probes the other's lease while it holds its own,
so the later probe fails. The first finding is that argument failing for the legacy
Refresh.

`NothingLeftBehind` is the safety part of `JobsEnd`, and needs none of the assumptions: with
any crashes, restarts, reapings and lapses a stored claim is that of a job on its way to
release it or of a dead process, a worker's mutex is held by the one job of that worker
which is on its way to unlock it, and its registry names the dataset just while a job
of it is slotted or rebuilding. It holds in the other direction than the leases do: a job
may lose its claim, but no claim loses its job. A job waits only for the mutex, and
whoever holds that waits for nothing, so no two jobs wait for each other. `OneThrough` is what
makes it inductive: while the mutex is held the registry is empty, so nobody can
free another's entry.

**`PublicationProofs`** holds two components whose names are disjoint: what a publication
promises to those who read a dataset, and to those who view a report. `DatasetPublish`
(any tables, designs and bounds; edits, Stops, exceptions and crashes anywhere, unless the table says
otherwise):

| Theorem | Further assumptions |
|---|---|
| `TypeCorrect`: `[]TypeOK` | none |
| `OneCurrentAlways`: `[]OneCurrent` | none |
| `RefusedNotServedAlways`: `[]RefusedNotServed` | none |
| `PinnedUnjudgedAlways`: `[]PinnedUnjudged` | none |
| `PublishedFrozenAlways`: the rows of a published generation are frozen | none |
| `PublishedServableAlways`: `[]PublishedServable` | no crash and no failed commit inside the collector |
| `PinnedAsDesignedAlways`: what is pinned was built as the sync's design says | no undone edit (`~Reverts`), no edit between the comparison and the pin |

The assumptions are listed hazards, and without them the statements fail.
`Shape` adds to the types that the generation being built has a number that was
given out. One current snapshot per table follows from `Promote` alone, which
supersedes under the same commit what it replaces, whichever thread of whichever
sync runs it. `RefusedNotServed` and `PinnedUnjudged` need `Unjudged`: from its choice
on, a sync builds a generation that is neither served nor judged, since neither a
refused nor a published one is resumable, and it judges only its own; that is also why a
published generation never changes. `PublishedServable` needs to know of what is still
to happen: `Backed` says that every row the collector is not about to retire has its
physical table, and `Spared` that rows are doomed only while the collector runs, and
never those of the served generation. `PinnedAsDesigned` needs `Followed`: designs only
grow, so what a sync locked, what its builds read, what its generation holds and what
is current now lie in this order, and equality at the comparison closes the interval.

`ReportCache` (any views, publishers and versions): `CacheTypeCorrect`,
`OneBuildAlways`, `NextViewNewAlways`. `Claimed` says that whenever somebody builds
there is a claim, unless overrun. Freshness goes along the life of a structure:
`LateBuilds` (a build older than what is visible was under way at the drop),
`LateEntry` (so is an older entry of the cache), and so is what a view gets.

**`GovernedLedgerProofs`** (any number of queries, users, sources, runs, workers,
days and mishaps, any budgets)

| Theorem | Shows |
|---|---|
| `TypeCorrect` | `[]TypeOK`; in particular an answer only for an executed query |
| `ConsentUsedOnce` | `[]ConsentOnce`, from the uniqueness of nonces (`NonceInv`) |
| `CancelledWasAskedFor` | `[]CancelledWasAsked` (`StopInv`) |
| `BudgetsKept`, and its parts `RunBudgetKept`, `DayBudgetKept`, `SourceBudgetKept` | the three counted budgets |
| `BytesBudgetKept` | `[]BytesBudget`, the budget on a sum |
| `BeginsGoOnAlways` | `[]BeginsGoOn`: transactions that begin never wait for each other in a circle |
| `PromiseKept` | `Spec => KeepsPromise`, the refinement of `AuditLedger` |

The budgets rest on four parts, each proved inductive relative to the ones before:
`PlaceInv` (a query that has not been inserted has no row and has not run),
`LockInv` (a query about to insert holds every lock of its scopes), `RoomInv`
(the room it counted is still there) and the budgets themselves. `RoomInv` is
where the locks matter: only `Insert` adds a charged row (`OnlyInsertAdds`), two
queries about to insert share no scope (`ScopesDisjoint`), so nobody uses up
another's room. For the day budget the count is over all rows *since* the
transaction's own day, so rows of a later day only make it more careful: the
invariant holds across midnight.

The bytes follow the same course with sums in the place of counts (`BilledInv`,
`BytesRoom`, `DayBytes`), and `BytesFall` is the part that counts do not have: a row that
is billed for what it read is never charged more than it was before, so no step but an
`Insert` makes the sum of a scope grow. `BeginsGoOn` is the safety part of `EveryQueryEnds`: the
scopes are locked in one order, so the query that holds the greatest scope of all those
held (`Last`) waits for one that nobody holds, and as long as somebody waits somebody
can go on.

*Sums.* The models sum with a fold of the community modules, and what a fold computes is
an induction over finite sets, for which the library's theorem cannot be cited. The lemmas on
sums (`TotalIs`, `TotalAdd`, `TotalLeq`, `AddsSub`) get it from a smallest counterexample
instead: strict inclusion is well founded on the finite subsets of a finite set (a fact
with no operator parameter), so of the sets on which the fold goes wrong there is a
smallest, and taking one element away gives a contradiction. They stand in the two
modules that need them.

**`ChatTurnsProofs`** (any sends, people, conversations and ceilings):
`TypeCorrect`, `OneAtATimeAlways`, `RunningCeilingAlways`, `DayCeilingAlways`,
`HeldByAdmissionAlways` (a person's lock is held only by a submit under admission, so
none is left behind) and `PromiseKept`, the refinement of `AskedTurns`. `TypeCorrect` also
says that a conversation's turns are numbered from one, which needs the greatest of a
finite set of numbers to exist (`Greatest`). `Guard` says that an admission holds its person's lock
unless it has settled a turn; `Seen` and `Room` say that what it saw and counted
is still so when it inserts. Only an insertion adds a turn (`OthersAddNothing`), and
whoever inserts meanwhile either is another person or is in `Unguarded`, where the
bound has grown by the same one. So the ceilings are kept with exactly the
exception that the code makes, and no more. The refinement needs no lock at all: it
follows from the unique keys (`Clash`) and the condition of `Finish`.

**`PublicTurnsProofs`** (any sends, links and viewers): `TypeCorrect`,
`LinkCeilingAlways`, `OneEachAlways`, `HeldByAdmissionAlways` (a link's lock and the
expiries not yet committed belong to an admission under way), `PromiseKept`. The argument is the same with
one more difficulty: an admission counts with its own uncommitted expiries taken off
(`Seen`), and another may not take that room, or end those rows, before it ends. That is
`KeepsMine`: while a submit holds the lock, what it has expired stays expired.

**`AiGatewayProofs`** (any calls, accounts, limits and bills): `TypeCorrect`,
`TurnCallsAlways` (from `Locked` and `Room`), `NeverFreeAlways` (from `Place`, which
says for every place of a call what its row and its bill can be: a call counts from its
reservation on, in full until a report, and only one that was not sent is freed) and
`CeilingsHoldAlways`. The last is about sums over a moving window. `ChargesHold` says
that a row weighs no more than its worst case, or its bill where that is
higher; `Spare` that the room a call counted under its locks is
still there when it reserves, for each ceiling that its checks have
passed (`Passed`), since only a reservation adds a row to an account and two
that are about to reserve share none; `Early` that the window it counted begins no later than
24 hours before now, so that it covers what any window ending now can hold.

**`ExportJobsProofs`** (any jobs, workers, pages, attempts): `TypeCorrect`,
`OneRendererAlways`, `ServedWholeAlways`, `QueuedClaimableAlways`. `Held` says that no claim finds a job
that somebody renders, neither as queued nor as running without a heartbeat; for that
a failed attempt may only requeue a job its own worker has given up in the same step.
`Closed` says that a completed job is never claimed again, so nobody opens its
file, and `Writing` that what a worker completes are its own bytes.
`QueuedClaimable` is the safety part of `JobsEnd`: a job that waits in the queue has an
attempt left, so that the next free worker can claim it. `fail_job` decides by its session's
copy whether to put a job back; `Picture` says that the attempts in that copy are true, since
only a claim counts them and `Held` lets nobody else claim the job meanwhile.

**`DocIndexQueueProofs`** (any documents, workers, batches, attempts and editions; any
mishaps)

| Theorem | Shows |
|---|---|
| `TypeCorrect` | `[]TypeOK`; in particular no row is attempted more often than it may be |
| `IndexAdvancesAlways` | `IndexAdvances`: who writes chunks under the row lock writes the live edition, and a later one than was there; who has lost it never goes back to an earlier one, if the advisory lock can be taken |
| `OnePassAlways` | `[]OnePass`: if the advisory lock can be taken, one worker at a time is in a pass |
| `ClaimsOldestAlways` | `[]ClaimsOldest`: a claim takes the oldest rows that can be claimed, a whole batch of them or all |

`IndexAdvances` rests on one of two locks. While a worker has the document's row lock, what
it has read is still what is live, as nobody publishes, deletes or embeds it meanwhile
(`AtWork`), and the index is never ahead of what is live (`Behind`). Once `log_egress` has
committed, what is live may move on and only the advisory lock is left: nobody else
embeds, so that the index is still not ahead of what was read (`Alone`). Without either, an older edition
may replace a newer one: that is the exception in the property, and only the repair makes
it good (`IndexCatchesUp`). `OnePass` needs that a pass takes the lock before its first step and
gives it back with its last, or dies with it (`Held`). `ClaimsOldest` is about the order of
the queue, which every enqueue, deletion and repair changes: `Ordered` says that `older`
stays a strict total order of the rows, whatever is put back or taken out. On a
finite set such an order has a first and a last element; `Oldest` and `Youngest` get them from
the well-foundedness of strict inclusion, and counting from them shows that a batch is never
too large and never smaller than it could be.

## 5. What is only model-checked, and what is not modelled

Only with TLC:
- every liveness property (`OrphanSettles`, `JobsEnd`, `SyncSettles`,
  `IndexCatchesUp`, `EveryQueryEnds`, `EveryTurnEnds`, `EverySubmitEnds`, `OldGoes`),
  which are beyond the prover. Of those that could fail because somebody waits for ever
  the safety part is proved: nothing is left locked and nobody waits in a circle
  (`NothingLeftBehindAlways` for the leases, `BeginsGoOnAlways` for the ledger,
  `HeldByAdmissionAlways` for both kinds of turns, `QueuedClaimableAlways` for the exports);
- the two runs that are expected to fail, `leases_manual_refresh` and
  `publish_resumed_design`, which are counterexamples.

Every other property of the runs is a theorem.

Left out of the modelled parts, deliberately:
- *WriterLeases*: stopping a run that is already dead, pruning of old run rows, the
  rebuild of several datasets by one request, failure of the SQLite file itself
  (the code then falls back to one process); the ten seconds for which a click waits for
  a source check (it may give up at any moment).
- *DatasetPublish*: the pinned generations of parents in a composed dataset, the
  quota cooldown and the retries inside one load, rebuilds outside the lifecycle,
  the two copies of the Stop flag (modelled as one from the moment `Begin` clears
  it).
- *DocIndexQueue*: waits for rows of chunks between two replacements that have both lost
  the row lock (one of them is disturbed, or they follow one another; that the chunks of
  both may stay is left out), and that the first embedding of a new edition records a
  hash made with the older figures, so that the repair finds it stale once more; what
  chunks contain; that orphan chunks of a document deleted
  while it was embedded stay behind is in the model, but no property forbids it
  since every retrieval joins the documents.
- *GovernedLedger*: the planning of a query, which writes nothing but refused rows;
  `request_cancel` of a single query, which nothing in the application calls. A
  cancel that is marked before the statement has registered (between `Insert` and
  `Start`) is in the model: the watcher only asks for what runs in its worker, so
  it takes effect at the first tick after `Start`. That a recovered statement may
  still run at the source, uncounted, is in the model and no property forbids it.
- *ChatTurns*, *PublicTurns*: what an answer contains, feedback, credentials,
  deletion and sharing of conversations, the token of a link, the spending and hourly
  limits of a link (a choice in `CheckLink`), more than one day.
- *AiGateway*: the price list and the counting of tokens (`Worst`, `MaxBill`), the
  usage report (what a provider reports is taken to be what it bills), the separate budget
  of test questions. The checks of a call come in any order, a superset of the code's.
- *ExportJobs*: the quota's count (two requests at once may both pass it), what a page
  shows, warnings, a file that cannot be deleted; "partial" counts as "succeeded".
- *ReportCache*: the in-process layer in front of the store (`get_cached`,
  `single_flight`), and the results of charts, which follow the same election
  (`begin_coalesced_compute`) but are dropped per chart.

Not modelled at all: the components marked so in `PROJECT.json`, each with its
reason. They are most of the repository's lines. By size the code is
generators of SQL and text (the semantic engine, the import of HTML dashboards,
chart and planning services), connectors, and request handlers that read rows,
decide and write in one transaction, next to a large user interface: sequential code without
shared state of its own, for which a state machine would repeat the code line by line.
What is modelled is where several processes, transactions or files have to agree.

## 6. The plan

What remains, in order:

1. `StopFlag`: the flag and the progress record in their two copies (the process's, and
   the shared store's), with the order of their writes, so that a Stop pressed
   between the claim of the lease and the start of the sync (a listed hazard) can be
   judged; `WriterLeases` and `DatasetPublish` then share it.
2. `DatasetPublish` as the body of a publishing job of `WriterLeases`, with an abstract
   dataset (served generation, design, whether it is complete) that the two
   together implement; then `Composition`: the parents' pins, `changes_pending`, and a
   crash between the publish and the pins.
3. `Breaker`: closed, open and half open under concurrent calls.
4. The webhook sync of Workboards: its run, the startup janitor, cooperative cancel.
5. Pure operators over bounded inputs: filter layers, join paths, the fan-out rule.

Proofs: every safety property of the runs has its theorem; the next ones are those of the
components above. Those of the leases would lose `ReapersSpareLive` if
the code freed only the lease of the run it read.
Runs stay few: each new one takes the place of the weakest present one.

## 7. How to run it

    tlc -workers 2 -config MCLedger.cfg MCLedger
    tlapm GovernedLedgerProofs.tla

Each `MC*.cfg` names its run's specification, constants and properties; the table
above and `PROJECT.json` say which belongs to which module.
With two TLC workers `publish_safety`, `doc_index`, `ledger_budgets`, `public_turns`,
`ai_gateway` and `export_jobs` take one and a half to three and a half minutes each (1.6, 1.8, 0.8,
0.4, 3.0 and 1.7 million distinct states), `leases_recovery` and `report_cache` one and a half
(193 thousand and 1.5 million), the others less than one (`leases_safety` has 439 and
`chat_turns` 115 thousand states). The proofs are 6914 obligations
in eight modules and take three to four minutes, checked from nothing.
