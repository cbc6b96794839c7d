# SmartReco in TLA+

SmartReco (`src/`) is an online course shop: FastAPI pages, a PostgreSQL
catalogue with a pgvector copy of it, a browser tracker that reports behaviour,
a trigger policy that decides when behaviour justifies calling a language
model, a LangGraph agent that writes a recommendation, and a daily e-mail digest.
This directory holds TLA+ models of the parts of it that run concurrently, the
TLC runs that check them and TLAPS proofs about most of what the runs check.

Paths below are relative to `src/smartreco_agent/src/` unless they start with
`migrations/`, `tests/` or `README.md` (all under `src/`).

## Inventory

| Part | State it keeps | Operations | What is hard about it | What makes it correct |
|---|---|---|---|---|
| Catalogue and admin pages (`routes/admin.py`, `db/catalog.py`, `db/hashing.py`) | `catalog.products` | create, update, delete; each in one transaction with an outbox row | edits and deletions while a drain is half way; a second click on Delete | every change of a product leaves work owed for it |
| Transactional outbox (`db/outbox.py`) | `catalog.vector_outbox` | enqueue, claim, mark done, mark failed | the claim's locks end before the work does; marks ignore the status they overwrite | every row ends; a done row means the vector store is right; a failed row stays failed |
| Outbox drainer (`cron/outbox_drainer.py`, `vectors/`) | locals of a drain; `vectors.product_embeddings` | purge, read, skip, embed, mark; three try blocks | overlapping drains, stale snapshots across the slow embedding call, partial failure, crashes | no edit is lost, nothing stays pending |
| Reconcile (`cron/reconcile.py`) | locals of a pass | read both hash maps, enqueue the difference | the two reads share no snapshot | existing products are not queued for deletion |
| Event ingest (`routes/events.py`, `db/catalog.py`) | `catalog.events` | insert a batch, start a background task | the same batch delivered twice; tasks of one user in parallel | an event counts once |
| Interest profile (`tracking/profile.py`) | `catalog.user_profiles` | read, compute, upsert | lost update between the read and the upsert; counter reset under way | the profile reflects the events |
| Trigger policy (`tracking/gate.py`) | none (reads profile and recommendation) | should_generate | check and act are far apart | cooldown, count, drift, category rules |
| Agent (`agent/graph.py`, `agent/nodes/`) | state of one run; `catalog.recommendations`, `recommendation_items`, `agent_runs` | load, intent, retrieve, grade, refine, rerank, generate, persist | model calls that fail, truncate or cite unknown products; the catalogue changing under the run; two runs of one user persisting at once | grounded or not persisted, bounded calls, one current recommendation |
| Mesh client (`mesh/client.py`, `vectors/embedder.py`) | call counters, `_query_embed_cache` | complete_json, embed, embed_products, embed_query_cached | retry once on truncation or bad JSON; chunks of a call paired with products by position; coroutines missing the cache together | at most two calls per request; product i gets vector i; a query is paid for once unless asked for at the same time |
| Digest (`cron/digest.py`, `cron/worker.py`, `cron/email.py`) | `catalog.digest_queue` | enqueue, claim, run agent, send, mark | locks released at the claim, overlapping workers, time budget, crash after sending, re-enqueue under way | every queued user is served; how often a mail is sent |
| Browser tracker (`web/static/tracker.js`) | buffer, flush timer, search timer, `dwellStart`, seen milestones | track, debounce, flush by size, by timer and on leaving, dwell | four ways to flush and two events for leaving the page; hidden, restored and killed documents | an event is in one batch, nothing stays in the buffer, nothing is reported twice |
| Live signal panel (`routes/signal.py`, `tracking/signal_feed.py`, `web/static/live-signal.js`) | interval timer, what the page shows; none on the server | collapse events into rows; poll, start, stop | three reads in three transactions; answers out of order; start and stop under visibility changes | rows cover the events once; one interval; the bar belongs to the recommendation beside it; the panel catches up |
| Accounts (`auth/`, `routes/auth.py`) | `catalog.users`, cookies | register, log in, log out | none that is concurrent | library code (argon2, itsdangerous) |
| Settings, logging, templates, health, error handlers, start-up, seeding and demo scripts | none | - | - | - |

How the parts interact: an admin write commits a product and an outbox row and
then starts a drain as a background task of the same request; the cron sweep
starts drains and reconcile passes of its own, so several may overlap. A drain
reads the catalogue and writes the vector store. A batch of events is inserted,
answered, and then processed by a background task: profile, gate, agent. The
agent reads the profile, the events and the vector store, and writes the
recommendation and the reset profile in one transaction. The digest worker
calls the same agent and mails its result.
All shared state is in PostgreSQL, and almost every function borrows a pooled
connection of its own: one function call is one transaction. That is the grain
of atomicity of the models.

## Plan

In order of importance for the system.

1. **CatalogSync** (done): `CatalogStores`, `OutboxDrainer`, `Reconciler` composed by
   `CatalogSync`; `CatalogHistory` adds what overlapping drains do to a product, and
   implements `EventualMirror`.
2. **RecommendationLoop** (done): ingest, profile, gate, agent run and persist,
   several background tasks and digest runs for one user; `LoopHistory` adds what they
   lose when they overlap.
3. **DigestQueue** (done): workers, time budget, crash and re-enqueue.
4. **AgentGraph** (done): one run node by node with the model's failures, grounding,
   bounds on calls; the catalogue changing under it.
5. **Tracker** and **LivePanel** (done): the two scripts that run in the browser, with
   timers, visibility, and what the server does between the reads of a poll.
6. **Pure algorithms**: the rows of the signal feed (`SignalFeed`) and the chunks of
   embedding calls (`Embeddings`) are done, each step by step against a
   declarative statement of its result. Open: MMR selection and the rounded hash of
   a profile, whose questions are about arithmetic on vectors.
7. `RecommendationLog` and `AgentContract`: what readers of the recommendations and
   callers of the agent rely on, and that the detailed modules implement it.
8. **Open**: `DigestQueue` takes `run_agent` by its outcomes. `AgentContract` says what
   these outcomes mean for the recommendation; that the worker relies on no more than
   that would be a refinement of `DigestQueue`, user by user.

## Modules

| Module | Models | State | Actions |
|---|---|---|---|
| `CatalogStores` | products, outbox, vector store; admin writes | `catalog`, `vectors`, `outbox`, `minted` (ids ever used: they are UUIDs and never come back) | `CreateProduct`, `UpdateProduct`, `RemoveProduct`; `enqueue`, `enqueue_many`, `MarkedDone`, `MarkedFailed` as operators on the outbox |
| `OutboxDrainer` | `drain_outbox`, any number at a time | `drain[d]`: program point, the four id lists, the snapshot of products and of hashes | one action per database call and one per except branch |
| `Reconciler` | `reconcile` | `recon[r]`: the first read, then the diff | two reads, two inserts, dying in between |
| `CatalogSync` | the three together | - | `Next` is their interleaving |
| `CatalogHistory` | `CatalogSync` with the histories its safety properties speak of | `contested`: products of which two drains hold rows, or held them and no work has been owed afresh since; `wanted`: per row what the vector store may show to have served it | the steps of `CatalogSync`, each with `Observe` |
| `EventualMirror` | what the outbox promises: a key's copy changes only while work is owed, and work stops being owed only when source and copy agree | `source`, `copy`, `owed` | `Write`, `Carry`, `Owe`, `Settle` |
| `RecommendationLoop` | batches, manual refreshes and digest runs of one user, from ingest to the committed recommendation | `profile`, `recs`, `stored`, `delivered`, `cooling`, `task[t]` | one action per database call; the persist transaction in four steps with its row, key and profile locks |
| `LoopHistory` | `RecommendationLoop` with the histories that name what it loses | `overtaken`: events of batches overwritten by another task or abandoned by a crash; `late`, `missed`: events folded in between a run's reading of its signals and its commit | the steps of `RecommendationLoop`, each with `Observe` |
| `RecommendationLog` | what the recommendations and the counter promise to their readers: none is lost or rewritten, the one committed last is shown, and the counter starts again in the step that changes it and in no other | `log`, `shown`, `since` | `Count`, `Generate` |
| `DigestQueue` | enqueue step and overlapping workers | `queue`, `current`, `worker[w]`; histories `enqueued`, `mailed`, `crashes` | claim, return of the connection, next row, stop, `run_agent`'s outcomes, mail, marks, crash |
| `AgentGraph` | one run of the graph after another | `run`, `current`, and what changes under a run: `catalog`, `vectors`, `taken` | one action per node, per search, and per outcome of a chat call |
| `AgentContract` | what one call of `run_agent` promises to its caller: at most one replacement, by a non-empty set of products, no success without it, and nothing between calls | `shown`, `call` | `Start`, `Replace`, `Succeed`, `Fail` |
| `Embeddings` | embedding calls of one process and the cache of query vectors | `call[c]`: texts, the start of the chunk under way, the vectors so far; `cache`; history `paid` | begin a call, cache hit and miss, one answer per request, failure |
| `Tracker` | one document running `tracker.js` | `sender`: buffer, flush timer, batches sent; `searchTimer`, `dwell`, `seenMilestones`, the document's visibility and life cycle; `made`: the events created, in order | one action per JavaScript handler or timer; document hidden, shown, left, restored, closed |
| `LivePanel` | a tab polling `GET /api/live-signal`, and as much of the server as it can see | `timer`, `intervals`, `poll[p]`, `panel`; `stored`, `folded`, `base` | tick, start, stop, the three reads of the handler, render, failure; `Store`, `Fold`, `Generate` |
| `SignalFeed` | the loop of `humanize_events` | `events`, `feed`, `done`; history `rowOf` | one turn of the loop: skip, collapse, new row |

History variables are read by no step and restrict none (`HistoryIsCatalogSync` and
`HistoryIsLoop` say that a behaviour with them is one of the module without them;
`Observe` is defined in every state, so each behaviour has its history).
`MC*` modules only name the instances; `*_proofs` modules hold the theorems.
Operators named `SLIP_...`, or whose comment begins with SLIP, are plausible mistakes
in the action they precede. They are in no next-state relation and document what each property
would catch.

**Abstract and detailed.** Three modules say what is promised and nothing of how.
`CatalogSync`, seen through `CatalogHistory`, implements `EventualMirror`
(`ImplementsMirror`), where work is owed for a product that has a row waiting, is
contested, or was condemned by reconcile. `RecommendationLoop` implements
`RecommendationLog` (`KeepsTheLog`: the numbers of the committed rows, the current
one, the counter of the profile row).
`AgentGraph` implements `AgentContract` (`KeepsContract`); `Outcome` maps the program point
of a run to what its caller will learn, so an exception that is on its way to
the handlers is a failure already, whether or not the recommendation was replaced.

**Atomicity.** Almost every function of `db/` borrows a connection and commits as it
returns it, so one call is one step. Three consequences shape the models: the `FOR
UPDATE SKIP LOCKED` locks of both claims end when the claim returns, before any
work is done (`ReturnConnection`); the profile's read and upsert are two
transactions (`ReadProfile`, `upsert_profile`); and only the admin writes and the
persist node hold a transaction over several statements. The first kind is short
and takes no lock another transaction waits for in between, so it is one step. The
persist transaction is split at its statements, because READ COMMITTED lets
others in between them: `FlipRow` locks the current row, `FlipBlocks` and
`FlipResumes` are the wait for a row somebody else has flipped (and the re-check
of `is_current` afterwards), `InsertCurrent` waits for the key of the unique index
`recommendations_current_idx`, `DuplicateKey` is its refusal, `mark_generated`
locks the profile, `Commit` makes everything visible.

**What is left open on purpose.** Contents and listings of products are model
values; the content hash is the content (equal hash, equal content). Outbox rows
are taken in id order, which is the order of `created_at` unless two transactions
start and commit in opposite orders. `enqueue_many` inserts its rows in
any order, as the code iterates over sets. A profile weight is how often the event
was folded in: decay with time, negative weights and vector arithmetic are
left out, and whether an event moves the rounded hash and the vector is the
constant `Loud`. How much drift or which category is a shift, what similarity the
grader finds, which candidates MMR and rerank keep and what the model answers are
nondeterministic. `vectors` in `AgentGraph` is the set of products a search can
return. In `AgentGraph` the two early returns of `run_agent` (no signal, cache hit)
are left out, they are `NoSignal` and `CacheHit` of `DigestQueue`, `AgentSkips` and
`AgentRec` of `RecommendationLoop`. The HTTP client's own two retries count as
one call. A recommendation item cited twice breaks the primary key of
`recommendation_items`, and the whole persist with it (`repeats`).

An event of `Tracker` is its number; its payload is kept only where a property reads
it (which search, milestone or visit). What becomes of a sent batch on the network is
`RecommendationLoop`'s: it may arrive never, once or again. The user agent decides
when a document is hidden, left, restored or killed, so these are free within the order
browsers keep (`pagehide` comes before the last `visibilitychange`). In `LivePanel`
events are counts, as the panel shows the newest ones and the number since the last
recommendation; `Generate` is the one commit that adds a recommendation and resets
the counter. The embedding of a
text is named by that text, so "the right vector" is equality; that the provider
returns one vector per input, in order, is assumed, as the code assumes it.

## Runs

Passing runs:

| Run | Question | Instance and why it is enough |
|---|---|---|
| `reconcile` | Is a done row the truth, and was it carried out, while two drains overlap, admins edit under them and a reconcile pass runs? `DoneMeansMirrored`, `DoneMeansCarriedOut`, `FailedIsFinal` and the refinement `ImplementsMirror` | 1 product, 2 contents, 3 rows, 2 drains with batches of 2, no retry, 1 pass: both drains hold the same rows, or different rows of the product; an edit and a removal under either; the stale write after the newer row is done; a marked row marked again; both halves of the diff and a false orphan |
| `two_drains` | Does every row settle, with two drains that overlap, fail and die? `EveryRowSettles` | 1 product, 3 rows, batches of 1, 1 retry, 1 crash, no reconcile pass: both drains hold the same row, and the oldest-first batch leaves the others waiting |
| `loop_overlap` | One current recommendation, the baseline that belongs to it, nothing lost from the log, no circle of locks, and no event lost but those that overlapping tasks and crashes are known to lose? `AtMostOneCurrent`, `BaselineMatchesCurrent`, `SomeoneGoesOn`, `EveryBatchCounted`, `CounterCoversMoves`, `EveryTaskEnds` and the refinement `KeepsTheLog` | 2 tasks, 2 batches, scheduled runs, threshold 1, 3 recommendations, 1 crash: first recommendation raced, flip raced, rollback, a profile upsert waiting for a persist, an update overwritten by another task's, a batch counted while the model answers and by the commit of that run forgotten. Each batch is delivered once; repeated deliveries are in the theorems `BatchesAreCounted` and `CounterCountsMoves` |
| `digest_overlap` | How often is a user mailed? `MailsAreBounded` | 2 workers, 2 users, 2 rounds, 1 crash per worker |
| `digest_fair` | Is every queued user served or given up? `EveryUserServed` | 1 worker, 3 users, claims of 2, 2 rounds, 1 crash: a user who does not fit in the first claim |
| `agent` | Grounded, without the excluded, within the call budget, accounted for, does every run end, and is its caller told the truth? `NothingMadeUp`, `ExclusionsHonoured`, `CallBudget`, `LogCoversHalf`, `EveryRunEnds` and the refinement `KeepsContract` | 2 products, 1 made-up id, 2 searches, 1 refinement, 1 change during runs; the vector store starts as any set, so products not drained yet and removed ones that are still found both occur |
| `embeddings` | Does every product get its own vector, however many requests it takes, and is a query paid for once? `EveryProductIsEmbedded`, `RequestsAreAccepted`, `QueriesGetTheirVector`, `PaidByOverlapOnly` | 3 coroutines; calls of 0 to 5 texts with chunks of 2 (10 in the code): no chunk, a short one, an exact one, a last one of one text; two spellings of a query, a failure between any two requests |
| `tracker` | Does an event leave once, in a batch the server takes, whatever flushes; is nothing reported twice; is nothing kept? `EachEventTravelsOnce`, `BufferedMeansArmed`, `BatchesAreAccepted`, `NothingReportedTwice`, `LeavingTakesAll`, `EveryEventLeaves` | a buffer of 3 (10 in the code), an ingest limit of 4 (50), 3 clicks, 2 searches, 1 milestone, 2 visits: the buffer fills, is flushed by the timer, by hiding and by leaving, and a restored document goes on |
| `live_panel` | Is one interval running, does what a poll reads belong together, and does the panel catch up? `PollingFollowsTheTab`, `BarBelongsToRecommendation`, `PanelCatchesUp` | 2 polls under way, threshold 1 (3 in the code), 2 events, 2 recommendations, 1 lost request: answers swapped, a commit between any two reads, the bar at its limit |
| `signal_feed` | Are the rows exactly the runs of the events? `EveryEventIsShown`, `RowsAreMaximalRuns`, `OnlyTheFirstIsLatest` | every list of up to 4 events (8 in the code) over 3 times and a window of 1: rows that begin with a skipped event, that end at the window, and two neighbours of one text |

Type invariants are not in the list: each is part of, or follows from, an invariant that
is proved (below). Runs with a liveness property use no symmetry. `CHECK_DEADLOCK FALSE` everywhere:
users need not act, and the bounds end every behaviour. The bounds (`MaxRows`,
`MaxCrashes`, `MaxDeliveries`, `MaxRecs`, `MaxRounds`, `MaxEdits`, `MaxActs`, `MaxCalls`,
`MaxVisits`, `MaxEvents`, `MaxFailures`) are in the guards
of the actions that count; the theorems hold for every value of them.

Two runs show a statement of the repository to be wrong about the code:

| Run | The statement | What happens |
|---|---|---|
| `listing` | `README.md:38-39`: reconcile "hash-diffs the two stores directly and repairs any drift" | an edit of `is_active` or the price alone is skipped by the hash, search goes on filtering by the old value, and reconcile compares the same hash |
| `cooldown` | `tracking/gate.py:56`: "cooldown is absolute - even an explicit refresh cannot bypass it"; `README.md:180` says the same | the gate checks the cooldown and the commit of the run, many seconds later, starts it: two refreshes pass the gate one after the other and the second one commits in the cooldown that the first has started |

Seen while modelling, in the models, and not stated by a run:

* Two drains may claim the same row, as the claim's locks end with the claim, and
  the slower one may overwrite the newer vector after the newer row is done, or mark
  a failed row done (`cron/outbox_drainer.py:52`; `db/outbox.py:5-8` says that SKIP
  LOCKED makes concurrent drains safe). An edit during a slow embedding call is enough:
  the admin's own request starts the second drain. `contested` names the products this
  can happen to, the properties of `reconcile` say that nothing else breaks them, and
  that the next row of the product, carried out by one drain, puts it right.
* A product created and embedded between the two reads of reconcile is queued for
  deletion (`cron/reconcile.py:25-34`; `tests/test_reconcile.py:67` says that
  a product in sync is never enqueued again).
* A batch delivered twice is stored once, but its background task runs twice and
  counts it twice (`routes/events.py:61`; `db/catalog.py:231-232` says that the insert
  makes duplicate beacons idempotent, which is true of `catalog.events` only).
  `EveryBatchCounted` says that each delivery counts exactly once.
* Two overlapping tasks may lose one of two profile updates (`tracking/profile.py:63`;
  `overtaken`), and the commit of a run resets the counter whatever was added to it while
  the model answered (`db/catalog.py`, `mark_generated`; `missed`). Both are what
  `EveryBatchCounted` and `CounterCoversMoves` except, and all that they except.
* One click on a card or a cart button is heard by two listeners and makes two
  events with two UUIDs (`TrackTwo`), which the server cannot tell from two clicks.
* A typed search is lost when its document goes away within the debounce of 800 ms:
  leaving flushes the buffer, and the waiting query is not in it yet. No page of the
  repository reaches this branch: `catalog.html:36`, the one caller of `trackSearch`, passes
  `immediate: true`. It is modelled as part of the script's interface.
* A tab opened in the background polls until its visibility first changes
  (`web/static/live-signal.js:228`, against `:9`), and an answer that comes late may
  show older data until the next poll.
* The cache of query vectors keeps the vector of the spelling that came first
  (`mesh/client.py:206-210`), so a search may use the vector of another spelling.
* A product deleted after rerank has read the catalogue is still cited
  (`agent/nodes/rerank.py:92`): `NothingMadeUp` speaks of products that existed.
* The evidence row of a run is written after the commit of its recommendation
  (`agent/nodes/persist.py:65`): when that insert raises, the run counts as failed
  although the previous recommendation is gone (`RecordRaises`).
* A run whose graph fails returns the recommendation read before it started
  (`agent/graph.py:109`), and the digest mails it (`GraphFails` of `DigestQueue`).
* The usage of a call that `complete_json` repeats is dropped (`RetryCall`), so
  token counts of a run may be low; `LogCoversHalf` says by how much at most.
* `run_agent` raises when its reads before the try, or the insert inside its
  handler, raise (`run_agent_raises`).

## Fairness

* `reconcile`, `cooldown` and `listing` check safety and assume none.
* Drains (`two_drains`): weak fairness of each drain's next step. The cron sweep
  starts drains every five minutes and a drain that has started goes on unless the
  process dies. Admins and reconcile owe nothing.
* Tasks of the loop (`loop_overlap`): strong fairness of `Progress`, the steps of a task
  in which nothing breaks. Waiting for a lock is being enabled again and again
  while others come and go, and PostgreSQL queues its waiters. `PersistFails` is
  not in it, so no wait is ended by a failure that merely may happen; the refusal
  by the unique index, which must happen, is. `FairHistorySpec` asks it of `Progress`
  with `Observe`, which is enabled whenever `Progress` is.
* The digest worker (`digest_fair`): weak fairness of the worker's next step, as
  pg_cron calls it again and again. Neither success nor failure of the agent or
  of the mail is owed.
* The agent (`agent`): weak fairness of the run's next step, as every call has a
  timeout. No particular outcome of a call is owed.
* The tracker (`tracker`): weak fairness of its two timers, which are enabled only
  while the document runs. A document that is left or killed owes nothing; whether
  the visitor does anything is open.
* The panel (`live_panel`): weak fairness of the interval timer and of each request's
  next step. Requests may be lost, at most `MaxFailures` of them, and the claim is
  about tabs that stay visible in the end.

## Proofs

All theorems hold for every value of the constants under the assumptions named in
the modules (`StoresAssumption`, `LoopAssumption`, `TrackerAssumption`, ...). Each rests
on an inductive invariant, proved by one step per action.

* **`CatalogSync_proofs`**, for any number of concurrent drains and reconcile passes:
  `TypeCorrect`; `DoneRowsCanBeTrusted`, which rests on `IInvHolds`. `DoneMeansMirrored`
  is not inductive, because a drain's future writes depend on its locals. `IInvIn(K)` says
  of the products in K, for each program point, that the snapshot a drain holds is
  either current or superseded by a newer pending row it does not hold, that the
  hashes it read are those still in the store, and that a row about to be marked done
  has had its effect. Overlapping drains break this for the products whose rows they
  share, and only for those: `IInv` is `IInvIn(K)` for every set K of uncontested
  products, and every product with rows in two drains' hands is contested. A product leaves
  `contested` when it is owed work that no drain holds, where `IInvIn` asks nothing of it
  (`AfreshJoins`). `DoneRowsWereCarriedOut`, contested products included: `WantedInv` says
  that a row that has not been served still wants the product as it is now, so that what
  a drain reads after claiming the row serves it. `FailedRowsAreFinal`:
  the lists of one drain are disjoint and no uncontested row it has still to mark
  has failed (`HeldOpen`). `OutboxMirrorsCatalog`: `HistorySpec` implements
  `EventualMirror!Spec`, step by step, from `IInv`. `OnlyReconcileCondemns`: without
  reconcile passes no product is condemned. `HistoryIsCatalogSync`.
* **`RecommendationLoop_proofs`**: `LoopTypeCorrect`, `OneCurrentRecommendation`,
  `BaselineBelongsToCurrent` for any number of tasks. The invariant is about the lock on the key of the unique
  index: at most one task holds it (`OneKeyLock`), and the row it has flipped is the only
  one that is current (`KeyIsTaken`), so that its commit leaves one. `RunsKeepTheLog`: `Spec` implements
  `RecommendationLog!Spec`; with `Numbered` (the rows are numbered without a gap and the
  last is current) every commit maps to `Generate`, a profile upsert to `Count`, and every
  other step, blocked, failing or dying tasks included, to a stutter.
  `NoCircleOfLocks`: whenever tasks are at the database, one of them waits for
  nobody. A row is locked by one task at a time (`OneRowLock`); the task to look at is
  one that will commit, else one that is about to lock the profile, else the one
  that has flipped the current row, else anybody. `BatchesAreCounted` and
  `CounterCountsMoves` hold for any number of tasks, crashes and deliveries, from
  `HistoryInvariant`. What a task has read of the profile and will write from is still
  the stored one except for events that will count as overtaken (`Fresh`); what a run
  read its signals from is the stored profile except for those and for events that came
  late (`Snapshot`), so that its commit may reset the counter; a delivery is in the weights or
  in the hands of exactly one task that has still to fold it. They need that an
  event is in one batch (`HistoryAssumption`), which `EventsTravelOnce` proves of the
  browser. `HistoryIsLoop`.
* **`DigestQueue_proofs`**: `DigestMailsAreBounded`, `MailsLeftAreCounted`. A bound on mails already sent is
  not inductive; `MailLeft` says that a worker that may still mail a user, now or
  after claiming the user again, is strictly below the bound.
* **`AgentGraph_proofs`**: `AgentTypeCorrect`, `OnlyProductsAreShown`, `ExcludedStaysOut`,
  `CallsAreBounded`, `EvidenceCoversHalf`, and `RunsKeepTheContract`: `Spec` implements
  `AgentContract!Spec`. What a run saves is never empty (`SavedCites`), its commit maps to
  `Replace`, and whatever happens after it leaves the recommendation alone.
  `Grounded` carries the exclusions from candidates to reranked to cited products;
  `BudgetSoFar` counts the calls question by question, `Accounted` the calls whose
  usage the state of a run that may still succeed holds.
* **`Tracker_proofs`**: all five safety properties of `tracker`, from what a push and a
  flush do to a buffer whose events were made and have not been sent. For
  `NothingReportedTwice` the invariant relates the waiting query to the searches
  reported so far, and an open visit to the visits reported.
* **`SignalFeed_proofs`**: the three properties of `signal_feed` for every list of events,
  window and length. The invariant is the loop's: the rows made so far are right
  for the events done so far, and no event still to come is newer than a row.
* **`LivePanel_proofs`**: `PanelTypeCorrect`, `PollingIsNeverDoubled`
  and `BarFitsRecommendation`. The last
  needs `Growing`: a later recommendation has used up at least as many events, so
  that a profile read after the recommendation counts no more than what came
  after it. Read in the opposite order, it would not hold.

* **`Embeddings_proofs`**: the four properties of `embeddings`, for any finite number of
  callers, any texts and any chunk size. `ChunksSoFar` says that
  between two requests the vectors are those of the texts before `start`, so the last
  chunk completes them whatever its length. `PaidByOverlapOnly` is not inductive:
  `OverlapSoFar` says that what was paid for a query and those who still ask for it are
  together never more than the callers, and `PaidIsKept` that a query that was paid for is
  in the cache, so that nobody begins to ask for it again.

Only model-checked: the liveness properties (`EveryRowSettles`, `EveryTaskEnds`,
`EveryUserServed`, `EveryRunEnds`, `EveryEventLeaves`, `PanelCatchesUp`), since they rest
on fairness and ENABLED, which the prover cannot reason about.

## Not modelled

* Arithmetic on vectors and scores: decay and negative weights of a profile, its
  rounded hash, drift, MMR and rerank scores, ranking by distance. Where a decision
  depends on them, the models leave it open.
* What is only displayed: relative times, icons and interest percentages of the panel,
  wording of mails and pages. The session id of the tracker is a label on events.
* The start-up check of the model's capabilities (`mesh/client.py`), which raises or
  does nothing, and the retries inside the HTTP client.
* Accounts and sessions: single statements and library code (argon2, signed cookies).
  `create_user` leaves a race of two registrations to the unique constraint.
* Pages, settings, logging, health, error handlers: no state of their own. Pages show
  the state the properties speak of.
* Scripts: seeding a product is the admin's write (upsert and enqueue in one
  transaction); the simulated user posts batches to ingest.
* Whether a digest user counts as active is left open, as is the bearer check of the
  cron endpoints.
