# A TLA+ model of the trading server

The trading server collects the sales and the lots of the STALZONE auction. A worker process
polls the upstream API item by item, keeps recent sales row by row and older ones in aggregate
rows, and a FastAPI process answers requests from the same PostgreSQL database. This directory
holds TLA+ modules of its core, the TLC configurations that check them, and proofs for TLAPS.
All paths below are relative to `src/`.

Contents: [the system](#the-system) · [what is hard](#what-is-hard) · [modules](#modules) ·
[runs](#runs) · [findings](#findings) · [proofs](#proofs) · [abstractions](#abstractions) ·
[not modelled](#not-modelled) · [plan](#plan)

## The system

Two processes share one database. The *worker* (`app/modules/history/worker.py`) is one asyncio
process with four tasks. The *API* (`app/api`, `app/modules/*/routes.py`) serves requests
concurrently. They exchange nothing but the database, the file `config/market_items.json` and
the directory of the EXBO item database.

| component | code | state it keeps | operations | correct when |
|---|---|---|---|---|
| live loop | `history/worker.py` `_run_live_collection`, `_poll_history`, `_save_history_success` | the poll in flight; `history_poll_states`: the checkpoint (`latest_sale_at`, `latest_sale_fingerprints`) | claim an item, page through its history down to the checkpoint, save; sync the config; compact | every sale above the checkpoint is saved, once |
| backfill task | `_run_backfill_collection`, `_download_backfill`, `_save_backfill_success` | the download in flight; `backfill_offset`, `backfill_target`, `backfill_complete` | claim an unfinished item, download one chunk of old sales, replace the hours (days) it covers | no hole in a download, whole buckets, it ends |
| sale tables and reader | `history/repository.py`, `history/service.py` `read_history` | `auction_sales` (raw), `sale_aggregates` (20min, hour, day) | insert with dedup, add to a bucket, replace a bucket, compact, prune, read by resolution | a sale is counted once and shown once; compaction hides nothing |
| poll schedule and AUTO status | `_sync_items`, `_claim_next_history`, `_classify_special_auto`, `_update_auto_status`, `_save_history_error` | `market_items.configured_status/effective_status`; `next_poll_at`, candidate and runs, `consecutive_errors` | sync the config, claim the next due item, classify, back off | explicit statuses stand, hysteresis, no starvation |
| active lots | `_run_lot_collection`, `_save_lots_success`; `history/service.py` `get_or_refresh_active_lots`; `repository.py` `store_lots` | `lot_poll_states`, `auction_lots` | snapshot the listing page by page, store it, read it back | the tables converge to the market; a reply is one snapshot |
| request limiters | `UniformRateLimiter`, `_acquire_live_request`, `_acquire_backfill_request` | `_next_allowed`, a lock | acquire a slot at a rate | total rate and each share are kept |
| upstream client | `clients/stalzone.py` | the OAuth token and its expiry, a lock | get a token, request, retry once after 401 | one renewal at a time, a retry carries a fresh token, no token expires under a request |
| item config service | `admin/service.py`, `admin/routes.py` | `market_items.json` | GET, PUT, merge from the database | its items become those of the database |
| EXBO updater | `admin/exbo_updater.py`, `clients/exbo_database.py` | the database directory, its backup, the archive | download, extract, swap by two renames, sync items | a failed update leaves a complete directory in place |
| craft analysis | `crafting/service.py` | `craft_analysis_*` tables; the cache of costs within a run | cost of an item as the cheaper of buying and crafting, profits; save and prune runs; read the latest | no cost is below the least one, it is the least one where no cycle is in reach, plans add up, a reply has its results |
| cheap lots | `market/service.py` | none | compares lots with the sales of the shortest period that has enough of them | one period per price, the shortest, though the rows change between the queries |
| parsing | `history/domain.py` | none | payload to record, fingerprint | equal sales have equal fingerprints |
| rebuild script | `scripts/rebuild_hourly_aggregates.py` | none | recompute hourly rows from raw rows | no sale counted twice, none lost but what was saved meanwhile |
| sample scripts | `scripts/collect_*_samples.py` | none | save upstream replies as files | - |
| status and health routes | `items/`, `api/v1/health.py`, `admin/routes.py` | none | read | - |
| migrations | `migrations/` | schema | - | - |

Interactions: the live loop and the backfill write the same hourly rows of an item; compaction
moves hourly rows to daily ones between them, and an operator may run the rebuild script beside
all of it; the reader picks a table by the age of a sale and
computes that boundary from its own clock. The config file is written by the API and read by the
worker between two polls. The lot loop and the lot requests write the same rows from two
processes. All upstream requests of the worker go through one total limiter and one per task.

## What is hard

`PROJECT.json` lists the hazards at their lines. The themes:

- *A moving list.* Upstream pages by offset from the newest sale; every sale shifts the list
  under a poll or a download that takes several requests.
- *Deduplication by a row that is deleted.* The raw row of a sale rejects its second insertion,
  but raw rows live 48 hours at most; afterwards only the checkpoint's time and fingerprints do.
- *Four writers of an hour.* The live loop adds, the backfill replaces, compaction moves, the rebuild
  script deletes and writes again.
- *Replies from several queries.* A history reply takes four, a price up to three, the latest craft
  analysis two, and the tables change between them.
- *A memoised recursion over a graph with cycles.* What is cached depends on what was on the stack.
- *Boundaries.* Raw, hourly and daily windows are truncated to the hour, in the writers and in
  the reader, at different moments.
- *Restarts.* Everything in flight is lost; a claimed item comes back only when its lease ends.
- *Two processes and row locks.* Lots are stored under READ COMMITTED; the worker and the API take
  the same locks in opposite orders.

## Modules

### `HistoryCollection` - live loop, backfill, compaction, sale tables of one item

| TLA+ | code |
|---|---|
| `n`, `sold`, `Page(offset)`, `Sell` | the upstream listing, newest first (external) |
| `raw` | `auction_sales` |
| `twenty`, `hour`, `day` | `sale_aggregates` by resolution: `table[s]` is how many times sale `s` is in its row |
| `ckAt`, `ckFps` | `latest_sale_at`, `latest_sale_fingerprints` |
| `bfOffset`, `bfComplete` | `backfill_offset`, `backfill_complete` |
| `FetchFirstPage`, `FetchNextPage` / `WantsMorePages` | `_poll_history`, the loop of `_collect_incremental` and its condition |
| `NewRecords`, `SavePoll` | `_filter_new_records`; `_save_history_success` with `store_sales` (insert, add to the hour, move the checkpoint) in one transaction |
| `FailPoll` | the `except` branches of `_poll_history` |
| `BeginCompaction`, `CommitCompaction` | `compact_history`: the SELECT of the old hourly groups, then the writes that become visible at commit, `prune_aggregates` included |
| `ClaimBackfill`, `FetchBackfillPage`, `SaveBackfill`, `FailBackfill` | `_claim_next_backfill`, `_download_backfill`, `_save_backfill_success`, `_save_backfill_error` |
| `ShownAuto` | what `read_history` with `resolution=auto` adds up for a sale |
| `Restart` | the process ends and `run` starts again |

`LiveSpec` is the live loop and compaction of an item with nothing to backfill. `Spec` adds the
backfill task. An aggregate table counts sales instead of summing prices, because whether a sale
is in a row zero, one or two times is all that its properties need.

### `PollSchedule` - the queue and the AUTO statuses of several items

| TLA+ | code |
|---|---|
| `file`, `PutConfig` | `config/market_items.json`, `PUT /market-items-config` |
| `configured`, `effective`, `SyncItems` | `market_items`, `_sync_items` (upserts, then IGNORE for what is no longer listed) |
| `due` | `next_poll_at`, relative to now |
| `Before`, `Claim` | the ORDER BY and the lease of `_claim_next_history` |
| `ForcedStatus`, `UpdateAuto`, `Settle`, `SaveSuccess` | `_classify_special_auto`, `_update_auto_status`, `_save_history_success` |
| `Backoff`, `SaveError` | `_save_history_error` |
| `asked` | history variable: which status the latest classifying replies asked for and how many in a row |

`due` counts ticks until the item is due; the overdue items keep their order and nothing else,
since the code compares due times with now and with each other only. So the state space is
finite although the clock runs for ever, and liveness can be checked.

### `LotSnapshots` - the lots of one item, the worker and concurrent requests

Each session (`0` the worker, `1..Slots` requests) is a record with its phase, its download and
what it read before it writes. `latest` is the set of lots whose `last_seen_at` is the state's
`last_success_at`. Row locks are the sets `Rows(p)`; `BreakDeadlock` is what PostgreSQL does when
the worker (state row, then lots) and a request (lots, then state row) wait for each other.
A request takes the first free number, since the numbers mean nothing.
`Commit` writes `total_lots` only when it differs from the value loaded: that is what SQLAlchemy
does for an unchanged attribute.

### `TokenProvider` - the OAuth token and the requests that share it

`token` and `usable` are the provider's `_token` and what is left until `_expires_at`; `holder`
and `queue` are its `asyncio.Lock`, which is first in, first out; `call[c]` is a request of
`_authenticated_get`: waiting for the lock, renewing (`posting`), or out (`sent`) with a token.
`left` is upstream's side, for how long it will accept each token. What a coroutine does between
two awaits is one step: the first look at the token, the second look under the lock (`Enter`),
the renewal (`Renewed`, `RenewFails`), the answer (`Answered`, `Breaks`), `invalidate` with the
second `get_token` (`Rejected`) and the second 401 (`RejectedAgain`). `Revoke` ends a token at any
time. All times are what remains of them, so the clock can run for ever in finitely many states.

### `RequestBudget` - the limiters of the worker

`own[t]` and `total` are the ticks until the `_next_allowed` of a task's limiter and of the shared
one; `queue` is the shared limiter's lock, whose head sleeps. `Begin` is the call of
`_acquire_*_request` (the backfill selects its rate here), `PassOwn` and `PassShared` are the ends of
the two `acquire`. `ages` and `busy` are history variables for the properties: when each task was
let through, and for how long the backlog has stood.

### `ItemConfig` - the config file, the item database and its updater

`file` is `market_items.json`; `database` and `backup` are the directory and its `.previous`;
`archive` is what EXBO serves. The phases of `updater` are the statements of `update_once` and
`_replace_database`: download, remove an old backup, move the directory away, move the new one in,
remove the backup, read, save. `MoveFails`, `Restore`, `RestoreFails` and `RemoveBackup` are
its `except` and `finally`; `StepFails` is what `run_forever` catches; `Crash` may come anywhere.
The admin reads the config at one time (`GetConfig`) and writes it back as a whole at another
(`PutConfig`). A sync of the API reads the config (`SyncBegin`), walks through the directory item by item
while the updater may rename it (`SyncWalk`), so that it may find the items of two databases mixed, and
saves (`SyncSave`) or fails (`SyncFails`). The updater's own sync reads a directory that only it renames.

### `Ledger` - what the collector promises

The abstract specification: each sale is `new` until the collector decides about it, once, and
either counts it or lets it go; a counted sale may be forgotten; a sale that is gone stays gone,
unless an operator's restore brings it back. No page, checkpoint, table or window appears in it.
Sales are forgotten because `prune_aggregates` keeps a limited number of aggregate rows of an item
(`history_max_aggregate_points_per_item`), hourly ones among them, whatever README.md:45 says of those.

### `AggregateRebuild` - the rebuild script beside the live loop

Extends `HistoryCollection` by `rebuild`, the script of
`scripts/rebuild_hourly_aggregates.py`: when it began and the raw rows it has read
(`BeginRebuild`), the delete and the upsert that become visible together when it commits
(`CommitRebuild`, `Rebuilt`), a rollback (`AbandonRebuild`). It also says how the collector implements
`Ledger`: `StatusOf(s)` reads the status of a sale off the hourly and daily rows and the
checkpoint, and `KeepsLedger` is `Ledger!Spec` under that mapping.

### `HistoryReader` - a history request beside both

Extends `AggregateRebuild` by `reply`: the four queries of `read_history` with `resolution=auto`, in
their order (`PartAfter`: days, hours, 20-minute rows, raw rows), each seeing the tables of its own
moment, with the boundaries of the moment the request came in. `seen[s]` is how often the reply
includes sale `s`.

### `CollectionQueues` - whose turn it is in the lot loop and the backfill

`snapshots` and `chunks` are the due times, the claim and, for lots, the errors of
`lot_poll_states` and `history_poll_states`. `TakenFirst` and `DownloadedFirst` are the ORDER BY of
`_claim_next_lot` and `_claim_next_backfill`; the other actions are how a claim ends. Due times are
relative to now, as in `PollSchedule`. `Broken` items are those whose history never downloads.

### `CraftAnalysis` - costs, runs and the request for the latest one

`calls` is the Python stack of one `analyze_recipe`, a record per call of `_optimal_cost`, so that
the recursion is executed as in the code, `analysis.cache` is `cost_cache`, `OnStack` the
`stack` argument. Recipes are named by their places in the book; `After` goes to the next one that is
not disabled. The cost with bought ingredients only (`use_optimal_ingredients=False`) is
summed up beside the other one, in `direct`, since both go over the same ingredients. `AddIngredient`, `CallOptimalCost`, `EndRecipe`, `Return` and `EndAnalyzeRecipe`
are the recursion; `SaveAnalysis` and `PruneRuns` the two transactions at its end; `OpenLatest` and
`ReplyLatest` the two SELECTs of `read_latest_analysis`, with `reader.at` the place of the run it has
loaded. The reference is independent of all that: `NestedCosts(book, price)[k]` are the least costs with at
most `k` crafts nested in each other, `Grounded` the items from which no cycle is in reach. `Units` makes the
integers exact: a price is a multiple of `Units[0]`, and each unit is one of the next times any output of a
recipe, so that a cost with `k` crafts nested in it is one of `Units[k]` and no division leaves a remainder.
Any finite number of prices and outputs has such units.

### `FairPrice` - the price a lot is compared with

`request` is the state of `_read_fair_prices`: the period at hand, the variants and the items left
to price, the periods they were priced by. `hourly[v][p]` is how many sales of a variant the hourly
rows of the last day, week or month hold; `ChangeRows` changes them between two queries.

### `MCLive`, `MCPollSchedule`, `MCSeparate`

Instances for TLC. `MCLive` is `HistoryReader` with at most one disturbance per behaviour, be it a
restart, a rebuild or a request, so that five sales fit. `MCPollSchedule` lets only item 1 be AUTO.
`MCSeparate` puts `CraftAnalysis`, `FairPrice` and `CollectionQueues`, which share nothing they write, in
one instance and explores each while the other two rest. Their fairness is that of the queues,
the only part whose liveness is checked there.

### The modules with proofs

`HistoryCollectionProofs`, `PollScheduleProofs`, `TokenProviderProofs`, `RequestBudgetProofs`,
`ItemConfigProofs` and `LotSnapshotsProofs` hold the theorems of the modules they are named after,
`AggregateRebuildProofs` those of `AggregateRebuild` and `HistoryReader`, and `SeparateProofs` those of
`CraftAnalysis`, `FairPrice`, `CollectionQueues` and `MCSeparate`. See [proofs](#proofs).

A definition with the comment "A slip" (`NewRecordsByTimeOnly`, `KeepPartialOldestHour`, ...) is
not part of the model: it is a plausible bug in the definition below it, kept to show that the
property named in `PROJECT.json` "mutants" notices it.

## Runs

Slots are the 20-minute buckets; an hour is cut to 2 of them and a day to 2 hours, so that every
boundary is crossed within a few slots.

| run | question | bounds, and why they suffice |
|---|---|---|
| `live` | do the live loop, the rebuild script and a history request beside it save every sale, count it once, show it once in every reply, hide nothing by compaction, and keep the ledger, and what does a rebuild take out of the hourly rows? | 5 sales, 4 when the script or a request runs, pages of 2, page budget 3: polls of one, two and three pages, also cut off by the budget, by a stale total and shifted by sales. 6 slots with retention of 0 and 2 hours: a sale passes from raw to hour to day, and a raw row expires once its hour is over. `MaxRaw` 2 overflows, `MaxAggregates` 4 prunes. One restart, one rebuild of the last hour, which is an hour more than raw rows are kept, or one request. |
| `backfill` | has a download holes, does it write whole hours, does compaction spare them, does it end? | 4 sales, pages of 2 and an overlap of 2: the overlap is bounded by the page (`PageOverlap`), a chunk of 3 is more than a page and less than the history. Raw retention 0 puts two hours of sales within reach of the backfill in 4 slots, hourly retention 1 puts some of them into daily rows. One failure. |
| `double_count` | (violation) both tasks together count a sale once | 2 sales, no failure |
| `partial_hours` | (violation) a backfill of several chunks writes whole hours | chunk 2, target 6, 4 sales |
| `schedule` | does AUTO move only after enough replies, are due times bounded, is every pollable item polled? | two items: one AUTO or explicit, one explicit that competes with it with the shortest interval; replies that ask for two different statuses, two edits (listed, changed, removed), one restart; error counts up to where the backoff is capped; ties in due time, status and id occur |
| `auto_ignored` | (violation) an AUTO item is classified on its first response | one item |
| `lots` | what can a snapshot lack that passes its checks, and do the tables converge? | the worker and two requests, 4 lots, pages of 2, one change, one failure: a lot comes or goes before, in or behind the page at hand, snapshots mix two listings, saves race, the database breaks deadlocks |
| `torn_reply` | (violation) a reply holds as many lots as it says | as `lots`, with 3 lots |
| `tokens` | one renewal at a time, fresh tokens for retries, no expiry under a request, every request ends? | two requests (one renews, the other waits, is refused or is out with an older token) that start again without end; ticks of 30 s: a margin of 2 and a minimal use of 2 are the code's 60 s, lifetimes of 4 and 5 are the shortest that exceed both |
| `budget` | does each task keep to its rate, does the backfill yield, is none crowded out? | intervals of 2 (total), 3, 5, 5 to 6 ticks: together the tasks want more than the total, as with the values of `.env.example`, so that they queue; the window remembers requests for as long as the longest interval |
| `separate` | are craft costs right, do plans add up, does a reply keep its results; is a lot priced by one period; does each item get its turn in the lot and backfill queues? | four items and five recipe books: no cycle, cycles of two and three, several orders, a disabled recipe; prices 64, 192 or none, multiples of 16, which the outputs of 1 and 2 divide once for each item; two runs kept, one failure. Three variants of two items, two sales make a price, one change of rows between queries. Two items of two statuses, one of which cannot be downloaded, two chunks each, retries no longer than a lease, one disturbance. |
| `config` | does a failed update leave a database, and does the config come to agree with EXBO? | two items, two statuses, two releases of the archive (also back to the first), one edit, one sync by the API, one failed step, one failed restoration, one crash |

**Backfill in one and in several chunks.** `BackfillHasNoHoles` is about the first chunk of an item;
`BackfillWritesWholeHours` holds as long as the item's target fits one chunk (`ItemTarget` 0, all
items but artifacts and modules). With a larger target it fails: run `partial_hours`.

**Fairness.** `BackfillFairness`: the task loops for ever over claim, request and save, each of
which returns (the client has timeouts); failures are bounded, since nothing completes under
endless failure. `PollSchedule!Fairness`: time passes, and the live loop claims what is due and
finishes each poll, with a success or a failure, whichever it likes: a poll that fails for ever
still ends. Config edits and restarts are not fair and bounded. `QueuesFairness` is the same for
the lot loop and the backfill task, each of which is alone with its queue and finishes what it
claims; failures of a broken item go on for ever. `LotSnapshots!Fairness`: worker
and requests run on. A request waiting for the state row gets strong fairness, since PostgreSQL
queues the waiters of a row lock, so the worker cannot take the row for ever.
`TokenProvider!Fairness`: every HTTP request is answered, breaks or times out, and the loop wakes the
first waiter of a free lock. `ItemConfig!Fairness`: the updater runs on, a sync that has begun ends;
failures, edits and releases are bounded.

**Deadlock.** Every run checks for it.

**What these properties leave out.** `PollSavesAllNewer` is about polls that the page budget and the total of
the first reply do not cut off; what a cut-off poll leaves below its last page is lost to the live loop.
`CompactionHidesNothing` looks at what is still counted after a compaction; that a backfill's row is deleted
unread is `BackfillSparesCompaction`'s. `LotsConverge` and `ConfigConverges` are about the end: that a
reply in between names a total that does not fit its lots, that the worker loses a deadlock, that the time of a
snapshot is set back, or that a crash leaves no database until the next update, they do not notice.
`ExplicitStatusStands` is proved and in no run: the sync of the config and the polls take turns in one loop, so it is
about one writer at a time and rests on one guard. Such hazards are in `PROJECT.json` with a note that says so.

## Findings

Four properties that the documentation states fail in the model by what the code does.

1. `double_count` - a sale can be counted twice. README.md:44-45 says repeated results are
   deduplicated. The live loop adds a sale to its hour, the backfill writes hours from what it
   downloaded, and neither knows of the other. The live poll of a new item holds a sale that is
   by then older than the raw window; the backfill saves it; the poll adds it again.
2. `partial_hours` - `replace_hourly_aggregates` "replaces complete hourly buckets"
   (`app/modules/history/repository.py:155`), but a later chunk starts inside an hour:
   `_exclude_partial_oldest_hour` drops the incomplete oldest hour only, never the newest.
3. `auto_ignored` - an item first synced as IGNORE (what `sync-market-items` writes for every new
   item) and then set to AUTO keeps `effective_status` IGNORE and is never polled, where
   README.md:37 says it is classified on the first history response.
4. `torn_reply` - `read_active_lots` queries the lots by a `last_success_at` it loaded before; a
   snapshot committed in between leaves a reply with a total, `snapshot_complete` true and no
   lots, where README.md:70 says the listing is complete.

More places where README.md does not describe the code, without a run: README.md:45 says that hourly
aggregates are kept indefinitely (they become daily ones after 60 days and count among the rows that are
pruned), README.md:30 that auction
requests are evenly spaced (the retry after a 401 passes no limiter, `clients/stalzone.py:147`), README.md:46 says
that the worker only collects sales (it runs a lot loop unless `lots_collection_enabled` is
off), and README.md:55 that `auto` returns raw points for the last day (the code uses the raw
window of 48 hours, and daily rows beyond the hourly window).

## Proofs

TLAPS proves the theorems below for every value of the constants that satisfies the modules'
named assumptions: bounds and settings are naturals, sizes and intervals are not zero, in
`PollSchedule` the error counter runs up to where the backoff has reached its cap,
in `FairPrice` the variants are finite in number, and in `CraftAnalysis` the items are, and costs have units.
What else a theorem needs is an `ASSUME` in its statement, and named below.

| | type correctness | safety invariants | action properties | refinement |
|---|---|---|---|---|
| `HistoryCollection` | proved | all proved | all proved | |
| `AggregateRebuild`, `HistoryReader` | proved | all proved | all proved | proved (`Ledger`) |
| `PollSchedule` | proved | all proved | all proved | |
| `TokenProvider`, `RequestBudget`, `ItemConfig` | proved | all proved | | |
| `LotSnapshots` | proved | | proved | |
| `CraftAnalysis` | proved | all proved | | |
| `FairPrice` | proved | all proved | | |
| `CollectionQueues` | proved | | | |

**`HistoryCollectionProofs`**, three layers.

- `PollInv` is inductive under all of `Next`: the types; `ListingOrdered` (sales are listed in the
  order of time); `CheckpointListed` (the fingerprints belong to listed sales at the checkpoint's
  time); `PollCovers` (the poll in flight holds a final part of the first `total` sales, at least
  down to where its next page starts); `PollFresh` (the poll reaches at most a page below a sale
  of the checkpoint). From it `TypeCorrect` (`Spec => []TypeOK`) and
  `PollLosesNothing` (`Spec => PollSavesAllNewer`, with the backfill running). `PollCovers` is
  what a test would not show: the pages of a shifting listing overlap and never leave a gap.
- `CountInv` is inductive under `LiveNext`, given `PollInv`: `StoredIsPassed` (whatever an hourly
  or daily row holds lies behind the checkpoint, so no later poll lets it through),
  `GroupsCurrent` (the groups a compaction read are still the hourly rows it will delete) and
  `CountedAtMostOnce`. From it `LiveCountsOnce` (`LiveSpec => []CountedAtMostOnce`).
  `CountedAtMostOnce` alone is not inductive: without the checkpoint nothing says why a sale whose
  raw row has expired is not inserted again. `StoredIsPassed` has a case that a first attempt at
  the proof missed: sales that share the checkpoint's time but had left the first page when it was
  saved are not among its fingerprints, and are kept out only because a poll stops a page below.
  With the backfill the theorem is false: run `double_count`.
- `DownloadInv` is inductive under all of `Next`, given `PollInv`. `DownloadCovers` is `PollCovers` for
  a list that shifts by any amount: the first chunk has every sale older than its boundary that lies
  above its next page, and no gap above a sale it has; the step works because a next page starts no later
  than the end of the one before (`PageOverlap`), and new sales only push older ones down. `DownloadIsOld` keeps the boundary at an hour in the past, `ChunkIsWhole` says that a chunk without
  its oldest hour has whole hours, `OneChunk` that an item whose target fits a chunk has no second one,
  `CompactionIsOld` that a compaction's clock is not ahead. From it `ChunkHasNoHoles` (`Spec =>
  []BackfillHasNoHoles`, for any page size, overlap, chunk size and target), `BackfillLeavesOldRows`
  (`Spec => BackfillSparesCompaction`: within an hour both see the same hourly boundary, and the save writes
  on one side of it and the compaction deletes on the other) and `ReplacesWholeHours` (`Spec =>
  BackfillWritesWholeHours`). The last one assumes `ItemTarget <= ChunkSize`, which is so for all items but
  artifacts and modules; run `partial_hours` shows that it is needed.

**`AggregateRebuildProofs`**, three more layers. `ScriptInv`, for any hours the script is told to rewrite, adds to
`PollInv`: `RawIsPassed` (the checkpoint has passed every raw row), `HourIsListed` (hourly rows hold listed
sales), `CompactionIsOld` and `ReadIsPassed` (what the script has read, less than an hour ago, has been passed
by the checkpoint too, and is every raw row of the hours it rewrites that was held then; `held` is a history field). `RebuildInv` is `ScriptInv` and `CountInv` with
`DailyIsOld` (what a daily row holds is behind the hourly boundary) under the hypothesis
`RebuildHours < HourlyRetention`. The script may put back a sale that was long pruned; it counts none twice
because it then only writes hours that no daily row can hold. The script checks its `--hours` for being positive
and nothing else. With the defaults, 60 days of hourly rows and 48 hours of raw ones, a longer rebuild counts
twice only beside a compaction that lags far behind: the script reads a raw row that is older than the hourly
boundary, the compaction moves the hour to its day, and the script writes the hour again. TLC finds that
behaviour when `RebuildHours` is raised above `HourlyRetention`, so the theorems below name the hypothesis.

- `RebuildTypeCorrect` (for any hours), `RebuildCountsOnce`: types and `CountedAtMostOnce` with the script running.
- `ImplementsLedger` (`RebuildSpec => KeepsLedger`): the refinement. `LedgerStep` takes a step of each
  action to a step of `Ledger` or a stutter. A poll decides about new sales (`Collect`), because
  what it inserts was not passed before; a compaction keeps a sale's sum of hour and day, or
  forgets it; the script restores. What does the work is that passed sales stay passed
  (`PassedStays`), so a sale that is gone cannot become new again.
- `ReaderSeesOnce`: at any one moment a sale is in one of the rows the reader adds up. It needs
  `RawMovesOnce` (a 20-minute row takes a raw row's place) and the assumption
  `RawRetention <= HourlyRetention`, 48 hours and 60 days by default. Nothing in the code checks it.
- `CompactionKeepsVisible`: a compaction that commits in the hour it began in hides nothing.
- `RebuildLosesFew` (`RebuildSpec => RebuildLosesOnlySaved`), for any hours the script is told to rewrite: what a
  prompt rebuild takes out of the hourly rows was saved after it had read, is older than the raw window, or has
  `MaxRaw` other sales as new. A rebuild of more hours than raw rows are kept does lose the older ones: that is
  the second reason, and run `live` passes through it. The theorem needs `RecentIsRaw`, inductive beside
  `ScriptInv`: a sale that an hourly row holds, or that the script has read, is still in its raw row, or is of
  one of the latter two kinds; the raw cap by counting (`OverflowIsOld`). The rewritten hours begin at a whole hour
  (`RebuildSparesBefore`), so that a sale taken out and held when the script read would have been written again.

The last layer is that of `HistoryReader`. `ReplyCountsOnce` says the same as `ReaderSeesOnce` of a reply
whose four queries see four states of the tables. `SeenInv` says, for each place between two queries, why a
sale that is in the reply already will not be found again: after the days, it is in no hour any
more and none will take it back (`HourStaysEmpty`); after the hours, it is older than the raw
boundary of the request; after the 20-minute rows, it has left the raw rows for good. The order of the queries is what
the proof rests on: with raw rows before 20-minute rows (the slip `RawBeforeTwenty`) a sale can be
found twice. Here `RawRetention < HourlyRetention` is assumed as well: the windows may move up by an hour
between two queries.

**`PollScheduleProofs`**. `Inv` is `TypeOK`, `SomeoneIsPolled` (a poll is of an item),
`ExplicitStatusStands` and `RunsWereAsked` (the runs the code counts did ask for the candidate,
one after the other). From it `TypeCorrect`, `ExplicitStands` (`Spec => []ExplicitStatusStands`)
and `MovesAreAsked` (`Spec => Hysteresis`). `RunsWereAsked` ties the code's counter to the history
variable. `TypeCorrect` includes that due times are bounded after any number of errors.

**`TokenProviderProofs`**. `Inv` is the four safety properties with `RetryPending` (once a token
is rejected the provider never has it again) and `ClocksAgree` (what upstream still grants a
token exceeds what the provider counts by the margin, less the time of its renewal; the token of a
request that is out lasts as long as the request may). From it `TypeCorrect`, `OneRenewal`,
`RetryIsNew` and `MarginSuffices`, for any number of requests and all lifetimes. The last one needs
`MarginAssumption`: the margin covers a renewal and a request, 30 s each. With the code's numbers
it is exact: a margin one tick shorter does not suffice.

**`RequestBudgetProofs`**. `Inv` is `TypeOK` with `WaitsInTurn` (everyone before a task in the queue costs it
one interval of the shared limiter, so what it has waited and what it still faces stay within three),
`InOrder` (ages are in order, and the shared limiter demands what is left of its interval since the newest
request of all), `SharesArePaced` and `BacklogIsPaced`. The latter two say `Paced` of a task's limiter: the
n-th last request is n - 1 intervals ago less what the task still owes, and n intervals once it has paid for
the next one and queues. `SharesAreKept` alone is not inductive: what a task owes to its own limiter has to be
weighed against the age of its last request, and a request that queues is late by up to one interval of the
queue. From it `TypeCorrect`, `TasksKeepTheirShares`, `BackfillSlowsDown` and `NobodyWaitsLong`, for all intervals.

**`ItemConfigProofs`**. `Inv` is `TypeOK`, `SourceHasItems` (what was validated is not empty) and, as long as
no process died between the renames and no restoration failed, `DatabaseInPlace`: for each phase of the
updater, where the database is. `UpdateLeavesDatabase` says so of the idle phase only and is not inductive:
the phases between the two renames, and that of a failed second rename, need the backup. From it `TypeCorrect`,
`UpdateIsSafe` and `AlwaysOnDisk`, for any items, statuses and numbers of failures, edits and releases.

**`LotSnapshotsProofs`**. `TypeCorrect` is routine but for one bound: an offset never passes the number
of lots, although they come and go between the pages. `PageIsBehindOffset` proves it by counting: ranks map
a page one to one into the numbers behind the offset. `SnapshotIsAlmostRight` (`Spec => SnapshotLacksFew`) rests on
`GoneAreCounted`, inductive beside the types: what a download holds and the listing does not has gone since it
began. A snapshot that passes its checks has as many lots as the listing, so it lacks as many as it has too
many (`DifferencesAreEqual`). How it pages does not matter for that; the count of distinct lots does.

**`SeparateProofs`**, an invariant for each of three parts and a theorem that puts them together.

- `CraftInv` types the run, its stack of calls and its cache, and carries one fact through the recursion:
  no call, cached decision or result costs more than its counterpart that is bought (`NoDearer`), where a
  price exists. From it `CraftTypeCorrect` and `ChoosingNeverCostsMore` (`CraftSpec =>
  []NeverDearerThanBuying`), for any recipe book with any cycles and any prices. `RunsOk` says where the run
  a reader has loaded is among the saved ones, from which `RepliesAreWhole` (`CraftSpec =>
  []ReplyHoldsItsResults`).
- `PlanInv`, inductive beside `CraftInv`, is about what the analyzer would answer in a state: the cached cost
  of an item, or its price (`Known`). With `k` costs cached (`RoundsDone`), none is below that with `k` crafts
  nested in each other (`NoCheaperThan`), all are multiples of `Units[k]` (`WholeIn`), those from which no
  cycle is in reach are no dearer than any number of nested crafts makes them (`AcyclicAreLeast`), and every
  decision is put together from decisions there are (`NodesAddUp`). From it, for any recipe books with any
  cycles and any prices: `NoCostIsTooLow` (`CraftSpec => []NeverTooCheap`), `CostsAreExact` (`CraftSpec =>
  []ExactWithoutCycles`) and `PlansAddUp` (`CraftSpec => []PlanAddsUp`).

  None of the three is inductive: each is about the cache, and a cost gets there from a call that began
  many steps before. So `PlanInv` follows the stack. `StackOk`: the items on it differ, none is cached, and
  an item in reach of no cycle has only items of earlier rounds above it. `FramesOk`: the sum of a call is
  that of its ingredients so far *at the costs known now* (`SumOk`), and its best recipe costs no less than
  with one more craft nested, adds up, and, in reach of no cycle, is the least of those tried (`BestOk`).
  Two facts make it work. What has been answered keeps its answer: a return changes the cost of one item,
  which is neither cached nor below on the stack (`ReturnKeepsPlanInv`), so what `_ingredient_decisions`
  finds on its second visit is what `_recipe_unit_cost` has summed up. And the ingredients of an item in
  reach of no cycle are never on the stack (`GroundedAnswers`), so what is answered for them is no stopgap.
  `NeverTooCheap` needs the number of cached costs: each return nests one more craft at most, and there are
  no more returns than items.

  The reference definitions are recursive functions. `Induction` and `Rounds` (a function given by its first
  value and by rounds exists) are proved from `NatLessThanWellFounded`, since the library's theorems for
  induction and recursion take operators; `SumsOf`, `NestedCostsAre`, `GroundedInIs` and
  `DecisionsAreNodes` rest on them.
- `FairInv`: `PricesOk` says for each item of a request that it is still asked for exactly while no
  period has settled it, and for each variant which period did. From it `FairTypeCorrect` and
  `ShortestPeriodPrices` (`FairPriceSpec => []PricedByShortestPeriod`), for any variants, items and changes.
  The proof rests on `SalesOfItem`: an item has no fewer sales than one of its variants, so no variant is
  settled before its item.
- `QueuesInv`: due times stay within the longest delay, and what is claimed for a download is not complete,
  so that the chunks left are never negative (`QueuesTypeCorrect`).
- `EachOnItsOwn` (`Spec => CraftSpec /\ FairPriceSpec /\ QueuesSpec`): the instance of run `separate` shows
  behaviours of each part and nothing else, so the theorems hold there (`TypeCorrect`).

**Only model-checked**:

- the liveness properties (`BackfillCompletes`, `NobodyStarves`, `EveryItemIsSnapshotted`,
  `EveryBackfillEnds`, `LotsConverge`, `EveryCallEnds`, `ConfigConverges`), which need fairness and `ENABLED`
  and are beyond the prover;
- absence of deadlock, which every run checks.

## Abstractions

- `HistoryCollection` has one item with one quality and one `additional` key: a bucket is one row.
  Items meet only in the queue (`PollSchedule`), the limiters and the claims. A sale stands for
  its fingerprint, so two sales the code cannot tell apart are one.
- Upstream lists sales in the order they happen, at once, and forgets none.
- During one poll fewer than `PageSize` sales of the item happen (guard of `Sell`): a poll is a
  few seconds and a page has 200 records. This bounds how far a listing shifts under a poll. During
  a backfill it may shift as much as it likes.
- When a poll, a compaction or a backfill starts is left open: `HistoryCollection` starts any of
  them whenever its task is free; leases, due times and the backlog threshold of
  `_claim_next_backfill` are left out there. This allows every schedule the code can produce.
- A transaction that the code makes conflict-free by row locks is one step. Compaction is two: the
  groups it read in its SELECT and its writes.
- `PollSchedule` lets a reply ask for any activity status: which the smoothed
  `activity_score` gives depends on sales that this module does not have. This allows more than
  the code can do and no less.
- `AggregateRebuild`: the script and a request take less than an hour (`Prompt`, `InTime`). The script
  reads raw rows only, so a rebuild takes sales out of the hourly rows whose raw rows are gone: those older
  than the raw window, if it is told to go back that far, and those that the raw cap has moved to 20-minute
  rows. `RebuildLosesOnlySaved` names both. The script does not run beside a backfill in the model.
- `RawOverflows`: which of the sales of one moment overflow is left open. The code ranks them by their ids,
  which depend on the poll each came with.
- `BackfillSparesCompaction` holds for a save that ends in the hour it began in. A save that straddles
  the end of an hour can write an hourly row which the compaction's DELETE takes away unread.
- `CollectionQueues`: a claimed item that waits longer than its lease is not claimed again, since the
  same task is busy with it. The errors of a lot poll are counted up to where the backoff has its cap.
- `CraftAnalysis`: prices are integers that the outputs divide (`UnitsAssumption`), where the code has floating
  point numbers, whose rounding is left out; the liquidity
  level and the names of items change no decision and are left out. In a cycle the costs may exceed the least
  ones, by what was taken as bought when they were cached; the properties state how far the code is right.
  A reader whose run is pruned between its two SELECTs, after `craft_analysis_keep_runs` newer ones, gets
  a reply without results; `ReplyHoldsItsResults` says that this is the only way to one.
- `FairPrice`: once an item as a whole is settled by a period, its variants are not looked up in longer
  ones, although a longer one might have enough sales of that very variant. The property
  says what the code does.
- `LotSnapshots` abstracts time stamps to the set of lots they single out, and leaves out the
  deletion of lots 48 hours after they disappear: of those rows nothing but their existence is left,
  and an upsert brings a lot back whether its row is there or not. In `StoreLots` all rows are locked at once.
- `TokenProvider`: a tick is the time one HTTP request may take, 30 s. The client's timeout of 30 s
  holds for each of its operations (connect, read, ...), so a reply that trickles in could take
  longer. The event loop is not blocked for a tick.
- `RequestBudget`: timers fire on time, and a request that has passed the shared limiter is sent at
  once; the wait for a token that is being renewed comes on top. `_next_allowed` is rounded to ticks.
- `ItemConfig`: a directory without items is none to the code (`get_all_items` raises), so `{}` is
  both. Removing a directory is one step, and so is the updater's reading of it. The API's handlers do not await, so
  they do not interrupt each other, while the updater is another process. `DatabaseOnDisk` and
  `UpdateLeavesDatabase` hold until the updater dies or a restoration fails: after a crash between
  the two renames the next update deletes the backup, the only copy, before it moves the new one in.
- Counters that could run for ever have a bound in their guard: `MaxSales`, `MaxTime`,
  `MaxFaults`, `MaxEdits`, `MaxCrashes`, `MaxRequests`, `MaxChanges`, `MaxReleases`, `MaxSyncs`,
  `MaxFailures`, `Window`, `MaxRebuilds`, `MaxReplies`, `MaxDisturbances`, `BesideSales`, `MaxCraftFaults`,
  `MaxSold`, `MaxRowChanges`, `MaxChunks`, `MaxStatusChanges`, `MaxQueueFaults`; `reader.at` stops past
  `KeepRuns`, where its run is gone; and `errors` stops at `MaxErrors` (`MaxLotErrors`), where the
  backoff does not grow any more.

## Not modelled

- Parsing (`history/domain.py`) and the keys of aggregate rows: pure functions. The caches of item ids that
  choose such a key live as long as their process; `PROJECT.json` lists what that risks.
- Status and health routes: reads of single rows. The other resolutions and the filters of the history
  reader: each is one of the four queries alone.
- Sample scripts: they touch nothing the system uses. Migrations: the schema only.

## Plan

In the order of importance:

1. `HistoryCollection`: what a second chunk of the backfill guarantees (`DownloadCovers` is about the first),
   and what remains of `CountedAtMostOnce` beside the backfill: an abstract ledger that says which sales may
   be counted twice, and no others.
2. The keys of aggregate rows: two processes with caches of ids taken at different times.
