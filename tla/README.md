# TLA+ models and proofs of the Ravencoin explorer

The explorer copies a Ravencoin node's chain into PostgreSQL (the *indexer*,
one process), serves it over HTTP (the *API*, any number of processes) and shows
it in a browser. What can go wrong in it goes wrong between processes: the node
changes branch while blocks are being fetched, parallel workers commit batches
out of order, a process dies between two checkpoints, and readers look at the
tables meanwhile. These modules state what must hold then. TLC checks them on
small instances; TLAPS proves nearly all of the safety properties, of every part
from the planner to the browser's data hook, for every value of the constants.

## The system

| Component | Code | State it keeps | Operations | Talks to |
|---|---|---|---|---|
| Synchronisation cycle | `server/indexer.mjs` 518-733 | target, stop and abort signals | read the node's height, find the common ancestor, roll back, start the workers, report `ready` or `error`, poll | node (RPC), `sync_state`, workers |
| Producer | `server/indexer.mjs` 592-609, `server/pipeline.mjs` 46-160 | a batch being fetched | wait for room, fetch, check the links, stage | node, `blocks`, `transactions`, `tx_inputs`, `tx_outputs` |
| Aggregator | `server/indexer.mjs` 618-695, `server/pipeline.mjs` 162-471 | calls in flight, adaptive batch size | reduce what is next, plan ranges, prepare them in parallel, halve a batch that is too dense | `aggregation_batches` and its delta tables |
| Range planner | `server/indexer.mjs` 31-56 | none (a pure scan) | next free range | aggregator |
| Checkpoint transactions | `server/pipeline.mjs`, `rollbackTo` in `server/indexer.mjs` 463-516 | the tables of `server/schema.sql` | stage, prepare, reduce, roll back | all of the above |
| Asset directory | `server/indexer.mjs` 373-437, 698-711 | `assets`, `asset_sync_queue` | bootstrap, enqueue, drain, retry | node, reducer, rollback |
| Explorer queries | `server/repository.mjs` | none | status, block, transaction, address, asset and search pages, one or several queries each | tables, gated by `best_height` |
| API server | `server/index.mjs` | response cache, rate-limit windows | serve, cache, limit, health | explorer queries |
| Migration and lock | `server/db.mjs` 98-167, `server/indexer.mjs` 735-747 | schema version, advisory locks | create indexes online, migrate, hold the indexer lock | PostgreSQL |
| RPC client | `server/rpc.mjs` | none | batch, match ids, time out | node |
| Amounts | `server/indexer-utils.mjs` | none | convert decimals, normalise outputs, add balances | staging, assets |
| Reversal dataset | `server/reversal-data.mjs` | memoised dataset, a load in progress | read the four files, parse CSV, validate, search, download | files of a publisher, API |
| Frontend | `src/lib/api.ts`, `src/ReconciliationPage.tsx`, other `*.tsx` | fetched data per view; form, filters, offset and history of the search page | fetch, abort, refresh, navigate, render | API, browser history |
| Readiness and health | `server/db.mjs` 169-214, `server/index.mjs` | none (reads the checkpoint row) | assess the checkpoint, answer `/api/health` | node, `sync_state`, monitor |
| Monitor | `scripts/ops/monitor.mjs` | a state file | ask for health, read the checkpoint, compare with the last run | API, PostgreSQL |
| Reconciliation | `scripts/ops/reconcile-rpc.mjs` | one snapshot | sample, ask the node, compare | PostgreSQL, node |
| Operations | `scripts/ops/*` | lock directories, marker files | snapshot, restore, finalise txindex | PostgreSQL, node |

The behaviours that are hard to test, each with its line and the property that
covers it, are the `hazards` of `PROJECT.json`. They fall into five groups:

* **order of commits**: producer and parallel prepare calls commit
  independently; the reducer must apply batches in height order, once each;
* **a chain that moves**: every RPC answer may come from another branch than
  the one before; a rollback has to cut rows, batches, marks and balances at
  the same height, also under half-done work of a previous process;
* **state read before an `await` and used after it**: the producer's previous
  hash, the planner's list of reserved ranges, the API's tip, the answer to a
  request the page no longer waits for;
* **several readers of one story**: a page of several queries, the four files of
  a publication that is being replaced, a snapshot compared with a node that
  moves, a monitor that judges by three sources read at different times;
* **ends and restarts**: a signal, a failing sibling, a crash, a lost answer of
  `COMMIT`, and the promise that the indexer still gets to `ready`.

## The modules

| Module | Models |
|---|---|
| `AggregationRanges` | ranges of heights, and the range the planner promises to find |
| `RangePlanner` | `findNextAggregationRange`, loop turn by loop turn |
| `BlockTree` | blocks, their parents, and the chains a node may have |
| `ProcessedChain` | abstract: what readers of the database are promised |
| `Checkpoints` | abstract: when the four checkpoint transactions commit, and what becomes of the checkpoints |
| `IndexerPipeline` | the cycle, producer, aggregator and checkpoint transactions |
| `Ledger` | what those transactions do to transactions, inputs, outputs, history and balances |
| `ExplorerReads` | pages built from several queries, composed with `Ledger` |
| `AssetQueue` | asset directory and metadata queue: bootstrap, reducer, rollback, asset worker |
| `Migration` | the start of services: migration lock, online index builds, indexer lock |
| `ResponseCache` | the API's cache of pending and settled calls, and its demo fallback |
| `RateLimiter` | the API's rate limit |
| `UseApi` | the browser's data hook |
| `ReversalPage` | the search page of the reversal dataset, with `UseApi` in it: form, pages, history |
| `ReversalCsv` | the download's CSV writer and the loader's CSV automaton |
| `ReversalDataset` | the checks of a publication row by row, its searches, pages and downloads |
| `DatasetService` | the shared load of a publication that is replaced file by file |
| `Monitor` | the checkpoint row in time, its health assessment, and the monitor that watches it |
| `ReconcileRpc` | the reconciliation tool, composed with `Ledger` |
| `MC...` | blocks, transactions, assets, services and requests of the runs |
| `RangePlannerProofs`, `IndexerPipelineProofs`, `LedgerProofs`, `ExplorerReadsProofs`, `AssetQueueProofs` | the theorems about the module of that name |
| `OperationsProofs` | the theorems about `Migration` and `Monitor` |
| `WebTierProofs` | the theorems about `ResponseCache` and `RateLimiter` |
| `ReversalProofs` | the theorems about `UseApi`, `ReversalPage`, `DatasetService` and `ReversalDataset` |

### IndexerPipeline

Each action is one database transaction, or one RPC answer, with the JavaScript
that runs until the next `await`: that is the granularity at which Node's event
loop and PostgreSQL interleave. `pc`, `pp` and `ap` say where the cycle, the
producer and the aggregator are suspended. `active` holds the prepare calls:
"running" before the transaction commits, "committed" until its promise
settles. The tables are a map from heights to hashes and a set of batches;
`sync_state` is six variables.

Three things are kept because properties depend on them. `StartCycle` reads the
node's height once, and all later answers of the cycle may come from another
chain. `ReadState` takes the snapshot of `listPreparedRanges` and `Reserve` is
the arrival of its answer, so a prepare call may commit and settle in between.
`FetchBlock` is one answer of the `getblockhash` batch, so the heights of a
batch may come from two branches; the block is then fetched by hash and does
not change any more.

An RPC call or a query may fail wherever one is awaited (`CycleFault`,
`WorkerFault`, `TaskFault`). A `COMMIT` whose answer is lost is `PrepareBatch`
followed by nothing but `TaskFault`, which takes a call in either state. `Crash`
may come between any two actions; a transaction in flight is undone, so nothing
of the tables changes. The writing of `status = 'error'` may itself fail.

Left out: what a block contains (`Ledger`), times (a sleep is a worker not
taking a step), error texts, the sequential aggregator (reachable only through
the `aggregateBlocks` option that tests inject) and `indexBlockBatch`, which
nothing calls.

### Ledger

The same four transactions with their effect on the other tables, in any order
their own checks allow. That the order in which `IndexerPipeline` calls them is one
of those is what `Checkpoints` is for: both implement it (see below). Staging writes transactions with their outputs and unresolved inputs.
Preparing resolves the inputs of a range, marks outputs spent, writes history
rows and asset transfers and captures the batch's deltas, whether the rows were in
the table before or not. Reducing adds deltas to balances. A rollback deletes blocks, lets
foreign keys cascade, and recounts the addresses that had rows above the
ancestor, up to the processed height only.

A balance is a sum of rows. Instead of adding amounts the model counts how
often each row is in the sum (`counted`): a balance is right for all amounts if
each row of the processed blocks is counted once and every other row is not.
Assets are further rows of the same kind, with an address balance per asset.
`asset_transfers` is a table of its own (`transfers`), because an output that carries an
asset has a row there even if no address is paid, and then no row in the history.
`ConsensusAssumption` is what the node's own validation guarantees of one
chain: a transaction is mined once, an output is spent once, and not before it
exists. Across branches nothing is assumed.

### Checkpoints

The four transactions once more, reduced to what decides whether they commit: the
staged hashes, `raw_height`, `best_height` and the ranges in `aggregation_batches`.
Each may come at any time. `IndexerPipeline` implements it (`ImplementsCheckpoints`),
which has content because its workers decide on what they read awaits before: the
blocks of a staged batch belong on a tip that is still there, and a rollback cuts at
the height its search stopped at. `Ledger` implements it too, and each of its actions
is the action of that name here with assignments to further tables and no condition on
them. So every sequence of commits of the pipeline is one that `Ledger`'s actions can
take, and what holds of the tables in `Ledger` holds of the pipeline's. The last step
is an observation about the text of `Ledger`, not a theorem.

### ExplorerReads

`Ledger`, with one request of the API in progress. Each query of a page is an
action that reads one committed state; between two queries the indexer may
commit anything. `since` records whether it was a reduction or a rollback, for
properties that speak only of requests without one. Requests share no state, so
one at a time is enough. Block, block list, transaction, address, statistics,
ranking, latest transactions and asset page are covered. Every list is cut off by
the LIMIT of its query, a parameter (`Limit`): 100 unspent outputs, 25 and 50 rows of
history and transfers, or what the request asks for. `Newest` are the rows that
`ORDER BY height DESC LIMIT` may return; which rows of one height come first, and which
addresses have most (`PageOf`), is left open. Counts and sums have no limit in the code
and are kept as the set of what is counted or added up, so "the outputs listed are the
newest of those in the balance" relates two sets. Balances are the one thing that is not
gated by `best_height`; `AddressPageAddsUp` says that they fit the gated queries all the
same, as long as nothing is committed in between.

### ReconcileRpc

The tool opens one repeatable-read snapshot of `Ledger`'s tables (`tool.db`), chooses
its samples from it, and asks the node height by height while the node moves
between branches (`NodeMoves`) and the indexer goes on (`CommitMeanwhile`, any
action of `Ledger`). To have something to find, a snapshot may be damaged: a row
of one output is missing from a table that had it, or is in a balance twice.
`ReconcileIsRight` says both what the tool must find and what it must never report. A
damaged balance is found only if its address is in the sample, which is why the
property does not promise it. A run ends in one of five ways: it passes, it finds a
mismatch, it says that the chains differ ("diverged": another hash, or the node's answer
that it has no such height), it is skipped below the asset activation, or it fails for want
of an answer (`Fails`: an RPC or a database that is unavailable, times out or answers with an error),
which may happen at any point and of which nothing follows. What the tool takes for granted is named: `SamplesAssets`
says that it samples transfers at all and that every chain has an asset output by the end of
the grace period. Without it (`RECONCILE_TRANSFER_SAMPLES=0`, a chain without assets) it
complains of a sound database.

### AssetQueue

Table `assets` copies what the node answers about an asset *at its tip*, while
everything else in the database follows the processed blocks. An answer is
named by the block that last issued or reissued the asset, so the model can ask
whether the copy is older than what was processed, or comes from a block that is
gone. `job` is a call of `refreshAssets`: names to ask, the page asked, answers
not yet written. Each awaited call in it is a step, and the reducer may queue a
name between any two of them. Of the pipeline only stage, prepare, reduce and
rollback are kept, with the checks that order them; `IndexerPipeline` has the
rest. `raced` marks names queued after the node had answered and before the
`DELETE`, whose entry is lost; the node's answer is nearly always new
enough, except after a change of branch, and that is the exception
`CurrentUnlessRaced` makes. A name the node persistently refuses is not modelled:
`listassets` answers unknown names with an empty object.

### Migration

A service is a process that calls `migrate` and, if it is an indexer,
`withIndexerLock`; `pc` is the statement it has reached. PostgreSQL contributes
three rules: locks belong to sessions, and a session whose client died runs its
statement to the end (`dead`); a failed concurrent build leaves an invalid
index; and a build waits for the statements that were running when its last scan
ended (`awaits`), with a deadlock broken by cancelling either side. `LoseHalf` is
the server giving up the session of a running indexer that does not notice.

### Monitor

Time is a clock here, as nowhere else, because all three programs compare
timestamps. The indexer is reduced to the moments it writes `sync_state` (`StartCycle`,
`Reduce`, `FinishCycle`, `FailCycle`); `Breaks` takes node, database, API or
indexer away, `IsRepaired` brings it back; a single call that fails is both in a row. With
nothing broken a cycle may still end in `status = 'error'`, when the node changes branch under it
(`NodeReorganises`, `FailCycle`): the blocks fetched do not link. The node's height does not
fall in this module, as it may in `IndexerPipeline`. The health request asks node and
database one after the other in either order (`AskChain`, `AskState`) and judges by the
clock of its answer (`HealthPayload`); the monitor then reads the row itself and keeps
a height and a time in its file (`Ended`). The monitor may be killed anywhere. Its
two properties are the two ways to be wrong: to be silent about an indexer that
stands still, and to cry wolf. The error a reorganisation leaves until the next cycle begins
is reported, and `HealthyIsNotStale` makes that exception by name.

### ReversalCsv, ReversalDataset, DatasetService

Three layers of `server/reversal-data.mjs`. `ReversalCsv` has one action for each
branch of the loop of `parseCsv` over the characters, which are classes of
characters; a text is either what `download` writes for a small table, or any short
text. `ReversalDataset` starts where cells have a meaning. `Malformed` stands for
every cell some conversion refuses, `Empty` for one read as null. `Normalize` and
`Summarize` are the checks that need no memory, `CheckSpend` the loop over the spends with
its five maps; `EvidenceIsChecked` compares what the maps let through with a
definition over all pairs of rows. The code compares the amounts of a child's output as
text, so a value has a `spelling`, and a publication that writes one amount as 1.5 and as
1.50000000 is refused. `Search` and `SearchOn` are a client that follows
`hasMore`; `AnswersAreExplained` ties `rowMatches`, which decides, to `enrichSummary`,
which explains, in both directions. `DatasetService` keeps of a file only the publication it belongs to:
the loads share one promise, the five reads of a load end in any order, a publisher
replaces the files one by one, and a file is compared only as far as the metadata describes
it: there may be no metadata, no entry for the file, no digest or no size (`Manifest`).

### ResponseCache, RateLimiter

The two places where requests of the public side interfere. `ResponseCache`
names a call by the request that started it. Settling a call runs the
continuations of all its waiters before the event loop takes the next request,
so it is one step; a rejection deletes whichever entry the URL has by then.
`RateLimiter` keeps a log of requests to compare the fixed windows with what they
stand for, a rate.

### UseApi, ReversalPage

`UseApi` separates the render that changes the path from the effect that React runs
for it, because an answer may arrive in between. Requests are numbered, and `data`,
`error` and `active` are the numbers of the requests they come from. An OK response whose
body does not parse is taken for `{}` and leaves a page without data and without error
(`blank`); the pages show that as "not found". `ReversalPage`
is the one page with state of its own around the hook. Each of its actions is an event
handler with the render that follows: it sets filters and offset, pushes an address
(`Push`, which cuts off the entries ahead) and lets the hook see the query
(`Renders`). `PopState` goes to any entry of the history, within the page, away from it, or
back to it.

## The runs

| Run | Instance | Shows |
|---|---|---|
| `standalone` | six parts, see below | the planner's scan returns the specified range; a download reads back; a publication of sound summaries is served if and only if its paths agree and write each amount in one way; the rows found are those that explain themselves; all answers are from the same files, and from one publication where the metadata gives every digest; a page shows what its address asks for, and the newest answer |
| `pipeline` | two branches of height 2, two prepare calls, batches of 2, lead 3, one reorganisation, one fault, one crash or signal | types, one linked branch, agreeing checkpoints, batches of that branch, honest `ready`, no call that outlives its cycle, refinement of `ProcessedChain` and of `Checkpoints`; `ready` at the node's tip again and again unless a batch is stranded |
| `stranded_batch` | one branch of height 2, one fault | violated: a prepared batch no reducer can take |
| `ledger` | branches of height 3 with shared and conflicting transactions | balances, unspent outputs, completeness and deltas are exact |
| `explorer_reads` | two parts over branches of height 2: a request, and a run of the reconciliation tool with two commits meanwhile | pages fit together unless a rollback falls between their queries, addresses add up, up to the limits; the tool accepts a sound database and finds a damaged one |
| `explorer_reads_rollback` | the first part | violated: with a rollback in between, staged blocks are shown |
| `asset_queue` | two assets, branches of height 2, pages of one, a reorganisation, a fault, a crash | no asset of the processed chain is forgotten or stale; `ready` means the queue was drained; the queue is empty in the end |
| `asset_orphans` | the same without faults | violated: metadata of an orphaned block stays |
| `operations` | two parts: two indexers and an API server, two indexes, two faults, one lost session; a monitor over four ticks, one failure of any service, any reorganisations | whoever goes on finds a complete schema, locks go with their sessions; a stalled indexer is reported and a sound one is not, except for the error a reorganisation has left |
| `migration_half_open` | two indexers | violated: two indexers at once |
| `migration_deadlock` | two services | violated: a starter or the build fails |
| `web_tier` | two parts: four requests, four URLs with periods 0, 1 and 2, room for two entries, all modes; three addresses, seven requests, windows of two ticks | fresh data, shared calls, no cached failure; no more than two windows' worth in a minute, nobody refused who kept to the limit |

A run of several parts is the sum of modules that share no state and have no
property in common: `part` is chosen at the beginning, each behaviour belongs to one
of them, the others rest in one initial state, and the states add up instead of being
multiplied.

**Bounds.** `MaxHeight` bounds the chain, `MaxReorgs`, `MaxFaults` and
`MaxRestarts` how often the environment interferes; each is in a guard. Heights
0 to 2 with batches of 2 give a full batch, a partial batch and an out-of-order
pair, and the smallest stranded batch; the node may move up, sideways, and down
to any part of a branch. A lead of 3 lets the producer stage everything before
anything is reduced. One reorganisation, fault and restart give the interesting
cases because every later cycle starts from the durable state alone; the proofs
cover any number of them, and `RawLeadBound`, which these heights cannot reach.
`ledger` needs no such bound: any prefix may be kept by a rollback
and any branch staged after it, any number of times. Its two branches mine one
payment at different heights, spend one output by different transactions,
spend inside a block, across blocks and across batches, and have an output of
two addresses.

In `asset_queue` one asset is reissued on one branch and moved on the other, the
other is issued on both at different heights. With a second reorganisation the
node may return to a branch it left; an asset unknown on the branch in between
is then dropped from the queue by an empty answer although its block is still in
the database, and since no rollback happens nothing queues it again until the
asset is touched. `ListedOrQueued` fails then, so it is stated for one change of
branch; no document of the repository promises more. `operations` starts from
every combination of missing, invalid, valid and foreign indexes. Its monitor has
`Stale` 2, `MonitorStale`, `Poll` and `Timeout` 1: four ticks are a sound start, a
failure, and more than the longer limit; one failure of any service is enough because
a service may be repaired and the others then see a late checkpoint. In
`ResponseCache` four requests are what the longest story needs: a call that
outlives its entry, its successor, the failure that deletes the successor's
entry, and the call started again. Seven requests fill two windows of
`RateLimiter` and one more.

In `standalone` the planner has windows over heights 0..4, batch sizes to 5 and up to
three reservations of any kind, overlapping and nested ones included. Tables have one
row of two cells of up to two characters (and two of three); the automaton has no state
that a longer cell reaches and a two-character one does not, and foreign texts are all
texts of up to five characters. Publications combine five sets of details, sound
and unsound, with up to three spends out of eighteen: five of one story and
thirteen that differ from one of them in a cell; two rows disagree at most pairwise, so the
third row is the one before or between them. Two clients and three loads over
three publications have a load that fails, one whose files are from two
publications, and a client that comes late. Four requests and three history entries
let a page be left and come back to while two answers are on their way. In
`explorer_reads` every list has a limit that cuts off some of its rows and not others
(`MCLimit`), the second page of the ranking is asked for, and the tool samples one block, one
transfer and one balance, so that a damaged row may be missed by each of them.

**Fairness** (`FairSpec`, used by `pipeline` and `asset_queue`). Weak fairness of the cycle, the
producer and the aggregator: each is a loop of awaited calls with time limits
(`rpc.mjs`, `statement_timeout`), so a step that stays possible is taken;
`Restart` is among the cycle's steps because the supervisor restarts the process
(`restart: unless-stopped`, `compose.yaml`). Strong fairness of the prepare calls:
their callbacks wait while the aggregator runs a synchronous stretch
(`ap = "start"`), which recurs, and the event loop runs them at the next await.
Nothing is assumed of the node, of faults or of signals: they may never
happen again, and are bounded, so the properties say what follows once they stop.

In `AssetQueue`, weak fairness of the cycle, the pipeline and the refresh, for the
same reasons; a fault ends a refresh as an answer would.

**Deadlock** is checked everywhere except in `standalone`, where a scan or a text that
has been read, a rejected publication and a page without requests left stop, and in
`web_tier`, where the requests are finite.

## Findings

1. *Synchronisation can stop for good* (`stranded_batch`). `listPreparedRanges`
   is awaited, and the calls in flight are added to its answer afterwards. A
   call that commits after the query's snapshot and settles before the answer is
   processed is in neither list, so its heights are planned again. Mostly the
   second call is refused by a check or a key and the cycle fails once. But if a
   call below it failed meanwhile, or the batch size was halved, the second
   range may overlap the first without sharing an end with it, and no
   check or key refuses it. Once it is reduced, the processed tip is inside the
   other batch, which the reducer never takes and the planner keeps avoiding.
   A restart does not help; a rollback below the batch would. `Synchronises`
   therefore speaks of behaviours in which no batch stays stranded.
2. *Staged blocks can be shown* (`explorer_reads_rollback`). The second query of
   a block page is not gated by `best_height`, and a block list is cut at a tip
   read by an earlier query. `README.md` promises that only the processed tip is
   exposed.
3. *Metadata of orphaned blocks can stay* (`asset_orphans`). A rollback finds
   affected assets in `asset_transfers`, which only prepared blocks have rows in,
   but metadata comes from the node's tip.
4. *Two indexers* (`migration_half_open`). The lock is asked for once, and its
   session is idle afterwards; `README.md` says the lock enforces one indexer.
5. *Waiting starters and index builds wait for each other*
   (`migration_deadlock`). The comment in `migrate` lets other starters wait;
   PostgreSQL cancels one of them, or the build, and the same may happen again
   after the restart. Whatever is cancelled, no invalid index is taken for a
   valid one (`operations`).

## What is proved

All proofs are checked by `tlapm` to the last leaf, for every tree of blocks and all
batch sizes, leads, numbers of parallel calls, reorganisations, faults and
restarts. What is assumed of the constants is named in the modules, and TLC evaluates
it in the runs:

* `BlockTreeAssumption`, `GenesisIsRoot`: blocks form a tree, with genesis at its root;
* `PipelineAssumption`: positive sizes, and a lead no smaller than a batch, which
  `indexer.mjs` enforces; `RangePlannerAssumption`, `AssetAssumption`, `LimiterAssumption`,
  `CacheAssumption`, `UseApiAssumption`, `ReversalPageAssumption` and `MigrationAssumption`
  likewise only say that sizes and bounds are numbers and tables functions;
* `LimitAssumption`: the limits of the queries are numbers;
* `LedgerAssumption` and `ConsensusAssumption`: what the node's validation guarantees of
  one chain; `IssuedFirst`: an asset is issued before it has outputs;
* `MonitorAssumption`: a poll and a call fit in the limit for a stale checkpoint;
* `DatasetAssumption`: the summaries and spends of a publication are sequences, and a limit
  is a number or is not given;
* `ReconcileAssumption`: the tool's parameters are numbers, and it samples a block.
  `SamplesAssets` is no assumption of the module but the hypothesis of one theorem; the run's
  instance satisfies it (`SampledBlocksHaveAssets`).

**Planner** (`RangePlannerProofs`). `PlannerIsCorrect` and `PlannerFindsFreeRange`
from `ScanInvariant`: every height below the candidate is reserved. The
specification says "the lowest free height and the longest run from there",
which is not inductive without it.

**Pipeline** (`IndexerPipelineProofs`). The inductive invariant `IInv` adds to the
checked properties what each suspended worker still relies on: `Control` (which
program counters can occur together), `Search` (the ancestor search stays at or
below the staged tip), `Producer` (the requested heights start above the tip the
producer read and its remembered hash is still the tip's), `Aggregator` (it
ends without an abort only when everything is processed) and `Ready`. It is
needed because, for instance, `StageBatch` writes heights computed two awaits
earlier: that no gap results follows from the fact that nobody else moves
`rawHeight` while `pp` is not "loop" or "ended", which is a statement about
control states and not about tables. One lemma per action; `Frame` keeps the
conjuncts an action does not touch. From it: `TypeCorrect`,
`StagedRowsAreOneBranch`, `CheckpointsAgree`, `BatchesMatch`, `LeadIsBounded`,
`ReadyIsHonest`, `TasksEndWithTheirCycle`, and two refinements:
`PipelineImplementsProcessedChain` (every step is a step of `ProcessedChain` under the
mapping of `Public`, or a stutter) and `PipelineImplementsCheckpoints`. For the second,
`Search` gives that a rollback's ancestor is not above the staged tip, `Rows` that a
staged batch extends the branch, and `BatchesMatchChain` that a reduction replaces one
batch although `Checkpoints` does not know the tip hashes that tell batches apart.

**Ledger** (`LedgerProofs`). `BalancesExact` is not inductive: a reduction adds
what a batch captured earlier, and a rollback recounts from history rows. The
invariant adds that `txs` are those of the staged rows at their heights, that
every history row has its transaction's height, that the rows of prepared
heights are complete, transfers included, that spent marks agree with the staged branch, and
that batches are disjoint in the rows they hold. `OneSpender` and `CreatedBefore` draw what
is needed of `ConsensusAssumption` for the staged branch. From it:
`BalancesAreExact`, `UnspentIsExact`, `ProcessedAreComplete`, `DeltasAreExact`,
`LedgerTypeCorrect`, and `LedgerImplementsCheckpoints`.

**Pages** (`ExplorerReadsProofs`). The invariant of the ledger is used twice: for what a
query reads, and to keep what a page has read before. For each kind of page `ReadIInv` says
what its answers are worth now, not when they came: the blocks its rows came from are still
there as long as nothing was rolled back, and the processed transactions are still the same
as long as nothing was committed (`BlockFacts`, `AddressFacts` and so on). So the answers
agree when the last query runs. A list is ordered by the heights its own rows carry, and the
property orders it by the blocks: that these are the same heights is a fact of the ledger's
invariant, and then the same selections are the newest. From it: `PagesFit`, `AddressesAddUp`.

**Reconciliation tool** (`ExplorerReadsProofs`), for any chains, samples, damages and commits
meanwhile. A sound snapshot is a fact of `Ledger`'s invariant: `TablesSound` derives from it
what each of the five comparisons relies on (`Sound`: outputs, activity, transfers and
balances are those of the chain up to the checkpoint). `ToolIInv` keeps that about the
snapshot, which nothing changes, next to what the samples are of it (`Sampled`) and what the
node's answers are worth (`Answers`, `Compared`): once the hashes agree, the node's blocks are
the snapshot's (`FactsOfBlocks`), wherever the node has gone. That a passing run has not
overlooked a missing row (`MissingIsFound`) and that a sound snapshot passes (`SoundPasses`)
are then two lemmas without time. From it: `ReconciliationIsRight`, under `SamplesAssets`, which
only its part about mismatches needs.

**Asset directory** (`AssetQueueProofs`), in three layers, each inductive relative to the
one before. `QIInv`: types, the order of the pipeline's checkpoints, and what a refresh
in progress still has to do; from it `QueueTypeCorrect` and `ReadyIsDrained`. `LIInv`
adds `Remembered`: an asset the node gave no answer for is in no block this cycle can process
(`Unanswered`), a staged block off the node's chain means that the node has changed branch
(`OnOrForked`), and as long as it has not, or has left the cycle's target behind, only assets
of processed blocks are asked about (`WantedIsProcessed`). `CIInv` adds `Current`: what is
listed (`Settled`) or answered (`Asked`) is as new as the processed blocks, raced names
excepted. `NothingIsForgotten` and
`DirectoryIsCurrent` have the hypothesis `MaxReorgs <= 1`: with two, TLC shows the
former violated (see *Bounds*), so it is not a weakness of the proof. Everything else is
arbitrary, any number of assets, faults and crashes among it.

**Migration** (`OperationsProofs`), for any set of services, any number of indexes
and faults. `ServesMigrated` is about services that are done, so the invariant
says what is known on the way: `Held` (whoever is at work holds the lock, dead
clients included), `Work` (which indexes are valid at each step), `Fresh` and
`Done` (what a version means). `OneIndexerPerSession` counts: the running indexers
without the lock (`Orphaned`) are no more than the sessions given up, a finite set
even if the services are not. From it: `MigrationIsComplete`, `ValidIndexesStay`,
`LockIsNotLeaked`, `OneIndexerForEachSession`, `TypeCorrect`.

**Monitor** (`OperationsProofs`), for all periods, limits and delays. Both properties are
about the end of a run, whose verdict rests on a row, a height and a health answer that were
read at different times. `MonitorIInv` says that what the row and a run's copy of it tell of
progress was a sign of the indexer (`Signed`, `SignRead`), how old the copy can be while
nothing has failed (`InTime`), that a status "error" is then the trace of a reorganisation
(`Sound`), and that a run which has seen no progress holds answers that
show the row behind the node, whichever of them came first (`Lagging`). From it: `StallsAreReported`,
`HealthyIsNotReported`.

**Response cache** (`WebTierProofs`), for any requests, URLs, periods and room. An entry
says when its call started (`Entered`), which is what bounds the age of an answer shared by
requests the cache knows nothing of (`Users`), and an entry that is not lost stays for its
period (`Kept`). From them: `AnswersAreFresh`, `NoFailureIsCached`, `OneCallPerPeriod`,
`CacheTypeCorrect`.

**Rate limiter** (`WebTierProofs`). The state forgets windows, by pruning and by replacing
them, so nothing in it explains the log. The invariant is existential: every request of
the log can be given the time its window began (`begin`), such that the windows of an address
do not overlap (`Apart`), none served more than the rate and refusals came after more than
it (`Rationed`), and the table has all windows that have not ended, with their counts
(`Tabled`). A minute meets at most two windows (`TwoWindows`). From it: `LimitsAreFair`,
`LimiterTypeCorrect`.

**Dataset loader** (`ReversalProofs`), for any publications and numbers of rows. The five
maps are written by the first row with a key: `Recalls` says that each of them has exactly the
keys of the rows checked so far and that a key's value is the one of every such row, `CheckedRows` that the
rows checked agree pairwise and fit. A rejection then exhibits a row that disagrees with
one before it. From it: `EvidenceIsExact`, both directions.

**Searches and downloads** (`ReversalProofs`), for any publications, queries and limits.
`SearchInv` says of a client on a walk that what it has seen is the beginning of the
download, as long as its offset, and that there is more if and only if the offset has not
reached the end (`WalkAt`); it is kept by `PageOpens` and `PageContinues`. That a row can be
explained (`MatchIsExplained`) needs the loader: that a transaction has one summary, or the
row of a transaction not replayed could belong to a confirmed one, and that the paths agree,
or one output of a child could count with two values. The sums are not computed: they are
sums over equal sets. That the matching rows have an order is an induction by the least
counterexample (`OrderExists`). From it: `EveryAnswerIsExplained`.

**Dataset service** (`ReversalProofs`), for any clients, files, publications and
loads. An answer alone does not say that the next one is the same. The invariant does:
what has been answered is the dataset of the resolved promise, which passed the comparison
(`AcceptedAgrees`), and before a promise resolves nothing has been answered
(`OnlyAccepted`). From it: `OnePublicationServed`.

**Browser** (`ReversalProofs`), for any paths, requests and history entries.
`SettledShowsPath` does not mention the request of a page that is still loading;
`Awaited` does (the page loads as long as it is on its way, and shows its outcome
afterwards) and `ForPath` ties it to the path. The page takes steps of the hook, so one lemma
for each action of the hook serves both specifications. For the page, `Repeats` says that the
address bar, the state and the hook's query are the same, and `History` that the tab's
entries are addresses, which `Push` needs to know of the sequence. From them:
`HookSettles`, `NewestAnswersWin`, `LocationFollowed`.

## Only model-checked

* Liveness (`Synchronises`, `QueueDrains`): outside the prover.
* The violated properties, whose counterexamples are the result.
* `CsvIsFaithful`: the reference definitions are recursive, and that a loop over characters
  inverts another one is an induction over texts.

The other way round, `PlannerFindsFreeRange`, `LeadIsBounded`, `LedgerTypeCorrect`,
`LedgerImplementsCheckpoints`, `LimiterTypeCorrect` and the `TypeCorrect` of
`OperationsProofs` are proved and no run checks them.

## Not modelled, and why

* A database crash with `synchronous_commit = off`, which may lose commits the
  indexer was told of.
* Connection pool, statement and idle timeouts as resources.
* Amounts and outputs (`indexer-utils.mjs`): conversions of decimals on `BigInt`,
  without state. The models count rows instead of adding amounts.
* The RPC client (`rpc.mjs`): one request per batch, which answers or fails as a whole;
  its callers are modelled with both outcomes.
* Snapshot and restore, the txindex scripts and their markers: shell scripts around
  programs of the operating system, whose failures nothing in the repository describes.
* The monitor's checks of disk space and temporary files: each is one comparison.
* What a page that polls does when answers take longer than its period: `fetch`
  has no time limit, and each refetch aborts the request before.
* Of the reversal dataset: which strings are addresses, amounts or integers, and the
  page that verifies a file by its digest.
* The other pages, the search box, charts, translations, demo data: single reads or
  pure presentation.

## Plan

1. *Done*: the core (`RangePlanner`, `IndexerPipeline` with `ProcessedChain`, `Ledger`,
   `ExplorerReads`, `AssetQueue`, `Migration`) and its proofs.
2. *Done*: the public side (`ResponseCache`, `RateLimiter`, `UseApi`, `ReversalPage`, the
   reversal dataset in three modules) and the operators' side (`Monitor`, `ReconcileRpc`);
   the proofs of the dataset service, the hook and the page.
3. *Done*: the proofs of the asset directory, the pages, the cache, the limiter, the
   monitor, the dataset loader and its searches and the reconciliation tool,
   `BatchesMatchChain`, and the refinement of `Checkpoints` by pipeline and ledger.
4. Extensions of `IndexerPipeline`: the connection pool as a resource, and the loss
   of acknowledged commits in a database crash.
5. Markers and lock directories of the operations scripts.
