# Verification of the llms.txt crawler

TLA+ specifications of the service in this repository, model-checked with TLC and, where the result matters for every
size of the system, proved with TLAPS. Source paths below are relative to `backend/app/` unless they start with a
directory of the repository's root.

## 1. The system

A user registers websites; each can be crawled on demand or on a schedule. A crawl run fetches the site, writes an
`llms.txt` and an `llms-full.txt`, compares the page index with the previous run's, uploads the payload and may publish
the text to GitHub. There is no coordinator: a FastAPI process, any number of arq workers, Postgres, Redis and Supabase
Storage meet in the rows of a few tables and in Redis keys.

| Component | State it keeps | Operations | Talks to |
|---|---|---|---|
| Run lifecycle (`features/runs`, `features/crawl/service.py`, `worker/`) | `runs` rows (`status`, `attempts`, `claimed_at`, `started_at`), the arq queue, objects in Storage | trigger, enqueue, abandon, claim, upload, record, release, fail, recover from cancellation, reap | everything below |
| Run admission (`RunService.trigger_run`) | none of its own: counts over `runs` | active-run check, concurrency cap, daily cap | runs table |
| Run reads | none (cursors are values) | keyset pages, stats windows, signed URLs | runs, Storage |
| Schedules (`features/schedules`) | `schedules` rows (`active`, `interval_minutes`, `next_run_at`, `last_run_at`) | PUT, cron tick | runs, Redis |
| Publishing (`features/publish`) | `publish_targets`, `publications`, the GitHub repository | publish after a run, set or delete a target, disconnect | runs, GitHub |
| GitHub App tokens | token cache in the process | fetch, cache, invalidate | GitHub |
| Crawler (`features/crawl/internals`) | frontier, visited set, byte budget, politeness gate | breadth-first walk with caps | the site |
| robots, sitemap, links, ranking, llms.txt text, index diff, enrichment | none (functions of their input), but for enrichment's worker pool | parse, match, rank, split, render, diff | the site, a model API |
| Websites | `websites` rows | create, change its settings, delete (cascades to runs and schedules) | all tables |
| Authentication | JWKS cache in the process | get key, refetch | identity provider |
| HTTP layer, frontend | query cache in the browser | polling, schedule editor | API |

### Where it is hard

* **At least once, at most one at a time.** arq may deliver a job twice (a redelivery after SIGTERM or a lost
  in-progress key), the reaper may add a second job, and yet a site must not be crawled twice at once. What stands
  between is a guarded `UPDATE` and the difference of two timeouts.
* **Two counters.** arq's `job_try` and the run's `attempts` both bound retries and disagree on purpose.
* **Commit, then enqueue.** Every run passes through a state in which a committed row has no job.
* **Every write can be cancelled.** A cancellation may leave a statement committed or not, and is recovered from only
  inside one `try`.
* **Check, then act.** Duplicate-run guards, schedule PUTs, caps, website creation and publications decide on what they
  read a while ago.
* **One budget, many spenders.** The tasks of a crawl share bytes, turns and a wall clock; any of them may hit a cap
  while the others are in the middle of a fetch.
* **Caches across awaits.** Signing keys and installation tokens are looked at, refetched and overwritten by concurrent
  requests.
* **The same site twice.** Sitemaps, redirects and racing fetches deliver copies of a page in any order, and a publication
  hangs on whether two indexes of it are judged equal.

PROJECT.json lists each hazard at its line, with the properties that cover it.

## 2. Plan

Every module takes its sizes, time limits and bounds as CONSTANTS with named assumptions, has one action per handler or
statement, and declares no RECURSIVE operator, so that it can be proved about as well as checked.

| # | Module | Models | Status |
|---|---|---|---|
| 1 | `RunRecord` | abstract: what the `runs` table promises about one run | done |
| 2 | `RunLifecycle` | trigger, queue, workers, reaper; composes the two services, arq and Storage; refines `RunRecord` | done, proved |
| 3 | `Schedules` | PUT, cron tick, manual trigger, deletion; a run's end is `RunLifecycle`'s `EveryRunEnds` | done, proved but for liveness |
| 4 | `Publish` | `publish_run`, GitHub, target changes; starts where `RunLifecycle`'s `record_success` ends | done, proved |
| 5 | `Crawl` | discovery and the concurrent walk with byte budget, page caps, politeness gate and two timeouts | done, proved |
| 6 | `Fetch`, `Robots` | one guarded fetch across redirects; the rules of a robots.txt | done, proved |
| 7 | `Selection`, `LlmsTxt`, `IndexDiff` | which URLs are crawled, what is listed of the pages, what changed since the last run | done, proved |
| 8 | `Enrich` | the enrichment pass under its deadline | done, proved |
| 9 | `Admission`, `RunReads` | active-run reuse and the two caps under concurrent triggers; pages and statistics under inserts | done, proved |
| 10 | `Jwks`, `Tokens`, `Websites` | two in-process caches over awaits; the unique-origin race | done, proved |
| 11 | `ReaperBatch` | `LIMIT` and `ORDER BY started_at` over many runs: pending rows stay oldest and stay listed | open |
| 12 | the frontend's polling and schedule-editor hooks | state kept over asynchronous answers | open |

## 3. The modules and the code

### RunRecord and RunLifecycle

`RunRecord` is one row as a reader of the API may see it: `status` and `attempts`, and the moves they may make.
`RunLifecycle` is the code that makes the moves.

| Variable | Code |
|---|---|
| `runs` | the `runs` table: `status`, `attempts`, and the ages of `started_at` and `claimed_at` |
| `stored` | the object at a run's path in Storage, as the attempt that uploaded it |
| `jobs` | the keys arq keeps in Redis for each job id: queued, in progress, result; with the time left of each |
| `slots` | what a running `crawl_task` is doing: program counter, job, attempt it claimed, running time |
| `api` | the request or tick between its commit and its enqueue |
| `sweep` | `to_enqueue`, the reaper's runs between its commit and its enqueues |
| `faults` | how much of the fault budget is spent |

The guarded `UPDATE`s of `runs_writer.py` are operators from a row to what they leave of it (`claim_pending`,
`return_processing_to_pending`, ...), so that the guard in the SQL is the guard in the model. Each handler is an action;
where the code awaits a statement and may see it fail, a second action (`...Raises`) leaves it in doubt whether the
statement was committed. `Cancel` puts a `CancelledError` at whichever await the slot is at and follows the `except`
clauses from there: recovered from inside the `try`, passed through outside of it. `Deploy` (arq redelivers) and
`Timeout` (arq does not) are its two causes. `Crash` drops the slot and leaves the row and the in-progress key.

A job id is the run with a tag: `Fresh` for an enqueue without `_job_id`, the run's `attempts` for the reaper's
deterministic ids. Crawling itself is one program counter that can succeed, fail retryably or for good, or hang.

### Schedules

Instants are kept relative to the present. `ticks` holds one `schedule_tick` per worker, which is what overlapping ticks
without arq's uniqueness amount to; the schedules in `ticks[t].due` are the rows its transaction has locked. `LockDue`,
`Probe`, `AdvanceDue` are the three statements of that transaction (locks taken, active runs read, everything committed),
`EnqueueRun` the loop after it. A PUT is `ReadSchedule` (read, compute) and `upsert` (write): the race between the two is
the one the service's comment accepts, and `disturbed` is a history variable that remembers which schedules it touched.
`LockDueBesidePut` is the tick that skips a row because an upsert holds it. `Minute` moves time: it waits for no tick
that has seen one minute begin (`CRON_TICK_TIMEOUT_SECONDS` = 50) and for no PUT that has (`db_command_timeout` = 30 s).

### Publish

A run is its place in the order of `started_at`, which is what the index diff goes by; several may be crawled and
published at once. `jobs[r]` is `publish_run`: the reads (`ReadTarget`), the comparison with the base branch (`Compare`),
then one action per call to GitHub, then the row. `seen` is the sha a write carries; GitHub's blob sha is a function of
the content, so the content stands for it. Any call may fail or be cut off with its effect in doubt (`GitHubInDoubt`),
and so may the insert (`RowInDoubt`). `guarded` tells an insert inside the `try` from one outside of it. The owner
(`upsert_target`, `delete_target`) and the people in the repository (`EditFile`, `MergePull`, `ClosePull`) act at any
moment. `Edited` is any content this service has not written, including a file too large or not decodable; `NoFile` is
a 404.

### Crawl

`phase` is where `execute_run` is: `discovery`, `seed`, `frontier`, `over`, or `cancelled` by arq. A call is one
`fetch_page`: call 0 is made by `execute_run` (robots.txt, each sitemap document, the seed), call `c > 0` by the
frontier's `c`-th task, at most `Concurrency` of them past the semaphore. A call waits in the `gate` (`Start` lines up, `wait_for_turn`
is the end of its sleep, which reserves the next turn), then reads its body chunk by chunk (`Chunk`), each charged to `bytes`;
`BytesRefused` is `ByteBudgetExceededError`, against discovery's share of the budget or all of it. `disc` is what
discovery has found and spent, `walk` what `crawl_site` has collected with its counts and `cap_hit`. The wall clock
covers the walk (`WallClockCap`), arq's timeout all of the job (`Backstop`). Time passes when no task is ready to run; a
sleeper alone may be late. One byte chunk is one unit, so "over the budget" is "the budget is used up".

### Robots, Fetch

`Robots` scans a file line by line into groups (`ScanAgent`, `ScanRule`), keeps those that name this crawler's token or,
failing those, `*`, and matches a pattern against a path by its greedy segments (`step`); the reference definition is the
language of the pattern. `Fetch` follows one URL over its redirects: each hop is resolved anew, to answers somebody else
chooses, `no_reject_reason` is the guard of `ssrf.py`, and `page_outcome` is what the crawl makes of the final answer and
of the site it came from.

### Selection, LlmsTxt, IndexDiff

Pure functions over sequences, fed by actions that deliver one candidate or page at a time, in any order. A URL is a
number or a short sequence of characters; what the code reads off its string (drop rules, depth, the copy it is of) is
a constant record, so that each rule is a fact the properties can tell apart. `Selection.select_urls` counts drops by
rule, merges duplicates, scores and cuts; `LlmsTxt` is `rank_pages`, the partition into sections with its consolidation,
the split off of Optional, and the plan of `llms-full.txt` under its byte budget; `IndexDiff` compares two crawls, through
the escaping and parsing of the text between them, and ends with the hint that `Publish` reads.

### Enrich

Each ranked page's request is `new`, in flight, done, failed or raised; a semaphore serves them in the order of the ranks.
The deadline and an unexpected exception end the pass with requests still in flight. The outcome is what the run records.

### Admission, RunReads

`Admission` is `trigger_run`: three reads and an insert as actions of their own, for several requests of one user beside
scheduled runs; ages stand for instants, and a row stays until it counts for no window. `RunReads` is a client that walks
the pages of a website's runs and asks for its statistics, statement by statement, beside transactions that insert rows
whose `started_at` is older than their commit.

### Jwks, Tokens, Websites

`Jwks` keeps the cache, the queue of the lock and the provider's keys, which change on their own; `Tokens` has the caches of
the API's and the worker's process, with GitHub's life and invalidation of tokens; `Websites` has requests that create,
rename and delete between each other's statements.

`MCParts` makes one instance of the last three groups and of `Crawl`, `Robots`, `Fetch` and `Enrich`, which share no
state: `part`, chosen in the first state, is the one that runs, and the variables of the others keep an initial value.

## 4. What the runs check

All runs finish with no error, but for those named as violations in section 6. Faults, edits, triggers and PUTs are
bounded per behaviour by constants whose names begin with `Max`; each bound is a guard of the actions it counts.

| Run | Instance | Checks |
|---|---|---|
| `RunLifecycle_safety` | 1 run, 2 slots, 2 attempts, a timeout below a unit of time, unwinding takes a unit, 1 fault or deletion of any kind | `ClaimExclusive`, `ClaimHonoured`, `PayloadMatchesRow` |
| `RunLifecycle_liveness` | 1 run, 1 slot, 2 attempts, 2 faults, every crawl may hang | `TypeOK`, `PendingHasBudget`, the refinement of `RunRecord`, `EveryRunEnds` |
| `Schedules_safety` | 1 site, 2 workers, 2 concurrent PUTs, intervals 2 and 3 with a jitter of 1, ticks may be missed | `TypeOK`, `ActiveHasInstant`, `OneScheduledRun`, `NoCatchUpBurst`, `NeverPostponed` |
| `Schedules_liveness` | 1 site, 1 worker, an unbounded number of repeated PUTs, 1 manual trigger, 1 fault | `KeepsRunning` |
| `Schedules_overdue` | 3 sites due together, batch of 1, 2 workers, interval 3 with a jitter of 1: a schedule may be due again before those beside it have been served | `OverdueServed` |
| `Publish_safety` | 2 runs, 1 place, 2 texts, 1 fault, 1 edit or merge, 2 changes of the target | `TypeOK`, `OnePullRequest`, `SucceededIsThere`, `NoLostEdit` |
| `Parts` | each of the twelve modules of `MCParts` from its initial states; sizes below | `LimitsHonest`, `EveryUrlAccounted`, `StartsApart` (`Crawl`); `SelectionReconciles`, `OrderIndependent` (`Selection`); `GreedyMatch`, `RulesOfOurGroups` (`Robots`); `RequestsGoPublic`, `PageIsTheSites` (`Fetch`); `IndexStable`, `PagesAccounted`, `MainBodyFilled` (`LlmsTxt`); `UnchangedIsQuiet`, `ChangeIsSeen` (`IndexDiff`); `WalkComplete`, `StatsAddUp` (`RunReads`); `LimitsKept` (`Admission`); `NoStampede`, `CachedNotRejected` (`Jwks`); `OutcomeHonest` (`Enrich`); `CreateHonest` (`Websites`); `NeverPresentedExpired` (`Tokens`) |

Why these sizes. One run, one site: rows of different runs meet only in the reaper's batch and in a tick's batch, and the
properties of the first four runs are about one row; the batches have `Schedules_overdue`, the proofs, and `ReaperBatch`
in the plan. Two slots, workers, PUTs or runs: each race is between a check and an act of two parties. Two attempts is
the code's `MAX_ATTEMPTS`. Time units keep the order of the code's limits (the reaper's threshold beyond the job's
timeout and unwinding, a backoff beyond nothing) and not their ratio. One fault explores every fault at every step;
liveness uses two so that a recovery can itself fail. Intervals 2 and 3 are the smallest two with jitter below them, so
that an instant of one can be told from the other's. `Publish_safety` has one repository and
path; that a target repointed while its run publishes leads to no second pull request elsewhere is what the proof adds.
Larger sizes of every constant are what the proofs are for.

The sizes of `Parts`:

* `Crawl`: a budget of 4 chunks of which discovery may spend 2, bodies of up to 3, documents that list up to 2 URLs, a frontier of
  3 in 2 concurrent tasks, a gap of 1 or 2, lateness of 1, wall clock 2 in a job of 4. Either cap can be hit by discovery,
  the seed or the frontier, one task can starve another, and a third can wait for both.
* `Selection`: 3 candidates of 5 URLs, of which 2 are copies of one page, cut to 2. `LlmsTxt`: up to 4 pages of 8 kinds, a main body
  of 2 links, sections of at least 2, boilerplate from 3 pages on, a text budget one page short. `Robots`: files of 5 lines with 3
  agents, patterns and paths up to 4 characters of 2 letters. `IndexDiff`: two crawls of up to 2 pages of 9 kinds that differ in one
  respect each, a URL with an escape sequence beside one with the character it stands for. `Fetch`: 2 redirects, up to 2 addresses per answer, of 3 kinds.
* `RunReads`: 3 runs, pages of 1, two buckets of two instants. The constraint `AskedOnce` lets a client start its walk early and ask for
  statistics late, and cuts what follows its answer. `Admission`: 2 requests, 2 sites, one scheduled run, caps of 1 and 2; the
  constraint stops at four runs that count at one time, one more than the caps and the two requests amount to.
* `Jwks`: 2 keys, 2 requests; `Tokens`: 2 callers, 2 tokens, the least lifetimes that `TokensAssumption` allows; `Enrich`: 3 pages, 2
  in flight; `Websites`: 2 users, 2 rows, 2 requests, 2 spellings of one site. Each race there is between two parties.

`Publish` and `Parts` have `CHECK_DEADLOCK FALSE`: a bounded number of runs is published, a crawl, an enrichment pass or a
bounded input comes to its end, and nothing is left to do. Nothing else may stop, and the other passing runs check deadlock.

### Fairness

`RunLifecycle` assumes no fairness of a crawl, an upload or a verdict's write; each may hang until arq's timeout, every
time. It assumes that requests go on to their enqueue (weak), that the reaper's cron keeps firing and time passes (weak),
that a cancelled job unwinds (weak), and, strongly, that arq gets round to each run's due job although others compete
for the slots (it takes jobs in the order of their score) and that the two statements of a claim do not time out for
ever. `Schedules` assumes weak fairness of the ticks and their steps, of a PUT's answer, of time, and of a run's end,
which is what `EveryRunEnds` shows. `Publish` and the modules of `Parts` have no liveness property: what ends a crawl or an
enrichment pass is a timeout, which `LimitsHonest` and `OutcomeHonest` are about, and the rest answers requests.

## 5. What is proved

Eight modules hold the theorems: `RunLifecycleProofs`, `SchedulesProofs`, `PublishProofs` (with `Jwks` and `Tokens`), `CrawlProofs` (with
`Fetch` and `Enrich`), `RequestsProofs` (`Websites`, `Admission`, `RunReads`), `IndexProofs` (`Robots`, `Selection`, `IndexDiff`),
`LlmsTxtProofs`, and `LoopTheorems` with the lemmas about folds, sums and sorting the last three rest on. Every safety property that a
passing run checks is stated by a theorem. All hold for any number of runs, slots, sites, workers, requests, tasks, pages, keys, tokens, repositories and texts, for sequences of any length, any limits the
named assumptions allow and any fault budget. A property of a protocol is proved from an inductive invariant with one lemma per
action or group of actions, one of what a state computes from the state's types.

**RunLifecycle**, from `PolicyAssumption` (a claim's reaping age is at least the job's timeout and its unwinding: the
grace `worker/policy.py` builds into `STUCK_AFTER_SECONDS`) and `~ReleaseReplyLost` (see `UndoesOwnClaim` below):
`TypeCorrect`, `OneWorkerPerRun`, `NobodyTakesAHeldRun`, `BudgetKept`, `PayloadIsTheOutcomes`, and `Implementation` (of `RunRecord`).
The properties are not inductive: that nobody else claims a held run follows from its row being `processing`; that it
stays so, from the reaper not being due; that, from the claim being no older than the slot's running time, which the
timeout bounds. The inductive invariant is `TypeOK /\ RowsInv /\ SlotsInv /\ ClaimExclusive`: `RowsInv` ties a row's
status to its budget and payload, `SlotsInv` a held attempt to its row, with the age of the claim. One lemma per group of
actions shows it preserved (`ClaimSteps`, `VerdictSteps`, `Cancellation`, `ReaperSteps`, `TickStep`, ...). The refinement
shows each of them to be a move that `RunRecord` allows one row (`Allowed`), and the reaper's and the deletion's to be
its `Sweep` and `Delete`.

**Schedules**, from `PolicyAssumption` (jitter below the interval, a positive batch): `TypeCorrect`, `OneRunPerSchedule`,
`ActiveIsScheduled`, `IntervalKept`, and `NoBurst` where ages are kept exactly for as long as they matter
(`i <= MaxAge - MaxLate` for every interval). The invariant adds `PlansInv` (an instant belongs to its row's or request's
interval) and `LocksInv` (the rows a tick has locked are its own, still due, and those its probe found free stay free
until it commits, because every tick that could fill them would have to lock them).

**Publish**, from `SizeAssumption` (an index is not mistaken for a file that is absent or somebody else's): `TypeCorrect`,
`AtMostOnePullRequest`, `RecordIsTrue` and `EditsAreKept`. A row cannot be seen to be true from the rows alone: the
invariant `JobsInv` says what each place of a job implies about GitHub (a job that proposes has committed; there is no
pull request of a run until its job is recording, redelivered or over), and what a row or a job relies on only grows
(`Grows`): commits made and requests opened are not undone by closing, merging or repointing. `BranchesInv` (the branch of
a job that rereads, pushes or proposes exists, and so does an open request's) is what types the merge of a request.
`EditsAreKept` follows because a base branch that changes in the step of a committing job changes by that job's own
write, whose sha is the one it compared.

**The order of overdue schedules.** `OldestServed` proves `OverdueServed` from `SetUp` for any number of schedules and workers
and any batch, if every interval outlasts its jitter by more than a minute (the presets of `next_run.py` do: the jitter is a
twentieth) and no PUT follows. `Queue(s)` is the set of schedules due no later than `s`. `QueueShrinks` bounds it by the
number of websites less a batch for each minute that `s` has been due, but for the batches still to be committed (`Batched`
counts them by the ticks of this minute and of the one before, `OwedTick` and `LateTick`); `FullBatches` is why: a tick that
leaves a due schedule to others holds a full batch of schedules no later than it. A batch that commits leaves every such
queue and joins none, since an interval later is in the future; a minute keeps the order of instants and owes one batch
more. As the queue holds at least `s` itself, `s` waits for (N - 1) / BatchLimit batches at most before its own is locked,
and two minutes more until that one has committed. The proof corrected the property: its bound was one batch short, which an instance
with batches of 2 and 3 schedules confirmed.

**Crawl** (`CrawlProofs`), from `CrawlAssumption`: `LimitsAlwaysHonest`, `UrlsAlwaysAccounted`, `GateKeepsApart`. The invariant `CrawlInv`
says that the calls in the gate's line are there once and that no turn comes closer to the last start than the delay that
start was to keep, less its sleeper's lateness (`GateInv`); that nobody but `execute_run` makes a request before there is a
frontier (`AloneInv`), so that what the byte budget has lost by then is discovery's share and the seed's own body
(`DiscoveryInv`, `SeedInv`); that pages and counts are the tasks that are done, one more for the seed, and fewer only under a cap
(`CountInv`); and that the wall clock runs from the beginning of the crawl (`ClockInv`). The account of URLs follows when the
last task is done.

**Fetch and Enrich** (`CrawlProofs`): `RequestsPublic` and `PagesOfTheSite`, from an invariant that says of each hop what it may follow;
`OutcomeTrue`, from `LineInv` (which requests can be in which state at each place of the pass) and `RecordInv` (what the outcome
says of them).

**Admission and Websites** (`RequestsProofs`): `CapsAndPromises` rests on counting the runs together with the requests that are past the
check but not yet at the insert: that sum exceeds no cap by as many as the requests, whereas the runs alone tell nothing of
the next insert. A promise is kept because the runs that will still be in the window when it falls due are as many as the
limit, and none of them leaves before. `CreatesHonest` adds that the live rows of a user differ in origin, that a row's origin is
its URL's, and that what a request has found is there or was until a deletion that the request has lived through; the lemma
`OneOrigin` is what `normalize_url` is for: spellings of one site have one origin.

**Jwks and Tokens** (`PublishProofs`), from the time limits in `TokensAssumption` (a token's time to live with an exchange and a job's
use of it fit into the life GitHub gives it; `settings.py` and `github_app.py` choose them so): `StampedeNever`, `CachedKeyServed`
and `ExpiredNever`. The invariants say that who fetches holds the lock and asks for a key the cache lacks, and how old a token
is at most at each place it can be: in a cache, in an answer under way, in use.

**RunReads** (`RequestsProofs`). `WalksComplete`: a page is what is left of the table under the cursor, cut, and a transaction may commit
rows behind the cursor or before it. The invariant `WalkInv` says what has been shown (in order, each once, all of it above the
cursor) and what is still owed (each row that was there at the first page and still matches is shown or under the cursor); the end
of the list owes nothing. `StatsAlwaysAddUp`: `series` and `totals` are counted by two statements that see two states of the
table, so the proof is about the rows the first one saw; that the buckets lose none of them is `AddsCounts`, which sums cardinalities over
the places a row may be in.

**Robots** (`IndexProofs`). `GreedyDecides` proves `GreedyMatch`: that placing each piece of a pattern as early as it will go, and never
going back, decides what `*` and `$` mean. The pieces are related to the pattern one character after another; the place after a
piece, taken greedily, is then the first of all the places the pieces so far can end at, so that whatever the rest of the path
allows from a later place it allows from this one, and a last piece under `$` has only one place to be. `OurRulesCount` proves
`RulesOfOurGroups`, which speaks of lines, from an invariant of the scan, which speaks of groups (`Scanned`): the last group names
exactly the agents whose User-agent lines what comes next stands under, and for every agent, not only for the one that wins, the
loop over what its groups hold has come to what its lines say. The winner is known only at the end of the file; with all of
them in the invariant, a line read adds one turn to one loop of each agent the last group names (`OutcomeOurs`) and nothing to the others'.

**Selection** (`IndexProofs`). `SelectionAddsUp` follows the two loops with a tally of what they have counted: after each turn as many
candidates are survivors or dropped as there have been, and after each turn of the walk as many as were ranked. `OrderNeverMatters`
is that two turns of the first loop commute (`Commutes`: a maximum, a count and a set do not care which of two values comes first),
so that exchanging two neighbours leaves the accumulator of the loop as it is; and that recency moves a score by at most 2, of which a level
of the path is worth 10.

**IndexDiff** (`IndexProofs`). `UnchangedNeverReported` and `ChangeAlwaysSeen` rest on three facts about a URL that goes through the text:
it comes back with its escape sequences read (`EntryKey`), reading twice reads no more (`ReadTwice`), and a trailing slash may be dropped
before or after reading (`ReadingNormalized`). So a hash is found under its entry's key if the URL came without an escape sequence and under no other
entry's in any case (`Hashes`), a key counts as reworded or rewritten exactly when its two pages differ (`Differing`), and the sections' gains
add up because each key is listed under one section of its crawl (`DeltasAddUp`). The proof corrected the properties: they compared
URLs as they were crawled, whereas two pages whose URLs are one character and its escape sequence are one entry to the diff. The
instance of the run now has such a pair, and `OnePagePerKey` and `PageKey` speak of URLs as they are read.

**LlmsTxt** (`LlmsTxtProofs`), from `LlmsTxtAssumption`, which gives the traits of URLs, texts and bodies their types, a path a name for a
section that may be a canonical one's or Other's, and the corpus room for its header and its notice.

* `IndexKeepsItsOrder`. A stable sort is decided by its keys (`KeyOrder`, `SortedNames`), and two pages with one `ordering_key` are one
  record: a crawl's order is gone after the first sort (`OrderedSwapped`, `SelectOrdered`). Titles and descriptions are part of that key, so enrichment
  does reorder pages that share a URL, and which of two copies is kept as the candidate may depend on it. But score and fingerprint are read
  off the URL and the body alone: `SurvivorsOf` holds one candidate of each fingerprint, that of the least (score, depth, URL) over
  the contents of the crawl (`Class`, `Below`), whichever page it has its words from. From there on two runs are `Alike`, place by
  place, in URL, score, section and rule, and each stage keeps them so (`PartitionAlike`, `EnsureAlike`, `ConsolidateAlike`, `RanksAlike`).
* `PagesAddUp`. The stages lose no candidate and add none, and `Booked` is what the loop of `_plan_full_txt` keeps from turn to turn: the entries
  so far are carried whole or counted, and what is used leaves the notice its room until the corpus is closed (`CorpusBooked`).
* `MainBodyAlwaysFilled`. `Balanced` says of a split what the property says of the entries, and holds from `_partition` on; `_consolidate` changes sections
  only, and a section it leaves is as large as before or Other (`ConsolidateRoomy`). Sections rise along the entries (`HeadingsOf`), which is why none is
  printed twice.

For these proofs `LlmsTxt` says what `sorted` and a filter do by the place that counting gives an element (`Sorted`, `Where`) instead of by
`SortSeq` and `SelectSeq`, and `partition` divides places, as the single walk of `_partition` does.

**Induction over data** (`LoopTheorems`). The library's induction theorems take an operator, which the provers cannot be given. What stands in
for them is that of the numbers, or the subsets of a finite set, that refute a claim there is a least (`LeastNumber`,
`LeastSubset`). From it follow what a fold computes turn by turn (`FollowedTurns`, `LoopKeeps`), that a sum is the same in whatever
order it is taken (`AnyOrder`, `SumBy`), and that a sequence with each element at the place that counting gives it is sorted (`SortedBySlot`).
The prover knows no definition of the library's `SortSeq`, so that `RunReads.list_by_website` and `Selection.Ranked` say the
order by that count; nor of `SelectSeq`, nor of an EXCEPT with an `@` in another, so that `Robots` filters with folds and has neither.

The invariants were checked by TLC on the instances of the runs before they were proved, and the
attempts found three more faults of the models. `SameSite` took `www.com` for a spelling of `com`, which `_strip_www` keeps
apart (`Spellings`). A fetch in the gate or in its body was able to go on in a crawl that arq had already
cancelled (`wait_for_turn` and `Chunk` now ask for `Running`). And a CASE whose guards overlap chooses among its arms: TLC
takes the first, as the code's `if`/`elif` does, but a proof cannot; `NextEntry`, `page_outcome`, `classify_block`, `parse_robots`,
`merge` and `Prefilter` now say the order.

**Only model-checked**: `EveryRunEnds` and `KeepsRunning`, because liveness under fairness is out of the prover's reach.
RECURSIVE operators are used nowhere.

## 6. Where the code and what is said of it part

Each of these runs ends in a counterexample that the code's own behaviour yields. PROJECT.json quotes the lines.

| Run | Violated | In short |
|---|---|---|
| `RunLifecycle_lostreply` | `UndoesOwnClaim` | a release is guarded by status alone; repeated after a lost reply it undoes the next worker's claim, and the site is crawled twice at once |
| `Publish_skipped` | `SkippedMeansSame` | the index hint alone decides `skipped_unchanged`: a target newer than the last change of the site gets nothing |
| `Crawl_robots` | `RobotsHonoured` | a `Sitemap:` line that is no URL makes `urljoin` raise after the rules were read: they are lost, and disallowed pages are fetched |
| `Selection_lastmod` | `DiscoveryHarmless` | a `<lastmod>` with no UTC equivalent makes `astimezone` raise outside of discovery's `try`, and every attempt fails |
| `Tokens_rejected` | `RejectedIsForgotten` | a token refused with a 401 while publishing stays in the worker's cache and is presented again |

Remarks without a run of their own:

* Run lifecycle. A deploy's cancellation counts as an attempt, and fails the run when it was the last (`policy.py:140-141` says it
  does not use one up). The orphan threshold is measured from `started_at`, so a run that has queued or crawled before is swept
  while it waits for its retry (`policy.py:200-202`). A reaped job that ends without claiming leaves its result under the
  deterministic id that the reaper needs again (`runs/service.py:1286-1288`). The race `upsert_schedule` accepts can recur with
  every PUT, so a page that saves in a loop can run a schedule every minute; a tick cancelled among its enqueues has advanced its
  schedules already (`policy.py:119-122`).
* Discovery. When robots.txt alone exceeds the byte share, `/sitemap.xml` is still requested, where `sitemap.py:652` says the
  budget stops discovery outright. A robots.txt that is too large counts as none. Localized copies of pages whose original is
  not among the candidates are kept.
* Timeouts. The crawl's wall clock does not cover discovery, so that "the application-level cap always lands first"
  (`policy.py:66-75`, `settings.py:78-84`) holds only as `BackstopIsLast` (a part of `LimitsHonest`) says; the settings call a capped run a failed one, and
  it is a success. The cap `pages` cannot fire in production: the frontier has been cut to the cap before. A sleeper in the gate
  that wakes up late shortens the gap after it (`fetcher.py:126-134`).
* Index diff. Two frontier URLs can end on one page after redirects, where the comment in `index_diff.py:512-516` takes URLs
  for unique; a paragraph of the root page that looks like a link line is parsed as an entry; a URL that already holds
  `%20`, `%28`, `%29`, `%3C` or `%3E` joins no content hash (`index_diff.py:186-214`), so that its content changes stay unseen:
  `ChangeIsSeen` is about the others. A switch of the enrichment mode makes `metadata_changed` null, and `bool(None)` reads as
  unchanged where `change_summary.py:53-62` says changed; `ModeFlipQuiet` (a part of `UnchangedIsQuiet`) states what does hold.
* Caps. `run_limits.py:17-22` says that rounding the delay down keeps a client from retrying too early; it is what makes it
  retry too early, by less than a minute.
* Enrichment. A deadline with nothing finished leaves `applied` false without a reason; an exception nobody expected leaves the
  pass's other requests running after it; two pages that ended on one URL share a summary.
* Caches. A key the provider has retired is accepted until some unknown key id causes a refetch.
* Websites. Rows written before `www.` was stripped keep their origin; names that differ in a trailing dot and spellings of one
  IPv6 address are different sites.
* Publishing. `schema.prisma` says `commit_sha` is null when nothing was committed, but it is null too when the pull request fails
  after its branch's commit; `publish_run` says it never raises, but its first reads and its last insert are outside of its `try`.

## 7. What is not modelled

The parsing of HTML, XML and Markdown, and everything that only renders strings: titles, descriptions, sentences and bodies
are numbers that are equal or not. The classification of addresses (`_classify` over IP ranges) and of block pages by their
text is a constant of `Fetch`. The detail of a run with its signed URLs, and the artifact's endpoints, read one row and keep
nothing. JWT and HMAC arithmetic; the verification of a bearer token once its key is known. Logging, settings, HTTP
translation, connection pools, migrations and deployment. The frontend: its two hooks with state are open in the plan, the
rest renders what it is given. The reaper's batch over many runs is open too. In `Publish`, connecting an installation
(an idempotent upsert) and the lists.

Postgres, Redis, arq, Storage, GitHub, the identity provider and the language model are modelled as far as the code uses
them: atomic statements, transactions with row locks and unique constraints, arq's keys and retries, an overwriting upload,
GitHub's sha check and its refusal of a second open pull request for a branch, keys and tokens that change or expire on
their own. `Websites` starts from an empty table, `Admission` counts a run for a day at most, and a crawl's concurrent tasks
interleave at their awaits only, as asyncio runs them.
