# Copycast in TLA+

Copycast mirrors podcasts and video channels. An API serves Feeds, media and a web interface; a worker
lists Sources and downloads Episodes into an Object store; Postgres holds the Catalog and the queue
between the two. This directory models what in it depends on the order in which processes, transactions,
threads, requests and crashes come, checks the models with TLC on small instances, and proves their
most important properties with TLAPS for all of them. Every definition is translated from the code under
`src/copycast` (paths below are relative to it); `PROJECT.json` maps each one to its lines.

Contents: [the system](#the-system) · [the modules](#the-modules) · [the runs](#the-runs) ·
[fairness](#fairness) · [the proofs](#the-proofs) ·
[where code and documents disagree](#where-code-and-documents-disagree) ·
[what is not modelled](#what-is-not-modelled) · [the plan](#the-plan)

## The system

Two kinds of process share one database and one Object store. The **API** (HTTP and MCP, any number of
replicas) runs many requests side by side; the **worker**, of which one works at a time, runs one asyncio
loop with a thread pool for its jobs. They never call each other: the API inserts rows in `jobs` and the
worker claims them (NOTIFY only wakes it early); the API raises `cancel_requested` and the worker's
monitors poll it. Both write the same Catalog rows, export the same descriptors after their commits, and
remove objects in hooks that run after the commit in the same process.

| Component | State it keeps | Operations | What makes it hard | What makes it correct | Module |
|---|---|---|---|---|---|
| Jobs table (`adapters/db/repositories/jobs.py`) | a row per job: status, attempt, cancel flag, due time, heartbeat | enqueue, claim, heartbeat, finish, requeue, cancel, stale sweep, purge | every caller may call at any time | one running job per Feed except first plays, one active job per dedup key | JobQueue |
| Worker runner (`worker/runner.py`) | slots, `_running`, stuck threads, quarantined Feeds, the stop event | claim and start, monitor, settle, abandon a stuck job, drain | settling against monitors, cancels, timeouts and SIGTERM; a stalled heartbeat; crashes | an execution owns its row; what is claimed has a thread; a job ends, and for a reason | Runner |
| Archive job (`worker/jobs/archive_item.py`) | the item's row, the media object | read policy and quota, fetch, upload, register, fail | three transactions around a download; the item changes meanwhile | the row says what the store holds, and follows its job | Archive |
| Archive policy, prune, purge (`application/services/policy.py`, `worker/jobs/prune.py`) | Locks (`archive_flag`), the rolling window | apply, roll out, expire, clear | a set computed from rows that change before they are deleted | what was seen locked is not deleted | Archive |
| Items, Episodes, Mirrors API (`application/services/`) | the same rows | archive, delete, Lock, select, create, retarget, delete a Feed | a deletion reads, commits and then removes objects; check-then-insert | a request is not lost; a Feed belongs to one Owner | Archive, Registry, Selections |
| Refresh, Light Refresh (`worker/jobs/refresh.py`, `application/services/light_refresh.py`) | the listing and its validators | list, upsert, delist, apply the policy, queue archives | two listings of one Mirror in two processes | no listing is lost, the Catalog converges to its Source | Catalog |
| Buckets and Requests (`worker/jobs/expand_request.py`) | Requests, the rows they brought | expand, re-list | the listing of one Request delists those of the others | a Bucket keeps its rows | Catalog |
| Quota (`application/services/quota.py`) | bytes per Feed, recounted; blocks on items | room, block, release, recount | many archives at once; READ COMMITTED | overshoot is bounded by what was in flight; what fits is released | Quota |
| Uploads (`application/services/uploads.py`) | `upload.json` and a file per upload, a row accounting for it | create, PUT, delete, add to a Bucket, sweep | streaming PUTs and copying batches, retries, hooks after the commit | the quota holds, a received file is not lost | Uploads |
| Unit of work, descriptors, rebuild (`adapters/db/uow.py`, `adapters/storage/`) | `feed.json` and the files beside the media | commit, export, rebuild | a debounced export, a crash between commit and export | a rebuild restores the intent | Descriptors |
| Assets (`adapters/assets/mirror.py`) | rows and objects of artwork, chapters, transcripts, attachments | mirror, register, delete | three suppliers, attempts that break off, late hooks | a row names an object that is there | Assets |
| Cookie files (`application/services/engine.py`) | files and the jar merged from them | upload, remove, carry rotations back | Engine and users write the same jar | an upload loses nothing | Cookies |
| Start-up (`worker/main.py`, `adapters/api/app.py`, `adapters/storage/layout.py`) | layout version, schema revision, two advisory locks, Scratch | start, migrate, sweep, push | locks live as long as a connection | one worker works, on the schema it knows | Startup |
| Feed cache (`adapters/api/cache.py`) | bodies by revision in two levels | fetch, render, invalidate | a render reads in two statements; replicas share a cache that fails | nobody is served older than what was committed | FeedCache |
| Media and on-demand archives (`adapters/api/routes/public.py`) | requests that hold the line | wait, stream, resume | the object is replaced, or the archive commits, between two reads | one version per app, every request answered | OnDemand |
| Feed rendering (`adapters/feeds/render.py`) | GUIDs, numbers, enclosures | render, rebuild, move | identities must outlive archives, moves and rebuilds | what is listed opens, identities stand | Publishing |
| Event streams (`adapters/api/events.py`) | numbers, buffers, queues | publish, replay, resync | dropped connections, bounded queues | no silent gap, no number that tells of others | Events |
| Principals and Scopes (`adapters/api/principal.py`, `application/services/context.py`) | sessions, API keys, feed pairs | authenticate, act, revoke, rotate, reassign | a request outlives its credential's validity | what is done was allowed then | Access |
| Sign-in (`application/services/auth.py`) | attempts, locks, TOTP steps, sessions | log in, throttle, prune, `sync_users` | guesses side by side, a slot granted too late, two processes with two configurations | attempts are a lock apart, a code is good once | Accounts |
| Feeds and Owners (`adapters/db/reassign.py`, `mirrors.py`) | rows of Feeds, settings objects, the probe cache | create, retarget, delete, reassign | object by object, may die | nothing reaches another Owner | Registry |
| Fetch guard (`domain/destinations.py`, `adapters/sources/guard.py`) | what was refused | judge, resolve, connect | names that resolve differently every time | no refused address is reached, a refusal is final | Outbound |
| Engine (`adapters/engine/ytdlp.py`) | options, hooks, what was caught | list, fetch | yt-dlp wraps and swallows errors | a call ends as what it was | EngineCalls |
| Sources (`adapters/sources/`) | none | probe, list pages | some links answer, some fail | what answered is told, and only that | Probe |
| Selections, Ordinals (`domain/selection.py`, `domain/ordinals.py`) | numbers and dates of items | number, date, select | listings renumber between two requests | a selection means what it says | Selections |
| Status and health (`application/services/status.py`) | heartbeats | beat, probe, report | the row of a dead worker stays | what is gone is told in time | Health |
| Scheduler, migrations, instance secrets | timers; revisions; a secret | ticks; migrate; namespace the cache | | | in Runner, Archive, Quota, Health; Startup; FeedCache |
| Web interface, CLI, deployment | none that decides anything | | | | — |

`PROJECT.json` lists them one by one with their files and what is modelled of each, and, under
`hazards`, the forty places in the code where order, failure or a boundary can go wrong in a way a
test would hardly reach, with the properties that cover each.

## The modules

```
JobQueue <-- INSTANCE -- Runner   Archive   Uploads   Holdings       Serving       Storage        Perimeter
                           ^         ^         ^       Catalog        FeedCache     Descriptors    Access  Accounts
                           |         |         |       Quota          OnDemand      Assets         Outbound  EngineCalls
                           |         |         |                      Publishing    Cookies        Health  Probe
                           |         |         |                      Events        Startup        Registry  Selections
             RunnerProofs  ArchiveProofs  UploadsProofs  HoldingsProofs  ServingProofs  StorageProofs  PerimeterProofs
                 MCRunner      MCArchive      MCUploads      MCHoldings      MCServing      MCStorage      MCPerimeter
```

`Archive` takes the jobs table from `JobQueue` as `Runner` does. `Uploads` and `Quota` share the sum of `Sums`, and
their proofs what `SumsProofs` says of it. `Holdings`, `Serving`, `Storage` and
`Perimeter` each put components side by side that share no state (no row, object or memory of one is read by
another): a variable (`route` and its likes) says which of them a behaviour is about, so that TLC explores the
sum of their states and not the product. Where components do interact, they are one module: the jobs table
under worker and archives, the caches under replicas, requests and the worker's archives in `OnDemand`.

Common conventions. Postgres runs at READ COMMITTED: a transaction is one action unless it reads something
before it holds the lock that keeps it; then the read and the commit are two actions. What a hook does after
the commit is an action of its own, and a process may die before it. A misfortune (crash, failed statement,
lost connection) may come at every point where the code can meet it, as often as a budget allows. What other
systems answer (Sources, yt-dlp, resolvers, Valkey) is any answer of a small set, another one every time.

### JobQueue: the jobs table

`job` is the table. Each action is one method of `JobRepository`, that is one SQL statement, with the
WHERE clause of the statement as its guard: `Enqueue` (with the partial unique index on active dedup
keys), `Claim` (the two NOT EXISTS clauses: a running job of the Feed, or for first plays of the item),
`Heartbeat`, `Finish`, `Requeue`, `Cancel`, `CancelForFeed`, `DeleteFeed` (the cascade), `Maintenance`
(stale sweep and purge). Time is two bits: `due` is `run_after <= now()`, `fresh` a heartbeat younger than
`STALE_HEARTBEAT`. It is the abstract specification of everything that uses the table: any client, any
method, at any time.

### Runner: the worker process

`table` is the dictionary `_running`, `exec` the `RunningJob` records with their tasks, `pending` the job
that `claim_available` holds between the committed claim and `_start`, `stuck` the counter `_stuck`, `abandoned`
the threads, general and reserved, that `_mark_stuck` left busy, `proc` and `stop` the life of the process. One action is what happens between two
awaits that matter. It implements `JobQueue` (property `QueueSpec`): every step is a method call on the
table or leaves it alone. `requeue_stale` does not look at `max_attempts`, and a stuck reserved job gives its
slot back while its thread is still in the pool: both are in the model as they are in the code.
`ThreadsSuffice` counts executions and threads, not the entries of `_running` that the slots are computed from.

### Archive: the life of an Episode

One Mirror. `item` is the Catalog (`state`, `archive_flag`, `blocked_reason`, whether media is
registered), `objects` the media in the Object store, `exec` the archive, Refresh and prune jobs with the
position of their handler, `erase` a deletion in flight in the API or in the worker, between its read, its
commit and its hook. An archive runs `Claim`, `Begin`, `FetchOk` (or a failure), `Upload`, `Mark`,
`Commit` or `Discard`, `Settle`, and users, the Refresh, the prune, the scheduler, crashes and drains come
between any two of them. Three errors pass every `except` of the job once its row is archiving: `ScratchFails`
(no Scratch directory), `AttachmentsFail` (a link in the notes that `urlsplit` refuses, after the upload) and
`DatabaseError` (any transaction of the job, that of a recorded failure included); `unheard` is the history of the
items they leave archiving. Assumptions: the Items are those the Source keeps listing (delisting and Sync are
Catalog's); mode "all" stands for the four modes of `ARCHIVE_POLICY_MODES`; whether the Owner is over quota is
an input (Quota says when); delays elapse at once; an execution per job (a heartbeat that stalls is Runner's).

### Uploads: staging files against a quota

One Owner. `meta` is the state in `upload.json`, `files` what is stored, `row` the table
`staged_uploads`, `put` and `batch` the calls in flight, `lock` the Owner's advisory lock, `giving` a
`delete_upload` between its two steps, `sweep` the worker's hourly sweep. A transaction under the lock
that awaits nothing outside the database is one action; a batch holds the lock while it copies, step by
step. `Hours` ages uploads past `PENDING_HOLD` and `UPLOAD_TTL`. Assumptions: usage comes from uploads alone
(archives, which may overshoot by design, are Quota's); a file of a PUT about to commit is not 24 hours old by
its own clock; a sweep removes the objects of all expired uploads in one step.

### Holdings: Catalog and Quota

**Catalog**. The Source is a sequence of versions, each with a first page and the rest. The worker's
`RefreshStart`/`RefreshList`/apply, the `Light` Refreshes of any api process, a retarget, and for a Bucket the
expansion of Requests list outside any transaction and apply later, under the Feed's row lock. An RSS Source may
answer 304 to the validators of an older listing. Archive jobs are one step. `Overlap = FALSE` says that the
cooldown and the deadlines of light Refreshes keep two listings of one process from overtaking each other.
Left out: minimum duration, latest-n and rolling, `refresh_runs`, validators other than an ETag. The job of a Request
ends `recorded` when its failure is on the Request, `lost` when an unrecorded one (an error outside the `try`, or
of the transaction that records) was its last attempt, and `stuck` when the runner gave it up: only a drain gives
the attempt back. In the model as in the code: a Request stays queued when its job is cancelled, lost or stuck, and
`RowsSettle` excepts those (`Forsaken`); an expansion that runs again after a crash
wants again what was deleted meanwhile; a retarget during a Refresh leaves the old URL's ETag; a stream
recorded later stays Available.

**Quota**. Episodes of several Feeds of one Owner with their sizes: the start of an archive reads the room,
its end commits bytes and recounts the Feed in two steps (`Statement`, `Commit`), as the SQL does; blocks, the
release walk and restarts with another quota. `Release` takes an item out of its block also while the job that
blocked it has not settled; `Enqueue` is then a duplicate, and the item is wanted, unblocked and without a job:
`BlockedReleased` names that outcome beside the job and the item given up. Left out: an unlimited quota, Paused Feeds, uploads.
`Overlapping = FALSE` says no two transactions recount one Feed side by side; the run `quota_recount` shows what
happens otherwise.

### Serving: what apps and browsers get

**FeedCache**: a fetch reads the row's revision, looks in the process's own level, in Valkey, waits for another
replica's render or renders in two statements; a body is the number of changes it shows with the settings and
instance secret it was rendered under. Any call of Valkey may fail and any key be lost; replicas restart,
settings move, the database is rebuilt. `now` counts the whole seconds of a Last-Modified: a change is dated by the
second its transaction began in, any number of changes share one, and `FormatSince` is the floor of
`RENDER_FORMAT_SINCE`. `DatesOnly` apps revalidate with If-Modified-Since alone.
**OnDemand**: a request queues an archive and holds the line; a look is a read (`Look`) and a decision by what was
read and by the clock (`Settle`), and wake-ups, the deadline, the worker's commit,
deletions and a replaced object come in any order between them; each range is read on its own with the ETag of the head.
**Publishing**: two items with number, GUID, enclosure and transcripts; listings, archives, deletions, a move to
another address of the same show and a rebuild. What the XML lists is tried against the routes that serve it.
**Events**: one hub and one stream. What is committed is NOTIFYed, numbered per view, kept in a bounded buffer
and put in a bounded queue; the LISTEN connection drops, streams are cut, processes restart, sign-ins end.

### Storage: what lives beside Postgres

**Descriptors**: changes of a Feed's intent and their exports, immediate and debounced, two under way at once; a
loss of Postgres and a rebuild. `LiveRebuild = FALSE` says the Feed does not change while it is rebuilt.
**Assets**: one Episode's assets from Engine, Source and notes, and a Feed's artwork; rows and objects, attempts
that break off, removals that come late. Hooks act on names, so a late one may take a re-archived file's
objects; the property says so. **Cookies**: files, the merged jar, rotations brought back by the Engine, unless the call
raised; `Room`
is `MAX_COOKIE_FILES` (32), assumed at least 2: with one, an upload between the two writes of a removal makes two
files. **Startup**: layout version, Scratch sweep, migrations (the look at the revision and the upgrade
are two steps, kept together by `MIGRATE_LOCK`), the worker's lock, a push into the bucket. Each
process is assumed to have its own Scratch: a worker sweeps before it takes `WORKER_LOCK` (`worker/main.py:57`,
`:72`), so one that shares the directory loses live files.

### Perimeter: an instance and its surroundings

**Access**: requests of sessions, keys and feed pairs on `/api`, `/mcp` and `/feeds`, resolved once and then used,
while keys are revoked, pairs rotated, Feeds reassigned and Users removed. Histories say who has seen a pair or
changed its Feed (`hands`: Users, keys, and `"stranger"` for a page of another site), who had a right to it since it
was minted (`entitled`), which Feed it was minted for (`minted`), and which keys ended, or changed Owner, with a
request under way (`reprieved`): that request still acts as it arrived, in the code as here. **Accounts**: slots, locks, one-time
codes, sessions and `sync_users` of two processes; a claim may carry an older `now` than the row's. The longest
lock is shorter than the pruning of attempts (15 minutes and 24 hours in the code), an assumption the proof
needs. **Outbound**: every class of address, resolved anew at every look, redirects, proxies, both HTTP stacks.
**EngineCalls**: option layers, hooks, filters and what a chain of errors is classified as. **Health**: ages of
heartbeats against what status and readiness say; with the Object store down there is no status. **Probe**: links, verification, pages. **Registry**: Feeds'
ids, Owners, the probe cache and settings that a reassignment moves object by object. **Selections**: how listings
number and date items, and what an expression selects.

### MC modules

`MC*` extend a module and give its functions values on small instances; every bound is a constant of the
module (`Budget`, `Budgets`, `Scenarios`, `MaxAttempts`, `Calls`, ...) marked as one where it is declared.

## The runs

| Run | Instance | Shows |
|---|---|---|
| `runner` | a Refresh and a Backfill of one Feed, 2 slots, 2 attempts, one crash, database error, SIGTERM and storage-full wait; or those and a first play of another Feed, with threads that get stuck | an execution is the only one of its job and owns its row (`ExecutionsOwn`); what is claimed has a thread, beside those that settle and those left busy (`ThreadsSuffice`); the table is only used through its methods (`QueueSpec`); every end, cancellation, orphan and retry has a cause, and a finished row stays finished (`EndsHaveCause`) |
| `runner_live` | the same jobs, one attempt, one slot; a crash, a SIGTERM and a wait, or a stalled heartbeat, so that a job runs twice | every queued job ends (`JobsEnd`), every cancel of a running job is honoured (`CancelHonoured`) |
| `archive` | one item, two archive jobs, users, blocks and releases, a wait, and a stuck thread or an error nothing records; or an API process that dies in a deletion | the row follows its job and a blocked item costs none (`RowFollowsJob`), it does not stay archiving unless an error went unrecorded (`ArchivingEnds`), no archive job takes the object of an archived Episode (`ServedKeepsObject`) |
| `archive_policies` | two items, a window of one, three policies, a Refresh, a prune, a first play, a user; a database error, or a drain and a crash | whatever deletes spares the Locks it could see (`LockSeenIsKept`) |
| `archive_drain` | one item, a drain | **violated**: `RetryDownloads` |
| `uploads` | files of sizes 1 and 2, a quota of 3, two PUTs, batches and Buckets, two calls in flight, one misfortune or delete | the quota holds and what is staged still fits (`QuotaKept`), no received file is lost (`ReceivedNotLost`) |
| `holdings` | a Source of two versions as RSS, channel, playlist or Bucket, two light Refreshes and two Requests; three Episodes of two Feeds, two slots, two quotas | no listing is lost (`NoLostListing`), a Bucket keeps its rows (`BucketKeeps`), the Catalog converges to its Source and Requests settle, but for the forsaken (`RowsSettle`); the overshoot is what was in flight (`OvershootBounded`), what fits gets a job, unless it is given up or its last job still ends (`BlockedReleased`) |
| `catalog_sync` | an RSS Source of two pages with Sync | **violated**: `SyncDeletesDropped` |
| `quota_recount` | the Episodes of `holdings`, recounts side by side | **violated**: `UsageIsTheSum` |
| `serving` | two replicas and two apps, one of which goes by dates, three fetches, a change, a misfortune and a move; an Episode of two ranges archived and deleted twice; two items of three transcripts, two of one file name; a stream with buffer and queue of two | nothing stale or foreign is served but to an app that goes by dates after a change dated no later than what it has (`FreshServed`), one version per app and a ready Episode served (`OneEpisodeServed`), every request answered (`Answered`), what is listed opens (`WhatIsListedOpens`), identities stand (`IdentityStands`), events are missed with a resync or not at all (`NoSilentGap`), numbers are the view's own (`OwnNumbers`), streams catch up or end (`StreamsSettle`) |
| `storage` | four changes of a Feed with one misfortune and one rebuild; two archives of an Episode; room for two of three Cookie files; two workers, an API and a tool, four starts | every change is exported (`EveryChangeExported`) and restored (`RebuildRestores`), rows of assets name what is there (`AssetsKept`), no upload of cookies is lost (`JarKept`), starts are in order (`StartsInOrder`) |
| `perimeter` | two Users, a key, a Feed, three requests, two at once; two browsers, one slot; a fetch with a redirect; a call of yt-dlp; a heart that stops; three links and pages; two Owners, two Sources; three videos | whoever saw a pair or changed its Feed had a right to since it was minted, and a pair opens its one Feed (`EffectsByRight`), attempts are a lock apart and codes good once (`LoginsAreBounded`), no session outlives its credentials but those the worker overtook (`NobodyKeepsASession`), no refused address reached (`NothingInsideReached`) and a refusal final (`RefusalIsFinal`), calls end as what they were (`CallTruthful`), the status, where there is one, and readiness tell what is gone (`StatusTellsTheTruth`), a probe tells what answered (`ProbeTruthful`), Owners stay apart (`OwnersApart`), a selection selects what it names (`SelectionsTrue`) |

**Bounds.** A misfortune of a kind happens once or twice per behaviour, but at every point of every
interleaving of what remains; what more of a kind would add is shown by the theorems, which bound nothing,
for the properties they cover. Two jobs of one Feed meet every exclusion clause of `Claim`; two items are what
a window of one needs to roll something out; two PUTs, batches, replicas, apps, Requests or browsers are what a
race needs, and the second Bucket lets one upload be added twice. Two versions of a Source, one of which drops
what the other lists and brings another forward, meet every branch of the upsert. `VERIFY_LIMIT` is 2 (5 in the
code), `MAX_PAGES` 3 (20), `LOCK_THRESHOLD` 2, `FEED_ENTRIES` 1: one below and one above each limit fit.
`Far` cuts ages in Health past which nothing distinguishes them, above both thresholds. A rebuild happens once
per behaviour of Descriptors: `RebuildRestores` is false of two after a stale export, as told under The proofs. Registry
begins with Mirrors of every age (created under the present ids, the former ones, or reassigned), one request in
flight and three turns. In Access a second request under way is what a revocation has to race, and a third what uses a Feed's id again.
In Accounts the API and the worker start in either order, with either file. Symmetry is used on executions, call slots and
Buckets, and on no run with liveness.

**Deadlock** is not checked in `Archive`, `Uploads`, `Holdings`, `Serving`, `Storage` and `Perimeter`: ids,
calls and misfortunes are finitely many there, so a behaviour may end with nothing left to do. In `Runner` it is
checked.

**Mutants.** For every property of a passing run `PROJECT.json` names an operator of the module marked
`mutant`, a plausible bug in one definition (a dropped guard, a missing reset, a swapped order), under
which TLC finds the property violated.

## Fairness

`Runner!Fairness` is what the code's scheduling gives: the tasks of a live process run (settling,
monitors, drain: weak fairness), its timers fire (soft timeout, stuck deadline, drain deadline), a
supervisor restarts the process (`restart: unless-stopped` in the compose file), the scheduler ticks, and
a claim that becomes possible again and again is made (strong fairness on a job's claim: the jobs ahead
of it by priority are finitely many). Handlers need not return, users need not act and misfortunes need
not come: `JobsEnd` relies on soft timeouts and stuck deadlines instead, and excepts a Feed quarantined
after an unresponsive job, whose jobs wait for a restart by design. `Archive!FairSpec` only assumes that a
handler goes on and settles. `Holdings!FairSpec`: the scheduler asks for due Refreshes and ticks for what is
blocked, the worker claims (strong: the slot may be taken meanwhile) and its steps go on, an API process
finishes what it listed. `Serving!FairSpec`: a request's task runs, its deadline fires, the worker archives or
fails, the hub reconnects with backoff, a browser's EventSource reconnects. No user action and no misfortune is
fair anywhere; that misfortunes are finitely many is what liveness rests on, in the models and in the code.

## The proofs

Every theorem holds for all values of the constants that satisfy the named assumption of its module
(`QueueAssumption`, `RunnerAssumption`, `ArchiveAssumption`, ...): any number of jobs, items, replicas, requests,
misfortunes. The assumptions say what kind of thing a constant is, and here and there a fact of the code that
the proof needs (`LOCK_MAX_SECONDS <= PRUNE_AFTER`, `Room >= 2`, `Stale + 2 <= Far`, a language's tag is its own
tag). Where a theorem holds under a condition only, the condition is in its statement and explained below.
Each proof module states one inductive invariant per component, proves Init, one lemma or step per action,
and the property from it; the last steps of the theorems put them under the temporal operators.

- **RunnerProofs**: of the jobs table itself, for any clients, `QueueTypes`; `FeedExclusivity` (two running jobs
  of one Feed include a first play) and `ItemExclusivity` (never two about one item): only `Claim` makes a row
  running and its guard sees every running row; `DedupHolds`: every way back to queued keeps the row active. Of
  the worker, `WorkerTypes`; `Refinement`, Runner implements JobQueue; `WorkerFeedExclusive`, JobQueue's
  exclusivity carried over by it. Their invariant is `Typed`: types, an execution that is not idle names
  its job, and every entry of `_running` is a live execution of that job; without the last a settle could pop the
  entry of another execution and the count of slots would mean nothing. `Owners`, `Threads` and `Causality` assume
  `NeverStalls`, that no heartbeat stalls: after a stale requeue the old execution writes over the row of the new
  one (`jobs.py:325` compares no attempt), `_running` loses track of one of them, and the properties fail. Their invariant `Own` says who holds a
  running row at each moment (the claim in hand, an execution, the sweep's due orphans) and with which attempt.
  For `Threads` the bound on `_running` that a claim reads (`SlotBound`) is carried over to executions and threads:
  each execution has an entry of its own, and `_stuck` counts every general thread left busy.
- **ArchiveProofs**: `ArchiveTypes`, `ServedObjects`, `LocksKept`. The invariant is
  `IInv == TypeOK /\ OwnsRow /\ OneRunning /\ NotYetArchived`: an execution owns a fresh running row, an
  item has one running archive job, and what a job downloads is not archived. A discard or a failed
  registration removes what it uploaded; it hurts no archived Episode because its item is not archived and
  no other job of the item can have archived it, which needs the exclusion of the table, hence `OneRunning`,
  hence that executions own their rows. What is left is the hook of a deletion, which the theorem names.
  `RowsFollow` assumes `Undisturbed`: no worker dies or is stopped, as after that an item may stay archiving for ever
  under no execution (the run `archive_drain`). Errors that nothing records may come; `Agreement` excepts the items
  they left (`unheard`). Its invariant `RowInv` adds that what a job downloads is archiving, deleted, or asked for again under that job, and that a blocked item's only active job
  is the one that settles as succeeded.
- **SumsProofs**: what the library's `MapThenSumSet` computes of a finite set (`SumSteps`, `SumSplits`,
  `SumChanges`, `SumShrinks`, `SumGrows`), for the sums of UploadsProofs and HoldingsProofs: a fold is a table over
  the subsets, so the induction is over a set of subsets (`ByOneLess`).
- **UploadsProofs**: `UploadTypes`, `ReceivedKept`, `QuotaStands`. `Named` says that a call in flight is of an
  upload and a Bucket; `HookAdded` that whatever a batch's hook still has to remove is committed as Episodes;
  `Fits` that the quota holds, and would with the batch that copies: it was weighed under the lock it still has, and
  nobody else commits Episodes meanwhile. Staged bytes grow in two steps only (`OthersStageLess`), and both read the
  room under the lock and take no more than it (`WriteFits`); a commit of the bytes received counts the row's own
  announcement out first.
- **HoldingsProofs**: `ListingsKept` and `BucketListsKept` (`CatalogInv`) assume `~Overlap`, that a listing
  ends within the cooldown of the next: its parts say that at most one listing is under way beside a Refresh that
  has not listed, that what is listed later is the newer, and that validators of the present version, wherever
  they are held, stand for a Catalog that applied it. Without the assumption a 304 to a Refresh may be applied
  after an older listing of a light one. `SlotsBounded`: what landed while the Owner was over quota was running
  when there last was room, so no more than the slots; `OrderedUsageIsTheSum`: `storage_bytes` is the sum of what
  is archived whenever no transaction is under way; and `OvershootIsInFlight`: the real sum is above the quota by
  no more than the bytes of what landed. The last two assume `~Overlapping`; the run `quota_recount` shows why.
  `OvershootInv` adds that the usage is the real sum and that nothing landed runs again before there is room.
- **StorageProofs**: `StartsOrdered` (`StartupInv`: who holds which lock by which connection, and what it has
  seen of the schema), `ChangesExported` (`DescInv`: the newest change is written, or an export that will read it
  is armed or under way, or a crash or a refusing store is to blame), `RebuildBringsBack` (`RestoreInv`: until the
  rebuild writes the row, a descriptor of the intent of the Feed, or of the one that was lost, is that Feed, and a
  file nobody wants has its removal under way), `JarIsKept` (`CookieInv`: what each call
  has read is what the files still are while it holds the Owner's lock), and `AssetsStay` (`AssetInv`: suppliers
  meet in an identity only where the Engine's copy failed, so `_record_assets` loses none of the names written; an
  attempt that can still be registered is later than every deletion, so what a removal takes from it is a removal
  that came late; and while no Artwork is recorded only what a Refresh has in hand is stored).
  `RebuildBringsBack` assumes `OneRebuild`, as the run does: one rebuild, and the Feed does not change meanwhile.
  With two it is false. An older export may overwrite a newer descriptor (below); the first rebuild then takes the
  row back to the older intent but keeps what only the row has, so one intent stands for two states of the Feed,
  and a second one, with `--yes`, drops what the descriptor of that intent lacks.
- **ServingProofs**: `FeedsAreFresh` (`FeedInv`: a body kept under a revision shows at least the changes that
  revision stands for, in both levels and in what is under way). For an app that
  revalidates with a date alone it says what is left: it misses a change only if one it misses is dated no later than
  the body it has, in the same second or by a transaction that began before and committed after (`TrueDate`: a body is
  dated by the change its revision stands for, so what was dated later is not left out). `MediaIsOne` (`MediaInv`: an app's parts
  are of the version of its ETag, and a request told 503 found nothing archived when its time ran out, nor had read
  that it was); `ListedOpens` and `IdentityIsKept` (`PubInv`: rows and
  descriptors agree on numbers, GUIDs and extensions, and a descriptor that names an item keeps naming it);
  `NothingIsMissed` and `NumbersAreOwn` (`EventInv`). What makes the last inductive: a view's buffer is numbered
  without a hole up to its next number; what is queued is numbered on, but for a resync at its head, up to that
  number unless the stream is full, and is what the buffer has under these numbers; and whatever a client is due
  is queued, on the wire, behind a lost LISTEN connection, or, when its stream is full or gone, replayed by the
  buffer or lapsed from it after the last number it was sent or has queued. The last clause is what a stream that
  is cut with a full queue needs, and a replay gap has to stay one while the buffer moves on (`GapKept`).
- **PerimeterProofs**: `NothingInside` and `RefusalsFinal` (`GuardInv`: what is connected to is what was judged,
  and a refusal is remembered beside yt-dlp until the next fetch); `CallsTruthful` (`EngineInv`: what has been
  caught so far classifies as what happened); `RightsKept` (`AccessInv`: the rights a request
  arrived with are still there for every pair its Feed has had since, or its key is among the reprieved, whence who
  has acted on a pair was entitled; and a Feed's pair is the last one minted for it); `StatusTruthful` (`HealthInv`, a
  bound on each age by phase);
  `LoginsBounded` (`GuessInv`, `SlotInv`, `CodeInv`: the row of a name dates the last attempt, slots are held by
  logins that give them back, accepted steps only grow); `NoOldSession` (`SessionInv`: a digest is
  stored in the transaction that ends its User's sessions, so one that lives on is of the digest stored, or was opened
  behind it), in
  whatever order the two processes start; `OwnersStayApart` (`RegistryInv`: a request is for who
  asks or for an Owner its Feed has had, lists with that Owner's Cookie files, and what a move is about to delete
  has been copied), which assumes `Salted`, an instance with users; `ProbesTellTheTruth` (`LookupInv`: nothing that
  would do has been heard while an input is still being tried, and the links verified are RSS, each Source once;
  `WalkInv`: the items gathered are what the pages read list); `SelectionsMeanIt` (`SelectionsInv`: Ordinals are
  distinct, a row outside the Catalog is blank and never has a job, and a date that is called exact is the true
  one, which for RSS is any). Each of its action properties follows step by step: what a listing brings is ranked
  by a strict order (`RanksFollow`) above the highest Ordinal, and what a text denotes is what its loops gather
  (`ParseFacts`, `ResolveFacts`). What a loop keeps is proved by its rounds: the library's induction takes an
  operator, so `EveryRound` does it with a set of rounds, and `LoopExists` shows that a loop's recursive function
  is there.

Only model-checked, and why:

- Liveness and the fairness under it (`JobsEnd`, `CancelHonoured`, `ArchivingEnds`, `RowsSettle`,
  `BlockedReleased`, `Answered`, `StreamsSettle`): out of the prover's reach.

## Where code and documents disagree

Three runs end in a violation; each quotes what the code or a document says.

1. `archive_drain`: a job cut off by the drain leaves its item archiving; the re-queued job finds it not
   wanted and skips, against "the retry downloads again" (`worker/runner.py:22`). A crash, a Scratch directory that
   cannot be made (`archive_item.py:467`), a link in the notes that `urlsplit` refuses (`:575`) and an error of the
   transaction that records have the same effect: the retry skips "item is archiving", and it takes a deletion and a
   new request to get on.
2. `catalog_sync`: only a Mirror's first Refresh follows the pages of an RSS Source; the next one takes its first
   page for all of it, delists the rest, and with Sync deletes Episodes the Source still lists, against "deletes an
   Episode when its item leaves the Source" (`docs/operations.md:1028`).
3. `quota_recount`: two transactions recount one Feed side by side; the later one writes a sum it took before the
   other's commit, against "`storage_bytes` = archived media bytes + archived asset bytes"
   (`adapters/db/repositories/feeds.py:297`).

Reachable in the models, without a run of their own:

- A deletion that read an Episode unlocked deletes it after the user locked it (`application/services/items.py:215`;
  "a locked Episode is never deleted", `policy.py:6`). `LockSeenIsKept` is what holds.
- The hook of a deletion removes the object of an Episode archived again since (`episodes.py:154`; "no row points
  at a missing object", `archive_item.py:9`).
- Of two PUTs of one upload the failing one removes the file of the received one (`uploads.py:327`; "pending again,
  with no file and no hold", `:325`). An upload may also be added to two Buckets.
- After a stalled heartbeat the old execution writes over the row of the new one (`jobs.py:325`).
- `requeue_stale` ignores `max_attempts`: a job that takes the worker down is claimed again for ever.
- A client of the event stream that resumes after a restart with a number the new process has given already misses
  what came between (`adapters/api/events.py:331`, against `:315`).
- A replica with older settings serves a body another one put under a shared key (`adapters/api/cache.py:166`,
  against `:3-4`).
- A stuck job of the reserved slot gives the slot back with its thread still busy (`worker/runner.py:194`): the next
  first play waits for a thread of the pool.
- A Request stays queued for ever after an unrecorded failure of its last attempt, and so do a Bucket's Requests behind
  a job that got stuck (`expand_request.py:178-237`; `runner.py:553` settles archives alone).
- An item released from its block while the job that blocked it has not settled gets no job until the next Refresh of
  its Feed (`application/services/quota.py:145`); a Bucket has none.
- An app that revalidates with a date alone gets a 304 for a body that lacks a change of the same second, or of a
  transaction that began earlier (`adapters/feeds/render.py:235`, `public.py:97`; "a stale body is never served",
  `adapters/api/cache.py`).
- An archive that commits between the last look's read and its decision is answered 503 (`public.py:300`, `:305`).
- With the Object store down `get_status` answers 500: its listing of Cookie files raises (`status.py:114`,
  `services/engine.py:82`, `storage/objects.py:119`) before anybody sees what `_storage` says of it (`status.py:341`,
  "unreachable endpoint, refused keys, missing bucket").
- A worker that starts with new credentials before the API stores their digest; a session that the old API opens then is
  one the new API keeps (`application/services/auth.py:350`), against "nobody keeps a session opened with the old
  password" (`docs/operations.md:740`). The documented command names no order.
- A key that is revoked while a request of its own is under way still acts once (`application/services/context.py:91`).
- The Engine's write-back of a jar may take a file uploaded meanwhile (`adapters/engine/ytdlp.py:520`, against
  `services/engine.py:220`); and a cookie a site set is carried into another file of its domain whose name comes
  later, where it shadows an upload ("every future fetch of theirs carries it").
- An export's check and write are two calls, so an older descriptor may replace a newer one
  (`adapters/storage/descriptor.py:294`, against `:285`); after a restore of an older dump exports are skipped as
  older; a crash between a deletion's commit and its hook lets a rebuild bring the Episode back.
- A push goes on after a failed upload of media and completes (`adapters/storage/push.py:63`, against `:6-8`).
- An error of the network while listing counts as permanent (`ytdlp.py:253`, against `ports.py:29-34`); of a chain of
  errors the outermost classed one decides (`adapters/engine/errors.py:146` says otherwise).
- A stream recorded after it was live stays Available where a policy would want it (`policy.py:147`;
  `docs/operations.md:974`).
- A Mirror created twice at once: the second insert answers 500 and not 409. After a reassignment the former
  Owner cannot mirror that Source again: 409 "feed id collision".
- Two transcripts of an item whose languages differ in case share a file name, and the route that serves it answers
  500.
- A selection that lists what to retry and selects it in a second transaction wants again what was deleted in
  between.
- While the worker drains it sends no heartbeats: the status page calls it gone after 90 seconds of up to 110.

## What is not modelled

Pure input and output: what Sources answer, yt-dlp does inside and parsers read are choices of the models; the web
interface, the command line's texts, logging, headers, paging and search are left out. Within modelled components:
progress and log lines, LISTEN/NOTIFY wake-ups of the worker (they change no decision), retention periods,
live-stream delays, titles, playback counts, queue backlog and version components of the status, `refresh_runs`,
the hash's cancellation, the database a migration writes, a purge of a whole Mirror. A User who saves settings
between a look of `move_user_settings` and its write loses them: Registry leaves that interleaving out. Users
who share a Scratch directory between workers are outside Startup's assumptions. `PROJECT.json` says of each
component what of it is modelled.

## The plan

Done: the modules above, their runs, and the theorems listed. Every safety property of a passing run is a
theorem, for the worker's and the archive's under the condition that the theorem names.
