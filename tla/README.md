# MaDao: specifications, model checks and proofs

MaDao buys short-lived phone numbers ("activations") from SMS providers, waits
for the code that arrives on them, and releases, retries or reuses them. The
Rust core (`src/crates/sms-core`) is one object, `SmsService`, shared by HTTP
and socket requests, by two background loops and by the desktop application; a
small SQLite file (`runtime.db`) survives restarts and may be opened by several
processes; a Cloudflare worker collects ticket statistics.

What makes it hard is the same everywhere: a handler reads something under a
lock, gives the lock up, awaits a provider for up to 30 seconds, takes another
lock and writes what it decided from the old reading, and then writes a copy to
the database under no lock at all. The specifications follow those steps one by
one and let everything else happen between them.

* [1. The system](#1-the-system): components, state, operations, what is hard
* [2. The modules](#2-the-modules): which module models what, and how
* [3. The runs](#3-the-runs): what is checked, known deviations, bounds, fairness
* [4. The proofs](#4-the-proofs): theorems, inductive invariants, assumptions
* [5. What is not modelled](#5-what-is-not-modelled)
* [6. Plan](#6-plan)

To check a run: `tlc -config TicketLifecycle_serial.cfg MCTicketLifecycle`.
To check the proofs of a module: `tlapm TicketLifecycleProofs.tla`.
`PROJECT.json` maps every definition to the lines it models and lists, for every
property, a defective variant of a definition under which TLC finds the property
violated (the definitions marked *Defect* in the modules).

## 1. The system

### Components

| component | state it keeps | operations | modelled in |
|---|---|---|---|
| ticket life cycle (`service.rs` 1186–1318, 2059–2407, 4253–4286) | `SmsService.tickets`, rows of `tickets` | `poll_code`, `release_code`, same-activation retry | `TicketLifecycle` |
| auto-release loop (`service.rs` 3216–3475) | the claims of a pass, `pending_release_action`, attempt and window times of a ticket | `maybe_process_pending_releases` | `TicketLifecycle` |
| release-owner lease (`runtime_store.rs` 366–450) | the single row of `release_owner` | acquire, release | `ReleaseOwner` |
| acquiring and routing plans (`service.rs` 1529–2057, 2409–2640, 4540–4716) | `routing_plans`; round, index and recorded order of a ticket | `acquire_code` with and without a plan, `failover_routing_attempt`, `replace_routing_attempt`, save and delete | `RoutingOrder`, `RoutingPlan` |
| reuse pool (`service.rs` 1030–1165, 4287–4330) | `reuse_pool`, rows of `reuse_pool` | `prepare_reuse_request`, `consume_exact_reuse_candidate`, `record_exact_reuse_candidate`, `clear_provider_reuse_pool` | `ReusePool` |
| ticket callbacks (`service.rs` 3050–3215) | `callback_subscriptions` (memory only) | `register_ticket_callback`, `maybe_dispatch_ticket_callbacks` | `Callbacks` |
| ticket statistics (`service.rs` 743–783, 4093–4205) | `ticket_stats_events`, `stats_sync_status`, their rows | `append_ticket_stats_event_to_uow`, `sync_ticket_stats` | `StatsSync`, `Outbox` |
| runtime store (`runtime_store.rs`; `service.rs` 447–742, 1386–1455) | the tables of `runtime.db`, the ticket buffer and the log ring in memory | opening and migration, loading, replacing all tables, units of work | `RuntimeTables` |
| settings and plan documents (`runtime_config.rs`, `service.rs` 3744–3886) | `runtime-settings.json`, `routing-plans.json` and their copies in memory | update, regenerate the secret, save and delete a plan, repair at start | `HostConfig` |
| daemon and desktop hosts (`apps/daemon`, `src-tauri`) | `desktop-runtime-owner.lock` | start, take the lock, serve, end; the 5 s release loop and the 60 s loop | `HostConfig`; the loops as fairness and as actions of the other modules |
| HTTP and socket server (`sms-server`) | sessions of a listener | log in, log out, let in | `HostConfig` |
| provider manifests (`registry.rs`, `service.rs` 4452–4500) | manifest files, the registry | save with rollback, reorder, reload, automatic disabling | `ProviderAdmin` |
| option and balance caches (`service.rs` 3530–3640, 4360–4450) | `provider_option_cache` and its file | refresh by clients and by the loop, operators of a country | `ProviderAdmin`, `ProviderNames` |
| canonical names (`options.rs`, `service.rs` 4717–4900) | none of their own | naming of services, countries, operators; back to the provider's words | `OptionNames`, `ProviderNames` |
| provider adapters (`provider.rs`) | none of their own | acquire, poll, release, list at the provider | their answers, in `TicketLifecycle`, `ReusePool` and `ProviderNames` |
| stats worker (`cloudflare/stats-worker`) | event rows, snapshots, edge cache | upload, summary, dashboard, cron, cleanup | `StatsWorker`; its upload also in `StatsSync` |
| desktop UI, plugin SDK | | | not modelled: section 5 |

### How they interact

* Every request and both loops run as tasks over the same `SmsService`. They
  communicate through the maps behind its locks and through nothing else; no
  lock is held across an `await`.
* A handler that changes tickets collects a *unit of work* (ticket copies, stats
  events, a pending count, a reuse bucket) and commits it at its end in one
  transaction. Errors of that commit are logged and dropped. The unit of a provider
  that failed, of a routing item with further ones to try, is not committed at all:
  `last_error` holds it until the next provider fails or succeeds
  (`service.rs` 1960-1964, 2044).
* The auto-release loop selects its work from the *database* and then works on
  the tickets in *memory*. The 60 s loop polls, so it changes tickets as a client
  does.
* Acquiring goes through retry (an open ticket of the same provider, service and
  country), then the reuse pool, then a fresh number. A routing plan repeats that
  for each of its candidates.
* Processes that share a configuration directory meet in three places: the
  owner lock decides who serves and runs the loops, `runtime.db` is opened and
  normalised by whoever starts (also by a desktop that then finds itself a mere
  client), and the `release_owner` row keeps passes apart.
* Configuration is a set of whole documents. A change copies one from memory,
  writes its file (truncate, then write), and puts it back; manifests are written
  file by file under the registry's lock and then all loaded again.
* What a client names is translated with a copy of the cached options that is
  taken before the provider is awaited, and the answer is named with the same copy.
* The stats worker never talks back: what it stores shows in snapshots that a
  cron job recomputes, behind an edge cache.

### What is hard, and what makes each component correct

| component | hard to test | what must hold |
|---|---|---|
| tickets, release loop | a poll's answer overwrites a release; a pass works with the claims and the clock of its start; a ticket released by a client while the loop releases it; lost answers; restart inside a pass | a ticket shown as closed is closed upstream; cancels wait for the cooldown; the window is never stretched; a pending cancel is resolved; the database follows memory, but for refusals of retries |
| lease | 15 s lease, 30 s provider timeout, no renewal; clock read before the lease is asked for | one covered pass at a time; a late pass never deletes another's row |
| routing | plans edited between acquire and failover; random plans are rotated, not shuffled; the retry may return the very ticket that failed | each candidate once a round in order; failover goes on where the ticket stood; replace never releases the ticket it returns; requests end |
| reuse pool | a candidate stays in the pool while the provider is awaited; the count lives in the ticket and in the entry; process dies between memory and database; the unit of a failed provider is dropped | a number waits once; a restart offers the same numbers; `reuse_max` is respected |
| callbacks | registration during a delivery; ticket dropped from the buffer during one; the answer of an endpoint lost | delivered once; only delivered ones are removed; none is owed for ever |
| runtime store | a process ends between two statements of a migration; units of work commit in another order than they changed memory, or not at all; a client-only desktop replaces the tables of the owner | a database of any version opens; a shown ticket survives a restart; rows leave only when dropped |
| hosts and documents | daemon takes the lock first, desktop last; both write while they start; a file is found truncated; two saves cross | one owner; files agree with memory; the instance id is kept; a replaced secret opens nothing |
| manifests, options | a manifest saved while it is about to be disabled or while its options are asked for; a write that fails among several | registry is what the files are; a newer change is not undone; options catch up; a drained provider is disabled |
| names | options refreshed or reloaded while a request waits; naming what was named already; a name that is the word of another | what is listed is what is asked for; answers bear the names asked by; loading changes no name |
| stats worker | a refresh saved after a later one; an old answer cached after a refresh; cleanup next to a snapshot | a snapshot misses nothing; filtering it equals querying; uploads become visible |
| statistics | events appended during an upload; two uploads at a time; death between the two marks | what is marked was stored; the event table is an at-least-once outbox; waiting events arrive |

`PROJECT.json` lists 40 hazards, each at the line where it bites and with the
properties that cover it. The one without a property says why, and so do those
whose property holds under a restriction.

## 2. The modules

Every component module declares its parameters as CONSTANTS with named
assumptions, has one action per step of a handler, and gives `Spec` (safety) and,
where liveness is checked, `FairSpec`. Modules that are proved about together must
not share names, so that `ReleaseOwner`, `StatsWorker`, `ReusePool` and `ProviderNames`
prefix theirs (`LeaseSpec`, `WorkerSpec` and `FairWorkerSpec`, `PoolSpec`, `NamesSpec`). `MC*` modules only
give values to constants. `*Proofs` modules extend the modules they prove about:

| proofs | about |
|---|---|
| `TicketLifecycleProofs` | `TicketLifecycle` |
| `RuntimeDbProofs` | `RuntimeTables`, `ReleaseOwner` |
| `RoutingPlanProofs` | `RoutingOrder`, `RoutingPlan` |
| `ReuseCallbackProofs` | `ReusePool`, `Callbacks` |
| `StatsProofs` | `StatsSync` and its refinement of `Outbox`, `StatsWorker` |
| `HostConfigProofs` | `HostConfig` |
| `ProviderProofs` | `ProviderAdmin`; `OptionNames`, `ProviderNames` |
| `SelectionProofs` | `Selections`: the lists the others filter and sort |

`Selections` has three operators that routing, the reuse pool, the tables, the provider
list and the names use: `Filtered`, the members of a sequence that are in a set, in their
order (`retain` and `filter` of the code), `FirstIn`, the first of them (`find`), and
`Ascending`, a set of numbers in order (`sort`). They take sets, not predicates, so that
facts about them can be stated and proved once.

### ReleaseOwner

`row` is the table row, `pass[h]` what process `h` does. A pass reads the clock
and draws a fresh owner id (`BeginPass`), asks for the lease by *that* reading
(`Ask`), works for as long as it takes, and deletes the row if it is still its
own (`Release`). `Crash` leaves the row. An id is never drawn twice (the code
uses UUIDs; the model counts).

### TicketLifecycle

`mem` and `disk` hold the two copies of a ticket, `upstream` the activation at the
provider. A request or the loop is a process with `call[a]`: `sent` (with the
ticket as it was read), `answered`, `commit`. One clock tick is 5 s, the retry
interval of the loop.

| code | action |
|---|---|
| `poll_code`, `release_code`, `try_same_activation_retry_candidate` up to the provider call | `Begin` |
| what `poll_code` does with the answer | `FinishPoll` |
| `release_code_runtime_effect` after the answer: done, `EARLY_CANCEL_DENIED`, error | `FinishClientRelease`, `FinishRelease` |
| `reacquire`: retried, or the offer withdrawn; then committed, or dropped with the unit of a failed provider | `FinishReacquire` |
| `commit_runtime_uow` | `Commit` (may fail: `DiskFails`) |
| start and end of a pass, with the lease row | `BeginPass`, `EndPass` |
| one claim: probe, reconcile, expiry, limit, release, failure branch; or skipped, its provider not being in the registry | `NextClaim`, `WorkerProbed`, `WorkerDecide`, `WorkerReleased`; `SkipClaim` |
| provider: any admissible answer, an answer lost before or after it took effect | `UpstreamAnswer`, `UpstreamMoves` |
| process death and `load_state` | `Restart` |

The record operators (`Polled`, `Released`, `Deferred`, `Expired`,
`LimitReached`, `RetryLater`, `Reconciled`, `Reacquired`) are the assignments the
handlers make under the lock. Tickets are acquired at time 0; the acquisition
of a fresh one is the initial state here and an action of `RoutingPlan` and
`ReusePool`. The provider may answer everything a real one may answer in a given
state, and a closed activation never opens again.

### RoutingOrder and RoutingPlan

`RoutingOrder` has the pure functions: `ItemsForRound` (in order, or sorted by id
and rotated by the round), `AttemptsForRound`, `OrderForTicket` (the recorded
order first, new items behind it, then one round more), `Remaining` (what
failover may still try). `RoutingPlan` walks them, and, for a request without a
plan, the providers alone (`BeginDirect`: the provider and country of an item
stand for those of the request; its ticket records no routing, cannot be failed
over, and may be retried by a request with a plan): `walk[r]` is a request in
flight with the attempts it has tried and has left. `AskRetry`, `RetryTaken`,
`RetryRefused` are the same-activation retry in front of every attempt;
`AskAcquire`, `Acquired`, `NotAcquired` a provider call (which may disable a
provider without balance, if the request has a plan); `BeginRound` and `GiveUp` the end of a round;
`ReleaseAnswered` and `ReleaseRefused` the second half of a replace. Meanwhile
tickets close, retry offers end (`Close`, `RetryExpires`), and the plan is saved
or deleted (`Edit`). `BeginFailover` lets the client name any item as the failed
one, as the API does.

Abstractions: the retry picks the ticket updated last, which any poll may have
made the latest, so any candidate may be picked. Item ids are distinct in a plan;
the save does not check it, and a generated id `<plan>-item-<n>` may collide with
one the client chose. The reuse pool that the same handlers read is in
`ReusePool`. Providers are disabled and not enabled again.

### ReusePool

The pool of one provider, service and country, and the tickets that feed it, in
memory and in `runtime.db` (`mem`, `disk`). An operation changes memory
(`RetryTaken`, `RetryRefused`, `Peek`, `NumberAcquired`, `NotAcquired`, `Finish`, `Cancel`,
`Clear`) and then writes its unit of work (`Commit`); a restart (`ProcessRestart`) may come
between the two. When a provider of a routing item fails and the item has another, the
unit with the cleaned pool and a refused retry is never written (`UnitDropped`).
`Peek` cleans the pool and takes its first entry as the candidate
*without* reserving it; `NumberAcquired` consumes it by number. `uses` counts how often
the pool has served a number, for the property only. A number that the provider
sold is sold again only through the pool.

### Callbacks

`order` is the ticket buffer, in the order of the last update; `subs` the callbacks
of each ticket; `loop` the delivery pass: it takes the tickets with callbacks,
polls those without a code (`PollAnswered`, then `ReadAgain`), takes the callbacks
(`TakeCallbacks`), posts (`Posted`, `PostFailed`), and removes the delivered ones
(`RemoveDelivered`). Around it tickets are acquired - a full buffer drops the one
updated longest ago together with its callbacks -, polled, released, retried, and
registration checks the ticket and adds the callback under two locks (`Check`,
`Register`). A poll may bring a code together with any status, a closed one included.
Statuses are reduced to open, pending, closed and dropped. The
order in which a pass visits tickets and callbacks is left open.

### StatsSync and Outbox

`StatsSync` follows an event (`AppendEvent`) through `Push` (memory), `Count` (the counter,
behind another lock) and `Commit` (its row), and an upload through `Begin`, `Accept` or
`Fail`, `Mark` (memory), `CountRemaining`, `StorePending`, `Persist` (database).
`Outbox` is the abstract specification: events are enqueued once, delivered at
least once, and acknowledged only when delivered. `ImplementsOutbox` is the
refinement: queued, acknowledged and delivered events are the unsynced rows, the
synced rows and what the worker has stored. The worker's `INSERT OR REPLACE` makes
a second delivery harmless, so `received` is a set.

### StatsWorker

The worker that receives the uploads (`UploadEvents`). `rows` are the stored events,
`uploaded` all ever uploaded, `snapshot` what the dashboard and each summary were last
computed to be, with the events it was computed from (`basis`, for the
properties). A refresh - the hourly cron or an administrator's - goes through
its list (`BeginRefresh`, then `Compute` and `Save` of each snapshot, `Purge` of the cached
dashboard) and may fail at any query (`FailRefresh`); two may overlap. `Cleanup` deletes
outdated rows in batches. The edge cache is filled in two steps (`Serve` reads, `Put`
stores) and empties by itself (`Expire`, or a `Tick` of hours). `Summary` is the
SQL of the realtime summary, `LocalFilter` what the service's client makes of a
snapshot. Averages, order and lists of the pages are left out.

### HostConfig

Daemon and desktop on one configuration directory. A start is `Begin` (the daemon
takes the lock, or gives up), `ReadPort`, `Load` (both documents are repaired and
made canonical in memory), a write of each changed document
(`OpenAtStart` truncates, `WriteAtStart` writes, `FailAtStart`), `Serve` (the desktop
takes the lock, or becomes a client); `Stop` at any moment frees the lock. The
owner's clients log in and out, and change a document: `Copy` under the read lock,
`Open` and `Write` the file under none, `Publish` under the write lock, or `Fail`.
Of the settings the secret, the instance id and the port are kept, of a plan
whether its names are canonical. Four variables are history, for the properties:
`void` (secrets and sessions given up), `identities`, `disturbed` (changes
overlapped, or one broke off) and `torn` (a start found no instance id where one was
in use). The access log is left out.

### ProviderAdmin

`file` and `registry` are the manifests on disk and in memory, `options` and
`optionsFile` the cached options, `job` what a client or the background loop has
still to do. `Save` writes, reloads everything and puts the file back
if any manifest cannot be read; `WriteFails`, `Reorder`, `Reload`; `EditFile` is a hand on
the directory. A refresh is `Discover` (copy of the manifest), then `Refuse` or
`EnterOptions`, `SaveCache`. The loop's round is `Poll`, the refreshes, `Balances`,
and for each enabled provider `BalanceKnown` or `LowBalance`, which reads the
manifest and saves it disabled in a later step (`Disable`); a client's acquisition
does the same. A manifest is its revision and whether it is enabled.
The model assumes `option_cache_enabled`, and leaves out the raw audit copy of the
catalogue and a failing write of the option cache (it is only logged).

### RuntimeTables

What is committed to `runtime.db` (`file`: the tickets with their columns, the table a
migration renamed, the log, the version) and what the owner has in memory. A first start
finds one of `Databases`, each a `Whole` file of some version. Opening is
one action per statement - `CreateTables`, `ReadVersion`, `RenameTable`, `NewTable`,
`CopyRows`, `DropTable`, `StampVersion` - then `Load` (the state is
normalised, and all tables are replaced when that changed a ticket: `Replace`). A
statement that fails leaves the process without a database; so does a row of the first
version that is no ticket (`CopyFails`), now and at every later start. A second process,
the desktop that becomes a client, goes through the same steps. Units of work
change memory (`Acquire` with the ticket that the full buffer drops, `Touch` for
a poll, release or retry, `ClearLogs`), stamp a log entry (`StampEntry`) and push
it into the ring (`PushEntry`), and write everything in one transaction at their end
(`Commit`, `CommitFails`), or are given up without it (`GiveUp`: the unit of a provider
that failed, of a routing item with another one to try; it has acquired and
cleared nothing). `cut`, `crossed`, `failed` and `dropped` are history: a migration was
broken off, units overlapped, a write failed, the times of what the units given up had changed.
Activities are kept like the log.

### OptionNames and ProviderNames

`OptionNames` has the pure functions of `options.rs`: the canonical name of a
service (`ServiceName`: alias, pattern, label), of a country (`CountryName`) and of an
operator, the named lists (`NamedServices` and so on: every item named, the first of each
name kept, sorted by name: `Deduped`), and the way back to the provider's
word (`ServiceSent`, `CountryOption`, `OperatorSent`). Words are compared as the code
compares them, normalised, so that a model value stands for all its
spellings. `ProviderNames` uses them: `Refresh`, `Put`, `SaveEntry` of the options;
`ListOperators`, `PutOperators`, `Expire`; `Ask` takes a copy of the options and sends
what it translates - an acquisition makes service and country canonical first and leaves
a missing service to the adapter and its default, a price query takes the names as they are
(`Translated`, `PriceAsked`) -, `Acquired`, `Priced` and `Refused` use that copy for the answer;
`Relist` changes what the provider lists; `RestartNamed` reads the option cache file
(`saved`) and names what was named already. What the adapters list is `Given`: a value,
a label, a hint, and the value again as the provider's word (`provider.rs` 778, 822,
1421, 1501, 1810), or no such word at all. Chinese labels, icons and the raw lists that
nothing asks for again are left out; a refresh reads one catalogue at a time; a provider
sells what it lists, or the manifest's defaults if it lists nothing (`OfferedServices`,
`OfferedCountries`); the adapters do not send the operator of an acquisition, and the
model compares service and country only.

The last part of `ProviderNames` says when naming is stable and when names are told
apart. `LabelsTell` is a condition on the tables and on what is listed: a canonical name, and the
label it is shown with, lead back to that name and to no other. The code does not
enforce it (its audits, `options.rs` 1341-1504, report names that go astray), so it is a
hypothesis of theorems and not of the specification; the shipped tables meet it (section 4), and so
does the instance. A name is *clear* (`ClearServices`, `ClearCountries`) if, of all that
the provider ever lists, its word and its aliases belong to it alone (`TellsService`, `TellsCountry`).
This is no hypothesis but a guard, name by name: a name that is not clear makes
nothing less certain about the others.

## 3. The runs

| run | instance | distinct states | properties |
|---|---|---|---|
| `release_owner` | 3 hosts, lease 3, clock to 7, 4 passes | 26,042 | `LeaseExclusion`, `CoverNeverStolen` |
| `tickets_concurrent` | 1 ticket, 2 overlapping clients and the loop, poll, reacquire, cancel and finish, 2 requests, failing writes, 1 restart, cooldown 2, clock to 6 | 2,004,872 | `TypeOK`, `TerminalIsClosed`, `AutoCancelWaitsForCooldown`, `ScheduleWellFormed` |
| `tickets_serial` | 1 ticket, one request or pass at a time, all release actions, 2 requests, 1 restart, cooldown 1, clock to 5 | 170,757 | `PendingIsScheduled`, `QuiescentDiskAgrees`, `CancelPendingResolves` |
| `stats_overlap` | 2 events, 2 syncers, failing writes, 1 restart | 239,015 | `DiskSyncedWasReceived`, `ImplementsOutbox`, `WaitingEventsArrive` |
| `routing_walk` | 3 items, 2 providers, 3 plans or none, 2 tickets, 1 edit, 2 rounds | 49,336 | `AcquireWalksThePlan`, `FailoverKeepsToTheOrder`, `ReplaceReleasesAnother`, `RequestsEnd` |
| `reuse_serial` | 2 numbers, 5 tickets, `reuse_max` 3, one request at a time, clock to 2, 1 restart | 1,771,442 | `PooledOnce`, `IdleDiskAgrees`, `ReusedWithinMax` |
| `callbacks` | 3 tickets in a buffer of 2, 2 callbacks, any number of restarts | 213,824 | `DeliveredOnce`, `LeavesOnlyDelivered`, `CodesArrive` |
| `stats_worker` | 2 events, 1 lookback of 1, retention 1, dashboard of 1, batches of 1, clock to 2 | 133,112 | `SnapshotsMissNothing`, `LocalFilterAgrees`, `UploadsBecomeVisible` |
| `hosts` | daemon with a secret of the environment, desktop, 2 clients (one by socket), 1 listener, 1 plan, 4 fresh ids, 2 starts | 2,539,740 | `OneOwner`, `FilesAgreeAtRest`, `IdentityKept`, `GivenUpStaysOut` |
| `providers` | 2 providers, one without balance, 1 client and the loop, 2 edits | 614,923 | `RegistryMatchesFiles`, `ChangesStand`, `OptionsCatchUp`, `DrainedIsDisabled` |
| `tables` | owner and guest, 3 starts in all, 4 databases, 2 workers, buffers of 1, clock to 4 | 2,546,133 | `OpensUnlessCut`, `MemoryIsOnDisk`, `SerialRestartLosesOnlyDropped`, `RowsLeaveOnlyDropped` |
| `names` | 2 clients, 2 catalogues, 3 requests, 1 ticket | 513,880 | `SentAsListed`, `AnswersBearTheNames`, `LoadingChangesNoName` |

Every module also has a type invariant, which `tickets_concurrent` alone has among its
properties. For the others it is a theorem (section 4).

### What the passing runs show

* **release_owner** - no two passes are inside the time their lease covers,
  whichever crashed, overran or acted on an old clock reading; and the end of an
  overrun pass leaves a covered pass's row alone. A pass that has outlived its
  lease may overlap with the next: that is the code's design (no renewal), and
  `Covered` says exactly what it guarantees.
* **tickets_concurrent** - with every interleaving of two requests, the loop, lost
  answers, failing writes and a restart: no copy of a ticket says finished or
  cancelled while the activation is open; the loop never sends a cancel before the
  cooldown; all copies of a schedule - in memory, in the database, on their way,
  read and not yet used - keep action, times and window together, so that
  no order of denials stretches the retry window.
* **tickets_serial** - when requests and passes do not overlap (`Overlap =
  FALSE`), a pending cancel always names its action and its next attempt, the
  database holds every ticket as memory does whenever nothing is under way - except
  that it may still offer a retry that was refused -, and every pending cancel
  comes to an end, also after a restart with an orphaned lease row. The first two
  deviations below show that the first and the last need the restriction.
* **stats_overlap** - a synced row was stored at the worker; the table is an
  outbox; an event that waits, unsynced in both copies, while no upload is under
  way arrives.
* **routing_walk** - the acquire's attempts are compared with an independent
  definition (`KthItem`, by ranks), failover with `Before` (by places): each
  candidate once, in order, with the right round and index, whatever is saved
  meanwhile; a replace releases its ticket only for another one; requests, those
  without a plan included, end unless the plan has no limit of rounds.
* **reuse_serial** - one request at a time and a restart between any two steps: a
  number waits at most once and not while a ticket of it is open; when idle, a restart
  would offer the same numbers and load the same tickets, but for the offer of a refused
  retry; and nobody gets a number more often than `reuse_max`. What a dropped unit leaves in the
  database are entries past their time or count, which are cleaned again by the
  next request.
* **callbacks** - at-most-once after an acknowledged delivery, nothing but
  delivery, dropping or a restart takes a callback away, and a callback whose
  ticket has a code is delivered in the end.

* **stats_worker** - with overlapping refreshes, failing queries, cleanup and cached
  pages: a snapshot is what *all* events ever received give for its window, so
  that the cleanup never shows; the client's filter over a snapshot answers what a query
  would have; and an uploaded event shows in the end and stays until it is too
  old, although an older snapshot may be saved over a newer one for a while.
* **hosts** - in any order of starts, failures and ends of both processes, only the
  holder of the lock serves; when nothing overlapped or broke off, the files hold
  what the clients were answered and nothing given up opens a door again; the
  instance id changes only when a start finds the file without one.
* **providers** - whatever save failed and was rolled back, the registry is what
  the files say (hand-edited or torn ones aside); a newer manifest is not undone,
  except by a disabling that read the manifest before it; options follow
  the manifest in force and a provider without balance ends up disabled.
* **tables** - a database of any version is opened by both processes unless a
  migration is broken off or met by another start; with crossing units of work and
  full buffers, every ticket the service shows would survive a restart; without
  crossing, a restart brings back the very same tickets and log, but for the tickets and
  entries that a unit given up had changed or made; a row leaves
  only because it was dropped or because a process replaced the tables.
* **names** - what is listed is what is asked for, in acquisitions and in price
  queries; tickets and prices bear the names they were asked for by, whatever
  the provider renames and whenever the cache is refreshed, for every clear name, in one
  instance with one that is not; a restart changes no
  name, label or word. This run also checks for deadlock.

### Known deviations

Eleven configurations beside the runs check what a sentence of the repository says,
or what the rest of the code relies on, and the code does not keep. TLC finds each violated; run them
by hand.

| configuration | module | property | what happens |
|---|---|---|---|
| `TicketLifecycle_latepoll.cfg` | `MCTicketLifecycle` | `ScheduleStaysClaimable` | a poll answered while a cancel is scheduled sets the status back to waiting and leaves the schedule; the claim query selects `cancel_pending` only, so the promised cancel is not carried out |
| `TicketLifecycle_stuck.cfg` | `MCTicketLifecycle` | `CancelPendingResolves` | a client's release that completes while the loop releases the same ticket clears the schedule; the loop's failure branch then sets `cancel_pending` with no action, and no pass selects the ticket again |
| `StatsSync_missed.cfg` | `MCStatsSync` | `RecordedEventsArrive` | an event appended while an upload is awaited is marked synced in memory with the uploaded ones and stays behind until a restart |
| `RoutingPlan_moveson.cfg` | `MCRoutingPlan` | `FailoverMovesOn` | failover retries open tickets of the candidate's provider and country first, and so may return the ticket it was asked to leave (`docs/routing-plans.md:104`) |
| `ReusePool_race.cfg` | `MCReusePool` | `ReusedWithinMax` | two acquires take the same candidate one after the other, and the number is reused more often than `reuse_max` |
| `HostConfig_secret.cfg` | `HostConfig` | `OldSecretStaysOut` | two overlapping changes of the settings bring the replaced secret back (`docs/daemon-api.md:32`) |
| `ProviderNames_restart.cfg` | `MCProviderNames` | `LoadedSentAsListed` | options read from the file take the canonical name of a service for the provider's word; a service without an alias is then sent by its canonical name until the next refresh (`docs/api-integration.md:54`) |
| `ProviderNames_unclear.cfg` | `MCProviderNames` | `AnySentAsListed` | a service is listed under its canonical name, which is the provider's word for another service: the word wins, and the other one is asked for (`service.rs` 4729; so do BP and GoFundMe in `config/provider-options-raw.json`, where "bp" is GoFundMe's word, and AOL and Paysera) |
| `TicketLifecycle_dropped.cfg` | `MCTicketLifecycle` | `NothingIsForgotten` | a retry is refused, its routing item goes on to another provider, and the unit with the ticket is displaced in `last_error` (`service.rs` 1960-1964, 2044): after a restart the retry is offered again |
| `ReusePool_dropped.cfg` | `MCReusePool` | `IdleDiskIsMemory` | the same unit holds the cleaned bucket: the database keeps the entries that were cleaned in memory |
| `RuntimeTables_dropped.cfg` | `MCRuntimeTables` | `SerialRestartLosesNothing` | the same unit holds log entries that memory shows: they are gone after a restart |

Others show in the guards and exceptions of the properties: a migration of
`runtime.db` that is broken off leaves a renamed table, which no later start can
migrate, and the service then works without a database (`cut` in
`OpensUnlessCut`); a desktop that turns out to be a client may replace all tables of the
running owner by what it had loaded (`service.rs` 459, `RowsLeaveOnlyDropped`); a
failed refresh keeps the cached options (`docs/daemon-api.md:224` says they are
not kept; `Refuse`); prices of a country that the cached options do not list bear the
provider's word for it (`listed` in `AnswersBearTheNames`).

### Bounds, and why they are enough

* *Time* (`MaxTime`) ends the clock, and stands for every later moment: a time
  computed beyond it is cut to it (`Later`), so what is due later than the end is
  due at the end. `TimeAssumption` makes the clock reach past cooldown and retry
  window, so that early, due, expired and exhausted claims all occur.
* *Requests* (`MaxRequests` = 2 with 2 clients and the loop) - each hazard
  listed for tickets is a race of at most two requests with the loop, and the
  counterexamples need no more. One ticket is enough there: handlers touch one ticket, and
  the order of several claims in a pass matters to none of the properties.
* *Restarts* - one, at any moment. A second one starts from a state that the first
  one can reach. Callbacks need no bound.
* *Lease* - 3 hosts, so that one can overrun, one hold and one ask.
* *Routing* - 3 items with one for any provider, in-order, random and unlimited
  plans, one edit that removes, adds and reorders, 2 rounds: the smallest instance
  in which index offset, rotation, recorded order and next round all differ.
  `Room` keeps a place in `MaxTickets` for the request under way.
* *Reuse* - 5 tickets on 2 numbers with `reuse_max` 3, because an exact reuse
  counts twice (ticket and entry): with less the maximum is never met.
* *Statistics* - 2 events and 2 syncers: one event in the batch, one appended
  meanwhile, two uploads that overlap.
* *Stats worker* - 2 events of different times and one time unit for lookback,
  retention and dashboard: the boundary is where they differ, and with batches of one row
  a cleanup may stop half-way.
* *Hosts* - `MaxFresh` 4 leaves, after a secret and an id of a new
  installation, room for a regenerated secret and a session or two sessions; 2 starts
  overlap or follow one another.
* *Providers* - 2 edits: one that another operation crosses, and one more file that
  is broken meanwhile. A restart counts as an edit.
* *Tables* - buffers of one ticket and one entry, so that everything overflows;
  2 workers cross; 3 starts of either process: one that breaks off, one that finds what
  it left, and one of the other process meanwhile.
* *Names* - 2 catalogues. In one a service is listed under its alias, one under a name that is the
  word of another, and countries by number; the other lists no service, so that the default is
  sold, and a country whose label is no alias. The three requests name a clear service, an
  unclear one, and nothing at all.

`CHECK_DEADLOCK FALSE` is set in all configurations but those of `ProviderNames`: a
system in which the clock or a counter has reached its bound and no client asks for
anything stops. Where there is no such bound, deadlock is checked.

Symmetry is used on hosts, clients, workers and numbers, and only in runs without
liveness properties (`CoverNeverStolen`, `RowsLeaveOnlyDropped` and the like are
safety formulas).

### Fairness, and why the code justifies it

| assumption | justification |
|---|---|
| weak fairness of the release loop, of `Tick` | `main.rs` 102–107: a task that loops for ever with a 5 s sleep |
| weak fairness of provider answers | every provider client has a 30 s timeout (`provider.rs` 303, 674, 1346), and a timeout is one of the answers |
| strong fairness of `NextClaim`, for each ticket | an assumption: a pass that finds the provider of a ticket missing from the registry skips its claim, and it is not missing at every pass |
| weak fairness of what follows an answer, and of commits | no lock is held across an await, nothing blocks those steps |
| weak fairness of a routing request's steps | as for provider answers |
| weak fairness of the callback pass, of uploads | the 60 s loop (`main.rs` 90–99); callbacks and uploads share a client with a 10 s timeout (`service.rs` 490–494) |
| strong fairness of `Accept` and of `Posted` | an assumption about the world: an upload, or a post, that is tried again and again gets through in the end |
| weak fairness of the cron's `BeginRefresh`, strong fairness of its `Compute` and `Save` | the hourly trigger of the worker; its queries do not fail for ever, an assumption about the world |
| weak fairness of `Expire` | an entry of the edge cache lives for five minutes |
| weak fairness of `LoopStep` and of `Age` (`ProviderAdmin`) | the 60 s loop; entries have a time to live |
| strong fairness of `EnterOptions` by the loop | an assumption: no provider refuses to list its options for ever |

No fairness is assumed of clients, of arriving messages, of restarts or of edits.

## 4. The proofs

All theorems hold for every value of the constants that satisfies the named
assumptions: any number of tickets, clients, hosts, events, plans, restarts. All
28 invariants of the runs are theorems, and so are all five action properties and
refinements.

| theorem | states |
|---|---|
| `RuntimeDbProofs!Exclusion`, `NeverStolen` | `LeaseExclusion`, `CoverNeverStolen` |
| `RuntimeDbProofs!OpeningsSucceed`, `MemoryOutlives` | `OpensUnlessCut`, `MemoryIsOnDisk` |
| `RuntimeDbProofs!RestartsLoseOnlyDropped`, `RowsStay` | `SerialRestartLosesOnlyDropped`, `RowsLeaveOnlyDropped` |
| `TicketLifecycleProofs!TerminalTicketsAreClosed` | `TerminalIsClosed` |
| `TicketLifecycleProofs!SchedulesStayWellFormed` | `ScheduleWellFormed` |
| `TicketLifecycleProofs!CooldownIsRespected` | `AutoCancelWaitsForCooldown` |
| `TicketLifecycleProofs!PendingStaysScheduled` | `PendingIsScheduled`, for requests and passes one at a time and a disk that works |
| `TicketLifecycleProofs!RestartForgetsNoMoreThanARefusal` | `QuiescentDiskAgrees`, under the same conditions |
| `StatsProofs!SyncedRowsWereReceived` | `DiskSyncedWasReceived` |
| `StatsProofs!SyncImplementsOutbox` | `ImplementsOutbox`: the refinement |
| `StatsProofs!CleanupIsInvisible`, `FilteringIsQuerying` | `SnapshotsMissNothing`, `LocalFilterAgrees` |
| `RoutingPlanProofs!AcquireIsWalked`, `FailoverIsOrdered` | `AcquireWalksThePlan`, `FailoverKeepsToTheOrder` |
| `RoutingPlanProofs!ReplaceHoldsAnother` | `ReplaceReleasesAnother` |
| `ReuseCallbackProofs!NumbersWaitOnce`, `RestartOffersTheSame`, `ReuseStopsAtMax` | `PooledOnce`, `IdleDiskAgrees`, `ReusedWithinMax`, for one request at a time (`OneRequest`) |
| `ReuseCallbackProofs!CallbacksAreDeliveredOnce`, `CallbacksStay` | `DeliveredOnce`, `LeavesOnlyDelivered` |
| `HostConfigProofs!LockMeansOwner`, `NeverTwoOwners` | `OneOwner`; two processes never serve at a time |
| `HostConfigProofs!FilesFollowTheOwner` | `FilesAgreeAtRest` |
| `HostConfigProofs!GivenUpNeverReturns` | `GivenUpStaysOut` |
| `HostConfigProofs!IdentityStays` | `IdentityKept` |
| `ProviderProofs!RegistryAgreesWithFiles`, `NothingOldComesIntoForce` | `RegistryMatchesFiles`, `ChangesStand` |
| `ProviderProofs!NamesLastARestart` | `LoadingChangesNoName`, for tables with `LabelsTell`, as the shipped ones |
| `ProviderProofs!ListedIsSent`, `NamesComeBack` | `SentAsListed`, `AnswersBearTheNames`, for the same tables and clear names |
| `RuntimeDbProofs!LeaseTypesHold`, `TypesHold`; `TicketLifecycleProofs!TypesHold`; `StatsProofs!SyncTypesHold`, `WorkerTypesHold`; `RoutingPlanProofs!RoutingTypesHold`; `ReuseCallbackProofs!CallbackTypesHold`, `PoolTypesHold`; `HostConfigProofs!ConfigTypesHold`; `ProviderProofs!AdminTypesHold`, `NamesTypesHold` | the type invariant of each module |

Hardly any of those properties is inductive. What each needs in addition:

* **Lease.** `CoverHasRow` - the row *is* the lease of every covered pass - gives
  exclusion at once, since there is one row. It survives `Ask` because a pass's
  clock reading is not in the future (`ClockRead`), and `Release` because no two
  passes carry the same id (`OwnersFresh`).
* **Tickets.** `TerminalIsClosed` speaks of memory and database, but the fact
  comes from an answer: `AnswerInv` (what an answer says of the activation is
  still so when it is used, for closed activations stay closed) carries it to
  memory, `CommitInv` to the database, and `PhaseInv` says which call belongs to
  which phase of the loop. The cooldown follows from `ScheduleWellFormed` - no row
  has an attempt before the cooldown - through `ClaimInv`: the claims of a pass were due when
  it began, and the clock does not run back. One lemma per record operator (`PolledKeeps`,
  `DeferredKeeps`, ...) and one per action keep the main proof a case
  distinction. That nothing pending falls out of the schedule, or is forgotten
  by a restart, is false for concurrent requests (the known deviations above). For
  `Serial` ones it rests on one actor at work (`Alone`), a database
  that agrees with memory but for the commit under way (`Saved`), and claims that are still
  scheduled (`Live`).
* **Statistics.** An answered batch has been received (`AnsweredWasReceived`), a
  stored count has been taken (`CountsTaken`), and an event has no row before its
  commit (`NoRowYet`): this is why no commit puts an acknowledged event back. The
  refinement proof maps `Commit` to `Enqueue`, `Accept` and `Fail` to `Deliver`,
  `Persist` to `Acknowledge`, a step that leaves the rows alone to a stutter.
* **Routing.** The properties compare what was tried with definitions that know
  nothing of rounds under way: the k-th item by rank, and places in an order. The
  invariant (`RInv`) says how far a request is: what an acquire has seen are its
  rounds so far, the last one up to what is `left` (`AsPlanned`); what a failover has
  seen is what was left of the recorded order when it began, and rounds after
  it (`AsRecorded`); and a ticket records the round it was acquired in
  (`TicketsRouted`). `FirstRound`, `FollowingRound` and `RemainingKeepsToTheOrder` are
  about `RoutingOrder` alone: a rotation by whole rounds visits each item once, and
  what is left of an order after an item keeps its places. A ticket that is retried exists
  (`CandidatesExist`) and `Got` is the only way to `release`, which is what
  `ReplaceReleasesAnother` needs.
* **Lists** (`SelectionProofs`). `Filtered` and `Ascending` are defined by recursive
  functions and sorted sets, so that each fact needs induction. Since an
  induction rule cannot be given a predicate here, `Induction` and
  `SequenceInduction` are stated for *sets* of numbers and of sequences and proved by the
  least counterexample. From them: the members of a filtered list, that they keep
  their places, filtering piecewise, and what sorting yields.
* **Reuse pool.** `PoolInv` has two parts. `Sound`: a number waits once, and never while
  a ticket of it is open; two open tickets have two numbers; what is in the pool was
  sold; the count of an entry, or of the ticket that will return it, bounds
  the uses so far. `Fits`: where the one request under way stands - it is about to write what
  memory has and the database lacks, but for what is past use (`WritesTheRest`), its candidate is still the first usable one, the number it
  serves is open. The second part is false as soon as two requests overlap, and so
  is `ReusedWithinMax` (`ReusePool_race.cfg`): hence `OneRequest`, a hypothesis of the theorems
  which the run's instance satisfies by having one request. `Behind` is for the unit that may be dropped: as
  long as a bucket is not written, the one in the database offers what memory offers and is as
  sound, since cleaning removes nothing usable.
* **Callbacks.** A callback is followed from registration, before which nothing
  knows it (`Unknown`), through the pass: it belongs to one ticket
  (`OneTicket`), what is left to post to was not answered (`Left`), and what was
  answered and is still registered is held by the pass in `delivered`
  (`Answered`), which removes it before it looks at the callbacks again. None
  leaves otherwise, since only an acquired ticket has callbacks (`Acquired`) and a
  pass removes what was answered (`OnlyAnswered`).
* **Stats worker.** A row that is missing is outdated, and stays so
  (`OnlyOutdatedMissing`); by `RetentionAssumption` no window reaches beyond what
  the cleanup keeps, so what `Compute` reads from the rows equals what it would read
  from everything received (`SameWindow`), and results under way and
  saved snapshots are complete. An event matches a filter exactly when the key of its
  group passes it (`MatchesByKey`), so that an item that passes has all its events
  among the filtered ones (`ItemOfFiltered`), and filtering a complete snapshot is
  querying.
* **Hosts.** `Serve` finds the lock free or its own, so that nobody else can be
  serving, and `Begin` of the daemon waits for a free lock. The identity stays because
  whatever holds settings - a process, a copy under way, a file that can be read -
  names a known one unless a write was cut (`IdInv`). Until two changes overlap or
  one breaks off, there is one start-up or one change (`Alone`); a document is in its file as
  a start-up has loaded it, or is still to be saved (`StartAgrees`), and as the owner
  has it, or is being written (`OwnerAgrees`, `CopyAgrees`): this is
  `FileInvariant`. Nothing given up returns because secrets and sessions come from
  one counter: a session is in one listener and not given up (`SessionInv`), a secret
  in a file, in memory or in a change is no session (`SecretInv`) and has not been
  given up (`LiveInv`), and the one that a change brings differs from the one it replaces
  (`Replaces`). The types follow from the same view: what is in use was made by the counter
  (`NumbersInv`).
* **Manifests.** Every operation on one provider loads the files of all, so
  `ChangesStand` needs that no file, loaded or not, holds anything older than what
  is in force (`FilesAreNewer`): edits by hand and torn files bring the newest or
  nothing. A disabling saves what it read; if that is still in force it is as new
  (`JobsSound`), and if not, the property excepts it.
* **Names.** Every list of options, wherever it is kept - in the cache, in the file, in
  a refresh on its way, in the copy of a request - is a sorted list of named items with each name once
  (`NamedOptions`). `Held` says so for *any* set of items that `Closed` finds closed under
  what the handlers do: it holds what a provider may list, named, and naming a
  member again stays inside. One proof of its induction (`StepHolds`) then serves twice.
  With all items of words it gives the types, for any tables. With the items that
  naming *leaves as they are* (`ServiceNamedTwice`, `CountryNamedTwice`, `OperatorNamedTwice`)
  it gives `LoadingChangesNoName`: a list of settled items in order is what naming and
  sorting make of it (`SortedStays`). `LabelsTell` makes the named items settled: a name
  that was put for a word, and the label that was put for the name, have to lead back
  to the name. For what is sent and what comes back the invariant `NamesApart` adds what a
  request and a ticket know: the items of a copy come from words the provider lists at some
  time or from the manifest, so that for a clear name `TellsService` and `TellsCountry` find the word
  from the name (`ServiceSentAsListed`, `CountryAskedIs`) and the name from the word
  (`ServiceAnswered`, `CountryAnswered`, `PriceAnswered`), a clear name is canonical
  (`ClearNamesAre`), and naming a ticket again after a restart finds the name it has.
* **Tables.** `OpenInv` says which tables there are at each stage of an opening that
  was not cut, one line per statement of the migration; `RowsInv` says, while the file
  is not of the last version, in which table the rows are (`InOldTable`, `Moved`,
  `Copied`, `InNewTable`, `MovedAgain`) and who may be where - also when two processes
  migrate at the same time, which is why `RowsStay` needs no exception for it. Buffer and ring are
  the last k of an order, memory's by updates, the log's by time; `MemoryInv` and
  `SerialInv` follow a unit from the change in memory to its commit: a row that the
  file lacks is held by a unit under way, and without crossing units the file is memory
  but for that unit and what was given up.

Assumptions on constants that are more than types: `RetentionAssumption` (no window reaches
beyond what the cleanup keeps, `index.ts`), `PlansAssumption` (an active plan has an
enabled item, which saving enforces; items have distinct ids),
`DatabasesAssumption` (a database found is `Whole`: the tables and columns of its
version), and constants such as `None` or `Absent` that differ from the values they stand
beside. TLC evaluates all of them on the instances.

`LabelsTell` is more: the code does not enforce it, and where it fails a restart may
rename what was named. It is the hypothesis of the three theorems about names, and TLC
evaluates it on the instance of `names`, which has each kind of entry. It has three parts.

* `ServicesTell`, about patterns and labels of services: a label leads to its own name, and a word
  that is the name of one service is in the pattern of no other.
* `CountriesTell`, about aliases and labels of countries. A label need not be an alias:
  the aliases of AX are "aland islands", "alandislands" and "åland islands", but its label "Åland
  Islands" keeps its capital Å when it is normalised (`options.rs` 936, ASCII only) and is
  none of them. A label that is no alias must only not be one of another country.
* `CountriesLabelled`, about what is listed. When the file is read, a country that was listed
  by number is named by its label; a country such as AX, whose label is no alias, has therefore to
  be listed by its code or an alias.

Every table in `src/` was compared with these conditions, entry by entry: `canonical_data.rs`,
`config/country-metadata.json` and the four provider manifests satisfy the first two, and the
recorded listings of `config/provider-options-raw.json`, with the defaults of the
manifests, the third. Only a provider that lists AX by number would be outside.

Which names are clear depends on the provider. In the recorded listings every country is
clear, and every service but three: at HeroSMS "bp", because BP is listed there under "blw" and
"bp" is the word of GoFundMe, and "aol", because "aol" is the word of Paysera, which is thereby
named AOL (`ProviderNames_unclear.cfg`); at SMSBower "openai", whose alias leads to "dr"
while the recording has it under "247", an id that the adapter no longer lists it
by (`provider.rs` 549-560, 2396): under "dr" it is clear.

The inductive invariants of `ReleaseOwner`, `TicketLifecycle`, `StatsSync`,
`StatsWorker`, `ProviderAdmin`, `Callbacks`, the pool (with 4 tickets, 560,016
states) and `MemoryInv` and `SerialInv` of the tables also hold as TLC
invariants of the instances above or smaller ones; those of `RoutingPlan` and `HostConfig`
quantify over all sets and cannot be evaluated.

Only model-checked:

* liveness (`CancelPendingResolves`, `WaitingEventsArrive`, `RequestsEnd`,
  `CodesArrive`, `UploadsBecomeVisible`, `OptionsCatchUp`, `DrainedIsDisabled`), which
  the prover does not reach.

Every other property of a run is a theorem. Those of the serial runs and of the names are
theorems under the conditions that the known deviations show to be needed: requests one at a
time, clear names, options of a refresh since the service started.

## 5. What is not modelled

* *Desktop UI*: a client of the API without state the service depends on; its polls
  and releases are the client requests of `TicketLifecycle`.
* *Plugin SDK*: manifest types and their validation, pure functions of one value.
* *Provider adapters* beyond their answers: HTTP parameters, parsing of replies and
  of prices. They keep no state.
* *Moves of files of older versions* into the configuration directory: run once, before
  anything else, by one process.
* *Routes of the HTTP server*: they only call the service. Sessions are modelled.
* *Wording*: logs and activities are counted where the ring drops them and are
  otherwise left out, as are Chinese labels, icons and prices.
* *Upserts of metadata* (settings mirror, sync status) in `runtime.db`, which are
  written whole and read at start only.
* *HTML and rate limits* of the stats worker.
* In the models: dropped messages never return late after their timeout; the
  clock does not jump; a database transaction is atomic; a file is written in
  two steps, truncation and content.

## 6. Plan

Built, in this order: `ReleaseOwner`, `TicketLifecycle`, `StatsSync` with
`Outbox`, `RoutingOrder` and `RoutingPlan`, `ReusePool`, `Callbacks`, `StatsWorker`,
`HostConfig`, `ProviderAdmin`, `RuntimeTables`, `OptionNames` and `ProviderNames`, and
the proofs beside them: the type invariants, the safety invariants and the action
properties of all components. What could follow:

1. Compositions: the lease of `ReleaseOwner` refined by the loop of `TicketLifecycle`;
   `StatsSync` with `StatsWorker`, so that the outbox reaches from the handler to
   the summary.
2. The lease and the tables of one database, with the orphaned row of a process that
   broke off.
