# rssam: a TLA+ verification project

rssam is a self-hosted feed aggregator: one Go process polls RSS feeds and site
bridges (Telegram, VK, Max, Dzen, ...), stores new items in PostgreSQL, runs the
subscribers' filters over them, delivers them to webhooks and serves a web UI, a
JSON API and a WebSocket. This directory holds TLA+ models of the parts whose
correctness depends on interleavings, failures, ordering or boundary arithmetic,
the TLC configurations that check them, and TLAPS proofs. Paths below are
relative to the repository.

    tlc -workers 2 -config PollRaces.cfg MCFeedPolling      # a run
    tlapm FeedPollingProofs.tla                             # a module of proofs

## 1. The system and its components

| component | state | operations | hard behaviour | module |
|---|---|---|---|---|
| webhook delivery (`internal/worker/webhooks.go`, `webhook_digest.go`, `webhook_flood.go`, `internal/storage/webhook*.go`) | `webhook_logs`, `webhooks`, the in-flight set, flood pauses, a channel | queue, claim, deliver, mark, on_success, retry, disable, delete, retention | at-least-once delivery, lost status writes, crashes, 429 pauses, digests, entries shared by several webhooks | WebhookDelivery |
| feed polling (`internal/worker/runner.go`, `inflight.go`, `due_wait.go`, `internal/service/feed_refresher.go`, `internal/storage/polling.go`, `feed_circuit.go`) | `feed_poll_state` (UNLOGGED), in-flight and deferral sets, a channel | list due, poll, record outcome, defer, manual refresh, reset, pause, edit | dispatcher/worker races, deadlines, stale snapshots, loss of the table | FeedPolling |
| sources (`internal/reader/*`) | cursors, hashes and seen lists in `bridge_state` | fetch, page, store, record | a cursor that runs ahead of the store, edits and restarts in between | Sources |
| fetch slots, proxies (`internal/reader/telegram/slots.go`, `internal/reader/max/handler.go`, `internal/proxy`) | counters, a condition variable, a shared endpoint | acquire, release, resize, report | lost wakeups, leaks, late reports | FetchSlots, ProxyPool, SlotLimit |
| poll schedule (`internal/storage/poll_schedule.go`, `poll_window.go`, the cache headers of `internal/reader/rss.go`) | the row's times | next check, backoff, adaptive and silent interval, poll hours | overflow, midnight, boundaries | Schedule |
| entry store (`internal/storage/entry*.go`, `cleanup.go`) | `entries`, `feed_entry_dedup`, `user_unread`, `user_entries` | store, read, star, remove, collapse, retention | READ COMMITTED snapshots against one another | ReaderStore |
| feeds, subscriptions, categories (`internal/storage/postgres_crud.go`, `subscriptions.go`, `categories.go`, `feed_bulk.go`, their handlers) | rows, followers, quotas | create, edit, move, delete, follow, bulk edits, import | multi-statement requests that overlap or fail halfway | Catalog, ReaderStore |
| filters (`internal/filter/engine.go`, `internal/storage/filters.go`, `internal/service/filter_cache.go`) | rows, two list caches, compiled filters | edit, list, compile, test, act | stale caches, torn reads, a list at its limit | Rules |
| accounts (`internal/auth`, `internal/storage/users.go`, `sessions.go`) | users, sessions, keys | sign in, change password or role, delete, bootstrap | authentication before a revocation, the last administrator | Accounts |
| start and stop (`cmd/rssam/main.go`, `internal/migrations/migrate.go`, `internal/storage/worker_lock.go`, `internal/auth/csrf_secret.go`) | schema, advisory locks | migrate, serve, lose a lock, stop | two processes of two versions | Boot |
| system alerts (`internal/worker/system_alerts.go`, `internal/storage/system_alerts.go`) | announced state | collect, send, save | a restart between send and save | Alerts |
| realtime hub (`internal/ws`) | clients, bounded queues | register, publish, evict | a send on a channel that is being closed | Realtime |
| bridge settings (`internal/bridgeconfig`) | a row, the runtime, the handlers | load, merge, save, apply | overlapping forms, failing saves | BridgeSettings |
| feed panel (`internal/storage/admin_feeds.go`, `internal/http/ui/admin_feeds.go`, `worker_advice.go`, `internal/capacity/recommend.go`) | none | badges, lists, cards, advice | several computations of one fact | FeedPanel |
| webhook settings (`internal/http/webhooks.go`, `ui/webhooks.go`, `internal/storage/webhooks.go`, `webhook_outbound.go`) | the row, masked secrets | form and API saves, replies, panel | one editor over another, a save of what was not typed | WebhookAdmin |
| OPML (`internal/opml/opml.go`, `internal/http/opml.go`, `import_jobs.go`) | files | export, walk, import | an export while the library is edited | Opml, Catalog |

`PROJECT.json` lists the sources of each component, and what is left out.

The components meet in the database and in the memory of one process. A poll
(`FeedRefresher.refreshLoaded`) fetches over a slot and a proxy (Sources), stores
entries (ReaderStore), runs filters (Rules), queues `webhook_logs`
(WebhookDelivery) and writes `feed_poll_state` (FeedPolling) with the next check
(Schedule). HTTP handlers change the same rows (Catalog, Accounts,
WebhookAdmin, Opml). `main` starts all of it (Boot), and what it starts lives and
dies with the process (Alerts, Realtime, BridgeSettings).

## 2. Modules

A SQL statement, a critical section of a mutex, a send or receive on a channel
and a request to a source is one step; anything else may happen between two of
them. Environment events are limited by budgets (`MaxFaults`, `budget`, `MaxErr`,
...). Many modules take a set of *scenes* or *mixes* as a constant and choose one
in Init: which handlers, kinds and faults a behaviour is about. A run is then the
union of small state spaces, each with the cases that interact.

**WebhookDelivery.** A row is a pair `<<webhook, entry>>`. `entry`, `uentry`,
`hook`, `log`, `older` are the tables; `inflight`, `flood`, `disp`, `chan`,
`worker` the sets, channel and goroutines of `worker.Runner`; `poll` is how far
`afterStore` got. `Dispatch...` are the parts of a round of
`webhookDispatchLoop`; `WorkerTake`, `WorkerLoad`, `WorkerSend`, `WorkerMark`,
`OnSuccess...`, `WorkerFree` those of `webhookWorkerLoop`. Providers are reduced
to the verdict of a request; time to "due", "in grace" and "paused".

**FeedPolling.** `feed_poll_state` is split into `rows`, `open` (poll_paused),
`failing`, `due`, `errs` and `bridge`. `Dispatch...` are a round of
`dispatchLoop`; `WorkerTake`, `Load`, `Fetch`, `Record...`, `Publish`,
`TurnedAway`, `WorkerDefer`, `WorkerDone` the steps of `processPollFeed`. A manual
refresh runs the same steps without the dispatcher's protection.

**ReaderStore.** `subs`, `follows`, `cat`, `entries`, `removedAt`, `dedup`,
`unread`, `starred`, `removed`, `labels` are tables as sets of keys. A transaction
at READ COMMITTED is a step that takes the statement's snapshot into `tx[p]` and
one that commits; row locks, ON CONFLICT, foreign keys and cascades are evaluated
at the end, as PostgreSQL does. Pairs of operations that nothing orders are listed
in `Unordered`, and the history variable `raced` holds the (user, feed) pairs on
which such a pair met; the properties say that nothing else breaks them.

**Accounts.** A request authenticates, which takes a snapshot of the user's role,
and then issues one statement per step. Passwords are version numbers. Ghosts:
`excused` (sessions a failed revocation left), `late` (sessions of a sign-in that
overlapped a password change).

**Catalog.** Handlers and import jobs over `feed`, `subs`, `cats`, `follows`,
`hook`, one statement per step, any of which may fail. Ghosts: `chosen` (what
users subscribed to themselves), `stale`, `exempt` (editors whose quota counts
overlapped).

**Rules.** A filter's row has a version of its header and one of its parts, which
a list reads in several statements. `cache[p]` is the list cache of a refresher,
`comp` the compiled filters by id and `updated_at`. Whether a rule matches a text
is a predicate of the version.

**Boot, Alerts, Realtime, BridgeSettings**, composed by **Service**: a process is
a program counter over `main`'s calls; serving loads the bridge settings, the
process with the worker lock alerts, and a process that ends takes its hub,
alerter and requests with it.

**SlotLimit** is the abstract specification of a limiter. **FetchSlots** is the
mutex, condition variable and counter of `telegram/slots.go`, **ProxyPool** the
shared endpoint of `proxy/client.go`. **Sources** extends both with the polls: for
each kind of bridge (`telegram`, `max`, `vk`, `maxstat`, `wall`, `news`, `rutube`,
`tabs`, `smotrim`, `ok`, `page`, `rss`) what is asked for with the stored cursor,
hash or seen list, which posts are kept, and how the refresher writes entries and
state. Post *i* of a channel is the *i*-th published one; pages are ranges of
posts. `db[f].left` holds what scrolled out of a source's answer before a poll.

**Schedule** keeps time in ticks relative to now and the width of `time.Duration`
(`Word`). **FeedPanel** computes badges, lists and cards over every state the
schedule reaches, and the advice on the pool. **WebhookAdmin** has the form, the
API, the row, the request built from it and the panel. **Opml** has export, walk
and import settings. **Console** composes them, one topic per behaviour; they meet
in the database only.

The `MC...` modules name model values and the scenes.

## 3. Runs

| run | instance | properties |
|---|---|---|
| DeliveryFaults | 2 webhooks, 1 entry queued twice for one of them, 2 workers, 2 attempts, one fault of any kind | TypeOK; OneAtATime; FloodRespected; DuplicatesExplained (a second send follows a status write lost to a failed statement or a crash); RetriesSpent |
| DeliveryShared | a digest webhook and a plain one, 2 entries, one of a relay feed | EntriesAccounted |
| DeliveryDrains | the same webhooks, 1 entry, a failed statement or a crash, fairness | QueueDrains |
| PollRaces | 2 feeds and 1 worker, or 1 feed, 2 workers and a manual refresh; every outcome, up to two faults, fairness | ClaimsRespected; PollRecorded; DueIsPolled |
| StoreRaces | 2 readers, 1 feed, 1 item, 2 categories, 2 transactions, ten mixes | RowsInStep; EntriesKept |
| AccountRaces | 3 accounts, 2 requests, 3 sessions, 2 keys, nine mixes | AccessCurrent; AdminsSafe |
| CatalogRaces | 2 users, 2 requests, 3 feeds, 2 categories, 2 webhooks, eleven mixes | RefsIntact; ReadersAsWanted; QuotaUnlessOverlap |
| FilterEdits | 2 filters of 2 versions, 2 polls of either refresher, a test, an edit, a list of one row, fairness | CompiledIsCurrent; ActionsRight; EditTakesEffect |
| ServiceRuns | 2 processes of 2 versions and 3 starts; 1 or 2 problems and a subscriber; 2 connections and 2 publishers; 2 saves; fairness | StartsSafe; AlertsFaithful; HubSafe; BridgesAgree; OthersKept; ServiceProgress |
| SourcePolls | 2 feeds' polls and a manual refresh, sixteen scenes, up to 3 posts and 3 faults, fairness | SlotsInv; ProxyInv; SourcesInv; SlotsLimit; MaxLimited; DroppedOnlyIfReported; AllStored |
| ConsoleRuns | a day of six ticks; all loads of the pool; 2 editors with 3 writes; 2 libraries and 4 files; fairness for the advice | ScheduleSound; PanelSound; HookSound; FilesSound; BackoffGrows; OnlyTypedChanges; AdviceSettles |
| StoreFailureLosesPosts (violation) | one Telegram feed, one failing transaction | CursorCovered |

Several properties are conjunctions of named parts; each part has its own comment
in its module:

* EntriesAccounted: HeldWhileOpen (an entry stays while a delivery is owed),
  RelayRowGoes, SentMeansDelivered (the first and the last until a purge or a
  retry by hand).
* ClaimsRespected: OnePollPerFeed, DeferralRespected (both where no poll outlives
  its in-flight entry). PollRecorded: TypeOK,
  BreakerMatchesCount, NotDueAfterPoll, StatusTruthful.
* RowsInStep: TypeOK, StateOnlyForReaders, UnreadIsShown, FollowersSubscribed.
  EntriesKept: KnownStaysKnown, PurgeSparesReaders.
* AccessCurrent: TypeOK, SessionsCurrent, NoGhostAccess. AdminsSafe: AdminRemains,
  BootstrapFillsEmpty.
* RefsIntact: TypeOK, OwnWebhookOnly, CategoryExists. ReadersAsWanted:
  FollowersRead, OnlyWantedFeeds.
* ActionsRight: TypeOK, KeptEntryMatched, LabelsOwn.
* StartsSafe: BootTypeOK, MigratedOnce, ServingSchema, NoMigrationConflict,
  OneWorker. AlertsFaithful: AlertsTypeOK, AlertedOnce, NothingSilenced. HubSafe:
  HubTypeOK, NoSendOnClosed, OwnEventsOnly. BridgesAgree: BridgeTypeOK,
  SettingsAgree. ServiceProgress: StartEnds, PumpsEnd, AlertNoticed.
* SlotsInv: SlotsTypeOK, SlotsAccounted, NoLostWakeup. ProxyInv: ProxyTypeOK,
  ViaOwnProxy. SourcesInv: SourcesTypeOK, CursorCovered. MaxLimited:
  MaxSlotsLimit, CooldownHeld.
* ScheduleSound: SchedTypeOK, WithinBounds, HoursHonoured, RetryAfterHeld,
  SilenceEnds. PanelSound: PanelAgrees, AdviceSteady. HookSound: AdminTypeOK,
  HookBuilds, PanelTruthful, SentMeansTaken. FilesSound: OpmlTypeOK, RoundTrip,
  NearestFolder.

**Bounds.** Budgets of one to three environment events: each is an event the code
handles on its own, and the interesting cases need one or two of them at an
arbitrary moment of two interleaved operations. Two actors reach every race of a
pair; two feeds, webhooks or readers are the fewest of which one can disturb the
other. `MaxAttempts`, `Threshold`, `Buffer`, `RowLimit`, `MaxFeeds`, `SlotsMax`,
`PageSize`, `SeenKeep` are small so that the limit is reached. In ReaderStore one
item is enough because the statements treat the items of a feed independently.
`Word` is 2^64 ns in ticks of four hours, so that a hint can wrap.
Deadlock is checked in SourcePolls; elsewhere the system may rest when its budgets
are used up. Symmetry is used in safety runs only, over interchangeable workers,
accounts, categories and the like.

**Fairness.** Goroutines run and timers fire: weak fairness on dispatchers,
workers, polls, the steps of a starting process, both pumps of a connection, the
alerter's tick, cache expiry and the ends of grace, pause and cooldown. Faults,
administrators and the sources' answers have none. Two exceptions belong to what a
property says: DueIsPolled leaves out scenes in which polls end without moving
next_check_at (that those do not starve a second feed depends on the dispatcher
running within a second of grace, which an untimed model cannot express), and
AdviceSettles is about an administrator who keeps following the advice.

**Refinement.** SlotsLimit says that FetchSlots, with its counter, sleepers,
broadcasts and a limit changed at run time, implements SlotLimit (`FetchLimit ==
INSTANCE SlotLimit WITH size <- limit, holders <- inside`); MaxSlotsLimit says the
same of the Max API's counted slots, where a holder is a poll with a request
under way.

## 4. Findings

**StoreFailureLosesPosts** (code). When `storeFetched` fails, `refreshLoaded`
(`internal/service/feed_refresher.go:377`) calls `failPoll` with
`res.BridgeState`, the state after the fetch, and `recordFailure` writes it. The
cursor of a Telegram, Max, VK or MaxStat feed then covers posts that no entry
holds, and no later poll asks for them. SourcePolls leaves this fault out, and
shows that nothing else lets a cursor run ahead.

Observed while modelling. Where a property would be broken by one of these, the
model has the behaviour and the property its exception, in a ghost variable or
in its text:

* Webhooks: `afterStore` queues a relay entry's webhooks one insert after the
  other, and a worker that delivers the first meanwhile deletes the entry
  (feed_refresher.go:664); on_success actions of all webhooks of an entry are
  applied to the owner of whichever settled last (worker/webhooks.go:346); a
  provider's reply is cut at 2048 bytes, and a long Telegram reply marks a
  delivered message dead (worker/webhooks.go:255); an API PUT without `kind` makes
  a webhook an http one, and a masked token put back is stored; the page drops
  custom headers; a form open over a pause switches the webhook on again;
  `body_template` is not validated when saved; `UpdateWebhook` reads without FOR
  UPDATE; the rows of a digest die with the row that carries the message, after
  its attempts and not their own (worker/webhook_digest.go:100, 178).
* Polls: a poll that fails because its own context expired records the failure
  with that context, and the feed stays due (feed_refresher.go:164); a layout
  error stores an empty bridge_state, and a poll in flight overwrites the one a
  form wrote (entry.go:375); an RSS store failure hides items until the body
  changes; a VK search post of the same second as the cursor is passed over; the
  Max API's rate limit is not persisted; a second proxy report within two seconds
  is dropped.
* Schedule: `FeedErrorPollDelay` shifts an int64: a daily feed with 17 errors or
  more falls back to MIN_POLL_INTERVAL; hints above 2^63 ns wrap; an adaptive
  feed keeps its stretched interval for one more poll; changing a category's hours
  shortens backoffs; failure and layout next checks ignore poll hours;
  `OfferedPollsPerMin` counts inbound feeds.
* Store: an unsubscription that overlaps a poll leaves unread rows; a follow that
  overlaps a move leaves a follower without a feed; a star that arrives during a
  purge or a collapse is deleted; a webhook's removal after its owner unsubscribed
  leaves a removal row; retention deletes entries without recording their hash, and
  items still listed come back unread (cleanup.go:110).
* Catalog: an API edit drops the feed's webhook (http/feeds.go:204); the web form
  drops scraper and rewrite settings (ui/feeds.go:336-348); an asynchronous
  import runs with the context of the request that started it, which ends with the
  response (http/import_jobs.go:165); an inbound feed is left without a secret when its second statement fails
  (storage/inbound.go:74); an rss-type feed's type is detected again on import;
  quota counts and inserts are not ordered.
* Filters: the row limit of `ListEnabledFilters` applies to joined rows; filter
  tests match without a category (http/filters.go:283).
* Process: a late subscriber gets no baseline of present problems
  (system_alerts.go:99); saving one bridge's form freezes another's environment
  values (bridgeconfig/settings.go:168); two first starts may write different CSRF
  secrets (csrf_secret.go:47); `main` does not wait for the worker on shutdown; a
  sign-in that overlaps a revocation opens a session after it
  (ui/admin.go:147-150).

## 5. Proofs

Every theorem is about the specification a run checks, or about that of a part which
it composes, and holds for every value of the constants: any number of webhooks, feeds, users, workers, requests and
processes, any bounds, any set of scenes or mixes of the form the module's
assumption states. Each inductive invariant below was checked with TLC, on the
instances of the runs or larger ones, before it was proved.

| module | theorems |
|---|---|
| WebhookDeliveryProofs | TypeCorrect, OneAtATimeHolds, FloodRespectedHolds, DuplicatesExplainedHolds, EntriesAccountedHolds, RetriesSpentHolds (action property) |
| FeedPollingProofs | ClaimsRespectedHolds, PollRecordedHolds |
| ReaderStoreProofs | RowsInStepHolds, EntriesKeptHolds (action property) |
| RulesProofs | CompiledIsCurrentHolds, ActionsRightHolds |
| SourcesProofs | SourcesInvHolds, SourcesTypes, MaxLimitedHolds (refinement and action property), PollsKeepLimiters, PollsRefineLimit (refinement); of the limiters alone SlotsInvariant, SlotsRefineLimit, ProxyInvariant, DroppedOnlyIfReportedHolds (action property) |
| CatalogProofs | RefsIntactHolds, ReadersAsWantedHolds, QuotaHolds |
| ServiceProofs | StartsSafeHolds, AlertsFaithfulHolds, HubSafeHolds, BridgesAgreeHolds, OthersKeptHolds (action property) |
| ConsoleProofs | AccessCurrentHolds, AdminsSafeHolds (action property); ScheduleSoundHolds, BackoffGrowsHolds (action property), PanelSoundHolds; HookSoundHolds, OnlyTypedHolds (action property) |

**WebhookDeliveryProofs.** OneAtATime is not inductive: a second claim is
prevented by the in-flight set, which the dispatcher read several steps earlier.
`Hold` adds that every claim in the channel or with a worker belongs to a busy
webhook (`HeldIsBusy`), that while a round is between its reads and its sends a
webhook it did not exclude is free of claims (`ClaimableIsFree`), and uniqueness
of claims (`Unique`). FloodRespected needs that a paused webhook the round did not
exclude is one it excluded as busy (`PausesExcluded`: the in-flight set is read
before the pauses and a worker pauses before it leaves the set) and that only an
unanswered or a 429 claim is held (`Unanswered`).

The ledger of what was sent builds on it. For DuplicatesExplained, `DInv` ties what
was sent to who holds a row (`Ledger`): a row is in at most one claim (from
`Hold`); a row in a claim is still open; a row the poller may still insert is in
no claim; and a row that may still be sent, being open, dead or held before its
send, was accepted only as often as its status write was lost. A retry by hand
reopens a dead row, a repeated insert touches an open one, a deleted webhook takes
its rows for good: all three leave that count alone, which is why none of them
needs an exception in the property. For EntriesAccounted, `EInv` adds that what a
row says is true (`Told`), also of the rows a worker has accepted or skipped and
not yet written, how far the poller is with an entry (`Staged`), that the later
on_success steps of a worker are about an entry that is kept (`KeepsEntry`), and,
for RelayRowGoes, that somebody still cares for a relay entry: an open or dead row,
or a worker between its status write and the end of its on_success steps
(`Relayed`, `Cared`).

**FeedPollingProofs.** The argument of OneAtATime again, over feeds: `Marked`
(what is in the channel or with a worker is marked running, what a round may still
choose is not), `Once`, `Waits` (a deferred feed is with nobody but the worker that
is about to let go). They hold while no poll has outlived its in-flight entry
(`Calm`); in scenes with the fault "overrun" OnePollPerFeed and DeferralRespected
say nothing, because the code does let a second worker take such a feed. The
channel's bound needs what the dispatcher has reserved (`Fits`). For
NotDueAfterPoll and StatusTruthful, `Follows` says that until something fails or
somebody interferes what a worker loaded is what is stored, and what it recorded
stays.

**ConsoleProofs: accounts.** AccessCurrent speaks of the tables; a request writes what it
read some statements ago. `RequestOK` says what a request remembers (whose session
it came with, who its target is, that a checked password belongs to an account
with one), `RowsOK` what the rows owe each other. AdminRemains rests on `LockOK`:
whoever may take an administrator away holds the advisory lock, and the target
exists and is not the only administrator; no other writer of roles gets past the
lock before the write.

**CatalogProofs.** RefsIntact and ReadersAsWanted are inductive together once
requests in flight are known to be well formed (`ReqOK`: a bulk move goes to
another category, a queued import only creates and subscribes). The quotas need
that an editor who is not exempt has one adding request at most (`Alone`) and that
its count is still good when it inserts (`Counted`: an import counts up as it
creates, and has counted at least what there is). Cardinalities come from
FiniteSetTheorems.

**ServiceProofs.** Each part has an invariant over its own variables (`HInv`,
`BInv`, `LInv`, `GInv`) and the composition shows that every step of Service is a
step of the part or leaves its variables alone. *Hub*: a publisher in its walk has
only registered clients before it (it holds the read lock) and a registered
client's channel is open. *Boot*: the recorded migrations are an initial segment,
each ran once, a process's snapshot of them is such a segment too and its open
transaction is about the first one it lacks, and a process has the locks it
believes to hold unless a session was lost (`POK`). *Alerts*: what an alerter has in
its state was heard of, but for what it is still to send (`LOK`), and a lasting
problem that was announced is in the state of whoever runs and in the saved one
unless that save is still to come (`Said`). *Bridge settings*: the runtime is closed under merging
with the environment, and a save in progress remembers what it will write; a
process outside `stale` agrees with the row.

**ReaderStoreProofs.** A transaction commits what it read some statements ago, so
`SInv` says of each open transaction how its plan compares with the tables now: rows it
will delete are still all there are, rows it will insert still belong there, or the
(user, feed) pair is in `raced` (`MemberOK`, `CatOK`, `PollTxOK`, `LeaveOK`, ... one
predicate per kind of transaction). Two transactions that the code orders by a row
lock are not open together (`Unlocked`); two it does not order are `Unordered` pairs,
and the step that brings them together puts their pairs into `raced`. The proof goes
through every pair of a commit and an open transaction. EntriesKept follows from
what `SInv` says of the polls', collapses' and purges' transactions.

**RulesProofs.** A list is read in several statements, so what was read has a version
between the header it came with and the row of today (`ReadOK`, `LoadedOK`), and an
edit commits the header and the parts of a row together (`Headed`). CompiledIsCurrent needs it of every place a version can be: both caches,
compiled filters, polls that read, hold or apply a list, and tests (`RInv`). For
KeptEntryMatched, a list that was not outdated by an edit since it was read holds all
enabled filters in their present versions (`CacheTrue`, `PollTrue`), unless the row
limit ever cut one (`over`): whether a list can be cut is a sum over the filters'
rows, whose partial sums are shown to exist.

**SourcesProofs.** The data half, `DInv`: a poll between its load and its record holds
a state that passes over only what is stored, has left the source, or is in the poll's
own result (`PollCovered`), the pages a Telegram poll has walked form an interval
that ends where it will ask next (`Paged`), and the row itself passes over only what
is stored or left (`FeedCovered`). SourcesInvHolds states the run's SourcesInv for
scenes that are `Cautious`: in the others the code does let a cursor run ahead, because
a store that fails is the finding of section 4 and an edited URL carries time cursors,
hashes and lists over to another channel. The run's scenes are cautious ones, which
TLC checks as an assumption (`CautiousPolls`). SourcesTypes has no condition. The limiters' half,
`LInv`: what a poll's program counter says it holds is what the limiters count
(`Lent`, `HostOK`, `MaxOK`), so that every step of Sources is a step of FetchSlots and
ProxyPool, their reset by a restart, or a stutter; SlotsInv, ProxyInv and the
refinement of SlotLimit follow for the composed system from those of the components,
and MaxSlotsLimit from `MaxOK`. For the slots alone, NoLostWakeup is not inductive:
a release that wakes a sleeper moves one unit from `inFlight` to `awake`, so it needs
the counter (SlotsAccounted) and the disjointness of the places a fetcher may be in.
DroppedOnlyIfReported is proved of ProxySpec; in the composed system a restart forgets
the endpoint too, and the run checks the property in scenes without one.

**ConsoleProofs: schedule and panel.** For any durations, plans, hints and lags.
WithinBounds and SilenceEnds come from lemmas on what each function of the schedule
returns (`AdaptiveIn`, `AfterPollIn`, `SilentIn`, `HintIn`, `ErrorDelayIn`), which need that the
doublings are integers: that a recursive function over 0..n exists and is unique is
proved by taking the least number for which it fails (`LeastNat`, `IteratesExist`).
HoursHonoured is `FirstOpen`, the arithmetic of windows across midnight; RetryAfterHeld
is `WrapSmall`. The only strengthening is that the breaker is open exactly when the
errors have reached the threshold (`Breaker`), without which their count has no bound.
BackoffGrowsHolds has a hypothesis, `BackoffFits`: no delay reaches half of 2^64 ns
before the breaker opens. The code does not ensure it (section 4: 17 errors of a daily
feed are enough), the defaults of 24 hours and 10 errors do. MCConsole has TLC
evaluate it for the run. PanelAgrees needs only the types of a row; AdviceSteady needs what following the
advice leaves behind (`AdviceOK`: a pool that was enlarged is not larger than needed
unless polls are late, a reduced one is not smaller).

**ConsoleProofs: webhook settings.** `HookInv` says that a stored row is settings of
its kind which were accepted as they are (`RowOK`), that an editor whose form is fresh
holds the values of the row where nothing was typed (`EditOK`, `KeepsUntyped`), through
mask, blank fields and the two ways in, and that the ranks of the last success and the
last failure tell the last outcome (`StatsOK`). Both theorems follow from it.
SchedSpec, FeedPanelSpec and AdminSpec are the specifications of the parts; Console,
which the run checks, only chooses between them, and it extends Opml, whose
recursive operators keep the provers out.

**Assumptions** are those of the modules, which TLC evaluates in the runs:
`ConstantsAssumption` of WebhookDelivery and of FeedPolling, `AccountsAssumption`,
`CatalogAssumption`, `MixesAssumption`, `ServiceAssumption` with those of its
parts (`BootAssumption`, `AlertsAssumption`, `RealtimeAssumption`,
`BridgeAssumption`), `StoreAssumption`, `RulesAssumption`, `SourcesAssumption`,
`SlotsAssumption`, `ProxyAssumption`, `ScheduleAssumption`, `FeedPanelAssumption`,
`WebhookAdminAssumption`. They state types of
constants, positive sizes, that markers such as `None` are no members of the sets,
finite sets where something is counted, and that a scene starts from rows the
program can have (the keys' owners exist, the quotas are kept) and changes a form can
make.

**What the proofs changed.** RetriesSpent used to speak of every row's own
attempts; the proof failed for digests, whose rows die with the carrier, and the
property now says so (see section 4). With two alerters the ghost `excused` of
Alerts ended with the problem and AlertedOnce was false, because the second
alerter still repeats itself; it now ends only while one alerter runs. Only a background
import sees its request's context end (`HandlerReturns`).
HeldWhileOpen and SentMeansDelivered were stated for runs without a purge or a
retry by hand; they are now conditional on neither having happened
(`Undisturbed`), so that they hold for every set of faults. What makes
a scene safe for CursorCovered used to be implicit in the instance and is now a
definition (`Cautious`). The adaptive stretch was a table of six weeks and had no value for a
longer silence; it now doubles as often as the code's loop does. Lists of filters are
sets, whose order nothing depends on but the row limit, and blank texts of a
webhook's settings are a constant, `Empty`.

**Model-checked only.** Liveness (QueueDrains, DueIsPolled, EditTakesEffect,
ServiceProgress, AllStored, AdviceSettles): fairness and ENABLED are outside this
prover's reach. FilesSound: a round trip of a tree through export, walk and import is
an induction over recursive data, and is checked over bounded files.

## 6. Not modelled

* Source parsers (HTML, XML, JSON): text processing. Sources models which posts a
  page yields.
* Request limits per address, and the unread counters' cache of three seconds
  (whose put may follow an invalidation): the pages accept their staleness.
* Rendering and request plumbing; handlers that change modelled state are actions.
* Configuration, metrics, logging, audit, scripts.
* Of the entry store: updates of an entry's content, entries that arrive by POST,
  how a hash is computed, search. Of the panel: search, paging, the poll log.
* Message bodies, signatures and provider formats beyond the verdict on a reply.

## 7. Plan

Done: the model of all components above, and proofs of every safety invariant and
action property the runs check but FilesSound. What could follow:

1. DroppedOnlyIfReported for Sources as a whole, with a restart as an explicit
   exception.
2. Opml's walk without recursive operators, for NearestFolder at least.
3. The entry store's content updates and entries that arrive by POST (section 6).
