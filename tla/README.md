# A TLA+ verification of the Intelligent API Security Gateway

This directory specifies the parts of the gateway that hold state and race with each
other, checks them with TLC on small instances, and proves the main invariants with
TLAPS for all values of the constants. Each definition is a translation of code; the
table of source lines is `map` in `PROJECT.json`, and the hazards and findings named
below are listed there with their lines.

## 1. The system

Two lanes share one Redis.

* **The gateway** (`gateway/`, Go) is a reverse proxy. A request passes the IP resolver,
  CORS, telemetry, logging, the **enforcer**, the body limit, response capture, the
  **reflex** observer, the detectors and the ownership guard, and reaches the application.
  Nothing on this path waits for the engine: policies are read from a local copy, and only
  a rate limit costs one bounded Redis call.
* **The decision engine** (`decision-engine/`, Python) wakes every 30 s, reads the
  evidence stream, groups it into campaigns, decides, writes policy keys with a time to
  live, and acknowledges what it read. Postgres holds the durable copy.
* **The console** (`gateway-dashboard/`, Next.js) shows what both lanes conclude and writes
  overrides, settings, decisions on recommendations and resets into the same Redis and
  Postgres.
* **The desktop launcher** (`desktop/`, Electron) waits for Docker, installs a release,
  brings the containers up and takes them down.
* **The demo shop** (`vulnerable-app/`, React and Express) is the application the gateway
  protects in demonstrations.

| Component | State | Operations | What makes it correct |
|---|---|---|---|
| policy store | a map of policies, swapped whole | refresh (SCAN, GET+PTTL, swap), failure, lookup | no policy used past its deadline or long after its revocation; a completed refresh misses nothing |
| reflex | settings (atomic), block map (mutex) | Observe, Apply, Lookup, sweep | exempt addresses never refused, running blocks left alone, finished ones removed |
| enforcer and chain | tunables (atomic), gate | judge a request | a person's decision stands; else the stricter opinion |
| live settings | override and effective keys, watcher's `seen` and `applied`, three atomics | put, clear, poll, apply, publish, boot | all parts run one block; what is published runs; an override takes effect |
| quota limiter | `blockedUntil`, `probing`; a bucket per caller in Redis | Take, the script | grants within burst and rate; one probe; limits come back |
| evidence cycle | consumer group, override group, campaign keys, process memory | fetch, merge, respond, review, ack | nothing lost or forgotten, nothing replayed into a cleared board |
| clear campaigns | watermark, campaign keys | mark, scan, delete | a clear is not undone |
| detectors | sliding windows per client with caps, one evidence slot per address | record, evict | thresholds and bounds; evidence belongs to its request |
| ownership guard | violation window, held response | hold, filter, release | nothing leaves before it is judged |
| telemetry | bounded queues, counters | enqueue, drain, heartbeat | losses counted, count of requests in flight exact |
| adaptive settings and decisions | a versioned row and recommendations in Postgres, policy keys in Redis, a draft per page | load, edit, save, revert, approve, reject; read and write back, activate, expire, revoke | no page's save on an unread version; each decision made once; a key stands only as approved, and no longer than the approval's window |
| console: live state, writes | what the last answers said, ids of alerts seen, marks on addresses | poll, instruct, delete, pause | pages catch up; nothing shown as accepted that was not; no escalation passes unnoticed |
| console: read routes | – | page of events, policy rows, overview, tallies, setup warnings | nothing of what Redis holds is lost or repeated |
| console: Events, Protection, reset | a table and its cursor; drafts and checks that are due; a dialog and two lanes | reload, page, filter; apply, revert; reset | the table follows its filter; what is reported was done |
| desktop launcher | phase, boot, watch loops, three files, images, containers | boot, poll, retry, update, quit | an installed release stays runnable; a quit stops the containers; Docker is noticed |
| demo shop | token, stored user, cart, orders table, wish lists, reviews, product table | sign in, checkout, restart, toggle, search | session consistent; table sound; pages show what was asked |
| adaptive controller, policy writer, simulator | windows, baselines, per-cycle budget | observe, recommend | budget kept |
| correlation, feedback, narration, anomaly features | campaigns, memory of outcomes | cluster, recall | – |

Interactions: gateway → engine by the stream `iasg:events` (at least once, consumer
group); engine → gateway by `policy:*` keys (polled every 5 s); console → engine by the
override stream; console → gateway by `iasg:settings` (polled); console → everything by
deletions beside a running cycle.

What is hard to test here: the gateway's settings move between two loads of one request;
a refresh takes many Redis calls while keys change under it; a breaker's results
come back late and in any order; a cycle can crash, raise or lose a reply at each step
while the console clears the very keys it holds in memory; pages poll, write and
give up while earlier answers are still on their way; an update or a boot is interrupted
between two files.

## 2. Modules

| Module | Models | Remarks |
|---|---|---|
| `PolicySource` | lookups of `policy/store.go`, and the store's promise | abstract specification `SourceSpec` |
| `PolicyStore` | `policy/store.go` over Redis | implements `PolicySource` |
| `Reflex` | `enforcement/reflex.go` | Observe is three steps: load, decide, locked write |
| `Enforcement` | `policy/middleware.go`, `chain.go`, `gate.go`, `enforcement/middleware.go` | composes `PolicySource` and `Reflex` |
| `LiveSettings` | `settings/watcher.go`, `proxy/live.go`, start-up of `proxy/server.go`, the console's settings route | |
| `SettingsContract` | – | what the gateway promises the console about its settings |
| `LiveSettingsHistory` | – | `LiveSettings` with a record of the requests; implements `SettingsContract` |
| `RedisLimiter` | `policy/redis_limiter.go` | circuit breaker and probe |
| `TokenBucket` | `policy/token_bucket.lua` | the script is one atomic step, as in Redis |
| `EvidenceCycle` | `runner.py`, `evidence/consumer.py`, `feedback/overrides.py`, `campaigns/repository.py`, `store/redis_store.py`, the clear-campaigns route | |
| `SavedConfig` | – | what saving the adaptive settings promises |
| `AdaptiveSettings` | the Adaptive page, its routes, `lib/adaptive.js`, the engine's `ensure_config`, `load_config` and activation of approvals | implements `SavedConfig` |
| `ConsoleLive` | `ui/store.jsx`, the overrides and policies routes, the controls that use them | |
| `ConsoleReads` | the events, overview, policy and address routes, `plane.js`, `format.js`, `setup-checks.mjs` | operators over an abstract input, no steps |
| `ConsoleEvents` | the Events page | |
| `ConsoleAdmin` | the reset dialog and route, `lib/postgres.js` | |
| `ConsoleProtection` | the Protection page and the settings route | its gateway does what `SettingsContract` lets it |
| `Launcher` | `desktop/main.js` | |
| `ShopSession` | `AuthContext.jsx`, `auth-token.js` | shared by the next two |
| `ShopOrders` | sign-in, cart, checkout and order pages, the orders routes and table | |
| `ShopBrowse` | wish list, reviews, admin's products, filters, search | |
| `MC*` | TLC instances | several put two or more modules side by side, see below |
| `*_proofs` | theorems | |

State and actions follow the code one to one; the choices worth knowing are these.

* **PolicyStore.** `snapshot` is the atomic pointer, `scan` the locals of `refresh`.
  `observed` is taken in `ScanBatch` and used in `ReadKey`, as in the code, with time free
  to pass between. `owed` states SCAN's guarantee: keys present throughout are returned.
  A failed refresh empties the map. `serial`, `due` and `retired` are history.
* **Reflex.** `ObserveLoad` is the explicit load of the settings; `ObserveDecide` contains
  `Active()`, which loads them again, and the instant taken before the lock; `ObserveArm`
  is the locked update with that instant. `Evidence` holds only entries that crossed
  their threshold; Observe ignores all others.
* **Enforcement.** Snapshots change by any entry `PolicySource` allows, one at a time.
  The observer is always present here; whether it is built in is `LiveSettings`' subject.
  Detectors are reduced to the evidence they leave, the limiter to its three answers.
* **LiveSettings.** A block of settings is reduced to what is told apart: three switches
  and its fate (usable, refused by a part, undecodable). Starting, the first synchronous
  poll and the building of the chain are separate steps. `apply` is three stores. The
  published key has a time to live of four intervals, so that it lapses behind a gateway
  that stopped and behind one that Redis does not answer.
* **SettingsContract**, **LiveSettingsHistory.** The contract keeps the requests in their
  order and the number of the one the gateway has got to. It may answer late and leave
  requests out, may publish its file at any time (a restart) and may fall silent, but
  never goes back behind a request it answered. `LiveSettings` keeps no numbers, so
  `LiveSettingsHistory` records beside it which request the watcher read, recorded as
  applied and published; no action depends on the record.
* **RedisLimiter.** `healthy` says whether a call is answered. The request's context
  bounds the call, so a caller that hangs up is a failed call too; one pair of flips
  around an `Answer` is exactly that. A request that may not ask Redis changes nothing
  and is a stuttering step, as are the two early returns (no limit, decision over).
* **TokenBucket.** A token is `Minute` units, so `rpm` units are refilled per instant and
  all division is exact except the two `ceil`s of the script, which are kept. The
  script's floating point is thus abstracted. The rate may differ per call because
  `bucketKey` leaves it out. Redis's clock may be set back; forward jumps, which do mint
  tokens, are not modelled.
* **EvidenceCycle.** The deployment with Redis alone. A campaign is the set of entries it
  absorbed; an address has at most one. `orphans` and `dropped` are history: entries a
  fault left behind, and entries in hand when a cycle raised. Within `cycle`, each Redis
  call is a step, and `Crash`, `Raise` and lost replies may come at any of them. The clear
  is three calls of another process.
* **AdaptiveSettings.** A configuration is reduced to its guardrail on policy duration, the
  number that both the validation and an approval depend on; 0 is one that is refused, and
  those in `Watching` have the mode monitor. A transaction is two steps, taking the row
  lock and committing, with a rollback possible at the second. `Reload` leaves a write on
  its way: the route does not notice. The row's document carries a version of its own,
  which is the one a page sends back and `Put` compares. After `EnsureConfig` that is the
  file's own, so that saves are refused until the engine's next cycle has put the row's
  version into the document. `old` marks a document in a form of another release: fields
  retired or missing since, or values one side refuses (the routes trim an address that
  Python's `ip_network` does not accept). `LoadConfig` reads it without a lock, takes it or
  the file's configuration in its place, and where the document is not what it would have
  written, `WriteBack` writes that, later, without comparing or raising a version. `held`
  is history: what the row has held under its version.
  An approval opens a window (`ends`). The engine's cycle lists the approved in order,
  marks those whose window is over, writes the keys of the others for what is `Left` of it,
  or skips them where a rail of the writer forbids, and marks each active in a further
  step; it may stop anywhere (`CycleEnds`), and does not start on the list in monitor mode.
  Assumed: console, engine and Redis share one clock; no time passes between the
  computation of what is left and Redis's SET; and the version a file names is at most one
  ahead of the row's (a file that names a higher one could make an old page's version
  come true again). Left to the lifecycle module: recommendations the engine approves and
  marks itself (`_approve`, `mark_status`, superseding: `runner.py:256-262, 303-307`),
  which write without a lock, and so a revocation they may overwrite.
  `SavedConfig` sees the row, what the engine is about to put back and, per page, what its
  next save is built on.
* **ConsoleLive.** A poll is a snapshot in flight, answered or lost in any order; the
  refresh a write waits for has a place of its own (`Own`). An instruction is one request
  per address, answered one by one. `shownIds` and `accepted` are history. `SeenWasShown`
  is about the escalations that answers brought: one that enters and leaves the window
  between two polls is never seen, and one that an older or empty answer dropped from the
  baseline flashes again.
* **ConsoleReads.** One variable holds the input; every initial state is one input, and
  the invariants compare what the operators make of it with what was put in. A path is a
  sequence of segments, and `suggestTemplate` puts {id} for those that name one resource.
  `formatTtl` keeps apart the seconds and the words "no expiry". What fields of the
  settings may contain (`gateway-settings.mjs`) is not modelled; section 5 says what was
  read there.
* **ConsoleAdmin.** Each statement of the Postgres transaction and each Redis call is a
  step. A statement that fails aborts the transaction, and COMMIT then rolls back. The
  dialog's timeout leaves the handler running, so resets may overlap. The timeout is the
  code's as long as the answer's headers are outstanding; it is cleared when they come, and
  the reading of the body (`chrome.jsx:275`) is taken to end.
* **ConsoleProtection.** `since` records which blocks were in force while a check was due,
  so that the toast "the gateway is enforcing the new protection settings" can be judged.
  In force is what the effective key says: for the rest of the key's time to live it says
  so behind a gateway that has died.
  `requests` and `reached` are those of the contract: the gateway here may publish any
  request it has not gone past, its file after a restart, or nothing.
* **ConsoleEvents.** Rows are reduced to the view (address and window) they were asked for.
* **Launcher.** One event loop: what stands between two awaits is one action. Docker
  commands outlive a killed launcher; `pulled`, the compose files and the state file
  survive it. A file is written in one step: a `writeFileSync` cut short by a kill is not
  modelled.
* **Shop.** One browser tab; `fetch` calls are served, lost and answered in any order.
  Timers of one delay fire in the order they were set, as in a browser; `getCurrentUser`
  is read when they fire.

## 3. Runs

| Run | Instance | Properties | Result |
|---|---|---|---|
| `policy_store` | one address with address-wide and scoped key, 2 writes, 5 instants, cache age 2, lifetimes 1, 3 and none | `DeadlineRespected`, `RevocationBounded`, `SourceSpec`, `RefreshComplete` | hold |
| `limits` | reflex: 2 addresses, 2 requests, 5 settings (two unusable), 4 instants; limiter: 3 requests inside Take, back-off 2 | `AlwaysExemptNeverRefused`, `RunningBlockKept`, `SweptEventually`; `OneProbe`, `LimitsReturn` | hold |
| `live_settings` | 5 blocks (two unusable), puts, clears, stops without bound | `ChainRunsApplied`, `PublishesWhatRuns`, `RequestTakesEffect` | hold |
| `live_settings_observer` | same | `ArmedReflexObserves` | violated |
| `enforcement` | one request at a time, both scopes, 3 actions, 2 origins, judged with and without a baseline quota; quota script: minute 5, rates 2 and 3, burst 3, 8 instants, clock set back by 2 | `HumanDecides`, `StrictestStands`; `GrantsBounded`, `WaitSuffices` | hold |
| `evidence_cycle` | 2 entries, 1 instruction, batch 1; 1 fault with one address, 2 addresses without a fault | `AckedAccounted`, `NothingForgotten`, `ClearedStaysCleared`, `ActedOnce`, `EntriesSettle` | hold |
| `evidence_loss` | 1 fault | `AckedWasHandled` | violated |
| `adaptive` | 2 pages, guardrails 0 to 2, 3 versions where pages save, 2 where they also revert, decide and files change, 1 answer to `load` per page, 1 recommendation, 4 instants, the guardrail 1 in monitor mode | `DecidedOnce`, `EnforcedWasApproved`, `SavesOnWhatItRead` | hold |
| `console` | poller: 2 polls on their way, a window of 2 of 3 escalations, 1 fault; writes: 2 addresses, 2 writes beside one poll, 1 fault; reset: 2 overlapping over either store, 1 over both, stores change once; Protection: 2 writes, 2 tabs that apply, 1 tab that reverts too while the gateway comes and goes; Events: 2 views, 2 requests; routes: streams of 6 ids, 3 events over 3 addresses or 4 over 2 addresses and 2 endpoints, 4 policy keys with and without expiry | `ConsoleTypeOK`, `PendingWasAccepted`, `SeenWasShown`, `RoutesSound`, `ResetSound`, `EnforcingIsFounded`, `CatchesUp`, `TableFollows`, `NothingHangs` | hold |
| `events_cursor` | same | `NullOnlyAtStart` | violated |
| `launcher` | 2 releases, 2 watch loops, 2 starts | `LauncherInv` (with `StaysRunnable` and `CleanQuitStops`), `CarriesOn` | hold |
| `shop` | 2 persons, 2 calls in flight and 3 in all, 1 seeded order and 3 ids; 1 product, 2 search terms, 2 timers | `ShopTypeOK`, `SessionAgrees`, `TableSound`, `ShownViaMode`, `BrowseSound` | hold |

`limits`, `enforcement`, `adaptive`, `console` and `shop` put parts that do not share
state, or meet only through what both treat as free, into one run: a variable `part`,
chosen at the start, says which of them moves, so that the run explores each state space
and not their product. Where one module's instance was still too large, `part` also picks
the actions that interleave: saving, reverting and deciding (`adaptive`), the lists and the
catalogue of the shop, the two lanes of a reset, faults and addresses (`evidence_cycle`).
Most theorems of section 4 are about the modules' own next-state relations, with all of
their actions together; those on the whole console and the whole shop are about the
specifications of the two runs.

**Why the bounds are enough to matter.** `MaxClock` 4 exceeds cache age plus the shortest
lifetime, so entries outlive their key, their cache age and several failed refreshes. Two
writes let a key be replaced while a scan holds the old value. Two observations in flight
are the least that race for one block. With `Batch` 1 every read is a full batch, so the
case "more is pending than one read returns" needs two entries only. Three requests in
`Take` are a prober, one holding a stale load and one with a late answer. A minute of 5
divides by neither rate, so both roundings occur, and eight instants see a bucket expire and
be created anew. Two pages and three versions let one page's save overtake another's and the
engine's write back come after both, on top of a document of either form; there, what is
under way and concerns nobody else is finished first (`Undelayed`). Two versions let a save,
a revert and a change of the file overtake each other, in any order. A window of two of the
four instants can be written late, be cut short, be skipped and end. Two polls on their way
are the least that come in out of order, and a window of two of three escalations lets one
leave while another enters. Four events are the fewest in which two clients ask twice. Two
resets are the overlap a timed-out dialog can cause; each of its two lanes meets the other's
only in what the route answers, which one reset shows. A page of events of at most 3 over 6
ids has full, short and empty batches, matches in each, and the scan cap of 2. Two starts of
the launcher see everything a killed one leaves behind, and two loops are the most its code
can start between two answers. Three calls, two of them in flight, are a sign-in, an order
and its retry or a late refusal. One fault in `evidence_cycle` is a crash, a raise or a lost
reply at any step; the invariants are proved for any number of them.

**Fairness.** `Sweep` (reflex): its goroutine's ticker. `Watch` and `BuildChain`
(settings): the watcher's goroutine polls while the process runs; weak fairness says that
a poll is answered now and then, since a failing poll changes nothing. `Cycle` (engine):
`run_forever` never leaves its loop, and a crashed process is restarted. `Enter`, `Step`
and `BackoffRuns` (limiter): requests under a limit keep coming, each call has a timeout,
time passes. `BootStep` and the polls (launcher): docker commands, downloads and health
checks have an end, timers fire. `PollFires`, `Arrives`, `Handled` and the two ends of a
write (live state): the browser's interval fires, a request is answered or fails, and
an outage ends. `Aborts` (reset): only the browser's 15 s timer; nothing is assumed of the
server or the stores. `Reload` and the arrivals (Events): its interval and its requests.
No fairness is asked of operators, of Redis or of clients: the antecedents of
`RequestTakesEffect`, `LimitsReturn`, `CatchesUp`, `TableFollows` and `CarriesOn` say what
has to remain true of them.

## 4. What is proved

Every invariant that a run checks and every action property is a theorem, the type
invariants of the composed runs included: for all constants satisfying the named assumptions
(`SourceConstants`, `StoreConstants`, `ReflexConstants`, `EnforcementConstants`,
`SettingsConstants`, `LimiterConstants`, `BucketConstants`, `AdaptiveConstants`,
`AdaptiveNames`, `InputConstants`, `LauncherConstants`, `SessionConstants`,
`OrdersConstants`, `BrowseConstants`, `ReadsConstants`, `CycleConstants`, `LiveConstants`,
`AdminConstants`, `ProtectionConstants`, `EventsConstants`), whatever the sets and the
values of the bounds. Each proof is an inductive invariant, defined in the component's
module under the properties it carries and tried on TLC before it was proved, with one lemma
per action.

* **`Gateway_proofs`** (policy store) – `StoreAlways`, and from it `DeadlinesRespected`,
  `RevocationsBounded`, `RefreshesComplete` and `StoreImplementsSource`. The bound on
  revocations is not inductive alone: an entry under construction must already be dated
  by the start of its refresh, and a retired serial must never come back; these are
  `StoreInv`. Completeness uses `RefreshInv`: a steady key is owed, in the batch, or
  collected. The refinement is step simulation with the identity mapping.
  (Live settings) – `SettingsAlways`, `ChainAlwaysRunsApplied`, `PublishedIsRunning`.
  `SettingsInv` says how far the three stores have come at each point of an apply, and
  that a block that could be refused is refused at the first.
  (Contract) – `LiveSettingsMeetContract`: the watcher implements `SettingsContract`, under
  `HistorySpec`, every step of which is one of `LiveSettings` (`HistoryAddsNothing`); that
  conversely each step of `LiveSettings` can be recorded is plain from `HistoryNext`, which
  conjoins to every action a value for the record.
  `HistoryInv` is what it takes: the request published last is no later than the one
  applied, that no later than the one read; what is being applied is the file or what the
  request that was read asked for; and the override is the last request. A publish that
  fails leaves the number of the request as it leaves the key. `Asks`, `Reads` and the
  publish of the file map to `Ask`, to nothing and to `Publish`. Here the absent values
  must not be blocks (`SettingsConstants`).
* **`Limits_proofs`** (reflex) – `ReflexAlways`, `ExemptNeverRefused`,
  `RunningBlockIsKept`. The invariant must speak of calls in flight: an observation may arm
  a block after the settings it loaded have been replaced, with an instant from before
  other blocks were armed or swept.
  (Quota) – `LimiterAlways`, `ProbesOneAtATime`, `BucketAlways`, `GrantsAreBounded`,
  `WaitsSuffice`. The bound on grants needs a potential: what was granted since *s*
  plus what a caller at the fastest rate could still find now is at most the burst plus
  the refill since *s*. The delicate step is the expiry of a bucket, where `Level` jumps to
  full: `BucketOK` says that it would have been full by then, also after the clock was set
  back. A bucket cut short by its policy's own deadline is never recreated under that
  policy. That a told wait suffices needs `PromiseInv`: the rest of the wait refills what
  is missing to a token, however the two `ceil`s rounded, or outlasts the policy.
* **`Enforcement_proofs`** – `EnforcementAlways`, `PersonDecides`, `StricterStands`, for any
  number of requests in the chain while snapshots, blocks and settings move. `InChain`
  says how far a request has been judged at each stage, `Judged` that a verdict is a
  person's, for which the reflex was not asked, or the stricter of two opinions.
* **`EvidenceCycle_proofs`** – `CycleAlways`, `EvidenceAccounted`,
  `EvidenceNotForgotten`: `InHand` locates each entry the process has read at each point
  of the cycle; without it nothing is known when `Ack` empties the pending list.
  `ClearsLast` rests on `ClearInv`: from the scan of a clear that nothing was carried
  across, only what it is about to delete predates the watermark. `InstructionsActedOnce`
  (an action property) rests on `InstructionsRead`.
* **`AdaptiveSettings_proofs`** – `AdaptiveAlways`, and from it `DecisionsAreMadeOnce`,
  `EnforcedIsApproved` and `SavingImplementsSavedConfig`. The refinement needs
  `PagesCurrent`: a page may hold an old configuration, but under the version in force
  only one the row has held under it, so that an equal version means that the page has read
  it or that the engine has written back since. `RowCurrent` says how little that write
  back may change: under an equal version only what the engine took from its file; under
  an older one it undoes what was committed since it read. For the keys the invariant must know that
  whatever is listed, being written or revoked was approved (`HandsDecided`); the window
  then follows step by step, since a decision is made once and `WriteKey` adds to the
  present no more than is left.
* **`Launcher_proofs`** – `LauncherAlways`, `InstalledStaysRunnable`,
  `CleanQuitsStop`. The invariant says, step by step of an update, which of the three
  files and the images already belong to the new release.
* **`Console_proofs`** – `LiveAlways`, `PendingIsAccepted`, `NoEscalationPasses`: an "ok" of
  one of the requests of an instruction means that the stream has it (`LiveInv`), which is
  what makes the mark set at the end true of every address. `AdminAlways`, `ResetIsSound`:
  past its TRUNCATE a transaction holds it or was cut off. `ProtectionAlways`,
  `EnforcingIsNeverUnfounded`: what is in force now was in force since every write still to
  be checked, and so was what a check has read. `ProtectionMeetsContract`: the page and the
  gateway it supposes implement `SettingsContract`, so that with `LiveSettingsMeetContract`
  one contract stands between the two components. `ReadsAreSound`: for any input that
  satisfies `ReadsTypeOK`, `RoutesSound`. Its lemmas are inductions: over the batches of a
  scan (`ScanSound`: what was found is what there is from the cursor up; a batch left early
  was left with everything above looked at), over the rank of a signal in a list, over the
  length of the list of attackers. `Induction` is stated there for sets and follows from the
  well-foundedness of < on the naturals, since the library's induction theorems take
  operators, which the installed provers cannot instantiate; a pigeonhole shows that an
  endpoint listed as missing has a client who asked for it twice. `PagesTile`: followed from
  cursor to cursor, the pages of `/api/events` show each matching entry once, in falling
  order, and leave none between them. `OnlyFullPagesStopShort` says what becomes of that at
  the end of the stream: entries are left behind a page without a cursor only if it is full,
  and then only the oldest ones, at most limit - 2 from the start. It delimits finding 3;
  `ScanEnds` is its induction. `LiveTyped`: the types of the live state are inductive only
  together with those of every snapshot and answer on its way (`LiveTypeInv`).
  `EventsAlways`, `TableIsOfOneView`: the count of older pages is zero exactly when the
  table has none (`EventsInv`), so that a table that reloads itself never mixes the rows of
  two filters; one that was paged may. `ConsoleTyped`, `ConsoleIsSound`: the invariants of
  the parts hold together of `ConsoleSpec`, which the run checks: `ConsoleInv` says of each
  part that it is at its invariant, whichever part moves.
* **`Shop_proofs`** – `OrdersAlways`, `OneSession`, `TableStaysSound`, `PagesFollowSwitch`:
  a call carries what its answer will need, whoever is signed in and whatever page is
  shown when it comes (`CallSound`, `ShownSound`). `BrowseAlways`, `PagesSettle`: timers
  fire in order, so it suffices that the filters of the URL are the last waited for
  (`WaitsForUrl`), that a load follows every change the admin's table does not show
  (`LoadsFollow`), and that a product is created before it is deleted (`LivesInOrder`).
  `ShopAlways`, `ShopTyped`, `ShopIsSound`: the same of the composed `ShopSpec`, by `ShopInv`.
  `BrowseSound` is claimed there for the behaviours that use its pages: in one of the orders
  pages alone nobody fetches a wish list, and the run sees it hold there only because its
  instance begins without wishes.

Only model-checked: the liveness properties (`SweptEventually`, `RequestTakesEffect`,
`EntriesSettle`, `LimitsReturn`, `CatchesUp`, `TableFollows`, `NothingHangs`, `CarriesOn`),
which are out of the prover's reach; and what is a matter of a single instance, such as
that the three violated statements of section 5 fail. Only proved, and by no run: the two
refinements of `SettingsContract` (a run of `HistorySpec` would have to bound the requests,
on which `RequestTakesEffect` sets no bound), `PagesTile` and `OnlyFullPagesStopShort`.

## 5. Disagreements found

1. `live_settings_observer`: a gateway that starts with the reflex off has no observer, so
   arming the reflex from the console has no effect until a restart.
2. `evidence_loss`: after a cycle that raises, the next one acknowledges ids whose
   entries were never processed.
3. `events_cursor`: a page of `/api/events` that fills up inside the last, short batch of
   the stream returns no cursor, and the rest of that batch cannot be paged to.

`AckedAccounted` states what does hold in place of 2, `PageGapless` in place of 3. Smaller
ones, met while modelling, have no run of their own:

* A restarted engine reclaims a single batch (`consumer.py:41`), though the comment above
  says "anything"; instructions are acknowledged before they are put through
  (`overrides.py:106`), so a crash loses them; a cycle in flight saves old campaigns after
  a clear (`clear-campaigns/route.js:56`). `ClearedStaysCleared` and `ActedOnce` state what
  holds instead.
* Observe loads the settings twice, though its comment speaks of one read for the whole
  decision; and the reflex's package comment says that the engine's decision wins, while
  the chain keeps the more severe one, which is what `StrictestStands` states.
* `reset/route.js:33` calls the two stores independent, but an unreachable Postgres throws
  out of the handler (`postgres.js:41`), and a Redis failure after the trim is reported as
  "nothing cleared".
* The launcher can run two watch loops at once (`main.js:187`), and a late poll may
  overwrite the phase while the dashboard shows; neither starts containers after a clean
  quit. A quit while a boot is bringing containers up may leave them running.
* The Protection page says "rejected" of a gateway that is only slow, and its timer
  replaces a draft being edited; the last of two tabs wins.
* The Adaptive page says "Changes are versioned and checked before saving"
  (`adaptive/page.jsx:414`) and the route refuses with "settings changed since this page
  loaded; reload before saving" (`adaptive/settings/route.js:34`), but the engine's
  `load_config` writes the row back unchecked: the document is of an older form under
  version 1; `LoadConfig` reads it; a page saves version 2; `WriteBack` replaces the saved
  configuration by the old one, and mode with it, under version 2. The saved values are
  lost without a trace but the audit record. `SavesOnWhatItRead` states what holds instead.
* The Adaptive page stays busy when an answer is lost; a revert compares no version. An
  engine that listed an approval before an operator revoked it may mark it active again.
* A row of the Policy page hides a key that lapses beside one that does not:
  `coalescePolicies` takes the smallest TTL, and -1 (a key without expiry) or -2 (one just
  gone) is shown as "no expiry" (`format.js:101`), though "the operator must see the first
  scope that will lapse" (`plane.js:177`). `RowHidesNoKey` claims the lapse only where all
  keys of the address have one.
* The setup warnings count every client towards "requests >= 2 * clients"
  (`setup-checks.mjs:117`), those too that asked once, so that enough scanners hide an
  endpoint which regular clients keep calling; and clients that sweep the ids of one
  collection make it an endpoint, as `/users/{id}` is meant to be one. `SweepIsNoRoute`
  states the direction that holds.
* The Protection page cannot always send back what it was given, which
  `gateway-settings.mjs:188-191` is there to allow: a zero `block.duration` or reputation
  cooldown, which the page accepts as "0s", is published as "" (`settings.go:348`) and then
  refused in every save; so is a file's `requests_per_minute` of 0, a signal name outside
  `KNOWN_SIGNALS`, or a list that the file leaves out and the gateway publishes as null.
* Escalations that left and re-entered the poller's window may flash twice; the mark of an
  instruction the engine refuses is never cleared; a late reload drops older pages of the
  Events table, and an older page still on its way when the filter is changed is appended
  to the rows of the new filter and stops the reload (`events/page.jsx:138`).
* In the shop a late 401 of an old token ends a new session, what is put in the cart while
  an order is on its way is cleared with it, a retried checkout is a second order, and a
  wish-list toggle behind its timer is applied to whoever is signed in when it fires.

## 6. Not modelled

Parsing, header handling, forwarding, charts and tables drawn from one answer, wording of
explanations, geolocation and the pattern matching of the injection detectors carry no state
whose order matters. In the console: the history and health routes, the role check,
emergency overrides of the Adaptive page, and the field rules of the Protection page. In the
shop: other tabs and browser history, static pages, the admin's users and orders, the mock
data itself. The remaining components below are planned.

## 7. Plan

1. **Telemetry**: the bounded asynchronous queue, the in-flight count, the heartbeat.
2. **Detectors**: the evidence slot per address, the sliding windows with caps and
   eviction (brute force, route scanning, enumeration, flooding), the reputation feed;
   then composed with `Reflex` in place of free evidence.
3. **Ownership guard**: held response and violation window.
4. **Policy lifecycle**: the writer's budget and standing policy check, simulation,
   automatic approvals and superseded policies, composed with `AdaptiveSettings`.
5. **Adaptive windows, baselines, risk, campaigns, correlation, feedback**: operators
   against reference definitions, and the campaign count under replay.
6. **Console**: `ConsoleAdmin` composed with `EvidenceCycle`, by a contract like
   `SettingsContract` for the keys both delete.
7. **Proofs**: for the modules above as they come.
