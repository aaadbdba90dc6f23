# kyqra-crawler in TLA+

TLA+ modules of the crawler's job lifecycle, the inside of a crawl attempt with its
target guard and proxy, the callbacks, the durable commands, the job submission and
the installer, the TLC runs that check them and the TLAPS proofs about them.

## 1. The system

A Fastify API, crawl workers and a callback worker share PostgreSQL (the rows of
`jobs`, `results`, `job_requests`, `command_requests`, `job_events`) and Redis
(BullMQ's two crawl queues, its callbacks queue, and rate counters). Every
process is a single event loop; between processes, and between the awaits of one
process, everything interleaves.

| Component | State | Operations | Correct when |
| --- | --- | --- | --- |
| Crawl worker (`workers/crawl.ts`) | attempts: job, counters, open pages | `processCrawlJob`, `processPage`, the catch clause; BullMQ's retries and stalled check | completion is final; the stored progress is that of the rows; an open job ends; nothing late is persisted |
| Rows (`repository.ts`, migrations) | status, results, progress, enqueue outcome | `createJob`, `markJobRunning`, `set_job_status`, `insertResult`, `cancelJob`, `resetJobQueued`, `recordJobEnqueueOutcome` | a status is only left for one it may be left for |
| Crawl queues (`queues/crawl.ts`, BullMQ) | entries: state, attempts, lock | `add` under a fixed id, `removeCrawlJob`, `findCrawlJob` | an open job has a live entry or a handler on its way to one |
| Completion callbacks (`queues/completion-callbacks.ts`) | entries of the callbacks queue | `queueCompletionCallbacks` | each callback once, in order, only of completed jobs, with the stored progress; in the end all of them |
| Callback delivery (`workers/callback.ts`) | BullMQ's | `deliverCallback`, retries, revival by `enqueueOrReviveCallback` | at least once, same event id |
| Job submission (`api/app.ts`) | `job_requests`, rate counters | `POST /jobs` | one job per key; an answer names the right job; "accepted" means enqueued; the rate holds |
| Cancel, retry (`api/app.ts`), reconcile (`api/canonical.ts`) | none of their own | reset, remove, add, record, announce | a reconcile repairs what a crash left |
| Durable commands (`api/idempotency.ts`) | `command_requests` | `executeDurableCommand` | an effect begins at most once; an outcome once told is always told |
| Target guard (`delivery/security.ts`) | per attempt, the fingerprint of each host; per navigation, its pins | resolve, compare, pin, follow a redirect | the connections of an attempt to a host go to one checked set of addresses, and no page from elsewhere is kept; a steady host is never refused |
| Pinned proxy (`delivery/pinned-proxy.ts`) | connections, upstreams, open or closing | request, CONNECT, upgrade, timeout, `close` | it always closes, no upstream outlives it for good |
| Frontier (`frontier/canonicalize.ts`, the crawler's request queue) | one request per key | `canonicalizeUrl`, `urlHash`, add, take, give up | a handled page has its row, no link of it is lost |
| Extraction | none | `extractGenericData` | |
| Remediation installer (`scripts/codestra-kyqra-remediation-admin.in`) | stores, services, images, files, backup | install, the EXIT trap, rollback | services only run over stores of one point in time; a failed install is undone |
| Migrations, other scripts | database, files | up, down, release, retention | keys stay unique |
| Configuration, auth, dashboard, OpenAPI, logger, smoke test | none | | |

How they interact: the API inserts a row and adds a queue entry, never in one
transaction; a worker takes the entry, claims the row, crawls, completes the row
and adds callback entries; cancel, retry and reconcile change the row first and
the entry afterwards, deciding by a status read before their idempotency key was
reserved; the callback worker delivers.

What is hard: every one of those pairs of writes can be cut by a crash or a lost
reply, or be interleaved with another handler or worker; BullMQ may run one job in
two workers (a stalled attempt is not stopped) and the crawler runs one page twice
(a timed out handler is not stopped); pages of one attempt share a counter and a
map of fingerprints across awaits; servers may answer every lookup differently; the
installer can fail in the middle of any command. `PROJECT.json` lists the hazards one by one
with their lines.

## 2. Modules

| Module | What it is |
| --- | --- |
| `JobData` | constants and data of a job: statuses, progress, the plan of callbacks |
| `JobLifecycle` | abstract: what the crawler promises about a job |
| `CrawlJobs` | the core: rows, crawl queue, callbacks queue, workers, API handlers, faults |
| `CrawlJobsProofs` | its proofs: types, refinement, callbacks |
| `CrawlJobsCalmProofs` | its proofs: failed creates; progress and late results while no lock or deadline is lost; open jobs are driven while faults are few |
| `CallbackDelivery` | abstract: what the callbacks of a completed job are promised |
| `CallbackQueue`, `CallbackQueueProofs` | announcers, the callbacks queue and `deliverCallback`, and proofs |
| `CommandLedger` | abstract: what durable commands promise their callers |
| `DurableCommand`, `DurableCommandProofs` | `executeDurableCommand` and proofs |
| `SubmitJob`, `SubmitJobProofs` | `POST /api/v1/jobs` and proofs |
| `CrawlSubmission`, `CrawlSubmissionProofs` | composes `CrawlJobs` and `SubmitJob`: the first does what the second says of the system; proved |
| `PinnedTargets` | the target guard of one attempt |
| `PinnedProxy` | extends it: the proxy of a browser attempt |
| `CrawlAttempt`, `CrawlAttemptProofs` | extends both: the inside of one `processCrawlJob`, and proofs |
| `Installer`, `InstallerProofs` | install, automatic rollback and rollback, and proofs |
| `MCCrawlJobs`, `MCCrawlAttempt`, `MCCallbackQueue`, `MCDurableCommand`, `MCSubmitJob`, `MCInstaller` | instances for TLC |

### CrawlJobs

A worker slot (`attempt[s]`) is one run of `processCrawlJob`; its `pc` names the
await it is about to make, and each action is that await with all that follows
until the next one. `page[s]` holds the page requests of the run, `orphans` the
handlers the crawler has given up on after 60 s and which are still running.
`cmd[c]` is one API request likewise. `entry[j]` is the job's BullMQ entry with
attempts, stall count and lock owner. `sent` and `told` are the entries of the
callbacks queue. `life` counts resets and only serves `NoLateResult`; `budget`
bounds the faults: a page failing for good, a page timing out, a worker's
statement failing (or its reply being lost), Redis failing (`queue.add` and
`removeCrawlJob` with or without effect), a worker or API process dying, a slot
losing its lock while it runs on.

External, modelled from how the code uses it: BullMQ (a fixed `jobId` makes `add`
keep an existing entry; `remove` refuses a locked one; `attempts` and backoff;
`maxStalledCount` 1; a worker that lost its lock cannot move its entry) and the
crawler library (offers every page until it is handled or has failed for good).

Merged or abstracted, and why no property can tell:

- the two status checks of a page (`preNavigationHooks` and `processPage`) are
  one: the second decides alone whenever the first has passed;
- the insert of a page and its `updateProgress` are one step: only the row is
  read by others;
- the progress read at line 129 is overwritten at line 275 before it is told;
- `findCrawlJob` and `getState`, and the reads and removals of the two crawl
  queues, are one step each: a job is only ever in one of the queues;
- links are not followed: the set of pages is fixed, any of which may fail
  (`CrawlAttempt` follows them);
- events, error texts, timestamps and tenants are left out (each row has one
  tenant; rows of before migration 0003 are taken to have theirs);
- the completed branch has no catch clause, the model lets it pass through
  `catch`, which changes nothing for a completed row.

`JobLifecycle` has four variables (`status`, `results`, `stored`, `sent`) and one
action per promise. `CrawlJobs` instantiates it with its own variables of the same
names, so the refinement mapping is the identity, and what has to be shown is
that no interleaving of the other variables makes a step the abstract module does
not have.

### CallbackQueue

What `CrawlJobs` takes for granted of the callbacks it has `sent`, for the plan of
one completed job (jobs share nothing but delivery slots, and completed jobs keep
their plan, as `CompletionFinal` shows). `announcer[a]` is one call of
`queueCompletionCallbacks`, a worker's or a reconcile's: it looks at each callback
of the plan, adds it, or revives it when it has failed; between the look and the
revival anything may happen. `delivery[s]` is one `deliverCallback`. External: BullMQ,
as above, and `Job.retry`, which refuses an entry that is not failed (then the
announcer throws) and leaves `attemptsMade` alone, so that a revived callback has
one attempt, not six. Abstracted: an announcer that dies, or whose call fails, takes
no further step; a backoff is a wait; the body and the signature; what BullMQ makes of
a result is part of the step that ends the delivery.

`CallbackDelivery` sees a phase per callback (absent, pending, delivered, dead) and
what the receiver accepted; the refinement mapping reads the phase off the entry.

### DurableCommand

One action per await of `executeDurableCommand`: reserve, read back, effect,
complete, reply; `ran[k]` is the history of who began the effect of identity `k`.
Any request may die between any two of them. In `CrawlJobs` each request has an
identity of its own; repetitions are this module's subject.

`CommandLedger` knows neither handlers nor processes: an identity is claimed by the first
to ask, its effect begins once and is settled once, only what was settled is told, and only
for the payload it was settled for, and only who cannot be told it is refused. The mapping
reads claim and settlement off the row; what a request asked for is its key and payload.

### SubmitJob

One action per await of the handler, from the first lookup to the answer, over
rows, rate counters and a clock of minutes. `entry[j]` says that the job *has had*
an entry. What other handlers and workers do to the row and the queue in
the meantime is one action per statement of theirs, each possible at any time its row
allows: `Proceed` and `GiveUp` (workers, reconcile), `Cancel`, `Reset` (retry, reconcile),
`Enqueue` (their add) and `RecordFound` (reconcile's outcome).

`CrawlSubmission` puts the two modules together. It adds to `CrawlJobs`, as history, what
`SubmitJob` keeps and `CrawlJobs` forgets: which jobs have had an entry (`had`), what a create
was answered (`reply`), how many creates were struck by a fault (`struck`). In the mapping
each job is a submission with a key of its own that has passed lookup and rate limit, both of
which `CrawlJobs` leaves out; since it starts there, the claim is about steps:
`SubmitsAsSubmitJob` says that every step of `CrawlJobs` is one of `SubmitJob`'s next-state
relation or changes nothing it sees. It is proved, not run.

### CrawlAttempt, PinnedTargets, PinnedProxy

`CrawlJobs` sees an attempt from outside, here is its inside: the start guard
(`GuardStart`), then up to `Concurrency` page handlers at a time, each of them stopping
at every await of `preNavigationHooks`, the navigation and `processPage`, and the
`finally` clause. `handler[w].pc` names the await to come; `zombie` marks a handler
the crawler has given up on after its timeout and which runs on. A request of the
frontier is kept under its unique key; `records` is the one `progress` object all
handlers share, `handler[w].read` what `progress.records +=` has read before its await.

A URL is a page and the number of its trailing slashes. That is all of
`canonicalizeUrl` that changes again at a second call; the fragment, the case of the
host and the tracking parameters are gone after the first. Crawlee's unique key takes
a slash off, too, and is external.

`PinnedTargets`: a host's servers may answer any set of `dns[h]`, in any order, at each
lookup. `Approve` is one call of the resolver from the answer on (there is no await
between the comparison and the setting of the fingerprint). Which names are denied and
which addresses are prohibited are constants. `dialled` is a history: the addresses a
connection may have gone to. For http, `createPinnedCrawlLookup` resolves and pins, and
a redirect is followed by its name alone, its host resolved when it is connected to.
`Literals` are the hosts that are an address themselves. The resolver answers them
with that address (`net.isIP`), so `GuardStart`, `GuardPage`, `Verify`, `RouteGuard` and the
proxy check them like any host. A socket, however, calls no `lookup` for a literal: where a
redirect of an http page leads to one, `Lookup` connects with nothing resolved, checked or
pinned. `handler[w].at`, the host the handler has got to, lasts until the insert.
`createPinnedCallbackAgent` pins one address for one request and keeps nothing.

`PinnedProxy`: `conn[c]` is a connection of the browser with what the proxy does for
it. The browser asks for any host at any time (`BrowserAsks`), has any host guarded
(`RouteGuard`), drops connections or keeps them. A tunnel's upstream is in the set
`close()` destroys, a request's is not; a handler still resolving when `close()` comes
opens its upstream afterwards.

Abstracted: patterns are the set `Included`; what a page says is left out; a thrown
await is `HandlerFails` wherever it happens; opening the frontier, the proxy or the
browser, and the statements of the worker, fail in `AttemptThrows`. The timeout of a
request handler is only offered from `verify` on: it is the crawler's timeout around the
request handler, navigations have one of their own, whose error is `HandlerFails`.

### Installer

`pc` names the command to come, `After` is the order of the script. A command succeeds,
fails having done a part of its work, or the script is killed. `Exits` and
`CommandFails` are what bash makes of a failure: the EXIT trap runs once, the handler
it calls is called in `... || true`, and there `set -e` is off, so that the next command
runs. `running` and `image` are the containers; `queue` and `db` count the writes the
two stores hold; a backup holds a copy of either. Services that run write to both
stores at any time. Nginx, firewall, Compose file and sources are one variable
(`files`): they are written and restored together. What the script verifies before its backup
changes nothing and is the guard of `Start`. Not there: locking (one invocation at a
time), checksums, and disks that lose what was written.

## 3. Runs

| Run | Instance | Shows |
| --- | --- | --- |
| `crawl_cancel` | 1 job, 1 page, 2 slots, 3 of create/cancel/retry, 2 attempts, one each of page, database, Redis, worker faults | `TypeOK`, `StoredCountsRows`, `NoLateResult` |
| `crawl_lifecycle` | 1 job, 1 page, 2 slots, 3 of create/cancel/reconcile, 2 attempts, a stall and a page timeout | `AnnouncedOnlyIfCompleted`, `AnnouncedInOrder`, `CompletedIsFinal`, `ImplementsLifecycle` (refinement of `JobLifecycle`) |
| `crawl_driven` | the same with create/retry/reconcile, 3 attempts, page, database, Redis and worker faults | `OpenJobIsDriven`, `CreateFailsOnRecord`, `ToldWhatIsStored` |
| `crawl_live` | 1 job, 1 page, 1 slot, 2 of create/cancel/reconcile, 2 attempts, 2 page errors, a Redis fault, a worker and an API crash | `Settles`, `Announced`, `ReconcileRecovers` (liveness) |
| `crawl_attempt` | 2 pages in 3 spellings each, 4 hosts (one an address), 3 addresses; http: 2 handlers, 1 redirect, 1 timeout; browser: 1 page at a time, 1 connection; 1 retry, depth 1 | `TypeOK`, `OneAddressSet`, `FingerprintStands`, `NoFalseAlarm`, `RecordsNeverAhead`, `LossIsRepaired`, `HandledHasRow`, `CrawlIsClosed`, `AttemptEnds`, `UpstreamsEnd` (the last two liveness) |
| `callbacks` | 1 callback, 3 announcers, 2 delivery slots, 2 attempts, 2 worker faults | `TypeOK`, `PostsBounded`, `SuccessRevivesAll`, `ImplementsDelivery` (refinement of `CallbackDelivery`), `Settles` (liveness) |
| `commands` | 3 requests, 2 identities, 2 payloads, 2 deaths | `TypeOK`, `EffectAtMostOnce`, `ImplementsLedger` (refinement of `CommandLedger`), `AnswerIsDurable`, `Answered` (liveness) |
| `submit_jobs` | 3 requests, 2 keys, 2 payloads, 2 minutes, limit 1, 2 faults | `TypeOK`, `OneJobPerKey`, `AnswerNamesTheJob`, `AcceptedIsEnqueued`, `RateLimited` |
| `installer` | 3 services, 3 invocations, 1 fault in each, 2 writes | `OnePointInTime`, `FailedInstallIsUndone` |
| `cancel_deletes_retry` | create, cancel, retry, no fault | finding 1 |
| `late_result` | create, cancel, retry, one page timeout | finding 2 |
| `rollback_goes_on` | 1 invocation, 2 faults | finding 3 |

Why the bounds are enough for what they show. Two slots are what a second attempt of one
job needs; `maxStalledCount` allows no third beside them. Three commands are a create and
two others that race, or a cancel and a retry. Two attempts have a last one and one that
is not; `crawl_driven` takes three attempts, so that the faults which can end an attempt
without anybody recording it are fewer than the attempts. `crawl_live` has as many page
errors as attempts, so that a job can fail for good, and one cut of each kind besides; its
two commands are the create and the cancel or reconcile that meets what a cut has left.
One fault of a kind is enough to cut any one pair of writes. Jobs do not share rows or
entries, only slots, and a slot that is at work on another job is a slot that has not yet
taken this one's entry. Callbacks of one plan share nothing but the order in which an
announcer comes to them: `callbacks` has one of them, and the theorems `RevivesAll` and
`DeliveryImplemented` are about any plan. Three announcers are needed for two to race for
a revival: the one that added an entry has passed it. `submit_jobs` has two keys to tell
jobs apart and one key for three requests to fight over; limit 1 is reached by two
requests. `crawl_attempt`: two handlers are what it takes to lose a record or to race for
a fingerprint, and two pages of which one links to the other, and both to further
spellings of themselves, to reach the frontier's key, depth and `maxPages`. The literal is
the prohibited address: what a redirect to it brings must not be kept. A browser
attempt has one page at a time, since what runs beside it there, sub-resources and proxy
connections, does so anyway; its handlers' timeouts are left to the http attempt, which
has the same code. What does not depend on the instance is proved. `installer`: a fault
strikes an install and another the rollback somebody asks for afterwards; writes before,
between and after the snapshots are two. `CHECK_DEADLOCK FALSE`: all commands spent and
all jobs ended is where the system really rests.

Fairness. `CrawlJobs!Fairness`: an event loop goes on with every attempt and
handler it has begun (WF on `Work(s)` and `Handle(c)`), an idle slot takes waiting entries
and BullMQ's stalled check and backoff timers fire. Nobody is made to send a
command, no fault has to happen, a death ends a process for good but its slot
may take other entries (containers are restarted: `restart: unless-stopped`).
Weak fairness is enough. `CallbackQueue!Fairness` assumes the same of deliveries, whose
requests end by their own timeouts: the receiver owes no answer, and announcers owe
nothing. `DurableCommand!FairSpec` assumes the first of these only.
`CrawlAttempt!Fairness`: the event loop goes on with what the attempt has begun, for every
await returns or throws (navigations, lookups and statements have timeouts); sockets
that were destroyed close; an upstream the browser has left is ended by its idle timer. The
proxy's handlers, the browser, the servers and the handlers' timeouts are under no fairness.

Restrictions that matter, and what lies outside:

- `StoredCountsRows` and `NoLateResult` are checked without stalls and page
  timeouts. With a page timeout `NoLateResult` fails (finding 2); a handler left behind may
  likewise insert between the count and the completion.
- Safety runs have no API crash: a handler that dies leaves what a handler leaves
  that is never scheduled again, and nothing but fairness schedules one. API
  crashes are in `crawl_live`, where they make a difference.
- `Settles` and `Announced` let go of a job when an API handler has died. Without that TLC
  finds a queued job without an entry, and a job that is completed and not announced
  until another reconcile: a create with a lost reply fails the job, a reconcile resets
  it and has still to remove the entry; that entry carries the job to completion, the
  worker dies before the callbacks, the removal deletes the entry, the API dies
  before the add. `Announced` also ends with an entry that has failed: the attempts
  are used up by lost calls, and a reconcile announces.
- `OpenJobIsDriven` is checked and proved without cancels (finding 1) and with fewer
  faults than attempts, one Redis fault among them (`FewFaults`). When the last attempt
  dies, or a statement outside the `try` fails on it, the row stays `running` with a
  failed entry, and reconcile answers that nothing is required.
- `ReconcileRecovers` is stated for a reconcile that meets no attempt at work, and lasts
  until the next fault that may cut what it has begun; each such fault takes another reconcile.
- `LossIsRepaired` holds if no handler has timed out: one left behind may still insert, or
  set the counter back, between count and completion.
- `OneAddressSet` has one exception for what is connected to, spelled out in
  `FollowedToLiteral`: an http redirect to a literal that nothing else in the attempt has
  had resolved. See the note at the end of section 4. It has none for what is kept.
- `HandledHasRow` lets go of a cancelled job: its pages find nothing to insert into.
- `FailedInstallIsUndone` and `OnePointInTime` hold with one fault per invocation. With a second
  one, in the automatic rollback, see finding 3. An install that is killed is not undone by
  itself: no trap runs; `OnePointInTime` holds then, too.

## 4. Findings

1. `cancel_deletes_retry` (code bug, `api/app.ts:261`, same in
   `api/canonical.ts:133`). `cancelJob` commits, a retry resets the row, removes
   the entry and adds a new one, and then the cancel's `removeCrawlJob` deletes it.
   The job stays queued, nothing will run it; a reconcile repairs it. The
   integration test of this race expects the entry to be there.
2. `late_result` (README.md:73 says "Cancellation is terminal: an in-flight fetch
   cannot persist a late result"). `insertResult` asks whether the job runs, not
   whether it is still the same run: a handler that outlived its timeout before
   the cancel persists into the run a retry has started.

3. `rollback_goes_on` (code bug, `scripts/codestra-kyqra-remediation-admin.in:280`).
   The trap calls `do_rollback || true`, where bash does not heed `set -e`. A command
   that fails in the automatic rollback, such as `pg_restore`, is followed by the next one: the
   services are started over an empty database, or one that is not of the time of the
   restored queue, and `record PASS` is reached if the health check passes. The
   comment at line 349 and `docs/DEPLOYMENT.md:32` promise that writers stay stopped.
   The same function called as the rollback subcommand stops at the failing command.

Beside these, seen in reading and modelled as it is, without a run of its own: README.md:81-85
lists the denial of private addresses and "redirect destination revalidation" as enforced
before every navigation. For http, `followRedirect` (`workers/crawl.ts:249-255`) calls
`validateCrawlRedirectTarget` (`delivery/security.ts:108-124`), which looks at the
protocol, the credentials and the name. A redirect to a name is checked by the lookup of its
connection; for a redirect to an address literal no lookup is called, and the connection
is made before the address is checked. `guardTarget(loadedUrl)` (`crawl.ts:99`) refuses the page
afterwards if the address is a prohibited one. `OneAddressSet` says both halves: what may be connected to, and that nothing
of it is kept. A check of literals in `validateCrawlRedirectTarget` would make the exception
go away. The proxy of a browser attempt resolves every request, literals among them.

## 5. Proofs

All for arbitrary constants: any numbers of jobs, pages, slots, requests, any budget of
faults, stalls and timeouts included; any hosts, zones, links and handlers; any services.
Only where a paragraph below says so does a theorem bound the faults (`Calm`, `FewFaults`,
`OneInstallFault`). Assumptions are those of the modules (`DataAssumption`,
`CrawlAssumption`, `CallbackAssumption`, `CommandAssumption`, `SubmitAssumption`,
`TargetAssumption`, `AttemptAssumption`, `InstallerAssumption`): a plan has no callback
twice, kinds are known, `None` is none of the values, bounds are natural numbers, URLs and
addresses are finitely many, an address literal has itself as its only answer.

`CrawlJobsProofs` proves

- `TypeCorrect`: `TypeOK` is inductive as it stands. It contains that a completed job has
  a stored progress, which the catch-up branch of `processCrawlJob` and reconcile rely on;
- `Implements`: `CrawlJobs` implements `JobLifecycle`;
- `CompletionFinal`: no step touches status, rows or progress of a completed job;
- `AnnouncedCompleted`, `AnnouncedOrdered`: callbacks only of completed jobs, and
  in plan order.

The argument. Only two kinds of steps could break a promise: announcing for a
job that is not completed, and skipping a callback. `Announcers` says that
whoever lists or announces (a slot, a reconcile; a reconcile that has *read*
completed, too) does so for a job that is completed, and that his plan is the plan
of the job's present rows, of which all callbacks before his next one are sent. It is
needed because nothing in the announcing step itself looks at the row. It is inductive because a
completed job is frozen (`LifecycleFreezes`), and frozen because every step is one
of `JobLifecycle`'s (`LifecycleStep`), which uses `Announcers` of the state before: the induction
runs over both at once. Order then follows from the abstract steps alone
(`Ordered`): rows are distinct, so is a plan, and a callback that was sent had all
before it sent.

`CrawlJobsCalmProofs` proves first `CreateFailsRecorded`, under any faults: a handler at
work has an existing job, and one that resets, removes or adds again is not a create's
(`RecordInv`). The other three are not true under all faults, and the theorems say so:
they assume `Calm`, no budget for stalled locks and for pages that outlive their
deadline (pages, workers, handlers, PostgreSQL and Redis may fail as often as they like). The
`late_result` run shows what one such page does to `NoLateResult`; two attempts that a
lost lock lets run at once may insert after the other one has counted.
`CalmInv` is the argument: an attempt at work holds the
lock of its job's active entry, so a job has one attempt (`SlotInv`); one that may
persist is of the present life of its job, and what it has counted is the number of
rows (`SlotInv`); whoever announces, a slot or a reconcile, carries the stored progress
(`SlotInv`, `CommandInv`); there are no orphans. Each step of a slot touches its own
job only (`Acts`), so other slots are not disturbed (`OtherSlot`). From these:
`StoredCounts`, `ToldIsStored`, `NothingLate`.

`OpenJobDriven`, in the same module: no open job is left without an entry, a handler that
will add one, or one that will end it, for any number of creates, retries and reconciles
at once. It assumes `FewFaults`: `Calm`, no cancel (finding 1), no API crash, at most one
Redis and one worker fault, and fewer page and database errors together than an entry has
attempts. With two Redis faults it is false: a create's add fails, a retry adds an entry,
and a reconcile at the same time removes it and is told that the removal failed.
`DrivenInv` counts: a live entry has more attempts and stalls left than faults may still
strike (`EntryLasts`), and so has its attempt (`AttemptLasts`), so that only an attempt
whose job somebody has failed, or means to, loses its entry for good. Until the Redis
fault has come no job has been failed, its entry was never removed, and nobody is about to
(`FirstLife`), so the one handler whose add fails is the only one that records a failure.
And an open job has an entry or one of these handlers (`Driven`).

`CallbackQueueProofs`: what an announcer has passed is queued and, if it was dead at the
beginning, revived (`PassedOver`); what is dead stays so until revived (`DeadStays`), which
is why a callback seen alive was not among the dead; a slot's acceptance is the
receiver's (`VerdictsHold`). From these: `CallbackTypes`, `RevivesAll` and
`DeliveryImplemented`, the refinement of `CallbackDelivery`, step by step.

`PostsAreBounded`, in the same module, needs more, as the bound alone is not inductive.
`PostsInv` adds to what is allowed against what has been sent all that may still be,
namely the deliveries about to connect and what the entry owes (`Owed`: one if it waits,
the attempts left, one repetition if it has not stalled yet). Each step takes as much
from one as it gives to another, or is a revival, which raises the allowance.

`DurableCommandProofs`: per identity, `Owned` (a row without outcome has at most
one request at work on it, the one it names), per request, `Working` and `Told`
(what it holds and what it was told is what the row says). From these:
`CommandTypes`, `AtMostOnce`, `Matches`, `Durable`, and, step by step,
`CommandsImplementLedger`. The refinement needs more than the promises it implies: who is
about to have the effect is the owner and the first (`Working`), and an answered request is
over (`Untold`).

`SubmitJobProofs`: a job carries key and payload of its request (`JobIsOfItsRequest`), a
request past the insert has its job (`HandlesItsJob`), only a request that is over has
been told of one (`AnsweredIsDone`). `QuietStep` shows once that a step which touches no
key or payload keeps all of it; the two finds and `Create` are proved by themselves. From
these: `SubmitTypes`, `KeyHasOneJob`, `NamesItsJob`. `RateHolds`: a minute's counter is at
least the number of requests it let pass, and the last one it lets pass sees it at the
limit (`RateInv`). `AcceptedStays`: a job that is on record as queued, runs or is
completed has had an entry (`EnqueuedInv`), and only such a job is answered as accepted.

`CrawlSubmissionProofs` proves that what `SubmitJob` takes for granted of the rest is what
`CrawlJobs` does, `CrawlSubmits`, and that a job that is answered as queued, recorded as
queued, running or completed has had an entry, `OnRecordEnqueued`. `HistoryInv` is the
invariant: who works on an entry, has read one or goes to record it was there after it
(`Traces`); a job has one create, unanswered while it is at work, since a create only
begins on an absent job (`OneCreate`); creates struck are at most the faults spent
(`HistoryTypes`). The steps: a worker's is `Proceed`, `GiveUp` or nothing
(`WorkerSubmits`); another handler's is one of `Cancel`, `Reset`, `Enqueue`, `GiveUp`,
`RecordFound` or nothing (`OthersSubmit`); a create's own is the action of `SubmitJob` of
that name (`CreateSubmits`, `CreatorSubmits`).

`CrawlAttemptProofs` proves the safety half of `crawl_attempt`, in four layers.

- Guard. `GuardHolds`: the invariant `GuardIInv` says that the fingerprint of a host is a
  checked answer of its servers (`GuardInv`), that what a navigation has pinned is the
  fingerprint (`PinsAgree`), that a handler connects to a host that may be named and inserts
  from one that has a fingerprint (`PlacesKnown`), and that requests keep URL, key and depth.
  `OneAddressSet` alone is not inductive: a pinned navigation connects without looking at
  the fingerprint, and a literal may be resolved after it was connected to; that the two
  addresses agree is in `GuardInv`, from the assumption that a literal is its only answer.
  Every step is one of four things for the targets (`TargetStep`), which is all
  `FirstFingerprintStands`, `ConnectsToOneAddressSet` and `SteadyHostIsServed` need.
- Counter. `CountInv`: what a handler has read is at most the number of rows, because
  rows only grow. `RecordsAreBehindRows` follows, for any number of handlers.
- Completion. `Settled`: once `run()` has returned no handler is at work unless one
  has timed out, so that nothing is inserted after the count: `StoredRecordsAreRows`.
- Frontier. `RowsInv`: a handler past its insert has the row of its request, under the
  request's hash, which is its key; `Covers`: what a handled request links to is known
  or does not fit, and stays so, since the frontier only grows.
  Both hold for zombies, too, whose requests are tried again by others. From these
  `HandledPagesHaveRows` and `NoLinkIsLost`.

`InstallerProofs` assumes `OneInstallFault`: at most once in an install a
command fails or the process is killed. The
`rollback_goes_on` run shows what two do. `InstallerIInv` follows the script: who runs it
and whether anything may still fail (`ScriptInv`), what a rollback has restored at each
step (`RollbackInv`), that nothing runs during an outage (`ServiceInv`), that up to the
move of the pointer nothing is lost and a complete backup comes about (`BackupInv`), and
that it is what the services had written, for as long as only the new image writes
(`CutoverInv`). `OnePointInTime` is not inductive by itself, as it says nothing while no
service runs. From these: `OnePointKept`, `FailedInstallsUndone`.

Only model-checked: the liveness properties (`Settles`, `Announced`,
`ReconcileRecovers`, `Answered`, `AttemptEnds`, `UpstreamsEnd`, `CallbackQueue`'s
`Settles`), which are out of this prover's reach. Every safety invariant and action
property of the passing runs is a theorem, and so is every refinement.

## 6. What is left

- that an attempt of `CrawlAttempt` implements what `CrawlJobs` says of one;
- a safety property of `PinnedProxy` by itself, beside those of the guard it connects by.

Not modelled:

- extraction: a pure function of a page, nothing depends on what it finds;
- authentication, dashboard, OpenAPI document, configuration, logging, browser smoke
  test: no state that changes;
- migrations: the up migrations define the rows of the other modules; the down
  migration of 0003 rewrites keys in one statement while everything is stopped. Its
  replacements are longer than any key and end in a job id, which settles their uniqueness;
- release, backup and policy scripts: linear, each command ends the script when it fails;
- retention: deletes rows of 30 days, whatever their status; the models assume no job
  gets that old.
