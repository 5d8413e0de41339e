# Verification of the Elygate gateway

TLA+ models, TLC configurations and TLAPS proofs for the core of Elygate
(`apps/gateway`), an AI gateway that runs on Bun and PostgreSQL without Redis.
Paths below are relative to the repository; `gw/` stands for `apps/gateway/src/`.

`tlc -config X.cfg MCModule` repeats a run, `tlapm XProofs.tla` a proof.
`PROJECT.json` lists the components, the runs, the mutants of the code each
property finds, the source lines of every definition, the hazards of the code
and the theorems.

## 1. The system

One or more gateway processes serve API requests. A request passes the
dispatcher (`gw/services/dispatcher.ts`), which picks a channel (an upstream
account), pre-deducts an estimate from the user's and the token's quota, calls
the upstream, settles the actual cost and hands the billing record to a queue.
Each process is a single JavaScript thread: code between two `await`s is atomic,
and everything else interleaves. PostgreSQL is shared by all processes.

### 1.1 Components, state, operations

| Component (code) | State | Operations | Module |
| --- | --- | --- | --- |
| Dispatcher and quota ledger (`gw/services/dispatcher.ts`, `billing.ts`) | `users.quota`, `tokens.remain_quota`, `idempotency_keys`; per request: effective group, candidates, `preDeducted` | pre-check, settle, refund, retry, stream settlement, replay | `Dispatch` |
| Concurrency slots (`dispatcher.ts`, `gw/services/ratelimit.ts`) | `keyConcurrencyMap`, `packageConcurrencyMap`, `concurrencyWaiters` | poll, acquire, queue, wake, time out, release | `ConcurrencySlots` |
| Billing log queue (`billing.ts`, `jobQueue.ts`) | `billingQueue`, `isFlushing`, retry timers, pg-boss jobs, log rows and `used_quota` | send, fallback, fetch, flush, post, retry | `BillingQueue` |
| Circuit breaker, health check, proactive checker (`circuitBreaker.ts`, `health.ts`, `routes/admin/channels.ts`) | the channel row (status, message, key marks); per process: request window, success counts, failure counts, cached status | record success and error, trip, mark a key, recover, check, probe, administrator's changes | `ChannelHealth` |
| Channel cache (`cache.ts`) | the cached tables of each process, notifications on their way | refresh (load, swap, NOTIFY), notified refresh, LISTEN | `CacheSync` |
| LISTEN/NOTIFY client (`packages/pg-listen`) | connection phase, active query, health timer | connect, TLS, authenticate, LISTEN, health query, reconnect | `PgListener`, promise `NotifyLink` |
| Authentication cache (`middleware/auth.ts`, `localTtlCache.ts`) | entries with an end, rows behind them | look up, fill, expire, evict, flush by notification | `AuthCache` |
| Subscriptions (`subscription.ts`) | subscription rows, the user's group, `last_reset_at` | bind, expire, cancel, delete, refill | `ResetCalendar`, `Subscriptions` |
| Payments, redemptions (`paymentCallback.ts`, `routes/payment.ts`, `redemptions.ts`, `routes/admin/newApiUserCompat.ts`, `userSelfService.ts`) | orders, codes | call back, complete by hand, redeem in one transaction or in three statements | `Payments` |
| Batches, long tasks (`batchExecutor.ts`, `task-service.ts`) | batch and task rows, pg-boss jobs | create, scan, claim, send, run, cancel, clean up | `TaskQueue` |
| Rate limits, enterprise budgets (`ratelimit.ts`, `modelRateLimit.ts`, `gw/enterprise/runtimeGuard.ts`, `budgetRollover.ts`) | window rows, fallback windows of each process, budgets with their usage and `reset_at` | consume, fall back, evaluate, roll over, record | `Admission` |
| Selection, affinity, prices, response cache, memory, second factor, converters, realtime relay, OpenAI enterprise API, control plane, administration, notifications, schema, user interfaces | | | not modelled, see 7 |

### 1.2 Interactions

* The dispatcher calls the ledger's transactions directly, the slot counters in
  memory, `billAndLog` after the settlement, and `recordSuccess`/`recordError`
  without waiting for them.
* Both semaphores belong to one process; nothing shares them.
* The billing queue has two consumers of the same function: the pg-boss worker
  and the flush of the in-memory fallback queue.
* The health check, every call of the dispatcher in every process, and an
  administrator write the same channel row, each from what it read earlier;
  after a write they refresh the cache, which notifies all processes.
* A notification makes a process refresh without notifying again. It reaches the
  process through a listener of `packages/pg-listen`; the authentication cache
  has a listener of its own, on another channel.
* A request passes, in this order, the key's entry or its read (`AuthCache`), the
  token's window, the budgets, the windows of its user's group (`Admission`), and
  the dispatcher; a refill of the user's subscriptions is looked for on the way
  (`Subscriptions`).
* A completed order adds quota or binds a package: `Payments` extends
  `Subscriptions` and runs the same binding inside its own transaction.
* A batch or a task is a row that scans, handlers, routes and the clean-up write,
  and a pg-boss job that runs it; nothing but the row's status ties the two.

### 1.3 What is hard

*Interleaving*: transactions of concurrent requests on one user and token;
refreshes overlapping in one process; many writers of one channel row.
*Check, await, act*: the slot counter, the idempotency key, the key marks.
*Partial failure*: a refund that fails, an exception after a settlement, an
alert that fails after a commit, a transaction that commits half of a check.
*Delivery*: jobs at least once, to handlers that may still be alive; payment
callbacks as often as a provider likes; notifications lost while a listener
reconnects. *Timers against answers*: waiters that time out while a release wakes
them; retry timers against the interval flush; budgets that end between the check
of a request and its usage. *Crashes*: the in-memory queue, a change whose
notification was never sent, a claim whose credit or whose job never comes.
*Liveness*: retries that append to the list they iterate over, refreshes that
cause refreshes, channels that must come back through a chain of cooldowns, a
connection that is lost without a word. `PROJECT.json` lists each one at its line.

### 1.4 What makes each component correct

| Component | Properties |
| --- | --- |
| Ledger | a finished request has paid its cost if served, nothing otherwise or if a package covers it; the ledger agrees with the suspended code at every step; a metered token loses exactly what its requests hold; a repeated key is replayed once the first answer is billed; every request ends or waits for an upstream |
| Slots | every counter equals its holders; no release is lost on a sleeper; the queue holds exactly its sleepers; every wait ends |
| Billing queue | an accepted record is posted, held or given up in a known way; one copy in memory; posted once; settled eventually |
| Channel health | a channel never stays out of service but for a 401 or an administrator |
| Cache | a quiet cache shows the table; refreshes come to rest |
| Listener | notifications sent while LISTEN is in force arrive in order and once, or are lost with their connection; LISTEN comes back into force |
| Authentication cache | an outdated entry is about to be flushed, or its news was lost; no request is served by one for ever |
| Subscriptions | refills are those of the calendar; the user is in the upgraded group exactly while a subscription of it is active; the purchase limit holds |
| Payments | an order, and a use of a code, is credited once, however often it is called back; paid orders settle |
| Batches, tasks | a task is dispatched once; a cancelled one stays cancelled; nothing is forgotten; everything ends |
| Rate limits | a window admits no more than two windows can; counted successes exceed their limit by what no check could see |
| Budgets | usage between two boundaries is never lost nor kept too long; a budget is exceeded only by what was admitted side by side |

## 2. The modules

Every component has one module with its constants (and the named assumption on
them), its variables, one action per stretch of code between two `await`s, and
its properties. `MC*.tla` gives the constants small values, `*Proofs.tla` holds
the theorems. A waiting function is a value of `pc` or `stage`: an action whose
guard names a place is the code that runs when the `await` at that place returns.

```
ChargeLedger  <--implements--  DispatchAccounts --extends--> Dispatch
                                     ^                         ^
                                 MCDispatch              DispatchProofs
NotifyLink    <--implements--  PgListener <--extends-- AuthCache
                                                         ^   ^
                                              MCAuthCache   AuthProofs
ResetCalendar <--extends-- Subscriptions <--extends-- Payments
                                                         ^   ^
                                               MCPayments   PaymentProofs
ConcurrencySlots, BillingQueue, CacheSync, TaskQueue, Admission:
    MC... and ...Proofs each
ChannelHealth: MCChannelHealth
```

### 2.1 Dispatch, DispatchAccounts, ChargeLedger

`Dispatch` follows `dispatch()` and `handleStreamBilling()` for any number of
concurrent requests. `quota` and `remain` are the two columns; `saved` the stored
idempotency keys; `group`, `tried`, `todo`, `pre`, `cost` and `reply` the local
variables `effectiveGroup`, `groupsTried`, what is left of the candidate list,
`preDeducted`, `actualCost` and the kind of answer.

| Actions | Code |
| --- | --- |
| `Reject`, `Replay`, `Start` | policies, idempotency check, candidate selection; the policy's filter of the first candidates (`dispatcher.ts:401`) leaves any number of them |
| `SkipChannel`, `TakeChannel`, `PackageLimit`, `GiveUp` | the head of the channel loop |
| `PreCheckFree/Holds/UserShort/TokenShort/Fails` | `preCheckAndDecrement`, one action per outcome of its transaction |
| `UpstreamFails`, `Answered`, `AnsweredBinary`, `StreamStarts` | the upstream call and the branches on its answer |
| `Settle`, `SettleFails`, `Logged`, `BinaryLogged` | `reconcileQuota`, `billAndLog`, the idempotency insert |
| `Transformed`, `TransformThrows` | the response's transformation |
| `Refund`, `RefundFails` (with `WidenRoute`) | the catch block: refund, cross-group retry |
| `StreamSettles`, `StreamDrops`, `StreamLogged`, `StreamRefund(Fails)` | `handleStreamBilling` |

For a JSON answer `served` is where `dispatch()` returns. A stream is returned at
`StreamStarts` already; `streaming`, `streamLogging` and `served` are the places of
its billing task, and the client may have read it to the end at any of them.

A transaction is one action: both statements of `preCheckAndDecrement` and of
`reconcileQuota` are in one `BEGIN`, and their conditional updates take the row
locks. `taken` is what committed transactions took from the user for a request,
`mishap` what went wrong for it; both are history and no guard reads them.
The `-1` of `remain_quota` keeps its meaning: the three comparisons with it
(`TokenAccepts`, `RemainAfterPreCheck`, `RemainAfterReconcile`) are those of the
SQL.

`ChargeLedger` is the promise: a request is charged a cost once or ends without
a charge. `DispatchAccounts` defines the sums over requests and the refinement
mapping: a user's balance is `quota` plus what open requests hold, a request is
charged once its settlement has committed. It also has the measure of the channel
loop (`StepsLeft`): what the channels of the list, those of the groups that may yet
be appended and the rest of the current attempt can still cost.

### 2.2 ConcurrencySlots

`active` is `keyConcurrencyMap` (by channel and key *index*, as in the code),
`pkgActive` and `waiters` are `packageConcurrencyMap` and `concurrencyWaiters`.
A request polls for a key slot (`PollSucceeds`, `PollFails`, `GiveUpSlot`), takes
it in a later step (`Acquire`: the caller of `waitForConcurrencyRelease` resumes
after the check), is rate limited or throws before the `try`
(`PrepareThrows`), queues for its package (`PackageRoom`, `PackageQueue`,
`PackageTimeout`, `PackageAcquire`), calls the upstream and releases on one of
the paths `CallFails`, `AnswerJson`, `AnswerBinary`, `StreamEnds`,
`TransformThrows`. `MarkKey` marks and restores keys, which shifts the indices.
`leaked` counts requests that ended without a release.

### 2.3 BillingQueue

`Send`, `SendFails` and `SendAckLost` are the outcomes of `billAndLog`'s
`boss.send`; `IntervalFlush`, `RetryFlush` and `RetryIdle` start `flushBillingQueue` from
the interval and the retry timer; `Read`, `Commit`, `Finish` are the three parts of
`processBillingJobs` (reading the price ratios, the transaction, the alerts) for the
two handlers that run it; `ReadFails`, `TxFails`, `TxAckLost`, `AlertFails` their
failures, and `FlushFails` what the flush does about them (put the tasks back in
front, set a timer, stop after `MaxRetry`). pg-boss is external: `Fetch`, `Expire`
and the end of a job model that it delivers at least once and retries
`RetryLimit` times. The sums of a batch are added in the transaction that inserts
its rows, so the one counter `posted` stands for both.

### 2.4 ChannelHealth

One channel. `row` is what the functions read and write of it: the status, whether
the message says `Auth Error: 401`, and the marked keys. Every process has its
cached status, its window of outcomes and its success count. Fibers are the
recordings of upstream calls (`Succeeds`, `SucceedsSlowly`, `Fails`,
`FailsToConnect`), administrators' requests (`AdminReads`, then `AdminWrites`,
`AdminRestores` or `AdminSwitchesKey`) and health checks. `stage` says where a function is suspended,
`seen` what it read before. `Recover`, `WriteBusy`, `WriteDisabled`, `MarkRead`
and `MarkWrite`, and the four selections of `runHealthCheck` with their updates
are separate steps, so any of them may act on knowledge that is no longer true.
An error is recorded twice, without and with the key, as `dispatch()` does
(`RecordAgain`). The refresh after a write is one step here and taken apart in
`CacheSync`. A selection of the health check that finds nothing is followed at
once by the next one. An answer 200 with an overload message is a success
followed by a failure, that is two calls. A prober is a fiber of the proactive
checker: `ProbeStarts` reads the channel as selectable, `ProbeCounts` records a
failed probe, `ProbeDisables` writes the disabled status by id when there were too
many, whatever the row has become since; the number of failures that are too many
is a choice.

`markKeyExhausted` disables a channel when no entry of its key column is without a
mark. The marks name plain keys. The routes write the column encrypted, so an entry of
it is never marked and the channel stays in use; for a row from before the encryption
(`encryption.ts:62` to `65` still reads those) the channel is disabled with its last
key. Which kind the row is, is left open at every marking (`MayBeNoneHealthy`), so what is
shown holds for both.

### 2.5 CacheSync

The content of the tables is the number of their last change (`version`), a cache
the change it shows. `refresh()` is `Load`, `Swap`, `Notify`; several of one process
may run (`Tasks`). `Deliver` is the listener's callback, a refresh with
`skipBroadcast`. `Listen` and `Disconnect` are the listener's connection, whatever
its cause; `Crash` restarts a process with its boot refresh. `lapsed` is the
history of what the code itself gives up: a notification sent while the
process did not listen, a failed refresh, an overtaken refresh that put an older
table back. A later complete refresh clears it.

### 2.6 PgListener, NotifyLink, AuthCache

`PgListener` is one connection of `packages/pg-listen`: `link` is the socket,
`awaiting` the answer the code waits for (it stands for `connectionPhase`,
`activeQuery` and the queue), `unacked` whether what was written has reached
the server, `connected` the status and the health timer. `Open`,
`SslAccepted`/`SslRefused`, `Handshaken`, `PasswordAsked`, `SaslStarted`,
`SaslContinued`, `Ready` and `Listening` are the callbacks up to LISTEN;
`HealthTick` and `Healthy` the health query; `Refused`, `ServerEnds`,
`GoesSilent`, `DialFails` the ways to fail; `SocketClosed` and `Connect` the
reconnection. LISTEN takes effect when the server receives it (`Reach`), before
the client knows.

`NotifyLink` is the promise: what is published while the link is on arrives in
order, each once, or is lost with its connection, and the link comes on again,
unless it hangs. The mapping takes `subscribed`, `notices` and `Hung`.

`AuthCache` is the user of one listener. `row` is the number of a key's last
change (what a request reads through the join of token, user, organization and
packages), `cached` the change its entry shows, `age` the ticks since it was
stored. A request is `Hit`, or `Miss`, `Read`, `Fill`, with its checks between the
last two. `Change` and `Announce` are the routes that notify, in that order and
apart; `ChangeUnannounced` the administrator's token routes, which do not, and the
subscription routes, which announce a user's id that no entry has. `Flush` is the
listener's callback. `Carry` is a step of the listener. `lapsed` remembers that an
outdated entry will get no news: not sent, lost, or stored late.

### 2.7 ResetCalendar, Subscriptions, Payments

`ResetCalendar` has the date arithmetic of `subscription.ts` as functions of
instants: the end of a subscription, the reset policy of a package, the next
reset, the number of cycles that have passed (`CountResetCycles`, with its cap) and
the advance of `last_reset_at` (`AdvanceCursor`). `ResetInstants`, the set of all
resets after a start, is the reference they are compared with (`CountsResets`).

`Subscriptions` has the rows of one user (`sub`) and his group. `BeginBind` and
`CommitBind` are the reads and the writes of `bindSubscriptionToUser`'s transaction,
`AdminBind` and `AdminBound` the same from the administrator's route; `SyncExpired`,
`SyncBatch`, `Cancel`, `Delete` end rows, with the downgrade (`Downgraded`);
`StartRefill` and `FinishRefill` are the read and the update of the lazy refill.

`Payments` adds orders and codes. `TopupCallback` is one transaction, which
changes nothing when the order is not pending any more; `PackageCallback` and
`PackagePaid` are the claim and the commit of the transaction that binds the package;
`AdminComplete` and `AdminCredit` the two statements of an administrator's
completion; `RedeemInTransaction` one route for codes, `RedeemRead`, `RedeemUse`,
`RedeemCredit` the three statements of the other. `Die` ends a request between any
two of them. `refilled`, `credited`, `redeemed` and `lost` count what happened;
`stale`, `tangled` and `crowded` remember the known races. `Holders` are the rows
that changed the group or were bound for the one before any; `Outlived` and `Revived`
are the two ways an ending row leaves the user in a group nobody can account for.

### 2.8 TaskQueue

Tasks and batches have the same life with different guards. `status` is the row,
`job` the pg-boss job, `runs` the stages of every handler that was given the job
(the latest last), `sender` who has claimed an item and is about to send it.
`ScanPendingTasks` and `ScanPendingBatches` are the polls (the latter claims),
`Send`, `Accept`, `SendFails`, `SenderDies` what becomes of a send, including the throttling
of a job that exists (`ThrottlingEnds`); `Read`, `Mark`, `Execute`, `Refuse`,
`Answer`, `Throw` and `Die` the handler; `Fetch`, `Return`, `FailJob`, `Expire` pg-boss;
`Cancel` and `CleanupTasks` the other writers.

### 2.9 Admission

`PassToken` is the token's window; `SelectDue`, `RollOver`, `Evaluate` the guard's
look at the budgets (select those due, compare-and-set each, compare usage with
limit); `PassTotal` and `ReadSuccess` the two windows of the group; `UpstreamAnswers`
counts the success and knows the cost; `Post` rolls over again and records the
usage. `ConsumeStored` and `ConsumeLocal` are the window in the database and the one
of the process a failing statement falls back to. Budget periods end at multiples of
their length.
Five histories make the limits statable: `passes`, the instants at which a stored
window let somebody through; `hasty` and `excess`, the requests, and then the successes,
that another request's check could not see; `loose` and `beyond`, the same for usage.

## 3. The runs

| Run | Instance | Distinct states | It shows |
| --- | --- | ---: | --- |
| `dispatch_money` | 2 requests, one user, one metered token, same key, one of them automatic over two groups, all faults | 158,500 | the ledger's money properties, that the channel loop runs down and every request ends or waits for an upstream, and that `Dispatch` implements `ChargeLedger` |
| `dispatch_double_dip` | 2 requests, same key, no faults | violation | a repetition before the key is stored is charged again |
| `dispatch_exemption` | 2 requests, no faults | violation | a request that a package covers is charged |
| `slots_accounting` | 3 requests, 2 channels, two package rules, keys marked meanwhile, throws before the `try`, double releases | 166,176 | both counters equal their holders (plus leaks), no lost wake-up, no ghost in the queue, waits end |
| `slots_semaphore` | 2 requests, one key with limit 1 | violation | both pass the limit |
| `billing_faults` | 3 records, queue of 2, 3 faults of any kind | 436,409 | nothing forgotten, no second copy in memory, posted once unless a fault came after a commit, retries run down, settled eventually |
| `health_recovers` | 2 processes, 2 keys, 2 calls (one may be an administrator's request or a probe), a health check | 533,810 | a channel comes back |
| `cache_sync` | 2 processes, 3 refreshes, 2 changes, 1 fault | 436,693 | quiet caches agree, refreshes call for ever fewer refreshes and come to rest |
| `payments_credits` | 2 requests, a top-up, 2 package orders, a code, 2 packages with refills, up to 4 rows of them, a clock to 3 | 216,249 | claims are credited once, refills follow the calendar, group and purchase limit follow the rows, paid orders settle |
| `tasks_faults` | one task or batch, one retry, 3 faults | 105,438 | dispatched once, cancelled for good, never forgotten, ended |
| `admission_limits` | 3 requests, 2 budgets, a clock to 2, one failing statement | 910,650 | windows hold, usage is counted in its period, budgets hold |
| `auth_listener` | one key, 2 requests, 2 changes, a listener with TLS, 2 faults | 203,748 | outdated entries are flushed or lapsed and end, and `PgListener` implements `NotifyLink` |

`MCPayments` also compares, when it starts, `CountResetCycles` with
the reference for every policy, start and end of a small range; that it agrees for
all of them is `CyclesAreCounted`.

### 3.1 Bounds, and why they are enough

* *Requests*: the ledger's transactions are relative and commute, and a request
  reads other requests only through `quota`, `remain` and `saved`; two requests
  on one token with one key are every kind of conflict. Whether a package covers
  a request is a choice of each one, and so is how many of the first group's channels
  a policy leaves. For any number the theorems of section 5 hold.
* *Money*: a quota of 5 against estimates of 2 and 3 makes the second pre-check
  fail or pass depending on the order; costs 1 and 4 lie below and above the
  estimates, so a settlement refunds or overruns; a token with 3 can become 0 and
  below, where the sentinel -1 bites.
* *Slots*: two requests share a package slot, one holder and one sleeper; two
  candidates let a request release and queue again, and the third request, under a
  rule without limit, competes for the second channel, whose polling does not count
  waiting. Queues of more sleepers are in reach of the theorems `SlotsKept` and
  `QueuesWork`, which have no bound.
* *Billing*: three records against a queue of two drop one; two flush retries
  reach both the retry and the giving up; one pg-boss retry reaches `failed`;
  three faults combine, for instance, a failed send, a failed flush and a crash.
* *Health*: two calls reach the minimum of requests of the breaker and, after a
  recovery, the threshold of two successes; two processes separate the stale
  cache from the row. One channel is enough as no function reads two.
* *Listener and keys*: no step looks at two keys, except that notifications share
  one order, and that full caches evict, which is a choice here; so one key is
  every key. Two requests let one store late what the other has read anew, two
  changes let one be announced and one not, a life of two ticks lets an entry be
  used between its fill and its end. Two faults lose a connection and then its
  successor.
* *Payments*: two requests race for one code, one order and one refill; the clock
  reaches the end of both packages (after 2 and 3 instants) with refills at every
  instant; the gold package has a purchase limit of 1; silver upgrades
  to the group the user had before any; two rows can outlive each other, and a third is needed for
  every exception of section 5, so there may be two by orders and two by administrators.
  `CycleCap` is 1, so its loop meets it.
* *Tasks*: items share nothing but pg-boss, which keeps them apart, so one at a
  time is enough (either kind is chosen). One retry reaches a second handler
  beside the first, and the end of the retries; three faults combine, for
  instance, a death, an expiry and a throttled send.
* *Admission*: three requests against limits of 1 and 2; a budget that ends at every
  instant and one that never does; a clock to 2 crosses two ends; a cost equal to the
  estimate and one above it. Requests of several processes meet in the shared windows and
  budgets as those of one do; with a single failing statement a second process's
  fallback window would not count. Only the token's window has a limit of 1, the one its
  requests can exhaust twice; for all limits and lengths there is `LimitsHold`.
* *Cache*: two refreshes of one process are needed for one to overtake the
  other, a second process for the notification; two changes tell an old table
  from an older one. One fault keeps the run at half a million states; the proof
  has no bound.

`CHECK_DEADLOCK FALSE` is in every configuration because the systems stop:
requests are answered, records posted, orders settled, clocks, changes and faults
used up.

### 3.2 Faults

`ledgerFail`: a transaction rejects and rolls back; `saveFail`: the idempotency
insert fails; `lateThrow`: an exception after the settlement (Dispatch) or after
the release (ConcurrencySlots); `prepareThrow`: one between the increment and the
`try`. In BillingQueue `send`, `read`, `tx` fail cleanly, `sendAck` and `txAck` take
effect and lose their acknowledgement, `alert` fails after a commit, `crash` loses
the memory. In TaskQueue a send fails or is accepted without the sender learning of
it, senders and handlers die, handlers throw, jobs expire under a living handler.
In Payments requests die between statements, and transactions roll back
when a package can no longer be bound. In Admission a statement fails. In
PgListener a dial fails, a step of the dialogue is refused, the server ends the
session, the peer vanishes; in AuthCache an announcement fails and the process
restarts. Faults are bounded by `MaxFaults`, or by the length of a request.

## 4. Fairness

* `Dispatch`: weak fairness of each request's next step, except where it waits for
  an upstream. The event loop resumes every function whose promise has settled,
  and a statement either returns or fails. That an upstream answers is *not*
  assumed: after the headers the abort timer is cleared, so a body may hang, a
  stream may trickle for ever and the polling of a video has no timer of its own.
  `EveryRequestEnds` therefore says: closed, or waiting for one upstream for ever.
* `ConcurrencySlots`: the same; only a request's own steps. The waits for a slot
  end because of their timers.
* `BillingQueue`: of the interval flush, of pg-boss's polling and expiry, and of the
  running handlers. Faults are finitely many, as otherwise nothing ever settles.
* `ChannelHealth`: of every running function, refresh, notification and of the
  cooldowns; strong fairness of a successful ping, since an upstream that never
  answers again rightly stays broken.
* `CacheSync`: of every running refresh and of the delivery of notifications that
  have arrived. Nothing is assumed about reconnection.
* `AuthCache`: time passes, statements of requests are answered, a reachable server
  answers, unacknowledged bytes end in the closing of the socket, and what has arrived
  is handled. Whether a route announces its change is not assumed.
* `Payments`: a running request goes on (or dies), and providers repeat a callback
  until it has succeeded. Nothing is assumed about administrators and users.
* `TaskQueue`: of the scans, the clean-up, sends, fetches and handlers (an upstream
  answers or its timeout rejects), of the end of a throttling period, and of pg-boss
  noticing a dead handler. An expiry under a living handler is a fault.
* `Admission` has no liveness property and no fairness: no step waits for another.

## 5. What is proved

TLAPS checks these theorems for every value of the constants that satisfies the
module's named assumption. The assumptions say only what kind of thing a constant
is (a function from requests to users, a natural limit, a finite set of requests
where cardinalities and sums are counted). Three say what the schema or the code
declares: the numeric columns of a package are integers and its units those
`durationEndFromPackage` and `resolveResetPolicy` tell apart (`SubscriptionConstants`),
an order that buys a package names one (`PaymentConstants`), and the calendar's units
are positive (`UnitsAssumption`).

| Theorem | It states |
| --- | --- |
| `DispatchProofs!TypeCorrect` | `TypeOK` |
| `DispatchProofs!ExactCharge` | `ChargedOnce`: at every step a request that no package covers and no mishap befell has taken from its user what its place in the code holds, and a served one pays less than its cost only after a late exception |
| `DispatchProofs!AccountsAddUp` | `AccountsHold`: the rows of users and metered tokens are what they were less what their requests hold, as long as no mishap befell one of them |
| `DispatchProofs!RepeatsAreReplayed` | `RepeatIsReplayed` |
| `DispatchProofs!DispatchRefinesLedger` | `ImplementsChargeLedger`: `Dispatch` implements `ChargeLedger` |
| `DispatchProofs!LoopsRunDown` | `ChannelsRunOut`: every step of a request lowers a natural number |
| `ConcurrencyProofs!TypeCorrect`, `SlotsKept`, `QueuesWork` | `TypeOK`, `SlotsAccounted`, `QueuesHold` |
| `ConcurrencyProofs!WaitsAreFinite` | `WaitsRunDown`: likewise for the walk over candidates, slots and the package's queue (no run lists it) |
| `BillingProofs!TypeCorrect`, `RecordsKept`, `NoDoubleCounting` | `TypeOK`, `NothingForgotten`, `CountedOnce` |
| `BillingProofs!RetriesEnd` | `RetriesRunDown`: no step but a new record or a fault lets the queue do more work than before |
| `CacheProofs!TypeCorrect`, `CachesAgree` | `TypeOK`, `QuietCachesAgree` |
| `CacheProofs!NoEcho` | `RefreshesRunDown`: refreshes do not call for each other for ever |
| `PaymentProofs!TypesHold`, `CreditedOnce` | `TypeOK`, `ClaimsAreCredited` |
| `PaymentProofs!RefillsPaidOnce` | `RefillsFollowCalendar` |
| `PaymentProofs!CyclesAreCounted` | `CountsResets`: `CountResetCycles` is the number of the reference's resets since `last`, or one more than the cap of its loop beyond it, for every row of the packages and all instants |
| `PaymentProofs!RulesOfPackagesHold` | `BindingsHold` |
| `TaskProofs!TypeCorrect`, `OneDispatch`, `CancellationHolds`, `NoneForgotten` | `TypeOK`, `TasksRunOnce`, `CancelHolds`, `NothingForgotten` |
| `AdmissionProofs!TypeCorrect`, `UsageIsCounted` | `TypeOK`, `UsageCounted` |
| `AdmissionProofs!LimitsHold`, `BudgetsHold` | `WindowsHold`, `BudgetHolds` |
| `AuthProofs!TypeCorrect`, `KeysAgree`, `ListenerRefines` | `TypeOK`, `CachedKeysAgree`; every step of `PgListener` in `AuthCache` is one of `NotifyLink` or stutters |

*Dispatch.* The invariant is one statement per request (`RequestInv`): what was
taken for it equals what its place in the code holds (`Held`), unless something
went wrong for it; and is never less, unless it was refunded after its settlement.
It needs one fact more than the properties say: before the pre-check
`preDeducted` is 0, which the assignment at the head of the loop sees to. A step
changes the entries of one request only (`OthersKeep`), so requests do not need
each other, and the argument is one case per action.

The accounts add them up. `AccountInv` says, per metered token, that what is missing
from it is the sum of what its requests hold and that only an overrun takes it below 0
(`TokenInv`), and per request that its cost is a possible one and its key stored once it is
billed (`AnswerInv`). Every action moves the sum, the token's row and the user's row by what
it moves the request (`Moves`: `Apart` for the others, `BillMoves` for its own bill).
`UserInv` says the same of a user and what its requests have taken, mishaps or not: a user's
quota moves with nothing else (`TakesFromUser`), and without mishaps `ExactCharge` turns what
was taken into what is held.
From that follow the parts of `AccountsHold`, that a repetition of the key of a billed
answer takes nothing (`RepeatsAreReplayed`), and the refinement: a step
whose bill stays open moves no settled balance and is a stutter, a settlement is
`Charge` of the request's cost, an ending without one is `Waive`, and what a mishap spoils
is `Spoil`, for its own user only.

The loop iterates over a list its catch block appends to. `StepsLeft` is 7 for every
channel left, in the list or in a group that has not been tried, plus the steps from the
current place to the end of an attempt. To widen the route adds the channels of a group to
the list and takes the same number from the groups (`RouteWidened`; the first group gives
no more than it has, `GroupEntered`), so the sum never grows and
the way back to the head of the loop is still a step down. It needs that a request that
has not started has neither list nor tried groups (`LoopInv`).

*ConcurrencySlots.* The counters equal cardinalities of sets of places, so every
action adds or removes one element (`FS_AddElement`, `FS_RemoveElement`). Two
facts make that inductive: a request in a package place has a limited rule
(`PlacesMatchRules`), and the queue holds exactly the requests asleep in it, each
once (`QueueInv`), since a release moves the head of the queue to another place and
a timeout removes one entry from the middle. The queue's part holds with double
releases, the counters' part without.

That no wake-up is lost (`NoLostWakeup`, a part of `QueuesHold`) counts: while
somebody sleeps, the counter and the woken requests together reach the limit.
A release takes one off the counter and wakes a sleeper, so the sum stays; a
timeout takes out a sleeper, who did not count.

`WaitsRunDown` has a measure of 9 for each candidate left plus the rest of the way through
the current one; the failed polls of one slot are one place, which the code's 15 s end. A
woken request goes on from its queue, one whose wait ran out goes to its next candidate,
and neither comes back; the next index is never beyond the list (`RouteInv`). A step
concerns a second request only when a release wakes a sleeper, and that takes the sleeper
closer to its end, too. Marking a key is the one step that takes nobody further.

*BillingQueue.* That nothing is forgotten needs the agreement of the flags with the
runs (`RunsInv`: an idle run holds no tasks; what works after its commit was
posted) and that no record is in the queue and in the tasks at once
(`HeldInv`). That nothing is posted twice needs `CopiesInv` in addition: only one of
pg-boss, the queue and the flush has a copy, and one whose run has not committed
was not posted.

`RetriesRunDown` is lexicographic: after the records to come and the faults, it counts
what pg-boss has still to do for its jobs (attempts and places), then the queue in memory,
the retry timers and the stages of the runs. Only a new record or a fault puts something
into the queue or sets a timer, a timer is used up by looking at the queue, and a job comes
back only with one attempt less. So the retries of the two mechanisms cannot keep each other
alive, which is what `EventuallySettled` needs besides fairness.

*CacheSync.* `QuietCachesAgree` is not inductive: a busy process may have work that
brings no news. `NewsComes` says which work does: a notification, a refresh that
will notify, or the process's own refresh if it has yet to load or has loaded the
table as it is. An own refresh that has loaded an older table is *not* counted.

A refresh notifies, and a notification starts a refresh: that this stops is
`RefreshesRunDown`. The measure is again lexicographic (the refreshes that will notify, the
notifications on their way, the steps of the running refreshes, the processes that do not
listen); it goes down because a refresh started by a notification is silent and a silent one
never reaches `Notify` (`SwappedTells`, the invariant it needs).

*Payments.* What is counted is an equation per order and per code: credited, plus under
way, plus lost, is what the row says was claimed. The credits under way are the
cardinality of a set of requests, so each action of a request adds or removes
one element and no other set changes. It needs to know that a package order's own
transaction is open only while the order is pending (`JobInv`), since the row lock
keeps others out, and that requests, orders and codes are different things. The
subscriptions' own steps leave all of it alone but for the jobs they start and end.

*Refills.* `After(base, policy, n)` is a closed form of the n-th reset after an instant.
`countResetCycles` divides or iterates and `AdvanceCursor` iterates under the cap and the
end; both are shown to agree with it (`NthIsAfter`, `CursorIsAfter`), and its instants to be
exactly those of the reference (`InstantsCounted`), a bijection with `1 .. n`. So what the loop
counts is their number (`CyclesAreCounted`; a loop that meets its cap has counted one more).
The invariant
(`CalendarInv`) says of a row that its cursor is `refilled` resets after its start
(`Walked`), and of a refill under way that it was worked out from some cursor of its row and
lies neither in the future nor beyond the end (`RefillOK`); one that saw the present
cursor then adds up (`AfterAfter`). It also carries the types.

*Purchase limit.* While a package is not `crowded`, only one transaction is between its
count and its insert, and that one saw room (`LimitInv`).

*Group.* The group of the user is due to some active row that holds it, or is the one
before any if no row does, and the same is true, for *every* active row that upgrades, of the
group it found when it was bound, among the earlier rows (`Traced`, `GroupInv`). So when
the last row ends, what it gives back is due to an earlier one that is still there; a
row that is not the last to end and is one of `Holders` is what `tangled` records. A row that
upgrades to the group the user is in already changes nothing, and its end leaves
everything as it is.
Looking for this invariant showed that `GroupFollowsSubscriptions` had held in the
former instance only for want of rows, and it was restated: it now speaks of all active
rows, past their end or not, and `tangled` knows two more behaviours of the code. A package
may upgrade to the group the user had before any; a row of it changes nothing, but while
it runs another row that ends leaves the user in its group (`otherActive`), and when it ends
itself it gives nothing back, although a third subscription is still active. And a row that
has ended can be cancelled again (`cancelSubscription` does not look at the status): when two
subscriptions have ended in turn, cancelling the later once more can put the user back into
the group of the earlier.

*TaskQueue.* One invariant per item (`ItemInv`). A task is dispatched once because, as
long as no job expired under a living handler, only the latest handler is alive and
one that has yet to dispatch proves that none has (`OnceInv`); a cancellation holds
because no handler has read the status before it (`CancelInv`).

*Admission.* `UsageCounted` needs that `reset_at` is a boundary and no later than the
one after now (`ResetInv`), and that whatever a request has read as due was due, with a
new value that is no later either (`RolloverInv`). So when the clock reaches a
boundary the budgets whose period ends are exactly those that become due; and a
compare-and-set that succeeds meets a budget that was due, with no usage since.

`WindowsHold` speaks of a log: `passes` has the instants at which a stored window let a
request through. The invariant cuts the log into blocks, one for each time the window was
opened (`Blocks`): the first request of a block comes a window's length before its end, a
block begins after the end of the one before and has at most `Limit` requests, the last
may be the open window's (`WindowInv`). Of `2 * Limit` consecutive requests the last
therefore lies at least one whole block after the first. The limit on successes counts the
requests at their upstream whose check saw everything: there is at most one at a time
(`SuccessInv`). The budgets need the same of an admitted request: at most one saw all usage,
and what it asked for still fits (`BudgetInv`). What the others use, and what that one costs
above its estimate, is in `beyond`.

*AuthCache.* The history variable makes `CachedKeysAgree` nearly inductive: a change
that is announced is `owed`, then among `notices`, then a flush, and every step that
loses it records so. It needs that a request past `Miss` presents a key.
`ListenerRefines` goes case by case: `Reach` of a LISTEN is `Register`, an
announcement is `Publish` or, unsubscribed, a stutter, `Receive` is `Deliver`,
`ServerEnds` is `Drop`, and every end of a socket is `Lose`. That `GoesSilent` may hang
the link is allowed by the promise; that nothing else does, is the liveness half.

## 6. What is only model-checked

* Liveness (`EveryRequestEnds`, `WaitsEnd`, `EventuallySettled`, `NotStuck`,
  `EventuallyAgree`, `StaleKeysEnd`, `PaidOrdersSettle`, `EverythingEnds`) and the
  liveness half of `ImplementsLink`: the prover has no rule for fairness and `ENABLED`.
  Of four of them the half that is about the code is proved all the same: `LoopsRunDown`,
  `WaitsAreFinite`, `RetriesEnd` and `NoEcho` say that the steps use up something
  well-founded, so a loop can only go wrong by not being scheduled. The others have no such
  measure: a scan of `TaskQueue` polls as long as an item is pending, and a channel may
  break again.
* The types of `ChannelHealth`. Its property is a liveness property, so there is no
  invariant a theorem of its own module would be worth, and types alone say little.

Sums, cardinalities and recursive functions are *not* in this list. The library's
induction schemes take an operator as a parameter, which the provers cannot instantiate;
the proofs use that a non-empty set of naturals has a least member (`LeastNatural`, from
the library's well-foundedness of `<`), first order as it is, for induction over sets and
numbers (`SubsetInduction`, `UpTo`) and for the existence of the functions the code's loops
define (`IterationExists`). That costs a lemma for each thing counted.

## 7. What the models leave out

* Contents: prices, messages, log texts, the order of candidates (weights,
  affinity), the latency average (a success may be slow or not).
* Time: timers fire at any moment; cooldowns end at some time. Idempotency keys do
  not expire during a run, so a repetition after the expiry is not covered. Days
  and months have fixed lengths in `ResetCalendar`: no daylight saving, no short months.
* Components without a module: *Selection, affinity, prices* (pure functions; the order
  of candidates and the costs are constants or choices where they matter),
  *response cache* (one row with a time to live, its key is data), *memory* (embeddings
  and searches behind the same queue), *second factor, passkeys, verification* (identity
  features), *converters and providers* (stateless translation under golden tests),
  *realtime relay* (a proxy that bills at its close), *OpenAI enterprise API* and *control
  plane* (row-by-row CRUD), *administration* (CRUD; what changes a channel, a key, an
  order or a subscription is in the modules of those), *notifications* (output),
  *schema* (declarations), *user interfaces*.
* In the modelled parts: the alerts of organisations and log rotation
  (BillingQueue); failing statements, deletion, the routes that change several
  channels at once (batches, tags, `channels/fix`), the cleaning and managing of keys, and
  the copies of the channel routes in `newApiCompat.ts` (`PUT /channel`, the multi-key
  routes, batches and tags) and `newApiUserCompat.ts` (ChannelHealth); the other maps of the cache (CacheSync, where the listener is only
  its coming and going, which `PgListener` explains); framing, `close()` and
  `notify()`, which the gateway never calls (PgListener); sessions, cookies and what the
  checks look at (AuthCache); the raw change of a subscription's status
  (`routes/admin/packages.ts:450`), the enabling of packages, the creation of orders and
  the editing of codes (Subscriptions, Payments); the requests inside a batch and their
  results, `applyTaskCallback`, which only a smoke script calls, and the deletion of
  old tasks (TaskQueue); policies, entitlements, penalties, blocks and the windows of a
  package, which `ConcurrencySlots` has as a choice (Admission).
* Hazards seen and left aside: the bound of the billing queue when a failed flush puts
  its tasks back (`billing.ts:122`), a late error that takes a manually disabled channel
  back into the cycle of recovery (`circuitBreaker.ts:168`, `:218`), the key index a
  slot is counted by (`dispatcher.ts:496`), and a code used beyond its count by the three
  statements of `userSelfService.ts`. In each the model contains the behaviour, and no
  text of the repository promises otherwise.

## 8. Where code and words disagree

Three runs end in a violation of what the code says of itself:

1. `dispatch_double_dip`: the "No Double Dip" check (`dispatcher.ts:206`) reads the
   idempotency key before the upstream call, and the key is stored after the settlement;
   requests that overlap are both charged. TLC's shortest trace is a stream's: the
   client has it from line 737 on, its billing task inserts the key at 1287, and a client
   that has read the stream to its end and repeats its key before that is charged
   again. `RepeatIsReplayed` excepts exactly this: it begins when dispatch() *and* the
   billing of the answer are done.
2. `dispatch_exemption`: a request under the "Contractual Exemption"
   (`dispatcher.ts:162`) pre-deducts nothing (`billing.ts:34`) and is logged at a cost
   of 0 (`:141`, `:192`), but settled at its whole cost (`dispatcher.ts:784` to `792`, a
   stream at `1253`). `ChargedOnce` excepts the requests a package covers. The sums of
   `AccountsHold` and `ChargeLedger` count what was taken, due or not, and so include
   them.
3. `slots_semaphore`: the "Concurrency Lock" checks a counter and increments it after
   an `await`; requests whose continuations interleave pass together.

Three more were met while modelling and have no run of their own:

* "Skip channels disabled for Auth Error (401) -- those need manual key fix"
  (`circuitBreaker.ts:346`) holds as long as nothing else is recorded for the channel.
  `recordError` writes status 5 and a new message whatever the row says (`:168` to
  `189`), as a slow success does (`:115`), so a 429 of a call that was under way when the
  401 arrived takes the channel out of its disabled state, and the health check puts it
  online a minute later. In a row whose keys are from before the encryption no other call
  is needed: the second recording of the same 401 disables the channel again as "All
  keys invalid" (`:248`), which the filter does not match, and the ping counts every answer
  below 429 as healthy. `ChannelHealth` has both behaviours; `NotStuck` speaks only of
  coming back.
* `middleware/auth.ts:24` says the cache is flushed "when a token or user is updated".
  The administrator's token routes (`routes/admin/users.ts:110` to `190`) do not
  notify, and the subscription routes (`packages.ts:442`, `:457`) notify a user's id,
  which is no key of the cache. The entry lives on for its minute
  (`ChangeUnannounced`, `StaleKeysEnd`).
* A listener whose peer vanishes after it has received a query waits for ever
  (`Hung`): its health check would find out, and waits for that query.

Other behaviours are excepted by name in the properties, so that these show there
is nothing else: a pre-check refused by the token keeps the user's estimate
(`tokenShort`), an exception after a settlement is refunded (`lateThrow`), a settlement
above its estimate can drive a token to the sentinel -1 (`overrun`), an exception
before the `try` keeps a key slot (`leaked`), an alert that fails after a commit
posts a batch again, an overtaken refresh or a notification lost while
reconnecting leaves a cache stale (`lapsed`), two requests add the same refill
((`stale`), a subscription outlived by a later one, deleted while it runs or ended twice
strands the user's group (`tangled`), two paid orders pass one purchase limit
(`crowded`), a request that dies between a claim and its credit loses it (`lost`), a
task whose job expires under a living handler runs twice (`overlap`), a running
handler overwrites a cancellation (`blind`), a batch whose scan dies is left
`in_progress` (`stranded`), usage written after a boundary is wiped by the next
rollover (`slipped`). Marking a key shifts the indices of
the keys behind it, so a slot does not stand for one key. Except in
`disableChannel`, a late error can take a manually disabled channel back into the
cycle of recovery. No document promises otherwise, so they are no findings.

## 9. What could come next

1. The package's own windows (`isPackageRateLimited`) as a fourth window of
   `Admission`, and the realtime relay's settlement as one more way to end a
   request in `Dispatch`.
2. `CacheSync` on top of `PgListener`, as `AuthCache` is, instead of its own
   `Listen` and `Disconnect`.
3. The cost calculation and the order of candidates as algorithms against a
   reference definition.
4. Proofs: the types of `ChannelHealth`, that a mark or a status is only ever
   written for an error somebody recorded, and measures for an order that is paid and an
   entry that is stale, as the loops of section 6 have them.
