# TLA+ models of new-api

new-api is a gateway in front of LLM and media-generation vendors, written in
Go. A request is authenticated by a token, billed against the user's wallet or
subscription, relayed to an upstream channel (with retries on other channels),
and settled at its actual cost or refunded. Background tasks poll asynchronous
media jobs, clean logs, reset subscriptions and test channels, possibly from
several instances that share one database. Users top up or subscribe through
payment gateways that report by webhook. A web console with a chat playground
and an Electron shell are written in TypeScript and JavaScript. This directory
holds TLA+ modules for the parts whose correctness depends on the order of
steps.

## Inventory

| Part | State | Operations | What makes it hard |
|---|---|---|---|
| Billing session (`service/billing_session.go`, `service/funding_source.go`, `service/billing.go`) | per request: reserved, token-consumed and raised amounts, settled/refunded flags | pre-consume, reserve, settle, refund | two accounts moved by separate statements; refund in a goroutine; retries; crash in between |
| Quota rows (`model/user.go`, `model/token.go`, `service/quota.go`) | wallet, token remain quota, token status | increase, decrease, validate | check and decrement are separate statements |
| Subscriptions (`model/subscription.go`) | amount used and total, idempotency records, reset and end times | pre-consume, delta, refund, reset, expire | nested transactions, reset during a request |
| System tasks (`model/system_task.go`, `service/system_task.go`) | task rows, one lock row per type | schedule, claim, renew, update, finish, expire | leases, several instances, crash, clock |
| Media tasks (`service/task_polling.go`, `service/task_billing.go`, `model/task.go`, `relay/relay_task.go`) | task rows with status, progress, quota | submit, poll, sweep, refund, recalculate, fetch for a user | overlapping pollers, a second writer that does not bill, terminal transitions that move money |
| Payments (`model/topup.go`, `model/subscription.go`, `controller/topup*.go`, `controller/subscription_payment_*.go`) | order rows, the lock table of a node | request, notices of five gateways, return of the browser, completion by an administrator, expiry | notices come at least once and in any order; status and credit in separate statements; a map of reference-counted locks; restarts |
| Redemption codes (`model/redemption.go`) | codes | create, edit, redeem | an edit saves what it has read |
| Channels (`service/channel_select.go`, `model/channel.go`, `model/ability.go`) | channel and ability status, key index | select, retry, disable, enable | concurrent disabling, cache refresh |
| Rate limits (`middleware/rate-limit.go`, `common/limiter`) | windows of timestamps, buckets | allow | boundary arithmetic, check-then-act in Redis |
| Quota caches (`model/utils.go`, `model/*_cache.go`) | batch maps, Redis hashes | add, flush, invalidate, populate | lost updates between cache and row |
| Playground (`web/default/src/features/playground`) | the conversation, the open stream or request, a buffer of chunks, two timers, localStorage | send, regenerate, edit, delete, clear, stop, leave, reload | clicks act on what was rendered last; late events; one buffer and "the last message" for all requests |
| Desktop shell (`electron/main.js`) | the child process, windows, tray, dialogs | start, retry, show, hide, quit | callbacks of the child, of timers and of the user in any order |

What makes each part correct:

- **Billing session.** Funding source and token are charged exactly what the
  session stands for, through every fallback, rollback, settlement and refund;
  failures that are only logged never give back more than was paid, and lose
  at most the cost beyond the reservation; a charge is final once the request
  is over; every request ends.
- **Quota rows and subscriptions.** The rows add up to what the requests hold;
  a subscription stays within its total.
- **System tasks.** One active row per type, one executor per row, no outcome
  written by a handler that has lost its row, a live lease protects its task,
  an abandoned task is failed in the end.
- **Media tasks.** A task is billed once, for the outcome its row records; an
  outcome stays; every task ends. The fetch on behalf of a user breaks the
  first two (see below), so that they are stated up to it.
- **Payments.** An order is credited once however often its notice comes; its
  row and the wallet agree; expiry and completion exclude each other; what was
  paid is credited in the end; a plan is not bought more often than it allows.
- **Channels.** Retries go down the priorities and terminate; a disabled
  channel is not chosen after the cache has been refreshed.
- **Rate limits.** No window holds more than its maximum of admitted requests.
- **Quota caches.** Every addition reaches its row once; a cached value is not
  older than its invalidation for ever.
- **Playground.** A reply reaches the message of its own request, whole and in
  order; a finished message stays; there is one generation at a time, it ends,
  and what is shown is saved.
- **Desktop shell.** The server never outlives the application; quitting
  works whatever the server does; a crash is shown; there is one window.

## Modules

| Module | Models | State | Composition |
|---|---|---|---|
| `BillingSession` | `service/billing_session.go`, `service/funding_source.go`, the statements of `model/user.go`, `model/token.go`, `model/subscription.go` they run | wallet, token and subscription rows, the idempotency records, one session per request | shared rows of all requests of one user |
| `JobQueue` | the promise of the task tables: submitted while the type is free, started once, ended once | status, type, locked_by | abstract specification |
| `SystemTask` | `model/system_task.go`, `service/system_task.go` | both tables, the loop and the handlers of each runner, a clock | implements `JobQueue` |
| `TaskPolling` | `service/task_polling.go`, `service/task_billing.go`, `model/task.go`, `tryRealtimeFetch` of `relay/relay_task.go` | the tasks table, what each task has been charged, one pass per node, one fetch per request of a user | runs as a handler of `SystemTask` (not composed: a lost lease lets passes overlap, and so they do in the model) |
| `CreditLedger` | the promise of the payment code: credited once, only when paid or approved, never after it was closed | due, closed, credits | abstract specification |
| `Payments` | `controller/topup*.go`, `controller/subscription_payment_*.go`, `model/topup.go`, the orders of `model/subscription.go` | order rows, the gateways' side, the handlers, the lock table of each node | implements `CreditLedger` |
| `Playground` | `web/default/src/features/playground` | the state of its hooks, what is rendered, the refs, localStorage | - |
| `DesktopShell` | `electron/main.js` | its variables, the child, the timers, windows and dialogs | - |

The modules `MC...` instantiate them for TLC (`DesktopShell` needs none);
`BillingSessionProofs`, `SystemTaskProofs`, `SystemTaskLeaseProofs`,
`TaskPollingProofs`, `PaymentsProofs`, `PaymentsLedgerProofs`,
`PlaygroundProofs` and `DesktopShellProofs` hold the theorems. `PROJECT.json`
maps each definition to its lines. In the modules of the server one SQL
statement (or one committed transaction) is one step; between two statements
everybody else may run. In `Playground` and `DesktopShell` a callback runs to
its end, and the callbacks come in any order. `Fallible` names the
statements that may return an error without effect; a statement that commits
although its caller sees an error is modelled only where the code retries it
(`RefundRecord`), and elsewhere not. Operators whose comment
begins with "Mutant:" are wrong variants kept to show that a property can fail.

### BillingSession

`Authenticate` reads the token as the middleware does; `SelectFunding`,
`WalletCheck`, `Overflow` and `QueryFails` are `NewBillingSession` with its
four preferences; `CheckToken`, `DecreaseToken`, `PreConsumeWallet`,
`PreConsumeSub` and `RollbackToken` are `preConsume`, the trust bypass
(`ShouldTrust`) included. `Reserve` ... `RollbackFundingReserve` raise a
reservation before the relay, `Settle`, `SettleFunding` and `SettleToken` end
the request at its cost, and `Refund` ... `RefundToken` are the goroutine that
gives the reservation back, with the three attempts of `refundWithRetry`.
Nothing calls `Reserve` at this commit; it is modelled as the session offers
it. A statement that fails is skipped as the code skips it; only the
locking query of `PreConsumeUserSubscription` may also be reported as "no active
subscription" (`model/subscription.go:1310-1315`), which lets the request fall
back on the wallet. Class `ack` is the commit of the refund's transaction whose
acknowledgement is lost, so that a retry finds the record refunded; class
`record` is the outer transaction of `RefundSubscriptionPreConsume`, which can
roll back after the nested one has committed. `fundCharged` and `tokenCharged`
are history variables: the net amount the statements of a request have moved
(of a subscription, what has left or reached the row, whose `amount_used` stops
at 0).

### SystemTask and JobQueue

A pass of a runner is `ExpireRead` ... `ExpireEnd`
(`ExpireStaleSystemTaskLocks`), `SchedRead` ... `SchedEnd`
(`runSystemTaskScheduler`) and `FindPending` ... `ClaimGiveUp`
(`runSystemTaskClaimPass`, `ClaimSystemTask`, `acquireSystemTaskLock`). `Beat`,
`Renew`, `RenewFails`, `Finish`, `LeaseLost` and `FinishRelease` are the
goroutines of a claimed task; the body of a handler is arbitrary work between
them. `Beat` reads the time and sends the renewal, `RenewEnds` (`Renew` or
`RenewFails`) is the UPDATE that compares the lock with that time, and anything
may happen in between; `Finish` compares with a time read earlier too.
`Enqueue` is the API. The throttles (`systemTaskStaleLockInterval`,
`systemTaskSchedulerInterval`) decide freely whether a part of the pass is
skipped. There is one clock for all nodes, as if they were synchronised; `now`
is the timestamp a function read at its start and used in later statements.
`SlowClaims` are the runners that may stay inside `ClaimSystemTask` for longer
than the lease, `SlowHandlers` those whose renewals and outcomes may reach the
database after the lease has run out.

### TaskPolling

`BeginPass` and `SweepTask` are `sweepTimedOutTasks`, `QueryUnfinished` and
`EndPass` the rest of `RunTaskPollingOnce`; `BulkFail` and `Fetch` are the two
ways `updateVideoTasks` and `updateSunoTasks` treat a row, `VideoApply`,
`SunoApply` and `SunoSave` what they do with the vendor's answer.
`AdjustFunding`, `AdjustToken` and `UpdateQuota` are the statements of
`RefundTaskQuota` and `RecalculateTaskQuota`. `RealtimeRead`, `RealtimeAnswer`
and `RealtimeStore` are `tryRealtimeFetch`, which a user's GET of a Gemini or
Vertex video task runs: it reads the row, asks the vendor, and writes status
and progress over a row that still has the status read, ended or not, without
any billing. `Submit` inserts the row with its quota although the settlement
from `Reserved` to that quota may have failed, which is only logged;
`unsettled` is what it failed to move. The other history variables name the
tasks whose billing met a fault (`faulty`), that were failed because their
channel could not be read (`lost`), whose end a fetch wrote or rewrote
(`viewed`) and that a fetch set back to unfinished (`reopened`). SUBMITTED,
QUEUED and IN_PROGRESS are one status, progress is full or open, the actual
amount of a settlement is any member of `Actuals`, each task has a channel of
its own, and the rows of a list are treated in any order (the code's maps have
none).

### Payments and CreditLedger

`RequestPay`, `CheckoutOpened` and `CheckoutFails` are the handlers that create
an order, before or after the gateway is asked for a checkout, as each does it.
`GatewayEnds` is the customer or the gateway. A notice, the browser's return or
an administrator's request occupies a handler from `Receive` to `Answer`;
`LockOrder`, `Acquire`, `UnlockOrder` and `DropLock` are the reference-counted
mutex in the map `orderLocks`. `ReadTopUp`, `SaveTopUp` and
`IncreaseUserQuota` are `EpayNotify`; `Recharge` is the transaction that
`Recharge`, `RechargeCreem`, `RechargeWaffo`, `RechargeWaffoPancake` and
`ManualCompleteTopUp` have in common; `CountSubscriptions` and
`CompleteSubscriptionOrder` are the transaction of a subscription order, split
where two of them can interleave. `DatabaseFails` is any statement failing, with
the answer the handler then gives; `Crash` restarts a node. `approved` and
`hurt` are history variables. The refinement mapping makes an order due when
its gateway has the money or an administrator has asked for it, and closed when
its row has failed or expired.

### Playground

`Send`, `Regenerate`, `ApplyEdit`, `Delete`, `Edit`, `Clear`, `SetStream` and
`Stop` are the handlers of the page; they read `shown`, the state of the last
rendering, as closures of React components do. `Chunk`, `Done`, `StreamFails`
and `ClosesSilently` are the events of the stream, `Response` and `CallFails`
the end of a request without streaming, `FlushTimer` and `SaveTimer` the two
timers, `Load` the effect that reads localStorage, `Leave` and `Reload` the two
ways the page ends. A piece of text names the request it answers and what it
says; a chunk brings one or two pieces, each of them new or a repetition, and
`Snapshot` is the test by which a chunk that begins with everything already
there is taken for the whole text so far. `SaveMessages` and `Load` may be
refused by the schema or the browser, which is only logged (`refused`). An
empty conversation also offers starter prompts, which `Send` without looking at
the generation. `Habits` names what the page does not rule out and the run
excludes (see below).

### DesktopShell

`Ready`, `Connected`, `ConnectFails` and `RetryTimer` are `startServer` and
`checkServerAvailability`; `ServerExits` and `SpawnFails` the events of the
child; `BeforeQuit` is what `app.quit()` leads to, whoever calls it, and
`QuitTimer` the timer that kills the server; `CloseEvent` is the window's close
handler, which hides the window unless the application is quitting.

## Runs

| Run | Bounds | Shows |
|---|---|---|
| `billing` | 2 requests on one wallet, token and subscription, preferences that fall back, at most 2 faults of any class but `record` | `ChargedWhatIsHeld`, `Books`, `LossBounded`, `SubWithinTotal`, `ChargesAreFinal`; `EveryRequestEnds`, `RefundCompletes` |
| `billing_refund_retry` | `record` may fail once | **violated** `RefundIdempotent` (finding 1) |
| `system_task` | 2 runners, 1 type, 2 rows, lease 1, leases begun up to 2; every statement fallible but the update of the claimed row, crashes between passes and inside a claim (before the row is updated, and before a lock is given back), no slow claim or handler | `OneActivePerType`, `SingleExecutor`, `StolenTaskEnded`, `RunningIsCovered`, `LeaseProtects`, refinement of `JobQueue` |
| `system_task_live` | 2 runners, one of them with slow handlers, 1 row; crashes anywhere, the update of the row, its second read, renewals and the outcome's save may fail for ever | `AbandonedTaskEnds`, `LeaseProtects` |
| `system_task_slow_claim` | 1 row, one slow runner, no faults | **violated** `AbandonedTaskEnds` (finding 2) |
| `task_polling` | 2 passes, 1 video task with one realtime fetch, reserved 1 and quota 2, every statement fallible, the settlement of the submission too, crashes anywhere, vendor errors and 100% in progress, settlements below and above the charge | `NeverOverRefunded`, `BilledAsRecorded`, `FinalStatusStays` |
| `task_polling_live` | 1 pass, a Suno task and a legacy video task with one realtime fetch; every odd answer; channel lookup, bulk update and billing may fail for ever | `EveryTaskEnds` |
| `task_polling_suno_save` | 1 pass, 1 Suno task, the save may fail | **violated** `NeverOverRefunded` (finding 3) |
| `payments` | 1 node, 2 handlers, one order of each of nine kinds, or two subscription orders of one user for a plan that may be bought once, MySQL/PostgreSQL and SQLite, 2 failures or restarts | `OneAtATime`, `RowMatchesCredit`, `FinalStatusStays`, refinement of `CreditLedger`, `PaidIsCredited` |
| `payments_limit` | 2 subscription orders, MySQL/PostgreSQL, no faults | **violated** `PurchaseLimit` (finding 4) |
| `playground` | 3 messages created, 3 pieces per reply, new or repeated, 1 reload, 1 stored message, every save and load may be refused | `OwnReply`, `WholeReply`, `NoneLeftPending`, `OneGeneration`, `FinalStays`, `EventuallySaved`, `GenerationEnds` |
| `desktop_shell` | 5 retries, 3 windows, with and without development mode and a foreign program on the port | `NoOrphan`, `OnlyMainWindow`, `CrashIsReported`, `QuitEnds`, `StartSettles` |

Why the bounds are enough to meet the interesting cases: the statements of a
request, a claim or an adjustment touch only their own row and the shared one,
so two actors already produce every conflict on it; amounts are chosen so that
the wallet, the token and the subscription each cover one request and not two,
and a settlement is below, at and above its reservation; two rows of one type
let a task follow another under the same lock; the clock runs one step past
every lease granted up to `Horizon`, so that each can be renewed, expire and be
taken over. Two handlers of one order are every race on its lock but one: a
third that arrives while the second waits (the safety properties of `payments`
also hold with three, 4,419,178 states). One fetch for a user meets a pass
before, between and after each of its statements; that it rewrites what another
one wrote is beyond this bound and covered by the proofs. Three messages are a
prompt, its reply, and that reply regenerated (longer conversations are left to
the proofs); one stored message makes `trimMessages` cut a conversation; three
pieces are two that are flushed or wait and one that repeats them. Three
windows are one more than can exist at a time. The theorems remove the bounds
for every invariant, action property and refinement of the passing runs, under
the hypotheses given below.

Liveness of `BillingSession` assumes weak fairness of every request's steps
(handlers have timeouts and statements return) and strong fairness of the end
of the relay; of `SystemTask`, weak fairness of the loops of runners that are
alive (a ticker drives them), strong fairness of the cleanup's query (the
throttle lets it through again and again), weak fairness of time and of a
renewal that was sent (it reaches the database or fails), and none for
handlers, which may run for ever, or for the API; of `TaskPolling`, weak
fairness of the pass (the scheduler enqueues it for ever) and of the ageing of
a task, and none for the vendor, who may never answer, or for users. `Payments`
assumes weak fairness of each handler, strong fairness of the lock (Go's mutex
hands itself to a waiter that starves) and of the repetition of a payment
notice that was not answered with success, and none for customers and
administrators; `Playground`, that the save timer fires if it stays set and
that a request ends, one way or another; `DesktopShell`, that timers fire and a
connection attempt ends, and nothing of the server, which may ignore SIGTERM.
`system_task`, `task_polling` and `playground` never deadlock; in
`BillingSession` the step `Finished` stands for the end; `payments` and
`desktop_shell` may stop (all orders done; exited).

## What the violated runs show

1. **A subscription can be refunded twice** (`model/subscription.go:1394`).
   The refund commits in a transaction of its own inside the one that marks the
   record; if the outer one fails, the retry refunds again, out of what another
   request has used.
2. **A stalled claim leaves a task running for ever**
   (`model/system_task.go:246`). The cleanup deletes the expired lock of the
   row while it is pending, and the row becomes running without a lock: no
   cleanup finds it, and its active key blocks the type.
3. **A failed Suno task can be refunded twice** (`service/task_polling.go:288`):
   the refund comes before an unguarded save whose failure is only logged.
4. **A plan's purchase limit can be exceeded** (`model/subscription.go:494`).
   The transactions of two paid orders of one user each lock their own order
   and count the subscriptions without a lock; on MySQL and PostgreSQL both
   count before either commits.

More were met while modelling and have no run of their own; a constant keeps
them out of the passing runs, or the property names them as its exception.

- *Billing.* When the raise at settlement fails, or the subscription's total
  refuses it, `Settle` returns an error that its callers only log
  (`service/billing_session.go:54-56`, `controller/relay.go:576-578`): the
  request was served for its reservation, a trusted one for nothing.
  `LossBounded` says that this is all that is lost.
- *Media tasks.* The same error leaves a task's row with a quota that was not
  charged, and a failure later refunds the quota (`unsettled`). A task whose
  channel cannot be read is failed and keeps its charge
  (`service/task_polling.go:389`; `lost`). A realtime fetch
  (`relay/relay_task.go:430-487`) can write FAILURE without a refund and
  SUCCESS without a settlement (`viewed`); since it compares only the status it
  has read, it can also set a failed and refunded row back to unfinished, whose
  next failure is refunded again (`reopened`). `BilledAsRecorded` and
  `NeverOverRefunded` leave these tasks out. An answer that is still in
  progress at 100% (`"FULL"`) takes its row out of both queries and of
  `HasUnfinishedSyncTasks`, so that nothing ends it (`model/task.go:293-334`);
  so does a Suno answer with a reason for failing and no failed status
  (`"REASON"`), which moreover is refunded while the row says otherwise
  (`service/task_polling.go:285-295`). `EveryTaskEnds` excepts a row stored at
  100%, and `BilledAsRecorded` is checked and proved for video tasks only.
- *System tasks.* The cleanup marks a task by id after reading its expired lock
  (`model/system_task.go:366`), although `service/system_task.go:306-307` says a
  long handler stays alive while its heartbeat succeeds. `LeaseProtects` names
  the two windows. When a claim dies or cannot release its lock, the lock stays
  on a pending row; a cleanup reads it after it has expired, another runner
  claims the row, and the cleanup fails a task with a live lease (its timestamp
  is then not later than the row's `updated_at` plus the lease). And a heartbeat
  that stalls between reading the time (`model/system_task.go:332`) and its
  UPDATE renews a lease that a cleanup has meanwhile read as expired, and the
  cleanup fails the task in spite of it (`SlowHandlers`).
- *Payments.* Two nodes break `RowMatchesCredit` for epay top-ups, whose lock is
  a mutex of one process and whose status is checked outside of a transaction
  (`controller/topup.go`); an administrator who completes an order while its
  checkout is still being requested (`"eager"` in `Faults`) sees it overwritten
  as failed when that request fails (`FinalStatusStays`).
- *Playground.* A chunk that begins with all that waits to be flushed replaces
  it, and a flush that begins with all the message holds replaces that
  (`use-chat-handler.ts:54-63`), so that a reply that repeats itself, two equal
  chunks in a row for instance, loses the repetition anywhere in the reply;
  `WholeReply` excepts it and still asks that all that was said is there. A
  save the browser refuses is not tried again before the conversation changes
  (`EventuallySaved` excepts it). An editor left open can be submitted during a
  generation (`"editor"` in `Habits`), and a prompt, a starter prompt too, can
  be sent before the stored conversation is loaded (`"early"`); either breaks
  `OneGeneration` and `OwnReply`.
- *Desktop shell.* An `activate` event before the server has answered leads to
  two windows (`EarlyActivate`: `OnlyMainWindow`).

## Proofs

All theorems hold for every value of the constants that satisfies the named
assumption of the module (natural amounts, `Suno` a set of tasks, finitely many
requests, at least one order and one node, and so on): any number of requests,
runners, rows, passes, tasks, orders, handlers and messages. A further
hypothesis of a theorem excludes a behaviour under which a run or an experiment
above refutes the property.

- **`BillingSessionProofs`**: `TypeCorrect`, `ChargesExact`
  (`ChargedWhatIsHeld`), `SubscriptionBounded` (`SubWithinTotal`) and
  `ChargesFinal`. `ChargedWhatIsHeld` alone is not inductive: what a statement
  moves is computed from the session, so `IInv` adds `SessionInv`, which says
  for each place in the code what the session has recorded (the token and the
  session agree once the reservation stands; a subscription's reservation is
  its pre-consumed part and its raise; a refunded session was never settled).
  `LossesBounded` (`LossBounded`) says what failures cost at most:
  `ChargeFloor` and `PaidFloor` give, for each place in the code, the least that
  a request whose statements may have failed has paid. It and `ChargesExact`
  assume `"record" \notin Fallible`, without which finding 1 refutes both.
  `BooksBalance` (`Books`) says that the shared rows are the sums of what the
  requests hold, and needs no hypothesis. The one invariant of all of these is
  `BillingInv`: `IInv`, the floors while no refund can have been applied twice
  (`Sound`), and `RowInv`, that the wallet and the subscription are the sums of
  the requests' shares. The sums are folds over the requests. That changing one
  term changes the sum by as much (`SumUpdate`), and that a sum of natural
  numbers is no less than any of its terms (`SumCovers`), is proved from the
  smallest set of requests for which it would be false, since proper subsets of
  a finite set are well-founded. With the floors, the second fact makes the
  subscription's row cover what any request may give back (`RowCovers`): the
  lower bound 0 of `amount_used` is then never what decides a refund, and what a
  statement moves is exactly what it was told to.
- **`SystemTaskProofs`**: `TypeCorrect`, `OneActive`, `OneExecutor`,
  `TakeoverSafe` and `Refinement`, with every statement fallible, crashes
  anywhere, and claims and renewals of any length. The heart is that of two
  claims of one type on different rows the older one is on a row that has ended
  (`OlderClaimEnded`), since each row was pending when its claim read it and
  only one row of a type is active; from it follows that a lock expired before
  a claim began is on the claimed row or on an ended one (`OlderLockEnded`).
  For the refinement the unique key (`KeyFree`) and `OneActivePerType` give the
  guard of `JobQueue`'s `Submit`, and every other statement is `Start`, `End`
  or a stutter.
- **`SystemTaskLeaseProofs`**: `Covered` (`RunningIsCovered`) and
  `LeaseRespected` (`LeaseProtects`) assuming `SlowClaims = {}`, without which
  finding 2 refutes the first; statements may fail, runners may die
  anywhere and renewals arrive late. `BeatFresh` says that a renewal in flight
  never shortens a lease, `CoveredInv` that a claim still has its
  lock when it updates the row, and that a lock seen expired does not belong
  to a running row any more; `StaleStaysExpired`, that the lock of a row that
  was running when a cleanup read it as expired is its runner's, and has stayed
  expired unless that runner is one of `SlowHandlers`, whose stalled renewals
  are the second exception of `LeaseProtects`; `BeatPrompt`, that the renewal of
  any other finds its lease still live.
- **`TaskPollingProofs`**: `TypeCorrect`, `NoOverRefund`, `BillsMatchRows` and
  `FinalStays` assuming `Suno = {}`, without which finding 3 refutes them;
  every statement may fail, the settlement of the submission too, nodes may
  die anywhere, and any number of realtime fetches write the same rows. `IInv`
  says that a row in memory, of a pass or of a fetch, that can still win the
  conditional update has the stored quota (`MemFresh`, `ViewFresh`), that a task
  that has not ended is charged its quota up to what its submission failed to
  settle and is billed by nobody (`OpenCharged`), that one pass at most bills a
  task (`OneBiller`), and how far that pass has come (`BillProgress`), each
  for the tasks no fetch has reopened.
- **`PaymentsProofs`**: `TypeCorrect` and `LockExcludes` (`OneAtATime`), on any
  number of nodes. `LockInv` says that the mutex of every user of an order is
  the one in the table of its node (`UsersFindEntry`), that no two entries
  share a mutex (`EntriesApart`), that `refCount` counts the users
  (`CountsUsers`), so that an entry is deleted by its last user only, and that
  the holder of a mutex is the handler at work (`HolderWorks`).
- **`PaymentsLedgerProofs`**: `RowsMatchCredits` (`RowMatchesCredit`),
  `FinalStatusKept` (`FinalStatusStays`) and `PaymentsImplementLedger` (the
  refinement of `CreditLedger`), for one node (`OneNode`: the lock is a mutex of
  one process) and without `"eager"`, both of which break `Payments` as
  described above; notices may be repeated, statements fail and the
  node restart. Over `LockInv`, `OrderInv` says that what a handler serves is
  what the gateway or an administrator said (`NoticesTrue`) and that what it
  read is still so when it writes (`ReadsFresh`), because whoever could change
  the row meanwhile would have to hold the lock of the order (a failed Waffo
  payment is handled without it, but its row is changed by a conditional
  statement and its gateway reports no payment).
- **`PlaygroundProofs`**: `TypeCorrect` for any `Habits`; `GeneratesOnce`
  (`OneGeneration`), `RepliesKeptApart` (`OwnReply`), `RepliesArriveWhole`
  (`WholeReply`), `NothingLeftPending` (`NoneLeftPending`) and
  `FinalMessagesStay` (`FinalStays`) with `Habits = {}`, for conversations and
  replies of any length. `RequestInv` relates all the state and refs that stand
  for the request in progress, `ScreenInv` what was rendered to the
  conversation, and `ConversationInv` says that a generation answers the last
  message, whose text and the buffer together are the reply so far, up to
  repetitions taken for snapshots, and that keys grow along the conversation,
  shown or stored (`Tidy`).
- **`DesktopShellProofs`**: `TypeCorrect`, `NoServerLeftBehind` (`NoOrphan`),
  `CrashReported` (`CrashIsReported`), and `OneWindow` (`OnlyMainWindow`)
  assuming `~EarlyActivate`. `ServerKnown` adds to `NoOrphan` that
  `serverProcess` is set whenever the server runs, which is what `before-quit`
  looks at; `WindowsAfterStart` adds to `OnlyMainWindow` that there is no
  window and no tray before the start has settled.

The proofs are one lemma per action, over frame lemmas for steps that leave
most of the state alone. Each inductive invariant was checked with TLC first.
Only model-checked: the liveness properties (`EveryRequestEnds`,
`RefundCompletes`, `AbandonedTaskEnds`, `EveryTaskEnds`, `PaidIsCredited`,
`EventuallySaved`, `GenerationEnds`, `QuitEnds`, `StartSettles`), since fairness
is beyond the prover.

## Not modelled

Redis and the batch updater are off; one user, one token and one subscription;
clocks of different nodes do not drift. The part of `SettleBilling` for
requests without a session, the realtime API (websockets), the violation fee,
Midjourney, periodic subscription resets, purchases from the balance,
redemption codes and the bodies of the handlers are left out so far. Known and
not checked, for nothing in the repository promises otherwise: concurrent
requests that pass the check of the wallet overdraw it; a token marked
exhausted stays so when reservations are refunded; a node that dies between a
task's last update and its refund, or before its row is inserted, loses the
refund, and so does an insert that fails (`controller/relay.go:598`); an
administrator's edit of a redemption code can overwrite a redemption. In
`Payments`, amounts, signatures, log rows and payment methods, and a status of
Waffo that is not final: `controller/topup_waffo.go:392` ends the order on any
status other than PAY_SUCCESS, and the model's gateway reports only final ones;
in `Playground`, reasoning, options and the text being edited; in
`DesktopShell`, texts and logs, the death of the main process or the end of a
Windows session (no `before-quit` then), and a quit of the system in
development mode, which the window's close handler refuses before `QuitEnds`
applies. The other pages of the console (the bulk of the TypeScript, in three
variants) are forms and tables over the REST interface: each loads, shows and
saves rows, and there is no protocol of steps in them to check. Format
conversion and the vendors' adaptors are stateless; billing expressions are
evaluated by a third-party engine; OAuth, settings and i18n are single requests
over single rows.

## Plan

1. Done: billing session, system tasks, media tasks, payments, the playground
   and the desktop shell, with the proofs of their safety properties.
2. `QuotaStore`: batch updates (`model/utils.go`) and the Redis copies of users
   and tokens (`model/user_cache.go`, `model/token_cache.go`).
3. `SubscriptionLife`: reset, expiry and group changes beside requests, joined
   with the statements of `BillingSession`.
4. `ChannelSelect`: priorities, retries, automatic disabling, multi-key
   polling; `RateLimit`: the in-memory and Redis windows and the token bucket.
