# Nexora in TLA+

A model of the Nexora platform (multi-tenant AI operations: a gateway, three Go
services, Python workers, Postgres and Redis), model-checked with TLC; its safety
properties are proved with TLAPS.  Paths below are relative to `src/`.

## The system

| Part | State | Operations | Talks to |
|---|---|---|---|
| Gateway (`gateway/src`) | Redis: auth cache (30 s), rate-limit windows; reads the concurrency counter | auth, rate limit, quota guard, concurrency guard, proxy | customer access, usage, operations over HTTP; Redis |
| Customer access (`services/customer-access`) | tables `tenants`, `api_keys` | create tenant, create / revoke / validate key | Postgres |
| Operations (`services/operations`) | tables `operations`, `operation_attempts`; Redis list, delayed set, concurrency counters | create, cancel, start attempt, complete attempt; scheduler; notifier | Postgres, Redis, usage & webhooks over HTTP |
| Worker (`worker/app`) | none that survives the process | BRPOP, fetch, start, provider call, report | Redis, operations over HTTP, AI providers |
| Usage & webhooks (`services/usage-webhooks`) | tables `usage_events`, `webhook_endpoints`, `webhook_deliveries` | record usage, dispatch event, retry sweep, consumption | Postgres, customers' endpoints |
| Dashboard, dummy customer, seed script | none | clients of the public API | gateway |

What is hard in it, and where:

* **Everything is check-then-act across processes.**  The worker reads an
  operation from one request and starts the attempt with another; the handler
  reads `attempt_count`, moves a Redis counter, runs a transaction and then
  writes to Redis again.  Only some of the UPDATEs are guarded.
* **Requests time out while their handler goes on.**  The worker's client gives
  up after 10 s; the handler's context is cancelled, but what it committed stays
  and statements already sent may still commit.  A success whose answer is lost
  is reported again, as a failure.
* **Jobs live in one place at a time and nothing else protects an operation.**
  BRPOP is destructive: a crash loses the job (the operation is stuck), and no
  lock keeps a second job away; that there is never a second job is a property
  of the whole protocol.
* **The dispatch handler and the retry sweep write the same rows** without looking
  at what is there, one of them in a context its caller cancels after 3 s.
* **Side effects are not in the transaction**: the enqueue after the INSERT, the
  ZADD after RETRYING, the counter, the notifier goroutine.
* **The gateway decides on copies.**  A key's validity comes from a cache, a
  window is named before it is counted, its time to live is a second command, the
  quota is compared with usage that is recorded much later, and the concurrency
  guard reads a counter that workers and late handlers move.
* **Lists are paged by OFFSET** over a table that grows and changes between pages.

`PROJECT.json` lists these hazards at their lines, with the properties that would
catch them going wrong.

Correctness, by part:

* operations + worker: an operation is in one place at a time; attempts are
  numbered without gaps; at most `max_retries` attempts; finished stays
  finished; create is idempotent per tenant and key; usage, events, verdicts and
  slots agree with the status; everything ends;
* usage & webhooks: an event reaches every active endpoint or is given up after
  five attempts; DELIVERED means accepted; every recorded delivery is settled in
  the end; usage is counted once;
* gateway: no request of a revoked key after the cache expires; limits hold up
  to what the guards can see; tenants come only from keys.

## Modules

| Module | What it is |
|---|---|
| `Lifecycle` | abstract specification: status and attempt count of each operation, and nothing else |
| `Operations` | the operations service (handlers, repository, queues, scheduler, notifier) and the workers |
| `OperationsProps` | the properties of `Operations`, the refinement mapping to `Lifecycle`, the inductive invariants |
| `MCOperations` | values of the constants for TLC |
| `OperationsProofs` | the theorems about it that hold for every `Env` |
| `OutcomeProofs` | the theorems about billing, events, verdicts and slots, with the `Env` they need |
| `Webhooks` | the dispatcher of the usage & webhooks service, the delivery table, the retry sweep |
| `WebhooksProps`, `MCWebhooks`, `WebhooksProofs` | its properties and inductive invariant, the root module for TLC, its theorems |
| `Access` | the customer access service: tenants, keys, the validating query |
| `Gateway` | extends `Access`: authentication with its cache, the rate limiter, the clock |
| `GatewayProps`, `MCGateway`, `GatewayProofs` | its properties and inductive invariant, the root module for TLC, its theorems |
| `Platform` | extends `Operations`: the quota and concurrency guards before `createOperation`, composed with the service they read from |
| `PlatformProps`, `MCPlatform`, `PlatformProofs` | its properties and inductive invariant, the root module for TLC, its theorems |
| `Listing` | the list handlers, page by page, over a table that changes as `Lifecycle` (by INSTANCE) allows; its properties and inductive invariant |
| `MCListing`, `ListingProofs` | the root module for TLC, its theorems |

### Operations

One step is one statement that others can see: a Postgres statement or
transaction, one Redis command or MULTI, an HTTP request arriving or being
answered.  An operation is named by the create call that inserts its row; an
*exec* is one activation of `process_job`, and its attempt row and its (at most
two) reports are named by it.

| State | Code |
|---|---|
| `status`, `attemptCount` | `operations.status` ("ABSENT": no row), `.attempt_count` |
| `result` | `operation_attempts.success` ("none": no row, "null": NULL) |
| `usage` | the operations in `usage_events` (UNIQUE(operation_id)) |
| `mainQ`, `delayed`, `conc` | the Redis list (head = next popped), the sorted set, the per-tenant counters |
| `due` | the members `PromoteDueRetries` has read and not yet moved |
| `call`, `tenant`, `key`, `returned` | where a `createOperation` call is, its tenant and idempotency key, the operation it answers with |
| `idle`, `pc`, `op`, `number`, `category` | worker processes in BRPOP; where a `process_job` is, and its locals |
| `start`, `report`, `snap` | progress of the `startAttempt` handler and of the two possible `completeAttempt` handlers of an exec; the attempt count the failing one read |
| `note` | progress of the notifier goroutine of a report |

`Env` selects what may happen besides normal operation: `"cancel"` (the customer
cancels), `"error"` (a Postgres or Redis statement fails or its handler dies, what was
committed before stays; an HTTP request is answered with an error or never arrives),
`"timeout"` (the worker's HTTP client sees an error although the handler goes on or is
done: 10 s are over, or the connection or the answer is lost), `"crash"` (worker processes die and are started again), `"input"` (an
input that is a JSON string which is not JSON).  A handler whose caller has hung
up may stop at its next statement (its context is cancelled) or still complete.

Abstracted: payloads, outputs, error texts, timestamps; the provider chain (an
arbitrary outcome); the backoff delay (any subset of the delayed jobs may be
due); several instances of the operations service (there is one scheduler, as
in `docker-compose.yml`).  A Redis or Postgres command is applied at most once:
re-sending by a client library is not modelled.  Requests that `createOperation`
refuses before the repository call (no tenant, bad body) change nothing.

### Webhooks

`Webhooks` starts where the notifier of `Operations` ends (`DispatchWebhook`): an
*event* is one call of `POST /internal/webhooks/dispatch`.  A delivery is named by
its event and its endpoint.

| State | Code |
|---|---|
| `owner`, `registered` | `webhook_endpoints`: `tenant_id`, and which rows exist |
| `row`, `attemptCount` | `webhook_deliveries.status` ("ABSENT": no row), `.attempt_count` |
| `call`, `subject`, `endpoints`, `todo`, `hung` | where `Dispatch` is, its tenant, the endpoints it loaded, those still ahead, whether its context is cancelled |
| `due` | what `RetryDue` has read and not yet sent, with the `attempt_count` it read |
| `step`, `job`, `attempt` | `attemptDelivery` of each actor (a handler, or the sweep): where it is, its arguments |
| `acked` | history: the deliveries a customer has answered with 2xx |

`Env` is a subset of `"hangup"` (the notifier's client gives up) and `"error"` (a
Postgres statement fails); `MaxCrashes` bounds how often the service dies.  An
INSERT that commits while its caller sees an error leaves the same state as
`CreateDelivery` followed by a failed send and a failed UPDATE, so it has no
action of its own; an UPDATE that commits unseen is a `Mark`.  The clock is
abstracted: any set of pending rows may be due, also right after the INSERT
(`next_attempt_at = now()`).  Payloads and signatures are left out.

### Access and Gateway

A request goes through `authMiddleware` and `rateLimitMiddleware`; one step is one
Redis command, one validation, or the reading of the clock.  A Redis key with a
time to live is kept as the time at which it is gone.

| State | Code |
|---|---|
| `rpm` | `tenants.rate_limit_rpm` (0: no row) |
| `keyStatus`, `owner`, `revokedAt` | `api_keys.status` ("absent": no row), `.tenant_id`, `.revoked_at` |
| `now`, `minute`, `nextMinute` | the clock, `Date.now() / 60000`, and when that changes next |
| `cache` | `nexora:authcache:<key>`: when it expires |
| `counter`, `ttl` | `nexora:ratelimit:<tenant>:<minute>`: its value, when it expires (0: never) |
| `pc`, `apiKey`, `bucket`, `count` | a request: where it is or how it was answered, its key, the limiter's locals |
| `readAt` | history: when its key was validated |
| `born`, `life` | history: when a window's key was created last; when the window that counted a request was created |
| `onTime`, `cutOff` | history: whose INCR was executed in the minute it names; the windows whose creation was cut off before EXPIRE |

With `"error"` in `GatewayEnv` the GET, the validation and the SET may fail (the
`catch` answers 503), the validating query may fail (the handler answers 401, as for
an unknown key), INCR may be executed twice, and INCR or EXPIRE may be rejected,
executed or not.  Nothing catches that rejection (Express 4, Node 20), so the process
ends and all its requests with it.  With `"death"` the process also ends at any other
moment (`ProcessDies`): the `/admin/*` handlers await a `fetch` that nothing catches
either (index.ts:93-123), and a gateway is restarted.  A command that is executed although
its process ends is `Incr` or `Expire` followed by `ProcessDies`.  `MaxLag` is an assumption: from the validating query to the
SET of its result no more than `MaxLag` passes; the code sets no timeout there, and
without one no bound on a revoked key's life holds.  A tenant's limits never
change after creation (no code does it), so a cached limit is the current one.
Nothing refuses a negative limit; the model assumes none is set.

### Platform

`Platform` adds to `Operations` a variable `gate` (at which guard a create request is, or
how the gateway answered it), `earlier` (the operations metered before the first of
the month, so that `Consumed` is what `GetUsageSummary` sums), and two history
variables: `peak`, the most operations of a tenant outstanding at once, and
`opened`, the requests admitted because usage could not be read.  The quota guard is
one step (the query is one statement, and the comparison only looks at its
result), the concurrency guard another.  `GatewayDies` takes the requests that are not
forwarded yet; for a forwarded one the death of the gateway cancels the context of
`createOperation`, which is `CreateFails` (with `"error"` in `Env`).  When `proxyTo` answers
503, the request was not forwarded (it takes no further step, which `PlatformSpec`
allows; the run with fairness assumes that the service is reached) or only its answer was
lost.  Every step of `Operations` is a step of
`Platform`, with one restriction: `createOperation` runs for forwarded requests only.

### Listing

`Listing` lets a client walk through all pages of a query (`GET /v1/operations` or
`GET /internal/operations`), advancing its offset by what it was given, while the
table changes.  An inserted row may get any `createdAt` no other row has, also an earlier
one, because `created_at` is the start of the inserting statement, not its commit.  (With
equal ones the order between two pages is not determined; the model leaves that out.)
`Ahead(q, o)` is ORDER BY created_at DESC: the matching rows that come before `o`, whose
number is its place in the result; a page is the rows whose place is within LIMIT and
OFFSET.  `wanted` is a history variable: what matched when the walk began.

## Runs

All bounds are on the constants; no run uses a state constraint.  `EnoughExecs`
gives `MaxRetries` execs per operation: a job exists only while attempts are
left (part of `Budget`, proved), and each exec that gets past the fetch uses one
up or loses the job, so no run is cut short.

| Run | Instance | Shows |
|---|---|---|
| `OperationsFaults` | 1 operation, 2 attempts, 2 workers, all trouble | `SingleTicket`, `WaitingIsNotRunning`, `AttemptHistory`, `FinalStatesImmutable`, `Implements`, and `IndInv`, the invariant of the proofs |
| `OperationsCrashes` | 2 operations, 2 attempts, 2 workers, crashes | `BilledIsSucceeded`, `EventsMatchStatus`, `VerdictsAgree`, `NoLeakedSlot`, and `OutcomeInv`, the invariant of their proofs |
| `OperationsLiveness` | 2 creations, with or without one Idempotency-Key, 2 attempts, 1 worker, cancellations, fairness | `EveryOperationEnds`, `SuccessIsMetered`, `SlotsReleased`, `AttemptsGetVerdict` |
| `Platform` | 2 create calls with or without the same key, 1 worker, 1 attempt, quota 1, 1 slot, cancellations, an unreachable usage service, a dying gateway, fairness | `QuotaOvershoot`, `IdempotentCreate`, `AdmittedInTheEnd`, and `OvershootInv`, the invariant of the proofs |
| `WebhooksFaults` | 1 event, 3 endpoints (1 bad url), 2 attempts, hang-ups, errors, 1 restart | `GivenUpAfterMax`, `AttemptsBounded`, `DeliveredIsAcked`, and `IndInv`, the invariant of the proofs |
| `WebhooksLiveness` | 1 event, 2 endpoints, hang-ups, 1 restart, fairness | `ServedUnlessHungUp`, `EveryDeliverySettles` |
| `Gateway` | 3 requests, 1 tenant, 1 key, limit 1 or 2, cache lifetime and minute of 2 ticks, lag 1, 3 ticks, all errors, the process ending at any time | `RevocationTakesEffect`, `RateLimited`, `WindowsExpire`, and `IndInv`, the invariant of the proofs |
| `Listing` | 3 operations, 2 tenants, with and without a status filter, page sizes 1 and 2 (also by default) | `NothingMissed`, and `ListingInv`, the invariant of the proof |

Two attempts are enough for first, repeated and last attempt to differ; one
operation is enough for the first run because its properties are about one
operation at a time and operations share only the queues (two operations and
everything else are covered by the proofs, for all constants).  Two workers
interleave on different operations only, which is what `SingleTicket` says.  In
`Webhooks` a row is written by one handler and the sweep only, so one event shows
every race for a row; a batch of two is smaller than the three rows there can be.
The bound of `AttemptsBounded` is tight: TLC refutes `MaxAttempts + 1`.

In `Gateway` three ticks hold a revocation and the two ticks and the lag its cache entry
survives it, and at least one change of minute, so that a window expires and is
created again by a late request; three requests exceed either limit.  Requests
are symmetric (no action or property tells them apart).  In `Platform` two calls are
enough to overrun a quota of one and to wait for one slot.  `QuotaOvershoot` says how
soft the quota is: what is metered or may still be is below the quota plus the
most operations that were outstanding at once, plus those admitted unread;
nothing smaller holds, since the guard sees an operation only when it has
succeeded.  In `Listing` three rows and a page of one or two put a page boundary
before, between and after every pair, and three times give every order of three rows
(operations are symmetric, and so are tenants); the claim is made for walks without a
status filter or with a final status, whose matching rows stay matching.

Deadlock checking is off: when every request has been made and answered and
every job has run, the system rests.

Runs that end in a violation show where the repository's own words do not hold:

| Run | Claim | What happens |
|---|---|---|
| `CancelledIsRevived` | terminal states are immutable (README.md) | fetch, cancel, start: CANCELLED becomes RUNNING |
| `SucceededIsDeadLettered` | notified of the transition that happened (notify.go) | success answered late, reported as failure: SUCCEEDED, told "dead_lettered" |
| `ReplayOfStranded` | create is safe to retry (postgres.go) | enqueue fails after INSERT: the retry answers with an operation never submitted |
| `TenantIsLockedOut` | retry "once capacity frees up" (concurrency.ts) | a worker dies with an operation RUNNING: its slot is never freed, every retry is refused |

More divergences show in the models and have no run of their own:

* an operation cancelled while it runs is billed: `completeAttempt` starts
  `NotifySuccess` whether or not its guarded UPDATE matched a row, although usage is
  for an operation that "just became SUCCEEDED" (README.md:111); `BilledIsSucceeded` with
  `Env = {"cancel"}` shows it;
* a start that times out between its transaction and its INCR leaves the
  operation RUNNING and not counted, although the counter and the status "never
  drift out of sync" (concurrency.ts);
* a caller that hangs up during a slow endpoint (its client waits 3 s, an endpoint may
  take 5 s) makes the INSERT of every later delivery fail, so those endpoints are
  skipped for good, although "a slow/dead customer endpoint never blocks the caller"
  (webhook.go:38-41); `ServedUnlessHungUp` without its `~hung` shows it;
* the quota is no "hard rejection at the perimeter" (usage-webhooks
  `getConsumption`): `QuotaOvershoot` bounds by how much it is overrun;
* the double report behind `SucceededIsDeadLettered` also overwrites the attempt's
  verdict (`CompleteAttemptFailure` writes `success = false` under a SUCCEEDED operation);
* no statement moves RETRYING back to QUEUED, as README.md:70 has it;
* `json.loads` of an input is outside the worker's try block (`InputRaises`), so the
  attempt it has started gets no verdict;
* the sweep may take a delivery whose first attempt is in flight, not only those
  "whose backoff window has elapsed" (webhook.go:72), because the row is due from its
  INSERT on;
* more requests than the limit may pass in 60 s of a minute ("100 requests/minute",
  rateLimit.ts:7): a request that is late, its window named in one minute and counted in a
  later one, is not counted in the minute it runs in, and if its own window has expired it
  creates it anew, with a count of 1.  `RateLimited` says what remains: per window the limit
  holds, a minute's window is created anew at most every 60 s, and the requests that are not
  late share one;
* a gateway that ends between INCR and EXPIRE leaves a window that never expires
  (`WindowsExpire` says exactly which); it refuses nobody, because its minute does not come
  back, but its key stays in Redis;
* a validation whose query fails is answered 401 "invalid or revoked", not 503
  (`ValidateErrs`).

### Fairness

`Fairness` is weak fairness of: each create call once it has started, each
worker activation, each handler, each notifier goroutine, and the scheduler's
read and MULTI.  A goroutine or a process that can take a step takes it: the
worker loops for ever around BRPOP, the ticker ticks every second, and a
delayed job becomes due because its score is a fixed time.  Weak fairness of `PopJob`
per exec suffices because the execs are taken in order.  Nothing is assumed of
new requests, of cancellations or of failures.  The four properties have the form
`<>[]`: calls, operations and attempts are finitely many in an instance, and what
is accepted, succeeded or started stays so, so that every one of them gets its
end exactly when all have it for good from some point on.  Liveness of `Operations` is checked only without
errors, timeouts and crashes: with them the code has no repair (a popped job is
gone), which the hazards list says.

In `Webhooks`, a handler that has started, a send (its client has a timeout) and
the sweep's loop get weak fairness.  Reading a delivery gets strong fairness:
the sweep's query is disabled while the previous batch is being sent, and it
takes the 50 rows due longest (`ORDER BY next_attempt_at`), where a failed row goes
behind the others, so a row that is pending again and again is read in the end.
`EveryDeliverySettles` is checked with hang-ups and a restart, which the sweep is
there to repair; not with failing statements, which could fail for ever.

`PlatformFairSpec` has the fairness of `Operations` for what is behind the gateway, and
weak fairness of the gateway's guards and of the customer's retry: the error
message asks for it, and `AdmittedInTheEnd` is about a customer who does retry.
Nothing is assumed of new requests, of failures or of the calendar.  `AdmittedInTheEnd`
is checked without crashes, errors and timeouts behind the gateway;
`TenantIsLockedOut` is the same property with worker crashes.

## Proofs

`OperationsProofs` proves, for every set of requests, execs, tenants and keys,
every number of workers and attempts, and every `Env`:

| Theorem | Statement |
|---|---|
| `InvariantHolds` | `Spec => []IndInv` |
| `TypeCorrect`, `TicketIsSingle`, `NoneWaitsWhileRunning`, `HistoryIsGapless` | its parts `TypeOK`, `SingleTicket`, `WaitingIsNotRunning`, `AttemptHistory` |
| `ImplementsLifecycle` | `Spec => Implements`: the refinement of `Lifecycle` |
| `FinalIsFinal` | `Spec => FinalStatesImmutable` |
| `CreateIsIdempotent` | `Spec => []IdempotentCreate` |

Assumptions: those of `Operations` (`MaxRetries` is a positive natural, execs are
positive numbers, there is a request, `NoKey` is not a key); TLC evaluates them in
every run.

The argument.  `StartAttempt` checks neither the status nor the number it
writes, so "never a start while RUNNING", "never a finished operation restarted"
and "numbers without gaps" can only follow from where jobs can be.  The
inductive invariant `IndInv` therefore says where the ticket of an operation is:

* `Shape`: what `process_job` has done limits what its handlers can have done;
* `RowsExist`: whatever names an operation was made after its row;
* `SingleTicket`: create call, queue, delayed set and execs never hold the same
  operation twice.  An exec holds it from the pop until its failure report is
  finished; the double report after a lost success keeps the same ticket;
* `WaitingIsNotRunning`: where a ticket waits, the operation is not RUNNING, so
  the only guard that matters (`status = 'RUNNING'` in the completing UPDATEs)
  cannot be satisfied by someone else's attempt when it counts;
* `Budget`: where a ticket waits, attempts are left, and whoever read
  `attempt_count` read the current one;
* `AttemptHistory`.

Each part has a lemma `...Step` with one step per action; the parts it needs are
its assumptions.  The refinement needs the whole of `IndInv` for `StartAttempt` and
the two completing transactions only (`FewWrite`: no other step writes the
table).  `CreateIsIdempotent` uses `KeysUnique` (one row per tenant and key), which is
inductive together with `IndInv`.

`OutcomeProofs` proves how billing, events, verdicts and slots agree with the status.  These
do not hold under every kind of trouble, so each theorem has a hypothesis on `Env`:

| Theorem | Hypothesis | Statement |
|---|---|---|
| `SuccessIsFinal` | no `"timeout"` | `Spec => []SuccessIsLast` |
| `OnlySuccessIsBilled` | no `"timeout"`, no `"cancel"` | `Spec => []BilledIsSucceeded` |
| `VerdictMatchesStatus`, `ToldWhatHappened` | at most `"crash"` and `"input"` | `Spec => []VerdictsAgree`, `Spec => []EventsMatchStatus` |
| `OutcomesHold`, `NoSlotLeaks` | at most `"crash"` and `"input"` | `Spec => []OutcomeInv`, `Spec => []NoLeakedSlot` |

The hypotheses are where the code stops keeping the property.  `"timeout"`, which stands
for every answer the worker does not get of a handler that goes on or is done, makes the
worker report as failed what a handler goes on to finish as a success
(`SucceededIsDeadLettered`), and the notifier of the success then bills an operation that
may be DEAD_LETTERED; a cancellation is not seen by the handler that bills.  An error after
the commit of a success has the double report without a timeout, which overwrites the
verdict; an error of the DECR keeps a slot for good.  A crash or a bad input only stops a
worker, and what it leaves behind is a RUNNING operation with its slot.

The argument.  `SuccessIsLast` says that an attempt at work, or whose success is being
reported, has the ticket of its operation for itself (`HeldElsewhere` is false, from
`SingleTicket`), and that no failure of it is reported besides: so nobody takes the
operation out of SUCCEEDED before it is billed.  `Verdict(e)` relates the report of an
attempt, its row, and, for the last attempt of an operation, the status: the row and the
operation are written in one transaction, but only the operation's UPDATE is guarded, so
what must be shown is that the guard (`status = 'RUNNING'`) always matches; it does,
because a row without verdict is the last one and its operation is RUNNING.  Two events of
one operation would be two attempts that both end it, and both would be the last one, which
`AttemptHistory` excludes.  `SlotsCounted` bounds the counter by the execs that took a slot
and have not given it back (`SlotHolders`), each of which stands for another RUNNING
operation (an injection, again by `AttemptHistory`).  The clamp, a second command after a
negative DECR, may overwrite an increment between the two; it can only lower what the counter claims.

`WebhooksProofs` proves, for every set of events, endpoints and tenants, every
`MaxAttempts` and `Batch`, every `Env` and number of restarts:

| Theorem | Statement |
|---|---|
| `InvariantHolds`, `WebhookTypes` | `Spec => []IndInv`, `Spec => []TypeOK` |
| `GivenUpOnlyAfterMax` | `Spec => []GivenUpAfterMax` |
| `AttemptsAreBounded` | `Spec => []AttemptsBounded` |
| `DeliveredWasAcked` | `Spec => []DeliveredIsAcked` |
| `EveryEndpointIsServed` | `Spec => []ServedUnlessHungUp`, if no statement fails (`"error"` not in `Env`) |

Assumptions: those of `Webhooks` (`MaxAttempts` and `Batch` positive, the sweep is
no event, there is an event and an endpoint).  The argument: the sweep compares
a count it read earlier with `maxAttempts`, and nothing guards the row in
between, so neither bound is inductive.  `Known` says how stale the count can be:
the handler sends a delivery once, and the sweep is alone, so at most one
outcome, the handler's, is recorded between the sweep's read and its write; and
if it was, the row was PENDING with fewer than `maxAttempts` recorded when the
sweep read it (`Counts`).  `Senders` says who can be sending what, `Answers` what
has been answered.  `BoundsMark` is the step that matters, a recorded outcome;
`BoundsFrame` covers all steps that only take senders away.
`EveryEndpointIsServed` rests on `LoopServes`: every endpoint the handler's loop has left
behind has a row, unless the caller hung up; a failing INSERT skips its endpoint, hence
the hypothesis.

`GatewayProofs` proves, for every set of requests, tenants and keys, every cache
lifetime, minute and lag, a window at least as long as a minute, and every `GatewayEnv`:

| Theorem | Statement |
|---|---|
| `InvariantHolds` | `Spec => []IndInv` |
| `RevocationBound` | `Spec => RevocationTakesEffect` |
| `RateIsLimited` | `Spec => []RateLimited` |
| `WindowsGetTtl` | `Spec => []WindowsExpire` |

Assumptions: those of `Access` and `Gateway` (times are natural numbers, `Window >= Minute`,
limits are not negative, no key is "no credentials").  The argument.  `CacheSound`: a
cache entry of a revoked key ends at most `Ttl + MaxLag` after the revocation, because
what is being cached was read as active at most `MaxLag` ago; a hit or a store then
gives the bound.  `TtlSound`: no window of the current minute can expire before the
minute is over (a late EXPIRE still lasts a whole minute), and none within `Window` of its
creation.  So a step keeps a window and raises its counter, or creates it anew when both
times are over (`Kept`: true of INCR and EXPIRE, executed once, twice or unseen).
`CountSound` and `LivesSound` follow: a counted request belongs to the window as it is, and
holds a value its counter has reached, or to one created at least `Window` earlier; the
requests of one life hold different values, and those on time belong to one life.  Those
that passed hold values up to the limit, so `count` maps them one to one into `1..rpm`,
which bounds their number.  `WindowsExpire` is inductive by itself: INCR returns 1 only for
a window that did not exist, so a window has one creator (`CountExpiry`), only this one's
EXPIRE ends its being pending (`SetTtlExpiry`), and the end of the process turns every
pending window into a cut-off one (`DeathExpiry`), which exists for ever, so that INCR never
returns 1 for it again.

`PlatformProofs` proves `PlatformSpec => Spec`, the guards only restrict the service, and
with it `RetriedCreateIsIdempotent` and `PlatformTicketIsSingle`; every safety theorem of
`OperationsProofs` and `OutcomeProofs` carries over in the same way.  About the guards
themselves, for every quota, number of slots and `GateEnv`:

| Theorem | Statement |
|---|---|
| `PlatformTypes` | `PlatformSpec => []PlatformTypeOK` |
| `ChargesAreBounded` | `PlatformSpec => []OvershootInv`, if the worker waits (`"timeout"` not in `Env`) |
| `OverrunIsBounded` | `PlatformSpec => []QuotaOvershoot`, under the same hypothesis |

The argument.  `Charged(t)` is what a tenant has consumed this month or may still consume.
Only the quota guard adds to it: within the quota it leaves at most `Quota - 1` consumed
and `peak` outstanding, and unread it adds to `opened` (`PassCharges`).  A step of the
service never does (`ServiceCharges`): a usage record moves its operation from outstanding
to consumed.  For this the operation must still count as outstanding when it is billed,
which is `SuccessIsLast` (it has not become FAILED or DEAD_LETTERED meanwhile; with
timeouts it can), and it must have come through the gateway (`AllForwarded`).  The proof
needs no bound on the number of requests: those that have arrived are finitely many.

`ListingProofs` proves, for every set of operations and tenants, every set of filters and
limits and every `MaxLimit` and `DefaultLimit`:

| Theorem | Statement |
|---|---|
| `InvariantHolds` | `Spec => []ListingInv` |
| `PagingMissesNothing` | `Spec => []NothingMissed` |

Assumptions: those of `Listing` (limits are integers, the default is between 1 and the
maximum).  The argument: `StillAhead` says that what a client has still to be shown is at or
behind its offset.  A row that comes, or starts to match, only pushes others back, and under
a stable filter none stops matching (`MatchingGrows`).  Reading a page moves the offset by at
most the limit, since no two rows have the same place (`PageBounded`), so a row that was
behind the page stays at or behind the offset.  The walk ends with an empty page, and then
nothing is behind the offset: places are an injection of the result into as many numbers,
hence onto them, so that a row behind the offset means one at the offset (`PageNotEmpty`).

Only model-checked: liveness (`OperationsLiveness`, `EveryDeliverySettles`,
`AdmittedInTheEnd`), which is out of the prover's reach.

## Plan

1. `Operations`, its properties and proofs (done).
2. `Webhooks`: the dispatcher, the delivery table and the retry sweep, its
   properties and proofs (done).
3. `Access` and `Gateway`: the auth cache against revocation, rate-limit windows,
   their properties and proofs (done).
4. `Platform`: the quota and concurrency guards over the service (done), `Listing` (done).
5. Proofs under an assumption on `Env`: `BilledIsSucceeded`, `EventsMatchStatus`,
   `VerdictsAgree`, `NoLeakedSlot`, `ServedUnlessHungUp`, `QuotaOvershoot`; `NothingMissed` (done).

## Not modelled

The dashboard, the dummy customer and the seed script (clients without state of
their own); key generation and hashing (pure cryptography); start-up and
connection retries; reads of one statement (a tenant, an operation, its
attempts, the summary, the lists of tenants, keys and endpoints), which show one
snapshot of tables that are modelled; which AI provider answers (`WorkFails` and
`WorkSucceeds` cover every outcome of the chain); the other `/v1`
routes of the gateway, which pass through `Gateway` and no guard; the `/admin/*` routes,
which pass through neither (no authentication, no limiter) and only read: of them the
unhandled rejection is modelled (`ProcessDies`, `GatewayDies`).  Redis commands of the operations service
that its client library sends again are left out: a repeated LPUSH or ZADD would
give an operation a second job, which nothing in the code detects, and the
proofs of `Operations` assume that a command is applied at most once.
