# A TLA+ model of the agntspark gateway

The gateway is one asyncio process in front of PostgreSQL, Docker, Redis and
Stripe. Its handlers and its scheduler interleave at every `await`, each with a
database session of its own, so most of what can go wrong lies between two
awaits. The models make every such await a step, and ask what still holds when
other tasks, failures, cancellations and restarts come in between.

## Parts of the system

| Part | Source (`src/agntspark_gateway/`) | Module |
|---|---|---|
| Request metering | `services/metering_service.py`, `scheduler.py`, `main.py` | `RequestMetering`, `UsageLedger` |
| Usage time metering | `services/metering_service.py`, `scheduler.py` | `UsageClock` |
| Agent lifecycle, quota, scheduler tick, runtime facade | `services/agent_service.py`, `services/quota_service.py`, `scheduler.py`, `runtime.py` | `AgentLifecycle` |
| Environment and secrets of agents | `services/agent_service.py`, `security/secrets.py` | `AgentEnv` |
| Ingress and its limits, access keys, PATCH | `routers/ingress.py`, `security/ingress_limits.py`, `services/access_key_service.py`, `routers/agents.py` | `Ingress` |
| Authentication, API keys, administration | `security/dependencies.py`, `services/api_key_service.py`, `routers/admin.py`, `scripts/set_user_role.py` | `AccessControl` |
| Login rate limit | `security/rate_limit.py` | `LoginRateLimit` |
| Registration and invites | `services/auth_service.py`, `services/invite_service.py` | `Registration` |
| Billing | `services/billing_service.py`, `routers/billing.py` | `Billing` |
| Live log stream | `routers/agents.py`, `services/agent_service.py` | `LogStream` |
| Errors and request context | `exceptions.py`, `error_handlers.py`, `observability.py` | `RequestPipeline` |

Every request comes in through the layers of `RequestPipeline` and, on the API,
the authentication of `AccessControl`. The edge asks `Ingress` about each request to
an agent; those it routes are counted in `RequestMetering`. The scheduler's tick
flushes these counts, then syncs and scales agents (`AgentLifecycle`) and meters
their running time (`UsageClock`). Billing and administration decide the plan that
quota and ingress read: in `Ingress` it changes at any time, in `AgentLifecycle` it
is a constant.

`PROJECT.json` maps each definition to the lines it models and lists the
hazards, those that no property covers included.

## Modules

**RequestMetering.** `pending` is `_pending_requests`, `batch` the local copy of
`flush_requests`, `txn` the open transaction, `usageHours` the committed rows. The
actions are `count_request`, the synchronous prefix of a flush, its SELECT, each
upsert, COMMIT, ROLLBACK and put-back; a failure at each; cancellation by
`lifespan`; crash, restart and deletion of an account. `counted`, `dropped`,
`lost`, `recounted` and `age` are history. `age` stops one past what the property
about it allows, so it is bounded whatever the code does.

**UsageLedger.** What request metering promises: a request is unwritten until it
is written, and written at most once. `RequestMetering` refines it with
`unwritten <- pending + batch` and `written <- usageHours`, less what was recounted
because the answer to a COMMIT was lost.

**UsageClock.** The scheduler loop as a clock sees it: `started` is `last_tick`,
`known` that it is set, `seconds` what the tick meters, `usage` the buckets of
`usage_hours`. A tick can last any time, fail between two agents, or end with the
process.

**AgentLifecycle.** One account: its `rows`, the containers `live` in Docker, the
agents the runtime has `known` track of, requests `req` and scheduler `sched`, each
holding the rows its session loaded. A commit sends the columns that differ from
the loaded row and fails if the row is gone. In `SerialSpec` nothing overlaps and
nothing fails.

**AgentEnv.** The `env` column and what becomes of it: stored with secrets
encrypted, merged with the provider key, loaded, committed, refreshed and handed to
containers, by deployments that overlap and fail. A configuration keeps
each of the row's provider variables (`ProviderKeys`; the code has three) that it does
not name itself. `wanted` is history: what the configurations sent so far ask for.

**Ingress.** One owner's agents and access keys, the two `FixedWindowLimiter`
objects, the edge's questions (`Route`, then `CheckKey` after the await) and the
owner's requests, each loaded at one step and committed at a later one. Time is in
parts of a second. `spent`, `terms`, `excused` and `trespass` are history; `spent`
and `terms` begin anew with a window and, as the limiters do, with a restart.

**AccessControl.** Accounts, API keys, sessions and requests in flight. Each request
carries whether its credential was good and its account entitled at some time since
it came in; `usurped` records one that took effect without. `role` is the
`Principal`'s. Revoking a key asks for no role, as in `routers/api_keys.py`, where the
repository's README says that it does: `finding_roles`.

**LoginRateLimit.** One address's counter in Redis. INCR, EXPIRE and TTL are
separate steps; each can fail, INCR with or without having been applied.

**Registration.** Sign-ups and revocations as transactions with the invite's row
lock, the unique index of addresses, expiry and rollback. An invite without
`expires_at` is one whose time does not come. The registration mode is any of the
three and does not change.

**Billing.** One account, and Stripe as its environment: subscriptions go through
checkout, first payment, renewals and cancellation, and emit events that are
delivered in any order, again, and after failures. Equal events are counted and
not told apart. `excuses` is history: it records the three situations the
webhooks do not guard against.

**LogStream.** Lines in the order they were written, the tail a poll returns, the set
`seen` and the lines sent. After an error of the database every poll fails: the
generator swallows the exception and the session is never rolled back, so the stream
stays open and sends heartbeats only. The comment at `routers/agents.py:265` ("keep
the stream alive across transient errors") says otherwise: `finding_stream`.
`MissedOnlyInBurst` speaks of the lines written by the last poll that succeeded.

**RequestPipeline.** One request through the catch-all, `RequestContextMiddleware`
and the exception handlers. The classes of `exceptions.py` and the map of codes are
functions; the answer, an exception before or after the response has started, and
cancellation are the steps.

**Selection.** What a loop that filters a list keeps of it, for `AgentEnv`, `LogStream`
and `RequestPipeline`: the entries at a set of positions, in order. It is defined by
the property that makes it right, since the prover has no definition of `SelectSeq`.

`MCRecovery` (`AgentLifecycle` and `RequestMetering`), `MCPlans` (`Billing` and
`AgentLifecycle` under `SerialNext`), `MCEdge` (`Ingress` and `AccessControl`) and
`MCServices` (the other six) hold several parts that share no state. A variable `part`
chooses, in the initial state, the one that moves; the state space is the sum of
theirs.

## Runs

| Run | Asks | Result |
|---|---|---|
| `metering_shutdown` | `GracefulStopLosesNothing` | violated |
| `lifecycle_safety` | `TypeOK`, `PendingHasNoContainers`, `OrphansAreExcused` | hold, 1,048,219 states |
| `recovery` | AgentLifecycle: `EventuallySynced`, `StartingResolves`; RequestMetering: `MeteringTypeOK`, `Conservation`, `DroppedOnlyIfDeleted`, `UnwrittenForOneIntervalPerFailure`, `EventuallyWritten`, `ImplementsLedger` | hold, 214,544 states |
| `plans` | AgentLifecycle: `GrowthWithinPlan`; Billing: `BillingTypeOK`, `ProWasPaid`, `PlanMatchesStatus`, `PlanFollowsStripe` | hold, 1,174,869 states |
| `finding_scaling` | `ScalingResolves` | violated |
| `finding_autoscale` | `AutoScaleWithinPlan` | violated |
| `finding_billing` | `PlanInSync` | violated |
| `edge` | Ingress: `TypeOK`, `RoutedWithPermission`, `AllowanceSpentByCallers`, `ServedWithinPlan`, `RetryAfterSuffices`, `PrivateComesWithKey`; AccessControl: `ActedWithAuthority`, `AdminRemains` | hold, 454,538 states |
| `finding_roles` | `KeysNeedDeveloper` | violated |
| `services` | Registration: `UsesAreAccounts`, `WithinMaxUses`, `RevokedIsFinal`, `RequestsEnd`; UsageClock: `HourWithinTime`, `PeriodWithinTime`; LoginRateLimit: `AttemptsWithinLimit`, `CounterWillEnd`; AgentEnv: `ProviderKeyKept`, `RunsWhatWasSent`; LogStream: `SentOnceInOrder`, `MissedOnlyInBurst`; RequestPipeline: `EveryAnswerHasItsId`, `LogTellsTheStatus`, `CodeOfNearestBase` | hold, 210,930 states |
| `finding_login` | `BlockedClientRecovers` | violated |
| `finding_stream` | `StreamOutlivesErrors` | violated |

The seven violated properties state what a comment, a docstring or the README says:

- A graceful stop that cancels the scheduler inside a flush loses the batch
  (`main.py:39`): `CancelledError` is no `Exception`, so nothing is put back.
- An agent whose scale request ends without its last commit stays `scaling`
  while it has containers (`scheduler.py:75`).
- Two agents auto-scaled in one tick can pass the plan together
  (`scheduler.py:93`): the tick's session keeps the replica counts it loaded.
- A `checkout.session.completed` handled after its subscription ended puts the
  account back on the paid plan (`billing_service.py:141`), and no event follows.
- A login counter whose EXPIRE is lost after its INCR never ends
  (`rate_limit.py:41`), and the address it blocks stays blocked once Redis is back,
  although the limiter "never blocks legitimate users because of a Redis outage".
- A viewer revokes a key they own (`routers/api_keys.py:62` asks for no role), although
  "minting/revoking API keys need `developer`" (the repository's README, line 189).
- After one database error a log stream sends no line any more
  (`routers/agents.py:265`): its session is never rolled back.

What the properties that hold excuse by name is what the code does not guard
against. `AdminRemains` excuses an admin's update that takes effect after its author
was demoted: two admins who demote each other at the same time leave none.
`PlanFollowsStripe` excuses webhooks that overlap, two live subscriptions and a late
checkout; the last is `finding_billing`. `OrphansAreExcused` excuses a deletion that
overlapped another request, and one of an agent the runtime had lost track of.
`RunsWhatWasSent` is for deployments that do not overlap; of two that do, one
configuration is lost. `MissedOnlyInBurst` excuses lines of one replica with one
timestamp. `PrivateComesWithKey` excuses a creation that failed after its INSERT.

### Bounds

- Metering: two keys of two accounts, two requests each, one database failure,
  one lost COMMIT answer, one stop. Enough for a count to arrive during a flush
  that fails and for one account's deletion to disturb the other's.
- Lifecycle: one agent, two requests in flight beside the tick, three requests in
  all, one fault (`lifecycle_safety`; two requests in `recovery`, where the
  configuration with a `build_path`, which is refused after the row was changed, asks
  for more replicas than run). That an agent's sync is independent of the others'
  is not explored: one agent failing in the tick's loop and its effect on the next
  need a second. `plans` has three agents and six requests, one at a time, no fault
  and no auto-scaling.
- Registration: two invites of one or two uses, two addresses, two requests, one
  failing transaction. Two sign-ups with one address and different invites each hold
  their invite's lock while one waits for the other in the index.
- Billing: two subscriptions, two requests in flight, five events, one needless
  delivery or failure. Five is the least with which an old subscription's end can
  arrive after a new one is paid. There is one Stripe customer, so two checkouts
  that both create one are not explored.
- Ingress: two agents, two keys, one client address, two questions and two owner's
  requests in flight, three of each in all (changes of plan and restarts count among
  the latter), windows of two seconds in half seconds, one full window and the first
  instant of the next; plans of one and two requests a window. Agents, keys, questions and handlers are
  symmetric; the run has no liveness property.
- AccessControl: two accounts of any role, two keys, two requests in flight, three in
  all, one run of the script. Admins demote, deactivate and activate.
- LoginRateLimit: a limit of two, a lifetime of two, five attempts, two of them in
  flight, one error or death.
- UsageClock: one agent with one replica (replicas are a factor, agents do not
  meet), an interval of one, hours of three, seven units of time, two failures or
  restarts: a tick can outlast its cap, and cross from one hour into the next.
- AgentEnv: three deployments, two in flight, two provider variables, five
  environments: none, a variable given twice, a secret with the provider key redefined,
  the provider key alone, another provider's key with a variable.
- LogStream: two replicas, a tail of two, four lines, one failed poll (one replica and
  two lines in `finding_stream`).
- RequestPipeline: every exception class, every outcome; nothing is bounded.

Deadlock is checked in `lifecycle_safety` and `recovery`. `edge`, `services` and `plans`
may stop: their bounds run out with nothing left to do.

### Fairness

Weak fairness only, of steps the event loop or a loop of the code guarantees: a
task whose awaited call has returned is resumed; the scheduler ticks for ever; a
stopped process is started again; PostgreSQL grants a lock that nobody holds; Redis
counts a lifetime down, and a call to it returns or fails; a log stream polls for ever
(`FairLogSpec`). In `RecoverySpec` the steps are those of the part that moves. Failures, deletions, new
requests and Stripe have none.

## Proofs

Every safety property that a run checks is also proved, by TLAPS, for all values of
the constants that satisfy the named assumptions: types and bounds; that accounts
(`RequestMetering`), agents (`AgentLifecycle`), addresses (`Registration`) and requests
in flight (`Billing`) are finite, where they are counted or summed over; in
`LoginRateLimit`, that the limit is not zero. The parts that `MCServices` and `MCEdge`
hold state theirs as an operator (`ClockConstantsOK` and so on), a hypothesis of the
theorems and an assumption that TLC evaluates. The bounds on steps and failures are
constants as well, so the theorems hold for any number of either.

- `RequestMetering_proofs`: `MeteringTypeOK`, `Conservation`, `DroppedOnlyIfDeleted`,
  `UnwrittenForOneIntervalPerFailure`, and that `MeteringSpec` implements `UsageLedger`. The
  invariant adds `TxnInv`: a key the loop has passed is in the transaction in full if
  its account was there at the SELECT and not at all otherwise, and an account the
  SELECT did not return is gone. Without it COMMIT could drop the usage of a living
  account. `AgeInv` adds that between two flushes there is a tick to spare: a flush
  that fails has raised the allowance before its ROLLBACK, by the failure itself or by
  the deletion that broke its foreign key.
- `AgentLifecycle_proofs`: `TypeOK`, `PendingHasNoContainers`,
  `OrphansAreExcused`. The invariant adds what program counters say of the other
  fields (`Shape`), that nobody but its creator knows an agent before it is
  inserted (`IdsInv`), that a row once seen past "pending" never returns to it
  (`FreshInv`), and that an agent being deleted, unless excused, is left alone by
  other requests and has no containers between their removal and the row's
  (`OrphanInv`). Of `SerialSpec` also `GrowthWithinPlan`. It
  needs that no agent has more containers than its row has replicas, but for
  the agent of a request about to put it right (`CoverInv`), that what such a request
  holds fits into the plan beside the other rows (`HeldInv`), and that the tick works on
  rows as they are (`TickInv`). It is for accounts in which nothing is auto-scaled
  (`MaxAutoScales = 0`) and no configuration has a `build_path` (`NoBuilds`), as in its
  run. Without the first, `finding_autoscale` is a counterexample; without the
  second, a refused configuration leaves its replica count in a row whose containers
  are others.
- `Accounts_proofs`, of `Registration`: `TypeOK` (which no run checks), `UsesAreAccounts`,
  `WithinMaxUses`, `RevokedIsFinal`. The invariant adds what a request carries at each await
  (`Carries`), that one transaction at a time holds an invite's lock and the row
  stays as a sign-up that holds it read it (`LockInv`), that only one transaction
  has inserted an address (`UniqueInv`), and that uses are within the limit
  (`CountInv`). Of `LoginRateLimit`: `AttemptsWithinLimit`, `CounterWillEnd`. The
  invariant adds that no more attempts have passed than the counter counts. Of
  `AccessControl`: `ActedWithAuthority`, `AdminRemains`. The invariant says what a
  request past each check has witnessed, and that an update about to commit cannot
  demote or deactivate its author.
- `Ingress_proofs`: `TypeOK`, `RoutedWithPermission`,
  `AllowanceSpentByCallers`, `ServedWithinPlan`, `RetryAfterSuffices`,
  `PrivateComesWithKey`. The invariant adds
  that the owner's terms are among those of the window (without it the limit just
  applied would be nobody's), that the limiter's count and what was served stay in
  step as long as nobody is exempt (`AllowanceInv`), that a question in flight holds
  terms of the window (`WaitingInv`), and that a key about to be deleted belongs to
  the agent it was looked up with (`UnkeyInv`).
- `UsageClock_proofs`: `HourWithinTime`, `PeriodWithinTime`. The invariant bounds what
  an hour has been booked by the time of the latest tick in it (`BookedInv`): gaps
  between ticks add up to no more than the hour and what was carried into it.
  `PeriodInv` says the same of the sum over a period, with what the tick in progress
  may still book, so that a tick that fails half way is covered.
- `Billing_proofs`: `BillingTypeOK`, `ProWasPaid`, `PlanMatchesStatus`, `PlanFollowsStripe`.
  The invariant adds that what
  a webhook holds or an event carries as paid was paid (`UnpaidInv`), and that
  without overlap a single request's loaded row is the row (`AloneInv`). `DueInv` counts:
  Stripe waits for at least as many answers about an event as requests are about to
  give. `SyncInv` says that, with nothing to excuse, at most one subscription is
  alive, and the row tells its status or an event that is due will.
- `Services_proofs`, of `LogStream`: `SentOnceInOrder`, `MissedOnlyInBurst`. The invariant (`LogInv`) says
  that what the next poll can return again is in `seen`, and that what is in `seen` was
  sent. Of `RequestPipeline`: `EveryAnswerHasItsId`, `LogTellsTheStatus`,
  `CodeOfNearestBase`; the last from what the table and the class tree are (`OneCode`:
  a class has at most one code) and from which errors get past the handlers
  (`ErrorInv`). Of `AgentEnv`: `ProviderKeyKept`, `RunsWhatWasSent`. Lemmas say what
  storing, merging and decrypting make of a list (`StorageIs`, `ApplyIs`, `CreateIs`); the
  invariants say that every environment on its way to a container has a provider key
  (`EnvInv`) and, while deployments do not overlap, that the one in flight
  holds the row as it is and the row, decrypted, is what was asked for (`SentInv`).

`SumTheorems` has what the proofs need of sums over finite sets: a term can be taken
out, terms can be compared, one can be raised. The library's induction theorems cannot
be used, since the provers do not instantiate their operator parameter. The lemmas take
a least counterexample instead, among the natural numbers (`LeastNatural`) or the
subsets of a finite set (`SmallestSubset`). In the same way `Services_proofs` shows that
a finite set of positions can be put in order (`OrderExists`), which the lemmas about
filtered lists rest on.

Many leaves cite `Zenon`: they need no arithmetic, and Zenon does them faster than the
SMT solver, which is tried otherwise.

Only model-checked are the liveness properties: `EventuallyWritten`,
`EventuallySynced`, `StartingResolves` and `RequestsEnd`. Fairness is outside what the
prover handles. That the violated properties are violated is shown by the counterexamples
of their runs.

## Assumptions about what is outside

- Docker and `AgentRuntime`: a deployment replaces the containers by the number
  asked for; a failed one leaves the old ones or none; scaling an unknown agent
  raises; auto-scaling changes one replica.
- SQLAlchemy: one identity map per session, UPDATE of changed columns only,
  `StaleDataError` for a deleted row.
- PostgreSQL: READ COMMITTED, row locks until the end of the transaction, an
  INSERT of an address waits for an uncommitted one.
- SQLAlchemy again: after a failed statement a session refuses others until it is
  rolled back.
- `AgentRuntime.get_logs` returns lines oldest first over all replicas. Lines that
  disappear with a replaced replica are not modelled.
- Clocks: wall clock and monotonic clock advance together and do not go back.
- Redis: a key without lifetime stays; INCR keeps the lifetime of a key.
- Starlette: the handler for `Exception` runs outside every middleware of the
  application, and no handler answers once a response has started.
- Stripe: an event is due until it is answered with 200. A first payment,
  renewals and cancellation are the only changes; `trialing`, `paused` and
  `incomplete_expired` behave like a status that is modelled.

## Not modelled

- Of agents: version, error and descriptive columns, lists and metrics, the level
  filter of logs. The masked display of secrets: nothing says what sending the mask
  back should mean.
- Of the quota: vCPU and memory, which have the shape of the replica sum; plan changes
  during the lifecycle. Of administration: setting a plan by hand, for which nothing
  says whether it or the next subscription event should win.
- Tokens and passwords (`security/jwt.py`, `security/passwords.py`): wrappers of
  cryptographic libraries; a token is good until it expires.
- Configuration, health probes, schemas that only shape requests and responses,
  migrations, deployment and backup scripts: no state of their own that a later step
  depends on, or run outside the process.
- `Ingress` and `RequestMetering` are not composed: they meet in one call,
  `count_request`, which changes nothing that `Ingress` reads and which
  `RequestMetering` lets happen at any time.
