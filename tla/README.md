# Imladris / WIPGuard: formal models

TLA+ models of the parts of this repository in which several processes,
requests or providers touch the same rows: the advisory lock, the
transactional outbox, the heavy sync cycles, the automation runtime and its
recommendations, the tokens of the integrations, a provider's metrics rule, and
the raw records, metric values and lineage that are written and pruned. TLC
checks small instances; TLAPS proves the main safety properties for every value
of the constants. All paths below are relative to the repository root.

## 1. The system

The product is a Next.js application over Postgres (Prisma), with a separate
sync worker, a materialization job and Railway crons. There is no message
broker: **rows, unique keys and one advisory lock are all that the processes
share.**

| process | entry point | what it changes |
|---|---|---|
| web replicas | `src/app/api/**/route.ts` | everything an operator, a webhook or a cron asks for |
| sync worker | `worker/sync-runner.ts` | one `runSync` cycle every five minutes, a health endpoint |
| materialization job | `worker/imladris-materialization-runner.ts` | canonical metric values, one department per run |
| crons | `railway/cron-sync`, `railway/cron-db-prune` | POST `/api/cron/sync`, prune old rows |
| outside | OpenAI, Gmail, Slack, HubSpot, ... | answer late, twice, or not at all |

### 1.1 Components, their state and operations

| component | state | operations | what makes it correct |
|---|---|---|---|
| Advisory lock (`src/lib/advisory-lock.ts`) | the session lock at the server, the pinned connection of each call | connect, try, run, unlock, release | the owner is the one live caller inside; never leaked; every connection released |
| Outbox (`src/lib/outbox-worker.ts`, `event-bus.ts`, `outbox-dispatcher.ts`, `customer-success/outreach-delivery.ts`, `events/outbox-retention.ts`) | `OutboxEvent` rows, `CustomerSuccessOutreachMessage` rows | enqueue, fetch, gate, send, record, replay, dead-letter, prune | DISPATCHED is true and final, duplicates are bounded, nothing live is pruned, everything settles |
| Sync cycles (`worker/`, `src/lib/sync/orchestrator.ts`, `src/app/api/cron/sync`) | the lock, the health status, promises left running | begin, skip, run modules, time out, report | one heavy cycle at a time, cycles go on, the status moves on |
| Automation runtime (`src/lib/automations/runtime.ts`) | `WorkflowTriggerEvent`, `WorkflowRun`, `WorkflowRunStep`, `WorkflowApproval`, `AutomationAiJob` | ingest, dispatch, walk the graph, decide, expire, submit, poll, webhook, resume | actions once, nothing unasked, approvals respected, runs finish |
| Recommendations (`src/lib/automations/recommendations.ts`, `store.ts`) | `AutomationRecommendation` | store, approve, reject, execute one or a batch | only approved versions are acted upon, EXECUTED is true, repetitions are explained |
| Connections (`src/lib/integrations/token-refresh.ts`, `analytics/credentials.ts`, `integrations/ownership.ts`, the callback and disconnect routes) | `IntegrationConnection`, two in-process maps of calls in flight, the provider's own record of a token | get, look up, refresh, record an error, copy to the owner, connect, disconnect, report | a grant's last token is not lost, a disconnect holds, a good token does not stay in error |
| Provider metrics (`src/lib/integrations/provider-metrics-sync.ts`, `orchestrator.ts`) | `IntegrationRule` with its checkpoint, `ImladrisRawSourceRecord` rows | bootstrap, choose a range, fetch, ingest, move the checkpoint, patch | nothing behind the checkpoint is missing, a lag is made up for |
| Circuit breaker (`src/lib/integrations/circuit-breaker.ts`) | `IntegrationCircuitState`, a two-second cache | ask, succeed, fail | opens at the threshold, one probe, recovers |
| Ingestion and materialization (`src/lib/imladris/`) | raw records, sync runs, metric values, lineage | upsert, materialize, replace lineage | the value shown has its lineage; each department has its turn |
| Pruning (`src/lib/db-pruning/`, `imladris/lineage-retention.ts`, `imladris/metric-value-retention.ts`) | the same rows, from the other end | bounded deletes, rotated by day | nothing used is deleted, each day keeps its last value, every table has its turn |
| everything else | one-row CRUD, reads, formulas, pages | | listed with reasons in `PROJECT.json` |

### 1.2 How they interact

* The worker's cycle runs `runSync` (`src/lib/sync/orchestrator.ts`) and the cron its
  own executor (`executeCronSync`, `src/app/api/cron/sync/route.ts:521`), both under
  the lock (WIPG, SYNC); a dispatch of the outbox runs under (WIPG, OBOX);
  materialization has a key of its own. All of them call `withAdvisoryLock`.
* `runSync` works through eight modules. The seventh, `automations`, calls
  `dispatchWorkflowTriggerEvents`, then `dispatchAutomationAiJobs`, then
  `pollAutomationAiJobs` (`src/lib/sync/orchestrator.ts:314-323`); the cron does not.
  The dispatch and ingest routes of `src/app/api/automations` call the same functions
  **without the lock**, so the runtime has to live with overlap.
* An ACTION node of a workflow enqueues an outbox event or executes approved
  recommendations. An outreach message is created with its outbox event in one
  transaction, and sent later by the dispatcher.
* A sync cycle also prunes the outbox, next to dispatches and administrators,
  which take other locks or none.
* Its provider and analytics modules look up credentials
  and may refresh them, run each provider's metrics rule, ingest what it answers as
  raw records, materialize metrics from these and prune old lineage and values. The
  routes of a provider and the health checks do the same without the lock, and
  `db-prune` deletes the same rows from a process of its own.

### 1.3 What is hard

A lock that ends with its session while the work under it goes on; a timer that
abandons work it cannot cancel; snapshots of rows written back by id; two rows
updated one after the other for one fact; webhooks that come twice and polls
that see the same answer; approvals decided by two people and a clock; a refresh
token that is spent before the new one is stored; a checkpoint that claims what a
failed or overtaken run has not stored; rows selected in one statement's snapshot
and deleted after somebody has used them; a process that dies between any two
writes. `PROJECT.json` lists each of these under
`hazards`, with the line where it bites and the properties aimed at it.

## 2. Modules

| module | models | extends |
|---|---|---|
| `AdvisoryLock` | `withAdvisoryLock` for one key pair, lost sessions, dying processes | |
| `Exclusion` | abstract: what a lock that can be lost promises | |
| `Delivery` | abstract: what the outbox promises to whoever enqueues | |
| `Walk` | abstract: what a run promises to whoever drew its graph | |
| `Mandate` | abstract: what recommendations promise to whoever answers for them | |
| `Outbox` | the outbox, its dispatch requests, administration, retention | `AdvisoryLock` |
| `SyncCycle` | worker loop, timer, health status, cron | `AdvisoryLock` |
| `WorkflowRun` | one trigger event, its run, and everybody who moves it | |
| `Recommendation` | the proposals of a run, reviewers, executors, provider calls | |
| `Connection` | the OAuth tokens of one provider and everybody who replaces them | |
| `ProviderSync` | one provider's metrics rule, its checkpoint, the days it has stored | |
| `Retention` | raw records, sync runs, values and lineage: writers beside deleters | |
| `AdvisoryLockProofs`, `OutboxProofs`, `SyncCycleProofs`, `WorkflowProofs`, `RecommendationProofs`, `ConnectionProofs`, `ProviderSyncProofs`, `RetentionProofs` | the theorems | their module |
| `MC_*` | instances for TLC | their module |

### 2.1 AdvisoryLock

`call[c]` is where caller `c` stands in the function; `owner` is the lock at the
server; `alive[c]` says that the session `c` pinned is connected. `TryLock` and
`Skip` are the two answers of `pg_try_advisory_lock`; `Return` is the end of `fn`,
by value or by exception; `Unlock` is the inner `finally` and the release of the
client. The query of an unlock is taken to succeed on a live session. If it failed
there, the code would log it and hand the client back to the pool with the lock still
held, until the pool ends the session (`advisory-lock.ts:30-33` relies on that end);
no statement timeout is configured that could cause it. `SessionLost` frees the lock
at the server and tells nobody;
`CallerCrash` ends the session with the process. The abstract `Exclusion` knows
callers inside and callers disowned, and lets a caller enter only when everybody
inside has been disowned; `ImplementsExclusion` is the refinement.

### 2.2 Outbox

The callers of `AdvisoryLock` are dispatch requests. `Fetch` takes a snapshot of the
due rows, `TakeNext ... Nack` is the body of `dispatchOutboxBatch` for one event,
with `Gate`, `Send`, `Flip`, `Flop` as `dispatchCustomerSuccessOutreach`. `Ack` and
`Nack` write by id whatever the row has become; `Nack` counts from the
snapshot. `Replay` and `DeadLetter` are the administrators' routes; `ruled[r]` is a
history variable, the events that they changed while request r held copies of them
(`RuleOn`), which `OnlyRulingsAreOverruled` excepts. `PassDay`,
`SelectExpired` and `DeleteSelected` are the pruning pass.

The abstract `Delivery` has no rows and no requests: an event is owed until its
provider accepts it and the acceptance is recorded, or until it is given up, and
what is settled stays so and is forgotten one day. It names what a failure or an
administrator may add: a delivered event owed and accepted again, a dropped one
that comes back, an owed one forgotten. `ImplementsDelivery` maps the status of a
row to the stage of its event (`Stage`), `sends` to the acceptances, `faults` and
`operations` to what loosens the promise. Its Accept asks for `deliveries <=
failures`: a second acceptance needs a first failure.

Abstractions, and why they are safe:

* a batch holds every due row (the code takes 50): fewer rows only delay;
* days pass only while no request or delete is in flight (they take seconds);
* `DELETE ... WHERE id IN (SELECT ...)` is a selection and a deletion, as two
  statements of READ COMMITTED see it: a row changed in between is re-checked
  against the id list only;
* outreach messages that are DRAFT or CANCELED never have an event to dispatch
  and are left out, as are events whose handler only logs;
* an idempotency key is not used again after its row was pruned;
* the metrics query changes nothing and is left out.

### 2.3 SyncCycle

`Begin` sets the health status to running and asks for the lock; `SkipCycle`,
`StartCycle`, `RunModule`, `FinishCycle`, `EndCycle` follow `runSyncCycle` and
`runSync`. `TimeOut` is the losing side of `Promise.race` in `worker/timeout.ts`:
the function throws, the lock will be released, and the cycle goes on as a member of
`abandoned`, named by its worker and the number of the timeout. `Restart` is a crash and
a new process. What a module does to its provider's rows is one step, and a failing
module only sets `failed`. Run-once mode and the HTTP server of the health endpoint are
left out.

### 2.4 WorkflowRun

Tasks are handlers in execution: `Workers` run the `automations` module of a cycle,
`Requests` are ingests, approvers and webhook deliveries. `task[t].pc` says which
awaited call comes next; every awaited write is one action. `EventStep` is
`dispatchWorkflowTriggerEvents` and `triggerMatchingWorkflows`, `GraphStep` is
`executeRunGraph`, `ApprovalStep` is `resolveWorkflowApproval` and
`processTimedOutApprovals`, `JobStep` covers submission, polling, the webhook and
`settleAutomationAiJobWithResponse`. `Follow` is `selectOutgoingTargets` with all
its fallbacks. `decisions`, `effects` and `answers` are not rows: they are what
happened in the world (outcomes decided, actions carried out, responses that
OpenAI was asked for).

The abstract `Walk` knows the graph only: which nodes have been entered, how each
came out, how often each action was carried out. A node is entered once, along an
edge of an outcome; only an approval may come out in more than one way.
`ImplementsWalk` reads `entered` from the step rows, the outcomes (`Outcomes`) from
decisions, stored envelopes and step statuses, and `Targets` from `Follow`, whose
fallbacks thereby belong to the graph that was drawn.

Abstractions:

* one event and one run; deduplication of different events is not modelled;
* the graph is a constant: `Kind` and, for each label, the targets by priority.
  The order among labels is fixed, where the code sorts all edges together;
* a condition over the context comes out either way; `conditionExpr` on edges is
  left out, since a CONDITION node in front of the edge says the same;
* DELAY nodes do not delay in the code, and pass like TRIGGER;
* time is abstract: any pending approval may be past its timeout, any queued row
  may be due; one pass expires one approval, the next pass the next;
* what is left in the queue at a pause is forgotten, as in the code;
* an envelope is one flag (its recommendations are the module `Recommendation`);
  `lastRunAt` and the test-run route are left out; "incomplete" counts as failed;
* while a node is executed any awaited call may throw (`Catch`): the creation of a job
  or an approval as well as the action or the record of the step. Elsewhere those
  failures are modelled that take another path: the lookup, the unique keys,
  materializing the sources, storing the envelope, submitting, retrieving. A crash
  may come between any two steps;
* `MaxAttempts` is 2 where the code has 6: the branch at the limit and the branch
  below it are both taken (1 in `workflow_walk`: no retry of the event).

### 2.5 Recommendation

`row[r]` is one `AutomationRecommendation`: its status, `requiresApproval`
(`needs`), and a count of the envelopes that have written it (`version`, no column:
it tells payloads apart). `Store` is the upsert of `persistAutomationEnvelope`,
which overwrites payload and status alike. `Check` and `Resolve` are the read and
the write of `resolveAutomationRecommendation`, with the lookup of the reviewer
between them (`Withdraw` is its refusal). `OrderOne` is the execute route,
`OrderBatch` an ACTION node (`executeApprovedRecommendationsForRun`). Both go
through `executeAutomationRecommendation`: `Reuse`, `Refuse` and `Take` are its
three answers to the row it reads, `Record` is its final update by id. Between
`Take` and `Record` lies the action with its HTTP calls: `Answer`, `LoseAnswer`
(the provider acted, the caller saw a timeout), `NoAnswer`, `GiveUp`; `Again` is
the loop of `fetchWithResilience`. `mandates`, `deeds`, `done` and `excuses` are not
rows: they record which versions people, or a policy that asks nobody, said yes to,
and what providers did.

The abstract `Mandate` has offers, mandates, deeds and claims, and nobody who
carries them: an action is carried out only on a mandate, once and once more for
each excuse, and is claimed only when it was carried out; a new offer takes the
claim away, and a failure may be written over a claim only where there was an
excuse. `ImplementsMandate` maps versions to offers and the status EXECUTED to
claims. It allows what the code does: a mandate for an older version is still acted
upon by whoever has read it, and a claim may stand for an older version's deed.

Abstractions:

* who may approve or execute is left out: a refused request changes nothing;
* artifacts and source documents of an envelope, which nobody else writes, and the
  deletion of runs are left out;
* an action made of two calls (a HubSpot note and a task) counts as one effect,
  which may still end as failed;
* the filters, the order and the limit of a batch are any subset of the approved
  rows in any order;
* `Abandon` is a process that dies and also an update that fails: the handler's
  `return prisma...update` is not awaited inside its `try`
  (`recommendations.ts:246-288`), so the failure goes to the caller;
* `excuses[r]` is a history variable. It grows by one with each event that allows
  one more execution: a second envelope, a decision on a resolved row, an executor
  that takes a FAILED row or a row in another's hands, a lost answer, a dead
  executor.

### 2.6 Connection

`row[u]` is user u's `IntegrationConnection` of one provider: its status and its
refresh token, named by the grant it belongs to and its turn in it. `current[g]` is
what the provider knows: the turn of grant g that it still accepts. `Get` is
`getValidIntegrationAccessToken` up to its call to the provider; `Peek` and `Launch`
are `getCredentials` and `bestEffortRefreshOAuthConnection`, whose own map of promises
lets others join (`Settle` gives them the leader's outcome). `Accept`, `Reject`,
`Outage` and `LoseAnswer` are the provider's answers, `Write` the unconditional
update with the new tokens, `Fail` the unconditional error. `Copy` and `Create`
are the two halves of `bestEffortMigrateConnectionsToOwner`, and just as well of the
healing of scopes within `getCredentials` (`credentials.ts:613-648`): where the owner
has no row it, too, creates one from the connection of another user that it has read,
with its status (CONNECTED) and its tokens. `Connect` is the OAuth
callback, `Remove` the disconnect route and a callback that failed, `Report` the
writers of health and sync results. `excused` and `undone` are history variables:
each action that may lose a grant, or undo a disconnect, says so there.

Abstractions:

* a token's age is left out: any token may be about to expire whenever it is
  looked at, so that every lookup may refresh. Lookups that find a good token
  change nothing;
* a provider that gives no refresh token is not refreshed and is left out;
* any user may connect (the code lets few), and `findFirst` may find any row that
  satisfies its condition: both allow more than the code does;
* access tokens, scopes, metadata, encryption and credentials from the environment
  are left out;
* a report may come with any status at any time: the check it comes from is not
  modelled.

### 2.7 ProviderSync

A run of the rule (`run[p]`) reads the checkpoint in `Begin`, asks for the range
that `RangeFrom` and `IncrementalFrom` compute (`resolveIncrementalRange`), gets an
answer in `Fetch`, reads the stored hashes once in `Prefetch`, and writes record by
record: `Skip`, `Upsert`, `UpsertFails`. `Conclude` is the status of the sync run,
`Record` the update of the rule with its checkpoint, `Unrecorded` its failure and
any crash. `Cycle` is the incremental run of a sync cycle, `Request` the sync
route, with a dry run or a backfill; neither waits for the other. `Bootstrap`,
`GetOrCreate` and `Patch` are the life of the rule. `lost` is a history variable:
days that a dry run has claimed or an older answer overwritten.

`HistoricalStart` is thirteen months by `setUTCMonth`, which runs over where a month is
too short: `Overflow[t]` says by how many days on day t, so that the window may begin a
day or two earlier tomorrow than today. What the checkpoint is asked for are the days
that have been `InWindow` since the connection: the days in front of the first
backfill's window are nobody's (section 3.3).

Abstractions:

* a day is one record, complete in an answer given after it is over. A provider
  that changes a day later than that is outside the model: after a lag the code
  does not ask for such days again;
* the three attempts of a fetch are one outcome; rate limits are a failure;
* a gap in a Stripe payload is a failed fetch; snapshots, notifications, the
  connection's status and the result row of the sync run are left out;
* a patch only enables or disables. One that changes the account or the filters
  keeps the checkpoint of the old one (section 3.3);
* other callers of the ingestion (`src/app/api/analytics/route.ts:971`, the
  `refresh-runner`, the funnel and readiness routes) write other object types.

### 2.8 Retention

`row[r]` is a raw record: `stamp`, the latest time the provider put on it,
`touched`, its last write, and its sync run. `values` are the values of one metric,
named by their time; `lineage[v]` the records that v's lineage names, `Null` for a
name that `SET NULL` has removed. `BeginIngestion`, `UpsertRecord`, `EndIngestion` are
`ingestImladrisRawRecords`; `ReadRecords`, `UpsertValue`, `ClearLineage`, `WriteLineage` are a
materialization: the read, the upsert of the value, and the two statements of
`replaceLineage`;
`SelectLineage ... DeleteValues` are the pruners at the end of an analytics sync;
`SelectRecords`, `SelectRuns`, `DeleteSelected` is `db-prune`. The foreign keys are part
of the deletes: `CASCADE` from a run to its records and from a value to its
lineage, `SET NULL` from a record. Each delete is two steps, because `DELETE ... WHERE
id IN (SELECT ...)` under READ COMMITTED looks at the condition in its snapshot
only. `raced` names the selected records that were written since.

Abstractions:

* one metric; its formula is any use of any readable records;
* a pass takes its time at the start, the model counts ages from `now`, which selects
  at least as much; and a batch is any non-empty part of what may be selected, so
  that limits, budgets, the order of the tables and dry runs are left out;
* the ages are clamped by the code to a floor (`clampedEnvInt`), and the floors
  exceed what is read by more than any job lasts: `RetentionAssumption` states this
  relation, and `Tick` lets no ingestion or job outlast `Span`. This is an
  assumption: the code bounds a cycle with a timeout but does not stop it;
* the other three tables of `db-prune` have no references from what is modelled.

## 3. Runs

Every property of a passing run has a mutant in `PROJECT.json`: a plausible bug in
one action that makes TLC find the property violated.

### 3.1 Passing runs

| run | instance | question |
|---|---|---|
| `lock` | three callers, no bound on lost sessions and crashes | Is ownership exact, is the lock an `Exclusion`, is it freed again, is each connection returned? |
| `outbox` | two requests with retry limits 1 and 2, one outreach, one fault, one operation, two days | Is the outbox a `Delivery`, is DISPATCHED true and final, are duplicates paid for, whom do the updates by id overrule, is nothing live pruned, does every event settle? |
| `sync` | two workers, a cron, one timeout, one fault, two modules | Are overlapping cycles exactly paid for, do cycles go on, does the status move on? |
| `workflow_overlap` | a worker and a request on event - AI - approval - two actions, one crash | Are actions single, is a settled job stored, what leaves a run waiting for ever? |
| `workflow_walk` | the same, without a retry of the event | Is the run a `Walk` of its graph? |
| `workflow_liveness` | a worker and a request, two deliveries, one crash, failing lookups | Does an event leave the queue? |
| `connection` | an owner and another user, two processes, two calls, one grant, one request, one fault, a rotating token | Is a grant's last token ever lost, does a disconnect hold? |
| `connection_heals` | the owner, two grants, the same calls | Is a good token that reads ERROR healed? |
| `provider` | a cycle and a request, a window of three days that overflows on the first, three days, one fault, one order | Is the checkpoint true, is a lag made up for? |
| `retention` | an ingestion, a job, a pass and db-prune over two records, one of them standing, six ticks, two values, two sync runs | Is only what nobody uses deleted, does the value shown keep its lineage, each day its last value? |
| `recommendation` | one recommendation in two versions, a reviewer, two executors, two orders, one fault | Are the recommendations a `Mandate` (so that only an approved version is acted upon), is EXECUTED true, are repetitions paid for, do batches add up, who reopens a row, do executions end? |

Why the bounds are enough:

* `lock`: a lost session, its successor and a third who contends need three
  callers; faults are unbounded there, the state space is finite.
* `outbox`: overlap needs a request whose session is lost and one that follows.
  Two retry limits let a stale count meet a smaller and a larger limit. A day more
  than the retention of DISPATCHED rows (1) and as many as that of dead letters
  (2) let both deletes happen. One event suffices because requests treat the
  events of a batch one by one and no property relates two events; the theorems
  hold for any number. The instance has an outreach, whose path through the
  handler contains that of an alert.
* `sync`: two workers and a cron are two processes of a kind and one of the other;
  the second module separates the first from the last.
* `workflow_*`: the graphs are defined in `MC_Workflow`. *Gated* has each kind of
  pause and both kinds of actions behind a decision; *Brief* has two conditions
  that meet and an approval with one edge.
  A worker and a request suffice for each pair of handlers to overlap, a worker
  takes every role but that of an approver or a webhook delivery.
* `recommendation`: rows of different recommendations meet only in a batch, and
  `BatchesAddUp` is proved for batches of any size. Two versions separate an
  approval from the payload it was given for; two executors overlap; two orders
  let an execution follow another; one fault is a lost answer or a dead executor.
  `MaxTries` is 2 where the code has 3: the last attempt and one before it. One
  reviewer has one decision in flight; the safety theorems hold for any number of
  reviewers, and reviewers play no part in `ExecutionEnds`.
* `connection`: two processes have a map each, and two calls meet in one map, in the
  two maps of one process, or in none. Two turns let a late call hold a token that
  is spent; a second grant appears in `connection_heals`, and `TokensKept` is proved
  for any number. One request is a disconnect, a failed callback or a report; one
  fault is a lost answer, a failed write, a crash or a revocation. The processes and
  calls are symmetric, which is used only where no temporal property is checked.
* `provider`: the window is of three days, and on the first, a March 31, it begins two
  days late, as the code's does; so it moves back a day on the second, and
  then on. With a rolling range of two, a lag of a day or two crosses the range and
  the first backfill's start. The order is a dry run, a
  backfill, a plain request or a patch; the fault any failed fetch or write, or a
  crash. Two runs are enough for an older answer to overtake a newer one.
* `retention`: ages of one or two ticks in a clock of six, with days of two ticks:
  each kind of row grows old while a younger one stands beside it, an ingestion or
  a job spans a tick, and a record lives through two sync runs. The floors equal
  what `RetentionAssumption` demands at the least, and what is configured is less,
  so that clamping decides. Pruning passes and jobs of any number are proved about.

`LockTypeOK` and `SyncTypeOK` are parts of the inductive invariants of `LockSafe` and
`CyclesExclusive` and have no run of their own. `ExclusiveUntilTimeout`,
`NothingRunsUnasked` and `CallsAreApproved` are proved, and contained in properties that
the runs check: `StackingIsPaidFor` with no timeout and no fault, `ImplementsWalk` and
`ImplementsMandate`.

### 3.2 A run that refutes a statement of the repository

| run | statement | what the code does |
|---|---|---|
| `workflow_decided` | "Approval is no longer pending" (`runtime.ts:1528`) | status checked, then updated by id: two deciders both succeed |

### 3.3 Deviations observed in the models, without a run

Found while modelling, and kept out of the runs to leave room for other questions.
Of the outbox, the cycles and automation:

* dead letters are said to stay inspectable for their window
  (`outbox-retention.ts:45-47`): their age counts from creation, so an old event that
  dies late is pruned at once;
* a worker "can never run a heavy cycle concurrently" (`sync-runner.ts:120-122`): a
  timed-out cycle is abandoned, gives up the lock, and runs on;
* the runtime runs "until it reaches" a waiting state
  (`docs/prd/arda-gtm-operators.md:24`): an action reached over two branches throws
  past `finalizeWorkflowRun`, and the run stays RUNNING;
* "No duplicate run side effects on replay" (`docs/prd/arda-gtm-operators.md:68`): a
  repeated webhook fails a finished job, which is submitted again;
* an event dead-lettered by hand while a batch holds it goes back to FAILED when
  its attempt fails, and a replay in that time is undone and may end as a dead
  letter at once (`outbox-worker.ts:140`, `:155`: the update looks neither at the row's
  status nor at its count). `OnlyRulingsAreOverruled` names these two as the only
  ways in which a stale copy matters while nothing fails;
* a row replayed between the selection and the deletion of the pruning pass is
  deleted although it is PENDING (`outbox-retention.ts:151`). `LiveKeptUndisturbed`
  is therefore limited to histories without operations and faults;
* a request that lost its lock session shares its rows with the next one
  (`src/app/api/events/dispatch/route.ts:54`): what is left of the promise is
  `DuplicatesArePaidFor`;
* a settlement that overtakes the write at `runtime.ts:471` (or a decision the one at
  `:523`) finishes the run, and the late write puts it back to WAITING_EXTERNAL (or
  WAITING_APPROVAL) for ever. `OnlyLateWritesStrand` names this write as the only
  cause, besides a crash, of a run that waits for what is over;
* when no edge carries the decision, `Follow` takes every edge, the approved one
  too (`runtime.ts:387`), although outbound actions "stay approval-gated"
  (`docs/prd/arda-gtm-operators.md:35`);
* a decision that was checked before an execution ended is written after it, and
  an EXECUTED row becomes APPROVED and executable again, in spite of
  "Recommendation is already resolved" (`recommendations.ts:161`);
* a row stored again during an execution is then marked EXECUTED, although its new
  version was neither approved nor carried out;
* a FAILED recommendation that needs approval can be neither retried nor decided
  again (`recommendations.ts:161`, `:228`); one that needs none is retried, after
  an action that may have been carried out.

Of connections (`Connection` lists them as additions to `excused` and `undone`, or as
actions that go against a reader's expectation):

* the writers of results set CONNECTED or ERROR on a row that was disconnected and
  has no tokens (`health-checks.ts:571`, `provider-metrics-sync.ts:1397-1428`);
* a refresh under way during a reconnect writes the old grant's tokens over the new
  ones, and one under way during a disconnect brings the tokens back
  (`token-refresh.ts:315`);
* after the migration to the owner two rows hold one rotating token, and the first
  refresh leaves the other row with a spent one (`ownership.ts:302-321`);
* a failed callback removes the tokens of a connection that was good;
* the owner's lookup falls back to another user's connection although the owner
  has disconnected (`credentials.ts:729`), and a refresh then writes that one's
  tokens into the owner's row;
* `forceRefresh` and `withAuthRefreshRetry` are called by nobody.

Of provider metrics:

* a dry run moves the checkpoint although it stores nothing
  (`provider-metrics-sync.ts:1373`), and the runbook advises "Run provider sync
  endpoint in dry-run mode, then execute live sync."
  (`docs/runbooks/sync-lag.md:23`): the live run then starts from a checkpoint that
  claims the lag was made up for;
* an older answer that comes last overwrites a newer one, since the hashes are
  compared with a copy read before the first write (`ingestion.ts:705-715`);
* a patch of the rule's target keeps the checkpoint of the old target;
* the window of thirteen months begins on March 3 for a March 31 and on March 1 for
  the April 1 after it (`ingestion.ts:607`). A provider that is connected on March 30
  or 31 thus lacks the one or two oldest days of the next days' windows, and nothing
  asks for them again: `CheckpointIsTrue` fails if `InWindow` looks at today's window
  only.

Of retention:

* a raw record that is written between the selection and the deletion of a batch is
  deleted although it is fresh, in spite of the conditions described in
  `prune.ts:11-18`; it comes back with the next change at its source;
* "anything still being returned by a provider sync keeps a fresh `updatedAt`"
  (`docs/runbooks/db-pruning.md`): the ingestion skips unchanged records without
  touching them (`ingestion.ts:705-711`), so a record that comes back unchanged is
  pruned when it is old enough;
* `truncated` is "True when the run stopped at a batch/time cap with work remaining"
  (`prune.ts:67`), but a table that the deadline kept from being looked at at all
  reports `false` (`prune.ts:298-321`);
* a materialization that fails between the upsert of the value and the last statement
  of `replaceLineage` leaves the value shown without lineage until the next one.

## 4. Fairness

* `AdvisoryLock`: a call that has begun goes on (queries answer, `fn` ends). Nobody
  has to call again, and no session has to be lost.
* `Outbox`: each request position is weakly fair. This covers the cron that posts
  dispatch requests every few minutes and requests that, once begun, go on; and
  `nextAttemptAt` of a failed row comes to pass. No administrator, retention pass
  or deployment is assumed.
* `SyncCycle`: weak fairness of each caller's cycle: the loop of `runLoop`
  (`sync-runner.ts:198-210`), the Railway cron, and modules that end. Timeouts,
  faults and the end of abandoned cycles are not assumed.
* `WorkflowRun`: a task that has begun goes on (weak), and a worker comes to
  `dispatchWorkflowTriggerEvents` again and again (strong, since polls and jobs
  also start from idle: the automations module calls it first in every cycle,
  `orchestrator.ts:319-321`, so these never keep it away). Nobody has to decide, no
  provider has to answer.

* `Connection`: a call that has begun goes on (weak: the HTTP client has timeouts), and
  a sync cycle asks again and again for the token of the row that the owner's lookup
  uses (strong: the slots for calls are shared with others, which the code's
  processes do not compete for). This fits HubSpot, Stripe, Mercury, Webflow and Meta,
  whose syncs call `getValidIntegrationAccessToken`; the sync does not call it for a
  Google Workspace connection that reads ERROR, nor for some other providers, and
  `GoodTokenHeals` does not speak for these. Nobody has to connect.
* `ProviderSync`: sync cycles create the missing rule and run it again and again,
  and a run that has begun goes on (all weak). Midnight need not come, nobody has
  to ask, nothing has to fail.
* `Retention` has safety properties only and no fairness.
* `Recommendation`: an executor at work goes on (weak): the HTTP client bounds each
  attempt with a timeout, so that each awaited call ends. Nobody has to decide or
  to ask, and no executor has to die.

## 5. Theorems

All proofs are by TLAPS (SMT, Zenon, LS4), from the named ASSUMEs of the modules
only: `CallersAssumption`, `OutboxAssumption`, `SyncAssumption`,
`WorkflowAssumption`, `RecommendationAssumption`, `ConnectionAssumption`,
`ProviderAssumption`, `RetentionAssumption`. TLC evaluates each of them in the runs.

| module | theorem | result |
|---|---|---|
| `AdvisoryLockProofs` | `LockSafe` | type correctness and `OwnerHolds`, for any set of callers |
| | `LockImplementsExclusion` | every behaviour of the lock is one of `Exclusion` |
| `OutboxProofs` | `OutboxTypes` | type correctness |
| | `OutboxImplementsDelivery` | every behaviour of the outbox is one of `Delivery` |
| | `DeliveryIsTrue` | `DispatchedWasSent` |
| | `RecordsAgree` | `DispatchedMeansSent` |
| | `DuplicatesBounded` | `DuplicatesArePaidFor` |
| | `LiveKept` | `LiveKeptUndisturbed` |
| | `AttemptsRemain` | `LiveHasAttemptsLeft` (stated beside the theorem, no run) |
| | `RulingsOverruled` | `OnlyRulingsAreOverruled` |
| | `DispatchedStays` | `DispatchedIsFinal` |
| `SyncCycleProofs` | `CyclesExclusive` | `ExclusiveUntilTimeout` |
| | `StackingBounded` | `StackingIsPaidFor` |
| | `CyclesKeepPromise` | the lock inside the sync system implements `Exclusion` |
| `WorkflowProofs` | `WorkflowTyped` | type correctness, for every graph |
| | `ActionsOnce` | `EffectsOnce` |
| | `RuntimeWalks` | every behaviour of a run is one of `Walk` |
| | `NothingUnasked` | `NothingRunsUnasked` |
| | `OnlyLateStrands` | `OnlyLateWritesStrand` |
| | `SettledStored` | `SettledIsPersisted` |
| `RecommendationProofs` | `RecommendationTyped` | type correctness |
| | `RecommendationsImplementMandate` | every behaviour of recommendations is one of `Mandate` |
| | `OnlyApprovedCalls` | `CallsAreApproved` |
| | `ExecutedIsTrue` | `ExecutedWasDone` |
| | `RepeatsPaid` | `RepeatsArePaidFor` |
| | `BatchesAddUp` | `BatchAddsUp` |
| | `StaleWritesOnly` | `OnlyStaleWritesReopen` |
| `ConnectionProofs` | `ConnectionTyped` | type correctness |
| | `TokensStay` | `TokensKept` |
| | `DisconnectStays` | `DisconnectHolds` |
| `ProviderSyncProofs` | `ProviderTyped` | type correctness |
| | `CheckpointStaysTrue` | `CheckpointIsTrue` |
| `RetentionProofs` | `RetentionTyped` | types and references between rows |
| | `NothingUsed` | `NothingUsedIsDeleted` |
| | `LatestStaysExplained` | `LatestIsExplained` |
| | `EndOfDayStays` | `EndOfDayKept` |

The arguments:

* **Lock.** `LockInv` is the types and `OwnerHolds`, and is inductive as it stands:
  an unlock on a dead session changes nothing, which is what makes a late
  unlock harmless. In the refinement a lost session is `Disown`, or a stutter when
  its caller is not inside.
* **Outbox.** Each step of `Outbox` is a step of the lock or leaves it alone
  (`StepLock`), which gives `LockInv` for free. `OutboxInv` adds `Work` (a request
  inside the lock holds a batch and at most one event, with a limit in use),
  `Acceptance` (a request on its way to `Ack` has sent, and has seen its message
  become SENT), `Attempts`, `Undisturbed` (before the first fault every session
  lives and no batch contains a DISPATCHED event) and `Kept` (until an administrator
  acts as well, what a request holds is retryable and what the DELETE holds is not).
  `OnlyRulingsAreOverruled` is inductive with these: before the first fault the one
  request at work owns the lock, so nobody else writes what it holds but an
  administrator, who enters `ruled`, and the pruning.
  `DispatchedWasSent` alone is not inductive: the step to DISPATCHED depends on where
  the request came from. `DispatchedIsFinal` needs that two requests which both hold
  work are one, which is `OwnerHolds` plus live sessions. `Paid` counts for each
  event: the sends so far, the requests that may still send it, and one place that
  is free while the event waits for the next owner of the lock share one allowance,
  plus the faults. A request that lost its lock before it has fetched may still
  come to hold any event, so it is counted from the moment of the loss, which is a
  fault. The refinement is step by step: `Send` is Accept, since whoever sends is
  counted; the updates by id are Record, GiveUp or Relapse, according to what the
  row has become; everything before them is a stutter.
* **Sync.** `Healthy` says that before the first timeout or fault every session in
  use lives and nothing is abandoned; with `LockInv` two cycles in progress both
  own the lock. `Paid` is the same counting as for the outbox: cycles in progress,
  abandoned cycles and the place that is free while no owner of the lock is at work
  number at most one, plus timeouts and faults.
* **Workflow.** `WInv` joins what the rows say (`RowsOK`), that one task at most
  executes a node (`OneOwner`), and what each task is about to do (`TaskOK`): each
  queued target has been asked for, a task about to decide, to complete or to
  record stands on rows that say so. A step moves one task; the frame lemma shows
  that the others keep their part because rows only move forward (`Forward`: a step
  row is never removed, decisions and answers only grow, an envelope stays stored)
  and the row of a node in execution is left alone (`Kept`). The unique key of a
  step, `runId:nodeKey`, is what `ActionsOnce` rests on: `Visit` throws where the
  step exists. `WInv` has been checked by TLC on the Gated and Brief instances.
  For `RuntimeWalks`, `WalkInv` adds that what has come out was entered, that a
  condition in execution has not come out, and that an action about to be recorded
  was carried out; without the last two, a second outcome or a success without a
  deed could not be ruled out. Then each writer of a step, a decision or an envelope is
  an Enter, an Act or a ComeOut (`JourneyStep`), and everybody else a stutter.
  `OnlyLateStrands` needs no further invariant: whoever closes the last job or
  approval that the run waits for becomes one of the `Movers`, and a mover either
  hands on or writes a status that waits for nothing, or for a job or an approval
  still open. Each step from a run that is not stranded is gone through for this; a
  walk that writes its wait is the one that can break it, and only when its own
  job or approval is closed already, which is `WritesLate`.
* **Recommendations.** `Work` says that an executor holds a copy exactly while it
  acts, that no copy reads EXECUTED, and that a batch is the sum of what is counted
  and what is left. `Approved` carries an approval from the row to the copy,
  `Done` an answer from the call to the row. `Paid` is the counting: what has been
  done, the executors about to do it, and the row if it is open and in nobody's
  hands share one allowance, plus the excuses. Each step moves a unit from one to
  the next or adds an excuse; lemmas on cardinalities say how the set of calling
  executors changes when one moves. In the refinement an answer is CarryOut: the
  caller is counted in `Paid`, so there is room for its deed, and `Approved` has its
  mandate, for which `Offered` is needed (nobody works on a row that is not there).
  A failure written over EXECUTED is the step that looks wrong: `Spare` shows that
  two executors with one recommendation in hand, or one with what now reads
  EXECUTED, were excused before, because the second took it out of the first one's
  hands or somebody decided, stored or lost something in between.
* **Connections.** `TokensKept` is not inductive: a write could bring back an older
  token. `Sole` says why none does: of a grant that nothing excuses, a call about to
  write holds the provider's latest token, and as long as that one can be used up no
  row and no other call has it, so that nobody can have moved the provider on.
  `Removed` compares the removals a call has seen (`since`) with those that
  happened, which is what tells an undone disconnect from one that holds.
* **Provider metrics.** What a run has read as covered stays good (`Steady`: a day once
  good stays good within the window), and a range never begins after the checkpoint
  its run has read, except at the window's start (`RangeFollows`). So a run that
  stores its range makes its own end true, although other runs and their checkpoints
  came and went in between, and a partial run may write back its old one. The start of
  the window may move back; what counts is a day that was within it on every day so
  far (`InWindow`), of which there are never more (`WindowShrinks`), and which
  each range that begins at the window's start contains (`Reaches`).
* **Retention.** `Margins` says how old a record a job at work may have read,
  `Selected` how old a selected record is: the two cannot be the same record, by
  the floors alone, and nothing has to be checked again. `Chained` gives each
  selected value a later one that stays: the last of its day, or the last of all, is
  never selected, however many passes run. `Bare` says that no job comes back to a
  value that is old enough to be thinned out.

Only model-checked: the liveness properties (`NeverLeaked`, `ConnectionReleased`,
`EventuallySettled`, `SyncGoesOn`, `RunningEnds`, `EventSettles`, `ExecutionEnds`,
`GoodTokenHeals`, `LagIsRepaired`), since liveness under fairness needs ENABLED, which
the installed provers do not handle. Every safety invariant and every action property of
a passing run is a theorem, and so are the four refinements.

## 6. Not modelled

`PROJECT.json` lists every component with the reason. In short: metric formulas,
fetchers and report layouts compute over provider data and share nothing;
authentication and tenancy are request-local; pages, scripts, migrations and the
in-memory libraries (`performance`, `mobile`, `release`, `events/outbox-worker.ts`)
have no concurrent state in the running program; `graceful-shutdown.ts` and
`withCircuitBreaker` are called by nothing in this repository.

## 7. Plan

Done: `AdvisoryLock` and `Exclusion`, then `Outbox` and `SyncCycle` on top of them,
then `WorkflowRun` and `Recommendation`, then `Connection`, `ProviderSync` and
`Retention`, each with its proofs; the abstract `Delivery`, `Walk` and `Mandate` with their
refinements.

Left, in this order:

1. AI job recovery: that a REQUESTED job without a response is picked up again,
   as a liveness property of `WorkflowRun` under crashes (the code has no such step;
   `PROJECT.json` lists the hazard).
2. The composition of `Connection` with `ProviderSync`: a run that fails because its
   token has been spent, and the cycle that heals it.
3. The rotation of tables in `db-prune` and of departments in materialization as a
   liveness property.
