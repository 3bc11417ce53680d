# Verification of the async webhook automation engine

The backend under `src/backend` accepts webhooks over HTTP, stores each one
once, hands it to a Redis queue (BullMQ), and a worker runs the actions of every
automation rule the webhook matches, with retries, a recovery listener and a
manual replay. A web console (`src/frontend`) reads the collections through the
API, writes rules and starts replays; a seed script fills the database with demo
tenants. This directory models all of that in TLA+, checks it with TLC on small
instances and proves its central invariants with TLAPS for all of them.
Paths below are relative to `src/backend/src` unless they start with `src/`.

## 1. Inventory

| Component | State | Operations | Talks to |
| --- | --- | --- | --- |
| Webhook ingestion (`webhooks/webhooks.service.ts`, `webhooks.controller.ts`, `schemas/webhook-event.schema.ts`) | `webhookevents`, unique on (tenantId, eventIdentifier) | `ingestRawWebhook`: tenant and payload checks, identifier, signature verdict, `event.save()`, on error 11000 read the existing event, `Queue.add` | tenants, the queue |
| Event identity and signatures (same file) | none | identifier from a header, the payload or a hash; HMAC comparison | ingestion |
| Request gate (middleware, guard, order of routes) | none | resolve the tenant, its status and key; admit or refuse | every controller |
| Webhook queue (BullMQ, external) | jobs with state, attempts, stalls, lock | add, take, complete, fail/retry, discard, renew or lose a lock, stalled check, `failed` event | everything below |
| Webhook processor (`webhooks/processors/webhook.processor.ts`) | local variables of each call of `process(job)` | lock the event, check the tenant, match the rules, find or start an execution per rule, run its actions in order, log steps, complete or mark; two nested catch blocks | events, executions, rules, actions engine, queue |
| Executions service (`executions/executions.service.ts`) | `executions` (status, steps) | `startExecution`, `findExistingExecution`, `addStep`, `completeExecution`, `failActiveExecutions`, `queryExecutions` | called by processor, replay, listener, console |
| Failed-execution replay (`replayFailedExecution`) | `replayhistories`; sets an execution to `queued` | check, save history, reset, `Queue.add` | executions, queue |
| Queue events listener (`webhooks/listeners/webhook-queue.listener.ts`) | none | `onFailed`: fail an event still `processing`, then executions still `queued` or `processing` | events, executions, queue |
| Rules engine (`rules/rules-engine.service.ts`) | none | evaluate a rule's conditions against a payload | processor |
| Actions engine (`actions/actions-engine.service.ts`) | none | HTTP request, e-mail stub or mock; the outcome is a success, retryable or permanent | outside world |
| Rules CRUD (`rules/rules.service.ts`) | `rules` | create, list, update, delete | processor (reads them), console |
| Tenants (`tenant/`) | `tenants` with name, key, status | create, update, suspend, remove; default tenants at every start-up | middleware, processor |
| Dashboard (`dashboard/`) | none | `getStats`: three awaited aggregates | events, executions, rules |
| Console (`src/frontend/src`: `App.tsx`, `api/client.ts`, `views/`, `components/`) | per tab: tenant, route, page, filter, query cache, form for a rule, requests in flight; `tenantId` in localStorage, shared by tabs | switch tenant, navigate, page, filter, refetch, poll; write and save a rule; replay | API |
| Demo seed (`seed.ts`) | what it has planned | delete the demo tenants' documents collection by collection, write them anew | the database, beside a running server |
| Event replay (`triggerReplay`), actions catalogue, automation queue worker, logging, configuration | - | unreachable route, CRUD nobody reads, a worker without producer, formatting | - |

How they interact: one Node process serves HTTP, runs the worker (`concurrency`
10, `lockDuration` 30 s, `maxStalledCount` 2) and reads the queue's events. All
of them share MongoDB and Redis; there are no transactions, and the only things
the database itself decides are the unique indexes on events and tenants. The
console is a client of the API; the seed script is a process of its own, which
starts the application's context and so runs its bootstrap hooks too.

What is hard about it, and what each part owes:

- **Ingestion.** Providers repeat deliveries, at once or later. Requests for one
  event interleave at every `await`. The event is saved before its job exists,
  so a crash or a Redis error in between leaves an event without a job, and the
  repeated delivery is answered 200. It owes: at most one job per webhook, no
  200 for a webhook nobody will process, and the same event for every repetition.
- **Identity and gate.** Any of several fields and headers may give the identifier,
  a hash otherwise; the tenant's status is looked at once, by the middleware,
  and the handler looks the tenant up again without it. They owe: no webhook taken for
  another one, and nothing stored for a suspended tenant once those let in
  before are through.
- **Queue and worker.** Attempts, stalls and lock loss make one job run several
  times, sometimes twice at once: a call whose lock was lost runs on next to its
  successor. It owes: one call at a time per event while locks hold, and an end
  for every job.
- **Processor, rules, actions.** Eleven awaits between taking a job and settling
  it, each of which may reject, with two catch blocks that rethrow; what it read
  before an await may be stale after it, and each attempt reads the rules anew, as
  they have been edited by then. It owes: rules run for the webhooks they
  say, completed means performed, no action
  twice for want of looking at the log, no second execution of a rule, no retry
  after a permanent failure, and a final verdict that stays.
- **Listener and replay.** The `failed` event arrives at any time, or never; a
  replay's check, reset and enqueue are separate awaits. They owe: nothing is
  left in `processing`, and a replay or late notice neither undoes nor repeats
  what was done.
- **Tenants.** Creation looks for the name and then saves; a change or removal is
  carried out some awaits after the middleware admitted it; the seed runs again
  at every start. They owe: unique names and keys, a suspension that lasts, a
  removal that lasts, and a seed that is complete unless a conflict stops it.
- **Console.** Queries are keyed by page and filter, not by tenant; answers
  overtake a switch of tenant, an invalidation or a new page; mutations outlive
  the view that posted them. It owes: rows of the tenant shown and of no other, one
  rule per form, distinct action orders, a list that has the user's own rule, and
  a screen that catches up with the database whatever was lost.
- **Demo seed.** Its awaited calls have no transaction around them, while a server may
  start, a console may replay, and any call may fail half-way. It owes: nothing
  left of an earlier run, references to documents that exist, and tenants the
  console can talk to.

`PROJECT.json` lists the hazards at the lines where they bite, with the property
that would catch each.

## 2. Modules

| Module | Models |
| --- | --- |
| `EngineStore` | The shared state: tenant status, active rules, `events`, `executions`, `jobs`, the stream of `failed` events, the counters of mishaps; the operations of `ExecutionsService` and of BullMQ |
| `Ingestion` | `POST /webhooks/:source` up to its job, one step per await |
| `WebhookProcessor` | `process(job)`, one step per await, one frame per slot of the worker |
| `FailedReplay` | `replayFailedExecution`, one step per await |
| `QueueEventsListener` | `onFailed`, one step per update, and lost notices |
| `WebhookEngine` | The composition, with administration, the stalled check, lost locks and crashes; `Spec` and `FairSpec` |
| `RulesEngine`, `ActionsEngine` | Conditions, payload schemas and templates; the outcomes of actions. Pure operators |
| `EngineContent` | `WebhookEngine` over rules and webhooks with content: its constants `Matches`, `Orders`, `SchemaRejects` and `Outcomes` as the two engines compute them |
| `EngineProperties` | What the backend must and must not do |
| `ActionLedger` | The abstract specification: what the engine promises about actions, whatever goes wrong |
| `EngineRefinement` | The mapping under which `WebhookEngine` implements it |
| `EngineInvariants` | The inductive invariants behind those properties |
| `TenantRegistry` | The `tenants` collection: `TenantService`, the requests in front of it, one step per await, and the seed of `onApplicationBootstrap`; its properties |
| `Intake` | `TenantRegistry` with deliveries to its tenants: middleware, guard, route, identifier, signature, the unique index |
| `AdminApi` | The collections of several tenants as the API shows them: lists with filter and page, `populate`, the dashboard's counts; other clients and the engine as writers |
| `QueryCache` | TanStack Query as the console uses it: fetch, poll, refetch, reset, invalidate, retry |
| `Console` | One browser tab over both: views, tenant switch, form for a rule, replays, requests in flight |
| `SeedScript` | `seed.ts`, one step per awaited call, rejected calls and partial inserts |
| `Platform` | Console, API, other writers and seed script together, with their properties; `Spec` and `FairSpec` |
| `MCEngine`, `MCContent`, `MCTenants`, `MCPlatform` | Instances for TLC |
| `EngineStoreProofs`, `WebhookEngineProofs`, `ProcessingProofs`, `SingleFileProofs`, `ContentProofs`, `RefinementProofs`, `TenantProofs`, `PlatformProofs` | Theorems and proofs |

There are three state machines. In `WebhookEngine` the four handlers EXTEND
`EngineStore`, and an action of a handler says what it does to the shared state
and to the handler's own variable; the composition leaves the variables of the
others alone. `Intake` extends `TenantRegistry` in the same way; what is a single
bit in the engine, whether a tenant is active, is there in full. `Platform` takes
the engine as what it writes, one document at a time, and the tenants as the keys
they have. `IntakeSpec` implies `TenantRegistry`'s `Spec` (a theorem).

### How state and actions correspond to the code

The engine:

- `events[e]` is the status of the document of one (tenantId, eventIdentifier),
  `absent` before it is saved. `executions` and `jobs` are sequences in order of
  creation; an `_id` is an index. Nothing deletes executions, and a job outlives
  its processing by hours (`removeOnComplete`, `removeOnFail`), so neither
  shrinks.
- `Rules` is what the documents of rules may hold, and `RuleId[r]` the `_id` of the
  document that holds `r`; `activeRules` is what those that are active hold now.
  `EditRule` is POST, PATCH and DELETE: it replaces what one document holds, its
  actions, conditions and trigger included, or makes it inactive. Executions are found
  by rule `_id`, steps by the action's `order`, so an attempt after an edit goes on
  with other actions where the last one stopped.
- An execution keeps `ok`, the orders that have a successful step. Failed steps,
  durations, timestamps, `retryCount` and error texts are left out: no branch
  of the code reads them. `ranAs` is a history variable: what the rule held whenever
  a call ran the execution.
- A job's `waiting` covers wait and delayed. Backoff only delays a retry, so
  leaving it out allows every order of steps the code allows. `made` and
  `stalls` count attempts and stalls, `owner` is the slot whose lock is valid.
- `frame[w]` is one call of `process`. Its `pc` names the await that comes next:
  `lock` (findOneAndUpdate), `tenant`, `rules`, `loop` (findExistingExecution),
  `open` (start or resume), `act`, `logOk`, `logFail` (addStep), `mark` (the
  inner catch), `revert` (the outer catch), then `done` or `thrown`, after which
  BullMQ settles the job. `logged` is the snapshot of the steps that
  the code takes when it resumes, and does not read again.
- `performed[<<e, r, k>>]` is a history variable: how often action k of a rule that
  held `r` took effect for event e. No guard reads it.
- `Matches`, `Orders`, `SchemaRejects` and `Outcomes` stand for the content of rules
  and payloads: which rules match, the sorted `order` fields of their actions,
  whose payload schema rejects the payload, what an action may come to. In
  `EngineContent` they are computed from documents. A JSON value there is its
  `typeof`, `String()` and `Number()`; a payload maps the paths it has to values.

Tenants and deliveries:

- `tenants` is a function on the `_id`s there are; `name` and
  `key` stand for the fields with a unique index (`domain` is a third of the same
  kind, of `settings` the secrets are constants). A created tenant takes its
  request as `_id`, for MongoDB makes a new one each time. `boot` is the place in
  the loop over `DEFAULT_TENANTS`; requests are served once it is `listening`.
- A delivery is what was sent and how far it got: `gate` (the middleware's
  query), `secret` (the handler's), `save`, `find`, `add`. A hash stands for what
  is hashed: the payload and then source and type, which the code writes one after
  the other with nothing between (`webhooks.service.ts:311`); `Joined` says which
  pairs run together. A signature is right, wrong or absent, where right is what the code
  computes over `JSON.stringify(payload)`.

The platform:

- The `_id` of a document is its place in the order of creation, which is what
  `sort({ createdAt: -1 })` sorts by; the random dates the seed script gives its
  documents are left out. A count of the dashboard stands for the documents
  counted. The filters of the lists are reduced to the status. The middleware is
  folded into the handler's first query.
- `cache` maps query keys to entries with data, an error, a fetch in flight.
  `asOf` says how far the ids had got when the answer was read. Which entries
  have passed their `staleTime` is free (`old`); entries are not collected
  (`gcTime`). Polling assumes the tab has the focus.
- `form.draft` numbers what is written in the form; a rule remembers the draft it
  was made from in `ref`. `own` and `unsure` are history variables; `own` keeps for
  each rule the console was told it created which fetches of the list
  `invalidateQueries` let go on then (`spared`).
- The engine is its writes: a status that moves as the engine moves it
  (`EngineWrites`), and a webhook with an execution of a rule (`EngineStarts`,
  several awaits in one step). A replay from the console writes its history and
  resets the execution; the job is left to `WebhookEngine`.
- `seed` is the script's place and what it has planned in memory. `Draws` and
  `Shuffles` are what its random numbers may give.

Inputs are chosen by the model: which tenant and rules exist, what is sent, how it
is signed, how an action turns out. What a user and others do in `Platform` is
bounded by a *scenario*: how often each kind of happening may happen.

### What may go wrong

In the engine each mishap has a counter, bounded by the constant `Budget`. `crash`: the
process dies and starts again; calls, requests and the listener's place in the stream
are gone, the databases keep what they have. `lockLost`: a lock is not renewed and the
call runs on. `dbFault`: a database call rejects without effect. `queueFault`:
`Queue.add` rejects, with or without having added the job. `noticeLost`: a `failed`
event is not delivered. `suspend` and `ruleEdit`: an administrator suspends the tenant
or edits a rule while the engine runs. In `TenantRegistry` and `Intake`, restarts and
rejected calls; in `Platform`, lost requests and answers, rejected calls and partial
inserts of the seed script, restarts of the server.

### Where the model allows more than the code

`find()` on rules and `findOne` on executions promise no order, so any order and
any match is allowed. The `failed` events of different jobs may be handled in any
order. A crash takes the whole process, HTTP and worker together, since they are
one process in this repository. A replay needs an execution that exists.

### Where the model allows less than the code

- A database call that rejects has had no effect. A write that was applied and whose
  answer was lost is left out, and two properties rest on that: after a save of the
  event that is applied and rejects, `AcknowledgedIsQueued` would not hold for the
  repetition, nor `FailedHaltsRetries` after an update to `failed` that is.
- *Save* is disabled together with the click that posts the form; in the console it is
  a timer and a render later (`RulesView.tsx:274`), and a second click in between
  posts the draft again. `CreatedOnce` does not speak of those.

## 3. What TLC checks

Each property is stated, with the assumption under which it is meant, in
`EngineProperties` and `EngineContent`, the refinement in `EngineRefinement`, the
properties of tenants, deliveries and the platform at the end of
`TenantRegistry`, `Intake` and `Platform`.

| Run | Instance | Shows | States |
| --- | --- | --- | --- |
| `ingest` | 3 deliveries of one webhook, 1 rule, 1 slot, 2 attempts; one each of crash, Redis fault, database fault, suspension, a rule switched off or on, lost notice | `OneIngestJob`: one job per webhook at most. `AcknowledgedIsQueued`: no 200 for a webhook without a job, unless a request was cut off | 1.04 M |
| `worker` | 2 rules (two actions and one), 2 slots; a crash, a lost lock, a database fault, a lost notice | `CompletedMeansPerformed`, `ExclusiveProcessing`, `CompletedEventIsSettled`, `FailedHaltsRetries`; `EventIsInHand`, `ProcessingIsInHand`: any one of these mishaps strands neither an event nor an execution in `processing` | 4.09 M |
| `replay` | 1 rule in two versions, of actions 1, 2 and of actions 1, 2, 3, active as either at first; an edit from one to the other, or off, at any moment; 2 slots, one replay at any moment; a database and a Redis fault | `TypeOK`, `CompletedMeansPerformed`, `NoActionRepeated`, `OneExecutionPerRule`, `CompletedExecutionIsFinal`; `QueuedIsInHand`: what a replay has queued is taken up; and `ImplementsLedger`: the refinement of `ActionLedger` | 0.53 M |
| `recovery` | 2 webhooks and 3 rules with content (one whose schema rejects the payload, one with an operator that is not implemented), one action each, 1 slot; two crashes and a database fault, one stall allowed; fair | `RulesRunAsWritten`: which webhooks a rule runs for. `QueuedIsCompleted`: crashes alone lose no queued webhook. `EveryJobSettles`, `EventLeavesProcessing`, `ExecutionLeavesProcessing` | 0.21 M |
| `tenants` | 2 default tenants, 3 requests with any of 6 bodies and 2 deliveries of any of 10 sendings, three of these five made; a restart, a rejected call | `TenantTypeOK`, `UniqueTenants` against creations, renamings and seeds that overlap; `LockedForGood`: a suspension is lifted by nothing admitted later; `DefaultsSeeded`: what a seed leaves undone and why; `RemovedStaysRemoved`; `IntakeTypeOK`, `RepeatsAreOne`, `AnsweredForItself`: under which event a webhook is answered; `ClosedTakesNothing`: nothing is stored for a suspended tenant once those let in are through | 2.69 M |
| `console` | 3 tenants, two of them the seed's, a document or two in most collections, pages of one row, 19 scenarios; fair | `PlatformTypeOK`; `RowsOfTenant`, `OwnRulesListed`: what is on screen; `CreatedOnce`, `ConsoleOrdersDistinct`: what a form becomes; `SeedClosed`, `SeedIsIdempotent`, `SeededTenantsServe`: what the seed script leaves; `ScreenCatchesUp` | 0.48 M |

Slots are interchangeable and no definition names one, so `worker` and `replay`
use their permutations as a symmetry, and `tenants` those of its requests and of
its deliveries; the runs with liveness properties use none.

**Bounds.** One webhook in most instances: handlers of different events touch no common
document, only the worker's slots, so a second event adds interleavings and no new
conflict; `recovery` has two that share a slot. Two slots are enough for two calls of
one event to overlap; two rules for the loop to be left between them; two actions for a
step to be logged while the next is not. Two versions of one rule, the second with one
action more, are enough for an attempt to find other actions than the last one at the
orders it has logged. Two attempts give a first and a last one; one stall allowed gives
a job that stalls into a retry and one that stalls into failure. The code has 5 attempts
and 2 stalls, and the runs of section 4 use these values. Three requests let one be
inserting, one be a duplicate and one come after both. In `tenants`, three requests let
one create a tenant that a second changes while a third removes it; two defaults let the
seed stop between them, and one restart lets it meet what the requests left. Two
deliveries are what `RepeatsAreOne` and `AnsweredForItself` speak of, and leave one
request to suspend their tenant. The ten sendings are one with an identifier in the
payload; the same for another tenant; one with none; that with another type; that with a
source and a type that run together to the same text; one with an identifier in the
header, and a right or a wrong signature; one with an identifier that is taken; one to
the path `/replay`; one of no tenant. In `console`, pages of one row make every list
longer than a page; a scenario combines the few happenings that conflict: a switch with
requests in flight and a second tab, paging and filters while rows change, errors and
their retry, a form edited while its rule is being created, replays next to the engine,
the seed script once, and again after a fault, with a server that starts and a replay
that is carried out.

**Fairness.** A call that has started goes on to its next await (a JavaScript
event loop; a hanging action ends with the
timeouts of `fetch`), a free slot takes a waiting
job, the stalled check runs on its timer, a published event reaches a connected
listener, an HTTP request under way is served. In `Platform`, a query on screen
is polled, read and answered, one fairness condition for each query; a POST is
served and answered; the seed script's calls settle. Each is weak fairness: these
steps stay enabled until taken. Nothing is assumed of clients, users,
administrators or faults, nor that an action ever succeeds.

**Why the liveness instances are as they are.** Recovery is promised up to a
point. With a crash and a lost lock together, or two crashes and an event with
several rules whose
`find()` order changes between attempts, an execution can be left in
`processing` with no job left to touch it; so in `recovery` each webhook has one
rule that runs for it, and where a crash and a database fault both happened the
properties about `processing` claim nothing (`MixedMishaps`). `stuck_processing`
below is the simplest form of that limit. `QueuedIsCompleted` is about the
behaviours in which no action fails, no payload is rejected and no call of the
database rejects. `ScreenCatchesUp` leaves out the list of rules, the one view
that never polls, which is why `OwnRulesListed` matters.

## 4. What the documentation says and the code does not do

Each of these runs checks one sentence of the repository's documentation and
ends with a counterexample.

| Run | Claim | What happens |
| --- | --- | --- |
| `exhausted` | `src/README.md:299-303`: a call that cannot connect leaves a failed execution to replay | The inner catch writes `retrying` on the last attempt too, and the listener only fails `queued` and `processing`: the execution stays `retrying`, which replay refuses |
| `same_order` | `src/README.md:288`: "only failed or unexecuted steps are run" | Steps are found by `order`; when two actions share one, the failed one is skipped on the retry and the execution completes |
| `suspended` | `src/README.md:276`: a `NonRetryableActionException` halts further retries | For a suspended tenant it is thrown outside the block that discards the job, so the job is retried |
| `replay_restarts` | `src/README.md:303`: a replayed execution goes to `queued`, then `processing` | `onFailed` of the first job, arriving after the reset, fails the queued execution; the replay's job then skips it |
| `stuck_processing` | `src/README.md:282`: no job is left permanently in `processing` | The process dies after the stalled job failed and before its notice arrived; the stream is read from its end, so nothing repairs the event |
| `deleted_rule` | `src/frontend/src/types/index.ts:74`: an execution's `ruleId` is a string or a rule, and `src/README.md:191` lets a rule be removed | `populate` answers null for a rule that is gone, `typeof null` is `object`, and `ExecutionCard` reads its name: React unmounts the page |

Known not to hold, without a run of their own:

- The comment at `webhook.processor.ts:43` calls the event's update an atomic
  lock, but its filter (line 49) admits `processing`; two replays at once put two
  calls at one event's actions. A crash between an action and `addStep` repeats
  the action. An execution whose replay could not reach Redis stays `queued`,
  which cannot be replayed; so does one whose event was completed meanwhile, after
  a crash or by another replay, since the job finds no event to lock. Two
  interruptions, say a crash and a lost notice, can leave an event or an execution in
  `processing`.
- A PATCH of a rule's actions between two attempts is not noticed: steps are looked up
  by `order` in the log of the execution (`webhook.processor.ts:140`), whatever action
  was performed there. Say A at 0 has succeeded and B at 1 has failed retryably, and a PATCH
  puts C at 0, A at 1 and B at 2: the retry passes C over, performs A a second time
  and then B, and completes. So an action may be missing from a completed
  execution, or be performed at two orders. What does hold is said by order
  (`NoActionRepeated`, `ImplementsLedger`), or of executions whose rule held the same
  whenever a call ran them (`CompletedMeansPerformed`).
- `notequals` and `lessThan` are documented (`src/README.md:484`), accepted by the
  schema and not implemented: a rule with one of them never runs. A missing field
  equals the text `undefined`, `null` the text `null` and is greater than any
  negative number. A leading `payload.` is dropped also where the payload has a
  field `payload` of its own, which can then not be named.
- The provider's identifier is taken for unique in a tenant: two webhooks of other
  sources or types that share one are one, and the second is lost
  (`src/README.md:223` speaks of a payload hash). The hash for want of an identifier is
  of payload, source and type written together: one payload under source `git` and type
  `hubpush`, and under `github` and `push`, is one webhook. Signatures are computed over
  `JSON.stringify(payload)`, not over the body as it was received. A source with
  a hyphen needs the API key, for the middleware knows a delivery by letters,
  digits and underscores.
- `POST /api/webhooks/replay` (`src/README.md:185`) is taken for a delivery of the
  source `replay`: the route of `triggerReplay` is declared after `:source`.
- A default tenant that was deleted is back after the next start, and a default
  whose name another tenant took keeps those after it from being seeded.
- Two tabs share the `tenantId`: after a switch in one, the other shows one tenant
  and asks for another until it is loaded again. A draft is kept through a switch
  and saved for the new tenant. A rule created late empties what was written in
  the form since. The list of rules may come to rest without the rule the user has just
  created: `invalidateQueries` (`RulesView.tsx:96`) does not cancel a first load, nor
  the fetch of an entry that is off screen, and their answer may be older than the rule.
  Only the last replay clicked is shown as under way. The filter
  of the replays offers `completed`, a status they do not have.

The antecedents and exceptions of the properties (`Calm`, `SingleFile`, `ranAs`,
`IdTakenForUnique`, `RunTogether`, `meddled`, `spared`, `Implemented`, `ReadAsWritten`)
name these cases.

## 5. What is proved

The theorems hold for all values of the constants: any number of events, rules, actions,
slots, requests, deliveries, replays, tenants, attempts, stalls, and any budget of
mishaps. They assume only `StoreAssumption`, `IngestionAssumption`, `ContentAssumption`,
`TenantAssumption`, `IntakeAssumption`, `ApiAssumption` and `SeedAssumption`: the types
of the constants, that the default tenants are distinct, that hashes are no identifiers,
that the script has demo tenants, and that the documents there at first are finitely
many, numbered 1, 2, ... across the collections. `RulesAreRunAsWritten` assumes further
that `Matches` is what the rules engine makes of the documents (`Matched`), as in the
run `recovery`.

| Theorem | States |
| --- | --- |
| `TypeCorrect` | `Spec => []TypeOK` |
| `ReferencesExist` | `Spec => []TypeInv`: calls, replays and notices refer to documents that exist, and a call's execution is that of its event and rule |
| `AtMostOneIngestJob` | `Spec => []OneIngestJob` |
| `AcknowledgedStaysQueued` | `Spec => []AcknowledgedIsQueued` |
| `CompletedIsPerformed` | `Spec => []CompletedMeansPerformed`: every action was performed, if the rule held the same whenever a call ran the execution, with distinct orders |
| `ProcessingIsExclusive` | `Spec => []ExclusiveProcessing` |
| `ExecutionsAreUnique`, `CompletionIsFinal` | `Spec => []OneExecutionPerRule`, `Spec => CompletedExecutionIsFinal` |
| `FailureHaltsRetries` | `Spec => []FailedHaltsRetries` |
| `ActionsRunOnce` | `Spec => []NoActionRepeated`: no action is performed twice, nor two at one order of a rule, whatever edits there are |
| `CompletionIsSettled` | `Spec => []CompletedEventIsSettled` |
| `OneInterruptionStrandsNoEvent`, `OneInterruptionStrandsNoExecution` | `Spec => []EventIsInHand`, `Spec => []ProcessingIsInHand` |
| `ReplayedStaysInHand` | `Spec => []QueuedIsInHand` |
| `RulesAreRunAsWritten` | `Spec => []RulesRunAsWritten`, if `Matches = Matched` |
| `LedgerImplemented` | `Spec => ImplementsLedger`: `WebhookEngine` implements `ActionLedger`; an execution that completes has an action performed at each order of the rule as a call ran it, edits or not |
| `TenantsTyped`, `TenantsUnique` | `Spec => []TenantTypeOK`, `Spec => []UniqueTenants` |
| `SuspensionIsFinal` | `Spec => LockedForGood` |
| `SeedCompletes` | `Spec => DefaultsSeeded` |
| `RemovalIsFinal` | `Spec => RemovedStaysRemoved` |
| `IntakeImplementsTenants` | `IntakeSpec => Spec`: the five theorems on tenants hold while webhooks are delivered |
| `IntakeTyped`, `RepeatsFindTheirEvent`, `AnswersAreOwn` | `IntakeSpec => []IntakeTypeOK`, `[]RepeatsAreOne`, `[]AnsweredForItself`, with the exceptions `IdTakenForUnique` and `RunTogether` |
| `ClosedForWebhooks` | `IntakeSpec => ClosedTakesNothing` |
| `RowsAreOfTenant` | `Spec => []RowsOfTenant` (of `Platform`, as those below) |
| `DraftsMakeOneRule`, `OrdersAreDistinct` | `Spec => []CreatedOnce`, `Spec => []ConsoleOrdersDistinct` |
| `CreatedRulesListed` | `Spec => []OwnRulesListed`, but for the entries spared by the invalidation |
| `DocumentsFollowKeys`, `ReseedReplaces` | `Spec => []SeededTenantsServe`, `Spec => []SeedIsIdempotent` |
| `SeedRefersToItself` | `Spec => []SeedClosed` |
| `PlatformTyped` | `Spec => []PlatformTypeOK` |

The argument, in the order of the modules:

1. `EngineStoreProofs`: what each operation on the store returns and leaves
   alone. These lemmas are all the later proofs use of sequences.
2. `WebhookEngineProofs`: `TypeOK` is not inductive, since a frame's index must
   point at something. `TypeInv` adds, for every slot, what its `pc` implies about
   its job, execution and action, and for every replay that its execution exists.
   One lemma per component, one step per action. Then, which actions write
   `executions`, `jobs` and `performed`, and that all of them grow: a document
   keeps its event and rule, a log keeps its steps, a counter of mishaps never
   decreases.
3. `ProcessingProofs`: `OneIngestJob` needs `IngestInv`. A request between
   `event.save()` and `Queue.add` is the only one there for its event, and the
   event has no job yet; an absent event has none either. `AcknowledgedInv` says
   that what refers to an event finds it, and that while no request was cut off a
   saved event has its job or its request.
   `PerformedInv` follows an action from its effect to its
   step to the verdict. A step in the log stands for an action of that order that
   has succeeded; what a call believes logged is logged, and so is each action
   before the one it is at; hence an execution completed past its last action
   has a step for every order of the rule as a call ran it. Two calls may be at it at once,
   because logs only grow. With distinct orders, and a rule that held the same whenever
   a call ran it, the action of that order is the action itself.
   `LocksHeld` gives each busy slot the lock of its job, which has one owner;
   `ReplayJobs` says a replay's job presupposes a replay; with `OneIngestJob` two
   busy slots in one event hold the same lock, so they are one slot.
   `MatchInv`: a call's rules, and whatever an execution was run from, match the event.
4. `SingleFileProofs`: with a replay, two jobs of one event exist, and the argument
   above fails. What keeps their calls apart (`OneCall`) is that a replay is
   accepted only of a failed execution, and that such an execution has failed with
   its job: `SpentInv` says the delivered job is then settled, or held by a call
   that has discarded it and only has to leave; such a job never runs again
   (`SpentStays`). It needs `QueueInv` (an active job has an owner, only a
   call on its way out has discarded its job, notices are of failed jobs) and
   `OriginInv` (a job goes back to a delivery or to the one replay, which is over).
   A crash would break it: the discard is in memory, and the stalled job is taken
   again. That is why `SingleFile` excludes a crash once something is replayed.
   With one call at an event, what it has read of the
   database before an await is true after it: `LookupInv`, that there is still no
   execution of the rule where none was found, and that the one it works on is not
   completed, which gives `OneExecutionPerRule` and
   `CompletedExecutionIsFinal`. `OnceInv` follows an action on: what has succeeded
   is logged or about to be, and what is ahead of a call has not succeeded, or is in the
   snapshot it took; an edit may have put another action at an order, so it says the same of
   all documents of the rule, that an order was performed from one of them only
   (`OneDocumentPerStep`); hence `NoActionRepeated`. `SettledInv` follows the
   list of a call: a rule is taken off it when its execution is over, and nobody opens
   that again; with `RulesKept`, one document for each rule and the same as long as nobody
   edits it, the list was complete. `FailedHaltsRetries` is
   `SpentInv` itself. `SingleFile` counts replays; `SingleFileIsSingle` turns the
   count into "any two are the same", for which the set of replays accepted
   has to be finite (`FinitelyManyReplays`).
   The three properties of what is in hand say what the liveness properties need of
   safety: where something should still happen, someone is there to do it.
   `EventHeldInv` needs neither one job nor one replay. Before any interruption the
   call that took an event is in it until it has updated it; the first interruption
   that cuts a call off leaves its job to stall, to be retried or to fail with a
   notice, and a second one is what it takes to lose that too (a crash and the
   lost notice, a lost lock and a rejected update). `ExecutionHeldInv` follows an
   execution instead, and for that it has to follow the list: an execution in
   `processing` that no call is at is of a rule that its event's call has still to
   come to, so the call does not end before it. `QueuedHeldInv` says the same of
   the executions a replay has queued, with one fact more: an event
   with a failed execution is not completed, so the replay's job gets its lock.
5. `ContentProofs`: `FieldIsMeant` and `ConditionIsMeant`, that the rules engine,
   with its prefix to drop and its conversions, decides what the author of a
   condition means, on documents without the cases named in `ReadAsWritten`.
   `CoveredInv`, weaker than `SettledInv` but inductive on its own, holds
   with lost locks and replays too: a rule leaves a call's list with
   an execution, which is never deleted. `MatchInv` gives the other direction.
6. `RefinementProofs`: the executions are the ledger's entries, with statuses reduced to
   open, failed and completed; a call that finds an execution reopens its entry, with
   what the rule holds by then. An order is done once an action of it has succeeded, so
   repeating it is no step of the ledger but a stutter. The step simulation needs
   `MatchInv`, `AcknowledgedInv` (an event with a job is stored) and `PerformedInv`
   (past the last action nothing is owed).
7. `TenantProofs`: each step writes one valid document whose name and key nobody
   else has, removes one, or leaves the collection alone (`CollectionStep`). The
   seed needs `BootInv`: until the server listens no request is under way, so each
   default before `boot.at` is there still, and the one about to be created is not.
   Removal needs `CreatorInv`: only its creator writes an `_id` that is not there,
   and a creator has one chance. A step of `Intake` is one of `TenantRegistry` or
   leaves it alone, so all this carries over. Deliveries need
   `EventsInv`: every stored event has the identifier of its own webhook, no two
   the same, and whoever was accepted points at an event with its tenant and
   identifier. Two webhooks with one identifier then share the provider's, or payload,
   source and type, or payload and what source and type read together
   (`RunTogether`), which is what `AnsweredForItself` says.
8. `PlatformProofs`: `DocsInv`, that documents have their fields, for the steps are
   written with EXCEPT. `TabInv`: while no other tab meddles, the tenant stored is
   the tenant shown, and every entry and fetch in the cache is of it; the order of
   `handleChange`, first the tenant and then the reset, is what makes it
   inductive. `FormInv`: a draft is posted once at a time and only from
   the view it is written in, its number is spent when the form is emptied, and
   orders are numbered in the form, in the request and in the rule. `KeysInv`: the
   script's progress through the tenants, whose keys nobody else changes once they
   are there. `ClearedInv`: what has been cleared of old documents stays so, since
   every other step keeps ids or makes newer ones (`Grows`).
   `SeedClosed` looks at what is written only; `ClosedInv` has it from the plan.
   `PlansRefer`: what is planned refers to what is planned, and to rules that are there.
   `WrittenInv`: a document with the id of a planned one is that document, since ids
   are new when they are planned (`NumberedInv`), but for a status that the engine moved;
   and a document of the next collection is there only when all of the one before are, for
   `insertMany` is awaited. The lemma `SourceInTurn` says that the replays planned
   are of executions in the plan, which has some of each tenant (`Ready`).
   `ScreenInv` is `OwnRulesListed` with what it takes to stay true: a fetch of the
   rules that has read its rows has read them after each rule in `own` that does not spare
   its entry, and such an entry on screen that is invalid is being fetched or shows an
   error. `onSuccess` makes both true at once, since `invalidateQueries` cancels and
   starts again every fetch but the spared ones.
   `TypesInv` is `PlatformTypeOK` with two facts its steps need: a fetch that is reading
   has an await left, and a script that is not done with the tenants has one left.

TLC has checked `TypeInv`, `AcknowledgedInv`, `PerformedInv`, `ExclusiveInv`,
`MatchInv`, `SingleFileInv`, `OnceInv`, `SettledInv`, `RulesKept`, `EventHeldInv`,
`ExecutionHeldInv`, `QueuedHeldInv` and `CoveredInv` as invariants on the instances of
`ingest`, `worker` and `replay`, `CoveredInv` on that of `recovery` too, and the
invariants of `PlatformProofs` on that of `console`.

**Only model-checked:** the liveness properties (`QueuedIsCompleted`, `EveryJobSettles`,
`EventLeavesProcessing`, `ExecutionLeavesProcessing`, `ScreenCatchesUp`), since
liveness under fairness is beyond the proof system; of what `EventLeavesProcessing`
and `ExecutionLeavesProcessing` rest on, the safety part is proved (`EventIsInHand`,
`ProcessingIsInHand`). Every invariant and every
action property of the passing runs is proved.

## 6. What is not modelled

- Event replay (`triggerReplay`): no request reaches its route.
- The actions catalogue: plain CRUD on documents that nothing reads. The
  automation queue's worker: nothing adds a job to its queue. Logging, filters,
  interceptors, configuration: formatting, and values the constants stand for.
- Of modelled parts: BullMQ's backoff and the removal of old jobs; requests and
  answers of HTTP actions; a call that breaks off after its server acted, which
  the processor cannot tell from one that never arrived; changes of a tenant's
  secrets; lookups of single documents, which the console does not use; layout, charts and
  dialogs with details; the payloads, texts and dates of the demo data.
- Several processes sharing the queue. The server is one, but `seed.ts` starts the
  application's context, and with it a second worker and a second listener, which take
  jobs and hear notices until the script ends. Two slots stand for calls in two
  processes, as far as no process dies alone; two listeners for one notice are not modelled.

## 7. Plan

1. *(done)* The engine: store, ingestion, processor, replay, listener, their
   composition; properties, instances, and proofs of typing, ingestion and
   processing. The tenants, with their proofs, and the
   refinement of the *execution ledger*, in which a rule's actions happen at least
   once and the verdict follows them.
2. *(done)* The rules and actions engines as operators, and the engine over
   documents. Deliveries next to changes of tenants: gate, identifiers,
   signatures, with proofs. The console, the API's reads and the seed script,
   with proofs.
3. *(done)* Proofs of the remaining safety properties: of the engine with one
   replay, of the engine over documents, of the console's lists and the seed script.
4. A second abstract specification, *accept once* (an event is accepted, queued,
   settled), which `WebhookEngine` without cut-off requests should implement by a
   refinement mapping on `events`, `request` and `jobs`.
