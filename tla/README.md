# Verification of the ZOLVE domestic-services backend

This directory models the backend of the ZOLVE platform (a NestJS code base) in TLA+, model-checks
the models with TLC and proves theorems about them with TLAPS. Paths below are relative to
`src/src/modules/` unless they begin with `src/`.

Contents: [inventory](#1-inventory) · [modules](#2-modules) · [runs](#3-runs) ·
[findings](#4-where-the-code-and-its-documents-disagree) · [proofs](#5-proofs) ·
[not modelled](#6-what-is-not-modelled-and-why) · [plan](#7-plan)

## 1. Inventory

The repository is the *cron* service of the platform. `src/src/app.module.ts` wires only the four
jobs, their lock, metrics and manual endpoints; the tree also carries the modules of the *API*
(users, providers, service requests, reviews, documents, categories, services) and of the *worker*
(subscribers to RabbitMQ), which share one PostgreSQL database, one RabbitMQ topic exchange
(`zolve.events`), MongoDB for in-app notifications and Redis. The pieces interact only through
those stores:

    API use cases ──rows──► PostgreSQL ◄──rows── cron jobs ──SET NX / DEL──► Redis
         │                      ▲                    │
         └──events──► RabbitMQ ─┴─► worker handlers ─┴──► MongoDB, SMTP, Firebase

| component | state | operations | what makes it correct |
|---|---|---|---|
| Cron lock and job classes (`shared/lock`, `*/*.job.ts`, `jobs`, `metrics`) | `cron:lock:<job>` in Redis, in-memory counters | `acquire`, `release`, `run` of each job, manual runs, `record` | one run per job at a time; no eternal lock; each run counted once |
| Account cleanup (`account-cleanup`) | `users`, their contact rows, a report | one scan, then batches in transactions | only expired PENDING accounts without open requests go, whole; the report is true; all of them go in the end |
| Service requests (`service-request`) | `service_requests.status` | create, accept, reject, cancel, complete | the lifecycle PENDING → ACCEPTED → COMPLETED with its exits; truthful events |
| Reviews (`review`) | `reviews`, unique per request | create | one review per request, of completed work |
| Providers (`provider`) | `provider_profiles`, `provider_verifications`, `provider_services` | create, submit, approve, reject; add and remove a service | no verdict without a review; a verdict stays; a service is offered once |
| Provider-approval worker (`provider-approval`, `notification`) | one queue, `provider_verification_logs`, notifications | two subscribers of the queue, a handler of four statements | each verdict logged and notified, none lost or reversed |
| Rating recalculator, rating worker (`rating-recalculator`, `rating`) | `average_rating` | batch of read averages; one-statement average | the newest average wins |
| Request reminder, weekly report | none of their own, messages | query and publish | the queries run and count what there is |
| Notification workers (`service-request-worker`, `email`, `push`, `notification`) | queues | handlers | each message reaches its own handler once |
| Message producer (`shared/providers/queue`) | counters | `send`, batches, confirmation, delay | no success the broker knows nothing of; counters follow the results |
| Categories (`category`) | table and 5-minute cache | list, create, update, delete | one category per slug; the list is the table's, or becomes it |
| Users, addresses (`user`) | `users`, `addresses`, links | create, update, delete, statistics, add address | statistics that add up |
| Documents (`document`) | bucket and table | upload, approve, reject | no row without its file; one final decision |
| Services (`service`) | `services` | create, update | a service that is offered exists |
| Entities and migrations (`shared/providers/database`, `src/scripts/migration.js`) | the schema, the list of executed migrations | run, revert, deploy | the schema follows the version; the code fits it |
| Errors, tracing, CSRF, headers, health, configuration | none shared | | |

What is hard here: nothing in the API locks a row. Every use case is *check, then act*: it reads,
awaits, and writes without a condition, so that calls of several users interleave between the two.
The cron runs read ids once and use them much later. The lock lives in Redis without an owner and
fails open. Messages are published after the write, and failures to do so are swallowed. RabbitMQ
redelivers what a handler did not finish. `PROJECT.json` lists each such place under *hazards*
with the property that covers it, or the reason why none does.

## 2. Modules

| module | models |
|---|---|
| `CronLock` | `CronLockService`, the wrapper shared by the job classes, `JobsController`, `CronMetricsService` |
| `JobMutex` | abstract: at most one run of a job is inside its critical section |
| `AccountCleanup` | `AccountCleanupService.run()`, `UpdateUserUseCase`, the opening and closing of requests |
| `ServiceRequest` | the five writing use cases of service requests, and `CreateReviewUseCase` |
| `RequestLifecycle` | abstract: the lifecycle of one request |
| `WeeklyReport` | the query and the e-mail of `WeeklyReportService`, over the states of `ServiceRequest` |
| `ProviderVerification` | create, submit, approve, reject in the API; the approval worker and its queue |
| `Ratings` | `RatingRecalculatorService.run()`, the rating worker, the life of reviews |
| `Notifications` | the worker of `service_request.*` events, the in-app notifications, the e-mail and push workers and the queue they share |
| `Schema` | the 25 migrations, up and down, `scripts/migration.js`, reverts by hand |
| `Entities` | the TypeORM entities and the raw SQL of the jobs, set against `Schema` |
| `Catalog` | categories: the admin calls, the public list and its entry in Redis |
| `Producer` | `RabbitMQMessageProducer`: single, batched, confirmed and delayed sends, counters |
| `Outbox` | abstract: what a caller of the producer may be told |
| `Accounts` | users, provider profiles, offered services and their catalog, documents and their files, statistics |
| `CronLockProofs`, `AccountCleanupProofs`, `ServiceRequestProofs` (with `WeeklyReport`), `ProviderVerificationProofs`, `NotificationsProofs`, `ProducerProofs`, `AccountsProofs` | theorems of the module they are named for |
| `CopiesProofs` | theorems of `Catalog` and `Ratings`, which keep copies of what the tables say, and of the exit code of `Schema`'s script |
| `MC...` | the instances TLC checks |

Definitions whose comment begins with *A mutated* are not part of the models: each is a plausible
bug, and `PROJECT.json` (*mutants*) pairs it with the property that catches it.

### CronLock

`key[j]` is the remaining life of the key in milliseconds (0: no key), `phase[r]` where a run
stands: `acquiring` is the await of `acquire()`, `running` that of the service's `run()`,
`releasing` that of `release()` in the `finally` block, `manual` a run started over HTTP, which
asks for no key. A *slot* `r` belongs to a pod and a job and is used again and again; two slots of
one pod let its schedule fire while a run is still in progress. `SetOk`, `SetBusy` and `SetFails`
are the three ways out of `acquire()`; the last has two outcomes, since Redis may have executed
the SET whose answer was lost. `RunEnds` stands for success and for the `catch` block, which
differ only in the counter. `Tick` lets keys expire. `age`, `begun` are history: the age of a run,
and the runs begun by a pod since it booted.

`faults` is chosen once per behaviour, among *set* and *del* (Redis fails that call), *crash* and
*overrun* (a run takes longer than its `JOB_TTL_MS`). One run of TLC thus covers all sixteen
environments, and each property says in which of them it holds: exclusion needs that SETs do not
fail and runs do not overrun; lost DELs and crashes do no harm. `JOB_TTL_MS` is documented as the
longest expected execution (`shared/lock/cron-lock.service.ts:37`), so overruns are a misfortune,
not the norm. ioredis may send a command again after a
reconnect, which is not a step of its own here: a SET repeated that way finds the key of its first
copy, so that nobody runs and the key expires, as after a crash that follows the SET at once.

### AccountCleanup

One action per awaited statement of `run()`: `Scan` (the single SELECT), `StartBatch`, then for
each id `Skip` or `Count`, `DeleteContacts` (three DELETEs on rows of one account), `DeleteUser`;
`Commit`, and the ways out by failure: `BatchFails` (statement or COMMIT fails, rolled back),
`CommitUnanswered` (COMMIT succeeds and its answer is lost), `DeadlockVictim`, `Abort` (what is
thrown outside the `try`, or the end of the pod). Deletions stay in `tx[c]` until the transaction
ends; `Apply` is COMMIT with the cascades of the foreign keys. Writers of rows an open transaction
has deleted wait (`Locked`, `LockedByOther`). Reads see committed rows only, as READ COMMITTED
does. The API activates and deactivates accounts, opens requests, and moves them; `MoveRequest`
allows any status to any other because that is what the use cases do when they overlap
(module `ServiceRequest`). `late` and `activated` are history: what happened too late for the
run's check to see it. The counters grow before their batch is committed and are not taken back by
a rollback, whose COMMIT may even have been carried out: `ReportMatchesDatabase` says by how much a
report may then be off (never too few deleted, never too many skipped, and at most one batch per
error), and that it is exact without errors.

Requests keep only what the query distinguishes (PENDING, ACCEPTED, other). The order of the ids
is arbitrary, as it is in the query.

### ServiceRequest

A *call* is one HTTP request in execution, `call[c].at` the await it is in. `Check` is `findById`
with the three checks (a call that fails one of them changes nothing and is left out), `Write` the
UPDATE, `Reread` the SELECT after it, which throws when the row is gone. `send` never throws: it
returns a failed result, which the use cases drop; `SendFails` covers that and the `.catch`. A
lost answer of a publish that did arrive is `SendCreated` or `SendCompleted` as well. The producer
publishes at least once (module `Producer`), so that one send may put up to `MaxCopies` copies of
its event on the exchange; `created` counts the copies, and `EventsTellTheTruth` says that they are
the copies of one send. `Dies`
covers crashes and failing statements. `Erase` is the cascade of an account's deletion, the link
to `AccountCleanup`; `VerificationMoves` the link to `ProviderVerification`.

`WeeklyReport` adds no step: the job reads in one statement and writes nothing to the database, so
its query is a function of the state, looked at in every state and for every selection of the week
(`Weeks`). `Rows(w)` is the two LEFT JOINs, which tie requests and reviews to the provider and not
to each other; `RowsOf` and `RatedRows` are the FILTERs, and `Mail` the four figures of the e-mail.
`total_earned` adds `Price` over the completed rows (`Sum`, which counts units so that it needs no
recursion); `average_rating` is kept as a quotient of two sums, its rounding to two digits left
out. With n > 1 reviews in the week the counts and the earnings are n times the real ones, and the
average is right. Prices and ratings are constants of a request, since each is written once. The
provider is taken to be available, which the query asks for.

`serial` is chosen once: in serial behaviours calls come one at a time. `ImplementsLifecycle`
holds in these (deaths and erasures included); for the others
`LifecycleLeftOnlyByStaleCalls` says precisely which step leaves the lifecycle. `stale` is the
history it needs: the calls whose request was written by another call since they checked it; `been`
keeps which of PENDING, ACCEPTED and COMPLETED a request has had.

### ProviderVerification

The API part has the same shape. The worker part follows a message through the awaits of the
handler: `ReadStatus`, `Update`, `PersistLog`, `PersistNotice`, `Mail`, `Ack`. Both
`@RabbitSubscribe` declarations name the queue `worker.provider.approval`, so the queue receives
both routing keys and has two consumers, and RabbitMQ deals its messages to them in turn:
`Deliver(w, p, v, as)` hands verdict `v` to either handler `as`. `Mail` is the e-mail of the
verdict, published without being awaited after everything else is stored. `Publish` may put the
event on the queue twice. A verification that has the message's verdict already skips `Update` and
nothing else: since the API writes the status before it publishes, this is what nearly every message
finds. `HandlerFails` may happen between any two statements and puts the message back, the default
of the library in use (no other behaviour is configured in `shared/rabbitmq/rabbitmq.module.ts`); it
also stands for a worker that dies.

A profile has one verification in the model: only `CreateProviderUseCase` inserts one. An account
that was erased does not register again under the same identity.

### Ratings

`Scan` is the SELECT of the averages of the window, `NextBatch` a turn of the loop over `BATCH_SIZE`
rows, `Find` the `findOne` of one callback with its two early returns, `Write` its UPDATE,
`RowFails` its `catch` block, which leaves the other callbacks of `Promise.all` alone. Averages are
kept in ten-thousandths of a star, because the two writers round differently: the recalculator to
hundredths (`AVG(r.rating)::DECIMAL(3,2)`), over the window; the worker not at all, over all
reviews. The sum of the stars is counted by `AtLeast` (a review of k stars is one of those with at
least 1, ..., at least k). `rows[r]` has the providers of the SELECT's groups as its domain, so that
*no row* is not a value of an average. The worker's single UPDATE is two actions, `Snapshot` and
`WriteSnapshot`: under READ COMMITTED its subquery is evaluated in a snapshot that precedes the wait
for the row. `dirty` and `outdated` are history: the providers touched by somebody else since a run
read their average, or at which the run's own callback failed, and the statements whose snapshot is
no longer true.

No code under `src/src` publishes `review.created`; `Announced` says for which reviews somebody
outside does. `Age` is the window moving past a review; `EraseReview` and `EraseProvider` are the
cascades of `AccountCleanup`. `Run` may have several members (a manual run takes no lock).

### Notifications

An *attempt* is one execution of the consumer of `service_request.*`, `task[role]` the `notify()` of
one role: `persist` while `NotificationHandler.persist` is awaited, then `publish`. For a completed
request there are two tasks at once. When one of them fails, `Promise.all` throws, the event goes
back to its queue (`held` becomes false), and the other task runs on, next to the redelivered event.
The two publishes of `notify()` are not awaited and drop their errors (`missed`); either message may
reach the queue twice. `Recipients` is the `switch` of `handle()`. Events of the API arrive without
an `event_type`
(`service-request/use-cases/complete-service-request/complete-service-request.use-case.ts:41`): the
`switch` has no case for them, and they are acknowledged without notifying anybody.

Both `@RabbitSubscribe` declarations of e-mail and push name the queue `worker.notifications`;
`Deliver(w, m, as)` hands a message to either handler. `Drop` is the early return of the wrong one
(an e-mail has no token, a push no template). `HandlerFails` puts a message back, the default of the
library; the queue has no dead-letter exchange. `Refused` are messages that their provider refuses
every time (an address that does not exist, a token that is no longer valid): `Refuse` puts one back
without end, and without using up the bound on failures. Firebase is taken to be configured (without
credentials `shared/firebase/firebase-admin.provider.ts:33` skips every push). Messages of provider
approvals and of the weekly report enter the same queue in the code and are not fed in here; they
would be treated alike.

### Schema and Entities

A table is a record of column sets: `need` (NOT NULL without a default), `opt` (nullable), `def`
(NOT NULL with a default), `uniq` and `refs` (foreign keys, all of them ON DELETE CASCADE). The
uuid key that every table has is left out, and so are column types. `Migrations` is the list of
`shared/providers/database/migrations/index.ts`, each entry with what its `up` adds and
drops and what its `down` gives back; `UpResult` and `DownResult` say whether PostgreSQL accepts
it (*exists*: a table or a column is there already; *data*: the rows in the table forbid it).
`UpdateAddresses` calls `changeColumn` with the type `varchar`, which TypeORM compares with the
`character varying` it has loaded, finds different, and therefore drops the column and adds it
again: the model has it as a drop and an add, in the up and in the down, and what was stored in
the column is gone (`AfterUps`, `AfterDown`).
`RunPending` is one call of `migration:run`, all pending migrations in one transaction, the default
of TypeORM. The schema comes from the migrations alone: `synchronize` is off by default
(`src/src/config/env.validation.ts:18`).

`run[r].phase` follows one call of `src/scripts/migration.js`: `Load` and `Execute` are the first
attempt, `Show` the look that follows a clash, `Reload` and `Execute` the second attempt; it ends
with exit code 0, with 1, or *unchecked* when `migration:show` itself fails. Two calls overlap, as
two deployments do, and may carry different releases. `Revert` is called by hand with no
deployment in progress. `rows` holds two facts about stored rows: *twins*, two phones with
one number, on which the unique constraint of `UpdatePhones` founders, and *filled*, an address with
a complement, which `UpdateAddresses` loses.

`Entities` holds the 21 entities of the data source and the columns named by the raw SQL of the
four jobs, each set against the table that results (`Fits`, `Answered`).

### Catalog

An admin call goes through *slug* (`findBySlug`, only for an update that changes the slug),
*write*, *del* (the deletion of `api:categories`). `Insert` and `Update` let the unique index
answer; `LoseDel` is a deletion that fails (the use cases swallow that) or a pod that dies before
it. A list call is `Miss`, `ListActive`, `Set` or `SetFails`; a hit changes nothing and is left
out. `Expire` is the end of the five minutes of the entry. `rev` counts the updates of a row, so
that two lists with the same slugs can differ. `excused` and `overtaken` are history: a deletion
was lost while the entry was old; a deletion came between the read of a list and its `Set`.

### Producer

`publish[m]` is the promise of `amqpConnection.publish`, `taken[m]` how often the broker has taken
the message: the connection manager may hand it over again after a reconnect, and a publish may be
rejected after its message was taken (`Reject` has no condition on `taken`). `Send` stands for
`send`, `sendWithQoS` and `sendWithTTL` (which only call it), and, by `kind`, for
`sendWithConfirmation` and `sendDelayed`; `SendBatch` for the parallel and the sequential batch.
`Settles` is what follows each `await`: the counter, the next message of the batch, or the results.
`Timeout` is the rejection of the race in `sendWithConfirmation`; the send goes on without its
caller (`SettleLate`), and `late` remembers it. The failure of `sendDelayed` is thrown and counted
nowhere. The options `transaction`
(`shared/providers/queue/producer/producer.interface.ts:162`: *Send all or none*), `queueName` and
`mandatory` are read by no method, so the model has none of them.

`Outbox` is what a caller may rely on: one answer per message, and *success* only for a message
the broker has. It says nothing of what *failure* means, since a message reported as failed may
have been taken, once or twice.

### Accounts

Every call is a check and a write with an await between them, `call[c].at`; an upload has the object
store in between (`put`). `BeginX` is the part up to the first write, with the checks that end the
call; the write re-checks only what the database does (the unique `keycloak_id`, the unique
`user_id` of a profile, foreign keys). `UpdateUser` also stands for the deletion of a user, which is
an update of the status. `Offer` has no index to protect it, `Decide` no condition on the status.
`Stats` is the second of the two counts of `getStats`, with the first in `call[c].on`; `disturbed`
counts the accounts that came or went between the two, which is by how much the difference may be
off. `BeginRegister` does not look for the user: the foreign key does. `BeginUpload` needs some user
and no login: without the header `X-User-Id`, `findOne` gets no condition and finds any user.
`Erase` is a whole run of `AccountCleanup` for one account, with its cascades; the bucket is not
part of them. The catalog has one service, `listed`; the `Insert` of another one changes nothing
here. `rivals`, `late`, `overlap`, `disturbed`, `wrong` are history, each explained where it is
declared.

`user/use-cases/create-users/create-user.use-case.ts` deletes a cache key `users:list` that nobody
reads, and `document/document.controller.ts` passes a size of 0 for a streamed file; neither has a
consequence that a property speaks of.

## 3. Runs

| run | instance | distinct states | shows |
|---|---|---|---|
| `CronLock` | 2 pods, 1 job, 2 slots, TTL 3 ms with 2 ms per second, 2 runs per pod, all faults | 89,688 | exclusion, key life, counters, expiry, refinement of `JobMutex` |
| `AccountCleanup` | 2 accounts, 1 request, 2 runs, batches of 2, 2 failures | 145,198 | what is erased, the report, progress |
| `ServiceRequest` | 2 requests of one price and rating, 2 calls, at most 2 copies of an event | 710,414 | what survives overlapping calls; refinement of `RequestLifecycle`; the weekly report |
| `ProviderVerification` | 1 provider, 2 calls, 2 messages in handling, 1 failure or copy | 1,073,616 | what survives overlap and redelivery |
| `Ratings` | 3 reviews of 2 providers, 1 of them announced, 1 run, 1 failure | 158,599 | what each writer leaves; convergence |
| `Notifications` | a completed request and an event without type, one message refused every time, 2 attempts, 1 message in handling, 1 failure or copy | 239,508 | what is notified, how often, what can be lost |
| `Schema` | 2 calls of the script, releases of 6, 17, 22, 23, 24 and 25 migrations | 76,733 | the schema follows its version; when a migration is refused; which code does not fit |
| `Catalog` | 2 categories, 2 slugs, 2 admins, 2 readers, 3 edits, 1 lost deletion | 203,726 | unique slugs; when the list is old; that it settles |
| `Producer` | 3 messages, 2 calls, at most 2 copies | 52,325 | counters; refinement of `Outbox`, timeouts included |
| `Accounts` | 2 users, 1 Keycloak id, 1 document, 2 calls at once, 6 in all, 1 death | 559,075 | files, verdicts, offers, statistics |
| `CronLockOverrun`, `SchemaMisfit` | the instances of `CronLock` (3 slots) and `Schema` | | section 4 |

**Bounds.** `MaxBegun` bounds the runs a pod begins of one job, so that counters are finite; two let
a slot be used again after a run. A TTL of 3 with 2 ms per second is not a whole number of seconds,
so that rounding shows. Two accounts and two overlapping runs are what a deadlock needs, and both
fit in one batch (so that the upper bounds of `ReportMatchesDatabase` after an error are reached
only in the proof's generality, its lower bounds and the exact case also in the run); one request
whose contractor and provider differ distinguishes the count from the cascade. `MaxFailures` bounds
failures, crashes and overlapping starts of `AccountCleanup`: every pair of them is tried. Two calls
on two requests are a victim and the call that makes its check old, and two reviews in one week of
the report; the properties of `ServiceRequest` itself are proved for any number (section 5), and
those of the report for any prices and ratings. Two copies are what at-least-once allows beyond one;
a second copy counts as a failure where failures are bounded. Two calls and two messages let
verdicts overlap in the API and in the worker. Calls are interchangeable, so symmetry is used where
no liveness property is checked. In `Ratings`, two reviews of one provider make rounding and the
window show, a second provider makes a batch with a failing row, and the worker's statement races
the recalculator and a newer review. Overlapping runs of the recalculator are in the module but not
in this instance: its two action properties are proved for any number of them (section 5). In
`Notifications`, two attempts are a task left behind and the redelivery beside it. No `BatchSize`
smaller than the number of accounts is run; batches only partition the ids. In `Schema`, the
releases are one with the first update of a table, one with requests and reviews, and each of the
last four: of the migrations in which these differ, one is the only one that rows can stop, and one
loses rows. In `Catalog`, three edits are two that race for a slug and one that makes the list of a
reader old. Three messages are a batch of two next to a single one. The six calls of `Accounts` are
bounded (`MaxCalls`) because nothing else keeps the number of offers finite; its proofs hold for any
number.

**Deadlock** is checked except where the instance really ends: in `ProviderVerification` the life of
the single provider does (erased, or settled with an empty queue), in `Notifications` the events are
all acknowledged and the queue is empty, in `Producer` each message is sent once, in `Accounts` the
calls are used up. `ServiceRequest` and `Catalog` end too, but erasures, verification moves, readers
and the expiring entry go on.

**Fairness** is weak, but for one condition: it says that the event loop, the broker, Redis or a
timer goes on. `CronLock`: time passes (`Tick`) and an awaited call settles; nobody is obliged to
start a run. `AccountCleanup`: the weekly schedule comes round again, and a run carries on; failures
are bounded, and no fairness is assumed of the API. `EligibleAccountsGo` therefore says that an
account does not stay removable for ever, not that it is removed: it may be activated. Runs that
overlap and deadlock without end would defeat it; the lock makes overlapping starts exceptional, and
the bound says so. `Ratings`: the daily schedule comes round and a run carries on; nothing is
assumed of the worker, so that `RatingsConverge` does not lean on it. `Notifications`: handlers go
on, and every message that is in its queue again and again is delivered in the end (strong fairness
for each message). A message put back goes to the front of the queue, and it is the prefetch that
lets the others pass: each consumer may hold ten messages at once, the default of the library, so
that fewer than ten refused messages cannot keep the queue to themselves. With ten or more they
could; that is outside `QueuesDrain`. Failures of other kinds and copies are bounded, refusals are
not: `QueuesDrain` says that everything *else* leaves the queues while a refused message keeps
coming back. `Catalog`: calls that have begun go on and Redis expires the entry; nobody has to call,
and `ListSettles` speaks of the time after the last edit, which the bound on edits provides.
`Producer`, like the others without a liveness property, has none.

## 4. Where the code and its documents disagree

Two runs end in a counterexample on purpose. Each checks sentences of the repository, quoted in
`PROJECT.json` (*findings*).

* `CronLockOverrun` / `LeaseIsRespected`: a run that outlives its TTL deletes its successor's key,
  and a third run starts beside the successor. `MutualExclusion` says when the lock does exclude.
* `SchemaMisfit` / `CodeFitsSchema`: with all migrations executed, `Address` maps two columns that
  the migration `1763600000019` drops, and the reminder's query reads `cron_reminder_log`, which no
  migration creates. `OnlyAddressAndReminderMisfit` says that everything else fits.

Several properties of the passing runs say how far the code keeps a promise that it does not keep
in full:

* `ActiveErasedOnlyIfLate`: an account activated after the scan of the cleanup is deleted.
* `CountedRequestsSurvive`: only the requests made *by* an account protect it; those made *to* it go
  with it by cascade.
* `LifecycleLeftOnlyByStaleCalls`, `VerdictLeftOnlyByStaleCalls`, `VerdictStandsUnlessRivalled`: a
  rejected request can end up cancelled, a verdict be replaced, by a call with an old check.
* `OnlyCrossingLoses`: a push dealt to the e-mail subscriber is dropped.
* `ReportMultipliedByReviews`: with two reviews in a week the report counts every request twice, and
  adds its price twice.
* `AcknowledgedMeansDone`: a message about a provider who is found APPROVED or REJECTED is logged,
  notified and mailed all the same, and with it every repetition of a message.
  `src/.agents/skills/SPEC-WORKER.md:210` says the worker is to ignore it ("Se sim, ignorar a
  mensagem"); the early return of `provider-approval/provider-approval.handler.ts:57` skips the
  update only. As the API settles the status before it publishes, a worker that followed the
  document would log next to nothing.
* `OnlyCrossingLoses`, `QueuesDrain`: a message that the SMTP server or Firebase refuses every time
  is delivered, refused and put back for ever. The comment in `email/email.consumer.ts:27` says
  "triggers NACK → DLX", and `SPEC-WORKER.md` that a failing message is not requeued but goes to
  `zolve.dlx` (lines 165 and 442) and after three attempts to `worker.dlq` for good (line 170).
  `worker.notifications` is declared without a dead-letter exchange. The other queues of the worker
  have one, `worker.provider.approval` among them, but nothing reaches it: no consumer configures
  its error behaviour, so that the library requeues, and `shared/rabbitmq`'s `retry.helper.ts`,
  which counts attempts and rejects without requeueing, is called by nobody. A handler of approvals
  that always throws is therefore redelivered always (`HandlerFails` of `ProviderVerification`,
  bounded there).
* `SchemaFollowsVersion`: no stored complement outlives the run of migration `1763600000019`, which
  says "Remove default from complement" (line 14) and drops the column, nor does one stored after a
  revert to the old release outlive the next run.

Three more disagreements need no model to be seen, and concern behaviour that no run reaches. The
reminder would publish with the routing key `notifications.reminder`, to which no queue is bound;
`src/.agents/skills/SPEC-CRON.md` describes it as a reminder of PENDING requests through
`notifications.email`. The same document describes the weekly report as a log for the
administrators; the code sends e-mails to the providers. These have a template that the e-mail
worker does not know, and no recipient, so that the worker drops them.

## 5. Proofs

Eight modules hold proofs. Each theorem is about the `Spec` of its component, for every value of the
constants that satisfies the assumptions named there; `Invariance` (in `CronLockProofs` the lemma of
`LockInv`, for `Ratings` `RatingsInvariance`) combines the initial states and the steps, and the
others follow from it. TLC checked every inductive invariant as an invariant of the component's run
before it was proved.

| module | theorem | says |
|---|---|---|
| `CronLockProofs` | `TypeCorrect` | `TypeOK` always holds |
| | `MutualExclusionHolds` | exclusion when the lock is dependable |
| | `KeyOutlivesRunHolds` | the key outlives the run |
| | `LockImplementsMutex` | `CronLock` implements `JobMutex` |
| | `BusyMeansRunningHolds` | no run is turned away in vain, without misfortunes |
| | `MetricsMatchRunsHolds` | every run is counted once |
| `ServiceRequestProofs` | `TypeCorrect` | `TypeOK` always holds |
| | `ReviewedWorkAccepted`, `AtMostOneReview` | reviews are of completed, accepted work, one for each |
| | `TruthfulEvents` | events agree with what happened; a creation is announced by one send, in at most `MaxCopies` copies |
| | `LeftOnlyByStaleCalls` | which steps leave the lifecycle |
| | `Refinement` | the use cases implement `RequestLifecycle` when calls do not overlap |
| | `ReportMultiplied` | the four figures of the weekly report: counts and earnings times the reviews of the week, the average right |
| `AccountCleanupProofs` | `TypeCorrect` | `TypeOK` always holds |
| | `AccountsStayWhole` | an account and its contact rows stay or go together |
| | `ReportMatches` | the report agrees with the database, up to a batch per error |
| | `ActiveAccountsKept` | an account that is erased while ACTIVE became so after the scan |
| | `OpenRequestsKept` | open requests that the count saw protect their contractor |
| `ProviderVerificationProofs` | `TypeCorrect` | `TypeOK` always holds |
| | `VerdictsFollowReviews` | no verdict without a review and a decision |
| | `AcknowledgedDone` | an acknowledged verdict is logged, notified, mailed, in this order |
| | `WorkerOnlyConfirms` | when the worker may change a status |
| | `VerdictsLeftByStaleCalls` | which calls take a verdict back |
| `NotificationsProofs` | `TypeCorrect` | `TypeOK` always holds |
| | `AcknowledgedNotified` | an acknowledged event has notified everybody |
| | `NoticesFirst` | messages ≤ notices ≤ deliveries |
| | `NothingElseLost` | only the wrong handler loses a message |
| `ProducerProofs` | `TypeCorrect` | `TypeOK` always holds |
| | `CountersExact` | the counters follow the results |
| | `ProducerImplementsOutbox` | `Producer` implements `Outbox` |
| `AccountsProofs` | `TypeCorrect` | `TypeOK` always holds |
| | `FilesKept` | a stored document has its file and its owner |
| | `VerdictsStand` | who may overwrite a verdict |
| | `OffersTwiceOnlyByOverlap` | when a service is offered twice |
| | `StatsBounded` | by how much the statistics may be off |
| `CopiesProofs` | `TypeCorrect` | `Catalog`: `TypeOK` always holds |
| | `SlugsUnique` | `Catalog`: one category per slug |
| | `OldHasACause` | `Catalog`: when the cached list may be old |
| | `RatingsTypeCorrect` | `Ratings`: `TypeOK` always holds, every average is 0 or from one star to five |
| | `FinishedRunsExact` | `Ratings`: what a run leaves behind at every provider that nobody touched and whose callback did not fail (`FinishedRunIsExact`) |
| | `WrongOnlyAfterOvertaking` | `Ratings`: who may write a wrong average (`WrongOnlyIfOvertaken`) |
| | `ExitZeroMigrated` | `Schema`: what exit code 0 means (`ExitZeroMeansMigrated`) |

**CronLock** (assumption `ConstantsOK`: finitely many slots, positive TTLs and seconds). Mutual
exclusion is not inductive: from a state in which a run executes and the key is already gone, the
next `SetOk` breaks it. The inductive invariant is `LockInv`, the conjunction of `TypeOK`,
`MutualExclusion` and `LeaseMatchesKey`: in a dependable behaviour, a run inside its critical
section is younger than its key is long, and what the key has left to live is exactly the rest. Time
moves one from the key to the age; `KeyLifetimeCoversTtl` (rounding up to seconds never shortens a
TTL) ties it to the TTL; and a run that leaves deletes its own key, since by exclusion there is no
other run whose key it could be. The last step is the one that fails in `CronLockOverrun`. The
refinement maps `executing[j]` to the runs of `j` between `acquire()` and the end of `release()`;
entering maps to `Enter`, leaving and crashing to `Leave`, everything else stutters.
`MetricsMatchRuns` counts with `Cardinality`, hence the assumption that the slots are finitely many.

**ServiceRequest** (assumption `CopiesAssumption`: the broker takes a message at least once, and at
most `MaxCopies` times). None of the properties is inductive: a completed request may have been
overwritten since, and what a review needs is that it *was* accepted and completed. The invariant
`IInv` adds to `TypeOK` what each call may rely on whatever happened to its row: `CallShape` (which
awaits an operation has), `RowHistory` and `CallHistory` (a call that goes to complete a request has
seen it accepted, one that reviews it has seen it completed), `AnnouncedOnce` (one insert, one send,
and no copy before it), `OneReview`, `ChecksHold` (a checked call that is not stale still sees a
status its operation lets through) and `OneAtATime` (in serial behaviours). `ChecksHold` gives the
action property and the refinement: a write by a call that is not stale goes where the lifecycle
goes.

`ReportMultiplied` needs no invariant at all: it is about the query, in whatever state. The rows of a
week are a product, and counting or adding over a product is a multiplication (`JoinedCount`,
`SumOfFirst` for the prices, `SumOfSecond` for the ratings, each by a bijection between units). It
assumes finitely many requests, as a table has (`RequestsAssumption`), and prices and ratings up to
some bound (`AmountsAssumption`).

**AccountCleanup** (assumption `CleanupConstants`: finitely many users, a positive batch size, every
request has its two accounts). `WholeAccounts` is nearly inductive: only `Apply` commits deletions,
and `RunShape` says that a transaction deletes contacts of the account under way and of those it has
deleted, so that at COMMIT the two sets agree. The report needs more. `IdsApart` says that an id of
the scan is in exactly one place (waiting, in the batch, under way, deleted in the open
transaction), and `RemovedInv` that an account is gone exactly if some run is entered as the one
that removed it. `ReportInv` then counts: as long as no other run took an id, `deleted` is at least
the number of ids dealt with and removed and exceeds it by at most `BatchSize` for each error, and
likewise with `skipped` from below (`Within`). A rollback takes back at most what its transaction
was about, which `BatchInv` bounds by `BatchSize`; the error it counts makes room for exactly that.
`ActiveInv`, `CountInv` and `PartiesInv` carry what a run has read from its scan and from its count
to its COMMIT, and give the two action properties.

**ProviderVerification** (assumption `VerificationConstants`: finitely many messages are in handling
at once, as a process has handlers). `Shape` ties the fields of a call and of a message to its
await. `ReviewInv`, `ProfileInv`, `CallInv` and `MessageInv` follow a verdict through the system: a
message carries a verdict that an admin has written, a call that gives one has seen the review.
`CountInv` compares what the handlers have written with the messages acknowledged *and* those under
way that have come as far, which the mere property leaves open; `LogInv` names the place where a
verdict that is not lost waits to be logged: its call, the queue, or a handler before the log.
`CourseInv` is `WorkerConfirms` as a state: if one verdict was given and nothing was crossed or
reopened, the status is that verdict. `ChecksHold` is, as in `ServiceRequest`, what a call that is
not stale may rely on.

**Notifications** (assumptions: finitely many executions of the handler at once; tokens belong to
roles of events; refused messages are messages). An event may be in the hands of several executions,
since the tasks of a failed one run on. `HeldInv` says that at most one of them *holds* it, that is,
will acknowledge it, and `ProgressInv` how far that one has come with each role: its task persists,
or it publishes and the notice is stored, or both are done. At the acknowledgement no task is left,
so only the last is possible: this is `AcknowledgedMeansNotified`. The order of notice and messages
is not inductive without the tasks under way. `CountInv` adds them: notices with the tasks that
persist are at most the deliveries, messages with the tasks that publish at most the notices; a task
that a failed execution left behind counts until it ends (`DoingChanges`). `WhereaboutsInv` says
where a published message is.

**Producer** (assumptions: finitely many messages; at least one copy). `CallInv` describes a call:
its batch names no message twice, and a single send has one message that is with the connection.
`OwnInv` says that calls have no message in common, so that a step of one leaves the others alone.
`StandingInv` says that what a call has noted of its messages is how their publishes stand, that
exactly those up to `next` have been published, and that none of them was answered. `AnswerInv` says
what each answer tells of the publish, apart from those that came at the timeout, and `CountInv`
that the counters are the numbers of publishes that have ended. `CountersFollowResults` follows,
because the three sets of each counter make up exactly these publishes. For the refinement a step
maps to `Outbox`'s answers of the messages of one call, or to the broker taking a message, or to a
stutter; that a success is told only of what the broker has is `AnswerInv`.

**Accounts** (assumptions: finitely many users; the absent value is neither a user nor a Keycloak
id). `IInv` is `TypeOK` with `CallShape`, `DocumentInv`, `RivalInv` (a decision still under way on a
decided document is among the rivals), `UploadInv` (an upload has its document to itself, and past
`put` the object is in the bucket), `OfferInv` (an offer under way next to a stored row is known to
overlap) and `StatsInv` (a count differs from the number of accounts by at most those that came or
went since, and every profile belongs to an account). `CustomersCounted` is the lemma on the
difference of cardinalities.

**Catalog** (assumption: the absent slug is not a slug). `IInv` is `TypeOK`, `CallShape`,
`SlugsStayUnique`, `ReadersKnown` (a reader about to store an old list was overtaken, or a deletion
is still to come) and `OldOnlyIfLostOrOvertaken`, of which only the fourth makes the last one
inductive.

**Ratings.** `CopiesProofs` declares the constants and variables of `Ratings` and of `Schema` and
takes the two with `INSTANCE` (`R!`, `Sch!`); no two of the three components share a variable.
`FinishedRunIsExact` says nothing of a run under way, so it is not inductive. `RunInv` follows the
rows of a run: `RowsApart` (a row is waiting, in the batch, or dealt with, and only a run in
progress has rows), `RowsTrue` (what was read of a provider nobody touched since is still the
rounded average of the window, and the profile is there, so that the early return of a missing
profile is taken only for touched ones), `RowsWritten` (a row that a run has dealt with, of a
provider that is not dirty, is in the profile; the run's own failures make theirs dirty). At the end
of a run all rows are dealt with, and the two together are the property. `SnapInv` is the same for
the statements of the worker, and `ProfileInv` (reviews go with the profile they are about) is what
`RowsTrue` needs when a run reads. `WrongOnlyIfOvertaken` follows from `RowsTrue` and `SnapInv` at
the step that writes. All this treats averages as opaque values (`Averages`) and needs no assumption
on the constants; runs may overlap in any number. `RatingsTypeCorrect` adds the arithmetic, under
the module's own assumption (`ConstantsOK`: finitely many reviews, ratings from 1 to 5): n reviews
have between n and 5n stars (`StarsRange`), and each of the two divisions keeps the quotient in
range (`QuotientRange`), whichever way it rounds.

**Schema** (assumption: releases are prefixes of the 25 migrations). `ScriptInv` types the record of
migrations and the calls; `CallStep` goes through the ways in which a call moves on. Exit code 0
after a look comes from a commit, which records the release, or from finding it recorded.

Only model-checked:

* Liveness (`OrphanedKeyExpires`, `EligibleAccountsGo`, `RatingsConverge`, `QueuesDrain`,
  `ListSettles`), which is out of the prover's reach.
* The invariants of `Schema` and `Entities`. They are about one fixed list of 25 migrations, folded
  over its prefixes (`FoldLeft`): what a fold returns is an induction over the list, which the prover
  cannot do. What depends on rows and releases is small enough for the run to go through.

The `TypeOK` of `Schema` documents its variables and is not among the runs' properties; neither is
that of `Ratings`, which is proved. No module with a proof, nor what it extends, holds a `RECURSIVE`
operator.

## 6. What is not modelled, and why

* Payloads, texts, templates, ids and timestamps beyond *expired or not*: no property depends on
  them.
* Lists, lookups by id, slug, phone or e-mail, and other reads that decide nothing.
* Authorization headers of the controllers: a call by somebody else throws and changes nothing.
* Addresses and work locations: every statement of theirs goes through the entity `Address`, which
  fails against the schema of the migrations (section 4), so that there is no behaviour to model.
  Since `service_requests.address_id` is NOT NULL, requests presuppose an address that some other
  program has stored; `ServiceRequest` takes it for granted.
* `update` of a provider profile, marking a notification as read: one statement on columns that
  nothing else here reads.
* The messages of the reminder (its query throws first) and the duration histogram.
* The retry helper of `shared/rabbitmq` and the CSRF middleware: used by nothing.
* Errors, tracing, logging, metrics over HTTP, security headers, health, configuration: no shared
  state whose order matters.
* Firebase, SMTP, MinIO, Keycloak: I/O behind one call each, modelled only by its outcomes.

## 7. Plan

Done: every component with state of its own, and the proofs of the safety properties of all of them
but the invariants of `Schema` and `Entities` (section 5 says why). Left:

1. The messages of approvals and of the weekly report in `Notifications`, with the proof of
   `NothingElseLost` carried over.
2. A larger instance of `Ratings` for `RatingsConverge` with overlapping runs; its safety is proved.
