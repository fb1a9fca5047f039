# Qably: a verification project

TLA+ models of the parts of Qably whose correctness depends on the order in
which requests, queue jobs, timers and transactions interleave, the TLC runs
that check them on small instances, and the TLAPS proofs of what holds for every
instance. Everything is translated from `apps/api/src` (NestJS, Prisma on
Postgres READ COMMITTED, BullMQ and Lua scripts on Redis).

Paths below are relative to `apps/api/src` unless they start with `docs/` or
`packages/`. `map` in PROJECT.json gives the source lines of every definition.

## 1. Inventory

Modelled:

| Part | State it keeps | Operations | What makes it hard | Correct when |
| --- | --- | --- | --- | --- |
| On-demand workers (`common/queue`) | worker, its close in flight, idle timer, wake flag, shutdown flag | bootstrap, wake, checkIdle, stop, shutdown, BullMQ events | timers, counts and closes interleave with enqueues, crashes and failures | one worker per queue; no announced job without one; none left idle or after shutdown |
| Run reports (`modules/runs`) | Redis hash and tombstone per report, timeout job, ingest jobs | HTTP ingest, ingest job, record and flush scripts, timeout | requests and jobs are retried, chunks race, the timeout races the last result | one notification per report, complete when it can be |
| Review (`modules/review`) | test case, its versions, proposals, documentation marker, row and advisory locks | extraction job, approve, reject, document-file run, reclassify, edit | late, repeated and crashed jobs against reviewers; locks taken in several orders | no deadlock, no lost or unseen overwrite, one open proposal, the newest push wins |
| Webhook ingestion (`modules/ingestion`) | event row, batch per project, queue job | store, replay, process, retry, fail | any call can fail between two commits; providers redeliver | nothing queued twice; PROCESSED means complete; no delivery forgotten |
| Run persistence and suite adoption (`runs.service.ts`, `official-case-reconciler.ts`) | suite, cases with their keys and names, rows of each run | adopt the suite, match, move keys, draft, replace the run's rows | four jobs and any request write one suite at once; unique indexes, waits, deadlocks, an aborted transaction | a run shows one report; snapshots last; every queued report is saved |
| Manual runs (`run-queries.service.ts`) | run, case statuses | create, set a case's result | no transaction: two requests read, write and derive in any order | finished when closed; the end is told |
| Notifications (`modules/notifications`) | inbox rows, delivery rows, queue jobs | publish, recount, write the inbox, mail, post to webhooks, record | at-least-once jobs with a crash or failure after any send; many jobs share a key | copies by faults only; no inbox shows too few |
| AI credits, daily budget, chat sends (`modules/ai`, `modules/chat`) | plan, credits used, month, Redis counter, thread | consume, ask, spend, store the reply, delete the thread | several askers between read and increment, a new month or day, a plan change | a credit for each reply; neither limit exceeded |
| Invites, seats, members, project allowance (`modules/invites`, `modules/organizations`, `projects.service.ts`) | plan, members and roles, invites, number of projects, the organization's row lock | create, accept, resend, revoke, change role, remove; create and delete a project | reads before the lock, expiry, plan changes, revocation without the lock | an owner remains; one open invite per address; growth within the plan |

Not modelled (PROJECT.json `components` gives each its sources). Most of the
repository's lines are here: two web front ends, catalogues of texts, views,
parsers and validators, which keep no state that two actors share.

| Part | State | Why not, or when |
| --- | --- | --- |
| Organizations | organization and first member, slug | the personal organization of a first request is planned |
| Suites and cases (`modules/suites`) | suite, default flag, collisions, confirmation | partly reached by `CaseReview` (edit of a case) and `RunAdoption`; planned |
| Proposal classification | proposal classification fields | its late write is in `CaseReview`; the deduplicating queue is planned |
| AI extraction, change detection, JUnit parsing, test declarations | none | text functions and a language model; models take their result as a choice |
| Review inbox queries, dashboard, metrics, run attribution | none | reads and aggregations |
| Connections, repository, API keys, webhooks | one row each | one-statement updates: nothing interleaves |
| Auth, mailer, domain events, HTTP pipeline, throttling, crypto, locale, config, health | library state | glue around libraries |
| CI reporter, maintenance scripts, web, landing, packages | client side | their effect on the API is that any request may come again, at any time |

How the parts interact. A CI reporter posts JUnit chunks to `runs`, whose
controller adds ingest jobs to a BullMQ queue; a provider's webhook reaches
`ingestion`, whose job writes batches of code changes and adds extraction jobs to
the queue of `review`. Every queue has one on-demand worker in the API process,
woken by the `waiting` events of that process's own queues. Extraction jobs
spend an AI credit, open proposals and raise domain events that
`notifications` and `proposal-classification` turn into jobs. Reviewers decide
proposals over HTTP. Projects, invites, members and credits meet on the
organization's row. The models compose at those seams: `ManualRuns` extends
`NotificationDelivery` and runs beside it, so that what a request publishes is
followed to the inboxes; elsewhere what one model leaves to another (job delivered
again, lost or late; a saved run; a proposal announced) is nondeterministic in it.

## 2. Modules

| Module | Models | Used by |
| --- | --- | --- |
| `OnDemandWorker` | one queue's lifecycle with BullMQ's worker around it | `MCOnDemandWorker`, `OnDemandWorkerProofs` |
| `ReportNotification` | abstract: what a report promises | `RunReports` (refinement) |
| `RunReports` | one JUnit report, from its requests to its notification | `MCRunReports`, `RunReportsProofs` |
| `CaseReview` | one automated test and its proposals, lock by lock | `MCCaseReview`, `CaseReviewProofs` |
| `ScmIngestion` | one webhook event, from its deliveries to extraction jobs | its own configurations, `ScmIngestionProofs` |
| `OrgSeats` | members, invites and projects of one organization | `MCOrgSeats`, `OrgSeatsProofs` |
| `NotificationDelivery` | the notifications queue, from an event to its copies | `ManualRuns`, `ManualRunsProofs` |
| `ManualRuns` | a manual run and its requests, over that delivery | `MCManualRuns`, `ManualRunsProofs` |
| `RunAdoption` | the reports of one suite, statement by statement | `MCRunAdoption`, `RunAdoptionProofs` |
| `ChatCredits` | what chat sends and extractions spend | `MCChatCredits`, `ChatCreditsProofs` |

An operator marked *mutant* is a plausible bug in the operator below it; the
specifications never use one, PROJECT.json pairs each with the property it breaks.

**OnDemandWorker** (`on-demand-worker.ts`, `on-demand-workers.service.ts`). Node
is single threaded, so an action is one uninterrupted run of JavaScript, from an
event or a resumed await to the next await. `worker`, `idleTimer`,
`wakeAfterStop`, `shutDown` are the fields of the class; `stops` counts the
`stop()` calls that await `close()` (`this.stopping` is set iff it is positive);
`check` holds the `checkIdle()` calls awaiting a count, so that a count and its
use are two steps; `boot` is `bootstrap()`. `Add` and `Announce` separate the
commit of a job in Redis from the local `waiting` event, `AddElsewhere` is a job
of another process, never announced. `Take`, `Settle`, `Promote`,
`RecoverStalled`, `Drained`, `RunRejects` are BullMQ, external, as the code uses
it: only a running worker fetches, promotes and recovers. `Crash`, `Shutdown`,
`Exit`, `Restart` end and begin processes over the same queue.

**RunReports** (`runs.controller.ts`, `run-ingest.processor.ts`,
`report-batch.service.ts`, `lib/report-batch.lua.ts`). `Post`/`Answer` are a
request: it records the groups it rejects one after another, then `addBulk`s a job
with a deterministic id for each accepted one. `Take`, `Save`, `Refuse`,
`JobCompletes` are the ingest job. Both call `recordResultAndMaybePublish`, whose
awaits are the steps `Record` (the Lua script, atomic), `Schedule` (the timeout
job) and `Publish`. `TimeoutFires`, `Flush`, `PublishPartial` are the timeout
job. `CallFails`, `TimeoutFails` and `Crash` can come between any two; expiries
of the two keys are actions. `ReportNotification` is the promise: a report
gathers groups, closes once, is notified at most once after that, and may be
forgotten; the mapping is open = the batch's results, closed = the tombstone,
notified = something was published.

**CaseReview** (`review-decision.service.ts`, `extracted-proposal-writer.ts`,
`extraction.processor.ts`, `extraction.service.ts`, `lib/lock-test-case.ts`,
`reclassify-suite.processor.ts`). Locks (organization row, file advisory lock, case
row, proposal rows) are variables and each is taken in an action of its own, so
waits and deadlocks are states; a transaction reads committed data and writes
when it commits. `SpendCredit`, `LockFile`, `Read`, `Refresh`,
`CommitExtraction` persist a push's extraction; `View`, `Approve`, `LockCase`,
`Claim`, `CommitApproval`, `Reject` are a reviewer; `Press`, `Mark`,
`LockCases`, `Decide`, `DeleteFallback`, `CommitRun`, `Complete`, `RunFails`
are Document and its job; `Reclassify` and `Relink` separate the reads and the
writes of a reclassification; `EditCase` is a person's edit. A job may run at any
time and again (delayed, retried, delivered twice): `Crash` rolls back what has not
committed and the job runs again, a document run also after its commit or its
failure, until `Complete` takes it from the queue. Two deliveries of one run that
overlap spend their credit in turn, under the organization's lock, so the second is
one that follows the first's commit or rollback. Each attempt asks the model anew,
so after a version of its own the run may find the same text (`MaySaySame`) or not.
Left out: `applyTo: 'matched-case'`, document-case jobs, name collisions, an
`addBulk` that fails between the marker and the job.

**ScmIngestion** (`ingestion.service.ts`, `ingestion.processor.ts`). `Arrive`,
`Recover`, `Add` are the controller's path with its replay; `Take`,
`CreateBatch`, the enqueue steps, the write of PROCESSED or FAILED and `Rethrow`
are the job, with BullMQ's attempts and stalled counter; a fault or a crash may
come between any two. The event has changed files; whether an `addBulk` whose
reply was lost had been performed is not modelled.

**OrgSeats** (`invites.service.ts`, `members.service.ts`, `projects.service.ts`,
`plan-entitlements.service.ts`). `lock` is the organization's row. Each request
is split at its awaits: what it reads before the lock (`CreateStart`,
`AcceptStart`, `ManageStart`), the lock with the seat count (`CreateAllowed`,
`AcceptAllowed`), and the reads and writes under it (`CreateFind`, `CreateWrite`,
`AcceptClaim`, `ChangeRole`, `RemoveMember`). `Revoke` and `Resend` take no lock
and come between any two; `SetPlan` changes the plan; `Tick` lets invites
expire; `Abort` rolls back. A project is created under the lock
(`ProjectAllowed`, `ProjectInsert`) and deleted without it (`ProjectRemove`); a
name taken, or a connection of another organization, ends it as `Abort` does.
A user stands for an address.

**NotificationDelivery** (`notifications.processor.ts`,
`notifications.publisher.ts`, `notifications.subscriber.ts`). A push is announced
by each of its extraction jobs: `Extract` is the commit, `Announce` the publish
after it, `AnnouncementLost` the crash or error between them, which the code only
logs. `Take` and `TakeNothing` are the start of a job with its recount;
`NotifyMember` the inbox row and the question whether the e-mail was sent;
`Send`, `Record` are two steps, for a crash between them repeats the message.
`MailFails` ends the attempt, `HookFails` does not; `CallFails` and `Crash`
come anywhere, and `EndAttempt` is BullMQ's retry. One worker takes one job at a
time, as the code's default concurrency has it. The queue keeps its completed
jobs out of the way; a member with e-mail but without in-app is left out, and so is
a preference or webhook changed between two attempts.

**ManualRuns** (`run-queries.service.ts`, `lib/derive-run-status.ts`) extends it.
`updateCaseStatus` opens no transaction, so `ReadRun`, `SetCase`,
`PublishRegression`, `Reload`, `SetRun` and `PublishEnd` are its awaits, each an
action; what it read first is in `req`. `PassedBefore` stands for the
suite's previous finished run. `RequestFails` may end it after any of them.

**RunAdoption** (`runs.service.ts`, `official-case-reconciler.ts`,
`lib/official-case-matcher.ts`, `lib/case-identity.ts`,
`lib/catalog-snapshot.ts`). A transaction reads what is committed, keeps what it
wrote in `tx` and applies it in `Save`. `Blockers` says for whom a statement
waits: for the suite's row or its unique name, for a case's row, for a value of
the two unique indexes of the cases, for the run's row. `FindSuite`,
`ClaimSuite`, `SuiteRaceLost` adopt the suite; `Match` is the matching of every
test; `MoveKey` one savepoint of `migrateAutomationKeys`; `Draft` a row of
`createMany`; `Relink` the second read; `UpsertRun`, `DeleteRows`, `Save` the
run. `Deadlock` aborts one of a cycle of waits, `Fault` is any failing call.
A test is its identity key; `Bare` is its name alone, which is the key older
versions wrote and, humanized, the title of its case. Left out: keys cut to the
column's length, the backfill of class and file, collision rows, the CI run's link.

**ChatCredits** (`ai-daily-budget.service.ts`, `ai-entitlement.service.ts`,
`chat.service.ts`, `extraction.processor.ts`). `Begin`, `Incr`, `Decr` are
`tryConsume`; `Answer` and `NoAnswer` the provider; `ReadOrg`, `ResetMonth`,
`Charge`, `NotCharged` the statements of `spendCredit`, inside a transaction for a
send (`written` holds the row it wrote, and others wait for it) and in statements
of their own for an extraction that found no test. `StoreReply`, `ThreadGone`,
`Refuse` end the transaction. An extraction that found tests spends inside the
transaction of its proposals: it is a send without a thread, and `CaseReview` has
its other steps. A retry of an extraction asks again on the unit it has, which is
a stutter here; a stalled job that runs again, `sendToReview` and the expiry of
the Redis key are left out.

## 3. Runs

| Run | Checks | Shows |
| --- | --- | --- |
| `worker_lifecycle` | `TypeOK`, `OneWorkerPerQueue`, `NoStrandedJob`, `ShutdownLeavesNoWorker`, `NoCloseOverWork`, `JobsAreProcessed`, `IdleWorkerCloses` | an own and a foreign job over boots, idle checks, closes, crashes, shutdowns and failed counts |
| `worker_failures` | `WakeFindsLiveWorker` | the same with overlapping checks and a `run()` that rejects |
| `worker_orphan` (violation) | `OneWorkerPerQueue` | finding 1 |
| `report_batch` | `TypeOK`, `AtMostOneNotification`, `CompleteNamesEveryGroup`, `ReportIsNotified`, `ImplementsNotification` | three groups in two chunks of different stated size, one sent again, with crashes and failed calls |
| `review_inbox` | `TypeOK`, `NoWaitCycle`, `NoPublishConflict`, `NothingOverwrittenUnseen`, `NewestPushWins`, `DecidedStaysDecided`, `PublishesOncePerPress` | two pushes, a document run pressed twice and delivered any number of times, before and after its commit, two reviewers, a reclassification and an edit |
| `scm_webhook` | `TypeOK`, `ProcessedIsComplete`, `QueuedOnce`, `DeliveryIsHandled` | two deliveries, two projects, three faults or crashes anywhere |
| `scm_retry` (violation) | `SurvivesOneFault` | finding 2 |
| `seats_members` | `TypeOK`, `OwnerRemains`, `OneOpenInvite`, `NoInviteForMember`, `GrowthFits` | two requests at once over three users, two invites, two projects, two plans, a clock |
| `seats_full` (violation) | `RefusedAtTheLimit` | finding 3 |
| `notices` | `TypeOK`, `CopiesNeedFaults`, `NoUnderCount`, `FinishedWhenClosed`, `EndIsTold` | a push of two files or a manual run of two cases with two requests; two members, one with e-mail, a webhook and a fault |
| `adoption` | `TypeOK`, `RowsOfOneReport`, `SnapshotKept`, `ReportIsSaved` | three reports of one suite, two of them of one run, with every race for its cases and a fault |
| `chat_credits` | `CreditPerReply`, `WithinLimits` | two sends and two extractions, a budget of one a day, two plans, two months, two days, a fault |

### Findings

1. *worker_orphan*: `checkIdle()` resumes without asking whether a close is in
   flight. If `run()` rejected meanwhile, its handler is closing the worker; a
   zero count stops it a second time, and the second continuation of `stop()`
   clears the reference to a worker started by a wake in between: that worker
   runs, unknown to the class. With two overlapping counts `NoStrandedJob` falls
   by the same gap.
2. *scm_retry*: after one failed call past the first project's batch every retry
   hits the batch's unique index; the event ends FAILED, the other projects never
   get theirs.
3. *seats_full*: `acceptInvite` counts the invite being accepted as a seat in
   use, so an organization whose last seats are pending invites refuses them all.

4. *notices*, a document that the code contradicts: `docs/DOMAIN_EVENTS.md:124` says
   of the failure notification that the "email channel records its delivery under
   the same key but does not check it before sending, so a repeated failure can send
   a second email". `notifications.processor.ts:303` asks `wasEmailSent` (342-362)
   first, and skips a recipient already told; `CopiesNeedFaults` holds. What the
   document describes is the mutant of that property, `NeverSent`, under which a
   second job of a key mails again without any fault. What remains true of the
   sentence is a crash between the send and its record (below).

Seen while modelling, with no run of their own.

- *Reports*: a crash or a failed publish after the script closed the batch loses
  the report's only notification; a failed `queue.add` after the script created it
  leaves the batch without a timeout; a report sent again after its ingest job
  failed for good is answered 202 and nothing is queued, since the queue keeps
  failed jobs under their deterministic ids (`docs/RUN_INGESTION.md:744-749` names
  no such case).
- *Review*: Document pressed while the previous job has committed but not
  completed sets the marker again while the queue ignores the job id, so that the
  case shows as documenting with nothing to end it (`docs/AI_EXTRACTION.md:498`); a
  push refreshes a proposal between the reviewer's view and the approval, which
  compares only the case's version (`docs/SUITES_AND_RUNS.md:207`); a
  human-documented case keeps its marker when the run fails, though
  `docs/AI_EXTRACTION.md:494` says every outcome clears it; the row of an approved
  proposal may hold a newer text than the version published.
- *Ingestion*: an event whose FAILED write fails stays PENDING behind a failed job,
  and replays queue nothing.
- *Seats*: the role an invite grants is the one read before the lock;
  `createInvite` may refresh an invite revoked in between; `resendInvite` revives
  an expired invite without a seat check.
- *Projects*: `projects.service.ts:159` looks the connection up outside the
  transaction it is in, so each creation holds one pooled connection while it waits
  for a second; the pool has no place in the model.
- *Notifications*: a crash between the send and its record mails twice; a member
  whose e-mail always fails ends every attempt before the members after it and the
  webhooks.
- *Manual runs*: two overlapping requests may leave the run with the older status,
  and the later may overwrite `finishedAt`, though `docs/RUN_QUERIES.md`, step 3,
  sets it once.
- *Adoption*: the loser of the race for a new suite reads in a transaction Postgres
  has aborted, so the read of `docs/RUN_INGESTION.md:128-130` never succeeds there
  and only the next attempt does; a request (`POST /runs/ingest`) answers 500.
  `migrateAutomationKeys` updates by id alone: of two reports that both found an
  old row, the later takes it from the class that had it
  (`docs/RUN_INGESTION.md:243-245`), and two tests of one run may be linked to one
  case. Two drafts with one title: `skipDuplicates` drops the later and its test
  stays unlinked.
- *Budget*: `docs/BACKEND_SETUP.md:40` calls the budget a maximum of calls; the
  second call of a file job (`extraction.processor.ts:1020`, `1160`) and the SDK's
  and the queue's retries take no unit of it. A stalled job runs again as a
  retry, so one that stopped before its `INCR` never takes a unit, and one that
  stopped after a credit of its own statements pays a second.

### Bounds, and why they are enough

- Workers: one announced and one foreign job; two worker objects where none is
  lost, three or four where one may be; two faults, or one with a rejected
  `run()`. Every hazard is between a job, a count, a close and an end of the
  process; two attempts per job give the retry and the last failure. Two faults
  let a process die and the next one be disturbed too.
- Reports: one passing, one failing and one rejected group, so both callers
  of the batch appear; two chunks, the first understating the size, and a repeat of
  the second; two attempts; two faults. A report has one batch, so further
  reports add nothing: their keys are disjoint.
- Review: one test with or without a case, published or draft, perhaps with a
  fallback proposal; two pushes give older and newer; two reviewers and a run give
  every pair of writers. Document is pressed twice, so a run delivered again meets
  its marker cleared, or set for the next press; once it is pressed again at most
  one other transaction is under way at a time (`Quieter`, the only state
  constraint). The proofs need neither bound.
- Ingestion: two projects give a first and a rest; three faults exhaust the three
  attempts; each project has none, some or too many changed test files.
- Seats: three users (owner, and two that come and go), two requests give every
  pair, two invite rows give a duplicate; limits 2 and 3 stand for the plans so
  that the limit is met (3, the free plan's own, in `seats_full`); one project is the
  free plan's own limit, beside a plan without any, so a downgrade finds two. The clock has
  one tick, after which an invite may be expired.

- Notices: two files of a push give an out-of-order count; two requests over two
  cases every pair of readers and writers; the source is the push or the run, for
  each of the two has its own keys (`OneSource`); one fault, so a message is
  repeated at most once. A job that fails for good is reached by the proofs only.
- Adoption: one old case two classes may claim, or none; a shared new test in the
  other order gives the deadlock; two reports of one run overlap; one published
  version makes a snapshot old; one fault.
- Credits: limits of one and two make the last credit one that askers race for. A
  budget of one is exceeded by the second of four askers, which leaves two to ask on
  the next day, enough to be granted more than it if a `DECR` after midnight took a
  unit off that day (the mutant `Today`); requests granted on either day still
  spend their credits at once. One change of plan, one new month, one new day, one
  fault.

Deadlock is checked except where the system may rest: all jobs done, a report
notified, an event handled. Symmetry is used over identities that nothing orders, and
never with liveness.

### Fairness

`OnDemandWorker`: weak fairness of what the event loop, the timers and BullMQ
owe: announced events, counts, resumed awaits, due idle timers, fetching,
promotion and recovery by a live worker, the exit after a shutdown, and the
restart the platform gives a dead service. Nothing forces an arrival or a fault.
`RunReports`: requests in progress, queued jobs, calls and the timeout go on;
the reporter need not send anything and no fault must happen. `ScmIngestion`:
the queue hands out a waiting job, a started job and an accepted request run on.
`ManualRuns`: an accepted request runs to its end and the queue's worker works;
nobody is obliged to send a request or to decide a proposal. `RunAdoption`: a
started transaction goes on, the database ends a cycle of waits, and the queue has
a worker free; its backoff outlasts the statements that wait for nobody.
`CaseReview`, `OrgSeats` and `ChatCredits` state safety only: whether a
reviewer, a guest or a provider ever acts is not the code's promise.

## 4. Proofs

TLAPS proves, for every value of the constants that satisfies the named ASSUME
of the module:

| Theorem | Says | Assumes besides |
| --- | --- | --- |
| `OnDemandWorkerProofs!TypeCorrect` | types | |
| `WakeTheorem` | `WakeFindsLiveWorker` | |
| `OneWorkerTheorem`, `ShutdownTheorem` | `OneWorkerPerQueue`, `ShutdownLeavesNoWorker` | `run()` never rejects, one count in flight at a time |
| `NoStrandedJobTheorem`, `CloseTheorem` | `NoStrandedJob` and `IdleCheckPending`, `NoCloseOverWork` | the same |
| `RunReportsProofs!TypeCorrect` | types | |
| `AtMostOneTheorem` | `AtMostOneNotification` | |
| `CompleteTheorem` | `CompleteNamesEveryGroup` | `SizesSuffice`: requests that state n groups or fewer, of a larger report, carry fewer than n |
| `RefinementTheorem` | `ImplementsNotification` | the same, and no request overstates the report |
| `CaseReviewProofs!TypeTheorem`, `WaitTheorem`, `ConflictTheorem`, `OverwriteTheorem`, `NewestTheorem`, `DecidedTheorem`, `PublishesTheorem` | the seven properties of `review_inbox` | |
| `ScmIngestionProofs!TypeCorrect`, `ProcessedTheorem`, `QueuedOnceTheorem` | types, `ProcessedIsComplete`, `QueuedOnce` | |
| `OrgSeatsProofs!TypeCorrect`, `OwnerTheorem`, `OneOpenInviteTheorem`, `NoInviteForMemberTheorem`, `GrowthTheorem`, `JoinTheorem` | types, the four properties of `seats_members`, and that nobody joins by a revoked or used invite | |
| `ManualRunsProofs!CopiesTheorem`, `CountTheorem` | `CopiesNeedFaults`, `NoUnderCount` of the delivery alone | |
| `DeliversNotifications` | every behaviour of `ManualRuns` is one of `NotificationDelivery` | |
| `TypeCorrect`, `CopiesOfRun`, `CountBesideRun`, `FinishedTheorem` | types, `CopiesNeedFaults`, `NoUnderCount`, `FinishedWhenClosed` of runs and delivery together | |
| `RunAdoptionProofs!TypeTheorem`, `RowsTheorem`, `SnapshotTheorem` | types with the unique indexes and the locks, `RowsOfOneReport`, `SnapshotKept` | |
| `ChatCreditsProofs!TypeCorrect`, `CreditTheorem`, `LimitsTheorem` | types, `CreditPerReply`, `WithinLimits` | |

The arguments:

- *Workers*. `OneWorker`: a worker object that is not closed is `this.worker`,
  unless a close is in flight, and at most one close is. `OwnJobsLookedAfter`: a
  pending job of this process has a fetching worker, a wake or a boot check to
  come. The two hold together, since a check's result is acted on only if the
  worker it counted for is still the one (`ChecksCurrent`). The hypotheses on
  `run()` and overlapping counts are needed: `worker_orphan` is what happens
  without them. `FreshCounts`: a count of an empty queue is still acted on only if
  no job of this process became pending, and was announced, since; its `wake()`
  re-armed the check, which makes the count overtaken. What `wake()` finds needs
  none of this: it is inductive with the types alone, for any failures and any
  overlapping counts.
- *Review*. `IInv` of `CaseReviewProofs` says what each transaction holds where it
  stands (`LocksHeld`), what it knows (`Knows`), and that its locks keep that true
  (`Protected`): the answered pushes under the file's lock, the number of versions
  under the case's, the open proposal under its own. What is not under the case's
  lock is an approval that makes the case: `Unborn` says that until then nothing
  points at one. `Inbox` gives every live proposal but the fallback a push of its
  own, so a test's proposals fit their bound by counting (`RowsBound`); it and
  `NewestPushWins` need each other, for a push that finds none of its own and none
  newer must know that the one it refreshes is the only open one. `WaitTheorem`
  goes up the lock order: who holds a proposal waits for nothing, who holds the file
  or the case only for a proposal, who holds the organization for these.
  `Paid`: the versions the run wrote, a marker that is set and a press under way are
  together no more than the presses, since a version is written by the transaction
  that clears the marker, and by no other job or reviewer (`NotRun`); so a delivery
  too many has no marker to publish on.
  ReviewAssumption asks that the pushes, the run and the reviewers are distinct, as
  the ids of the code are.
- *Adoption*. `IInv` of `RunAdoptionProofs` says what an open report has read
  (`Reads`), the keys it has moved (`Moves`) and the cases it has drafted
  (`Drafts`), and that no two open transactions share a row, a key, a name, the new
  suite or the run (`Apart`). With what `Blockers` keeps out, the step that applies a
  transaction's writes then finds the unique indexes free (`Table`). The rows of a
  run are replaced under its row's lock by the report that read them (`Snapshots`),
  so a case keeps the version it was run at.
- *Reports*. `Once`: the caller that closed the batch, or the timeout job that
  flushed it, holds the right to publish alone; the tombstone guards it until
  the notification spends it, and keeps a second one from being made. `Sized`:
  each job carries a size stated by a request for its group, and the batch waits
  for no less than any of its results asked for. A batch that fills below the
  report's size would so be filled by requests that state at most that size;
  `SizesSuffice` says that those carry too few groups. It holds of the
  reporter's chunks, which all state the number of groups of the file
  (`TrueSizesSuffice`), and of the instance of `report_batch`, whose first chunk
  understates it; it fails for chunks of two groups or more that leave the size out,
  since the controller then takes the number of groups in the chunk.
- *Ingestion*. `IndInv`: a project's batch is a token that can be created once
  (the unique index); code changes are queued only by the step that follows its
  creation in the same attempt, so a retry meets the index first.
- *Seats*. `Knows`: what a request inside its transaction has learnt (the user
  is no member, the address has no open invite, a seat is free, and by `InsertFits`
  that a project fits) stays true,
  because everything that could falsify it needs the same lock, and what needs no
  lock (revoke, resend, expiry, the deletion of a project) opens no invite and adds
  neither member nor project.
  `OwnerRemains` is inductive as it stands: count and write are one step under
  the lock.
- *Notifications*. `CopyInv`: every copy but one was paid for by a fault, and that
  one is recorded or in the worker's hand. `CountInv`: once every announcement of
  a push was processed or is being so, an inbox shows at least what waits or is
  about to, for the last job read its count after the last extraction.
  Both are proved of the delivery alone and carried
  to `ManualRuns` by `DeliversNotifications`, a refinement: whatever a request
  does is a `PublishEvent`, a `PublisherFails` or a stutter of the queue.
- *Manual runs*. `Finishing`: no case reopens, so a finished run stays closed, and a
  run that is closed and not finished has, without faults, a request that has set
  its case and will still reload and find every case closed.
- *Credits*. `Ledger`: the row's `used` is the number of answers charged in its
  period, and the transaction's own row is that plus its one charge; it rests on
  the guard of the reset, whose month (read once) is never later than the clock.
  `TxRow`: while a transaction holds the row nobody else's write comes between.
  `Budgeted`: a day's counter covers its grants and the requests that must still
  undo theirs, and exceeds the grants only once they are the whole budget.

Every invariant and every action property a passing run checks is so stated by a
theorem. Only model-checked: liveness (`JobsAreProcessed`, `IdleWorkerCloses`,
`ReportIsNotified`, `DeliveryIsHandled`, `EndIsTold`, `ReportIsSaved`), which needs
ENABLED and fairness that the prover does not handle.

## 5. Plan

In this order:

1. `CaseReview` against an abstract inbox: what a test's reviewers and pushes are
   promised, refined by the transactions.
2. The bootstrap of a personal organization, beside `OrgSeats`.
3. The calls of one extraction job: its chunks, second calls and retries against
   the daily budget and the credits (`ChatCredits` asks once).
4. The collisions of a suite opened and closed by its reports, the default suite,
   and reclassification's deduplicating queue.
5. `sendToReview`: a chat's suggested cases copied to proposals.
