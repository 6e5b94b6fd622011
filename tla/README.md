# TLA+ models of the WhatsApp automation API

Specifications, model-checking configurations and machine-checked proofs for
the NestJS service in `src/` (paths below are relative to the repository;
the service's code is in `src/src`). TLC checks small instances of the
modules, TLAPS proves theorems about them for every value of the constants.

## 1. The system

One Node process (`src/ecosystem.config.js:9`, "keep 1: in-process BullMQ
workers must not be duplicated") holds the HTTP handlers, four BullMQ workers
and a cron tick. State is in PostgreSQL (through TypeORM), Redis (BullMQ's
queues) and, for refresh tokens, in the memory of the process. WhatsApp is
reached through OpenWA, an HTTP service with a 30 s timeout. `call()`
(`openwa.service.ts:46`) returns the body of any 2xx and reads neither the
`success` nor the `error` that the envelope declares: a call that resolves was
answered, and may not have been carried out.

| Component | State | Operations | Interacts through |
|---|---|---|---|
| broadcasts | `broadcasts` (status, sentCount, failedCount, total), `broadcast_recipients` (status) | create, update, remove, send, cancel, status, report; worker `run` | queue `wa-broadcasts`, OpenWA, `message_logs`, gateway events |
| queues | jobs: delayed, waiting, active, completed, failed | add, take, retry with backoff, stall recovery | every worker |
| messages | `message_logs` | send, sendBulk, record; worker `send` | queue `wa-messages`, OpenWA |
| webhooks | `webhooks` (isActive, retryCount), `webhook_deliveries` | create, update, remove, test, dispatch; worker `deliver` | queue `wa-webhooks`, the subscriber's endpoint |
| automations | `automations` (isActive, trigger, runCount), `automation_actions` | create, update, remove, setActive, test, dispatchIncomingMessage; worker `run` with the action engine | queue `wa-automations`, OpenWA, message log |
| scheduler | none (reads automations, the clock) | tick every minute | automations.enqueueRun |
| inbound | none | onMessage, webhookTrigger | sessions, messages, webhooks, automations |
| sessions | `sessions` (status) | create, update, remove, start, stop, getQr, getStatus | OpenWA, gateway |
| workspaces, users | `workspaces`, `workspace_members`, `users` | create, update, remove, invite, removeMember, changePassword | asserted by every handler; credentials for every worker |
| auth, API keys | refresh token per user (memory cache), `api_keys` | register, login, refresh, logout; create, remove, validate | guards |
| contacts | `contacts`, groups, blacklist | CRUD, import, blacklist, resolvePhones | broadcasts.create |
| analytics, HTTP layer | none | read-only queries; guards, filters, templates, AES | |

What makes each hard, and what must hold:

* **broadcasts**: handlers and the worker each load an entity, `await`, and
  save it whole; runs are retried, stall and overlap. Nobody settled may be
  written to again; counters, report and log must agree; *done* must mean
  done; cancel and delete must stick; every run must end.
* **messages, webhooks**: the side effect comes before its record, in one
  `try`. At least one answered request or a failed job; records that match
  attempts and answers; the attempts and delays the comments promise.
* **automations**: condition jumps in a bounded interpreter; edits that delete
  before they save; retries that repeat actions. Termination; a run executes
  one version of the list.
* **scheduler**: a 60 s window against the clock. No firing lost or doubled
  while ticks are on time.
* **inbound**: four effects in a row, delivered again on error.
* **sessions**: compare-and-save around a slow remote call. What runs at OpenWA
  can be stopped.
* **workspaces, users, auth, keys**: check-then-insert, whole-entity saves,
  rotation of a stored token. The owner stays one whatever roles are granted;
  nothing revoked comes back.
* **contacts**: upsert by phone, blacklist against a recipient list copied
  earlier.

Every hazard found, with its line and the properties that cover it, is in
`PROJECT.json`. Where no property covers one, or its properties excuse a part of
it, a note says why: mostly because it is a state that the models reach and no
document of the repository excludes. §5 lists the gravest of them.

## 2. How the modules hang together

| Module | Content | Proofs |
|---|---|---|
| `JobQueue` | life of a job; operators used by all workers | `JobQueueProofs` |
| `RecipientLedger` | abstract promise of a blast to its recipients and to its report | |
| `Broadcast`, `MCBroadcast` | handlers, worker, save(), crashes | `BroadcastProofs` |
| `Outbox` | abstract promise of a queue of outgoing requests | |
| `Webhooks`, `MCWebhooks` | registry, dispatch, worker: effect, then record; attempts, backoff, deactivation | `WebhookProofs` |
| `Messages`, `MCMessages` | send, bulk send and its worker, the second implementation of `Outbox` | `MessageProofs` |
| `ActionEngine`, `MCActionEngine` | the interpreter of action lists: sorting, jumps, budget of steps, errors | `ActionEngineProofs` |
| `Automations`, `MCAutomations` | edits, triggers, inbound messages and the worker | `AutomationProofs` |
| `Scheduler`, `MCScheduler` | ticks, drift, downtime, the 60 s window | `SchedulerProofs` |
| `Tables` | rows, save(), calls as lists of awaits; used by the next four | |
| `Accounts` | users, refresh tokens | |
| `Workspaces` | workspaces, members, API keys; extends `Tables` | |
| `Sessions`, `Contacts` | both extend `Workspaces`, whose checks their calls begin with | |
| `Tenancy`, `MCTenancy` | composes `Accounts`, `Sessions` and `Contacts` on one database; what is proved is proved of the composition | `TenancyProofs` |

`JobQueue` is extended by the four modules with a worker. `Contacts` ends where
`Broadcast` begins: with the recipients `create()` has drawn. `Automations`
abstracts `ActionEngine` to a run that ends or throws, and `Scheduler` to a
tick that finds some automations due; `Webhooks` is an await of an inbound
message.

Every safety property of the passing runs is now a theorem. Left to do: the
steps (not only the states) of the components that have no abstract
specification yet, first that a call of `Tenancy` changes only rows of its
workspace or of its user, and that a settled job of `Automations` begins no action.

## 3. Modules

### JobQueue
No state. A job is a record of its BullMQ state, the attempts made and the
stalls; `Added`, `Taken`, `Completed`, `Rejected`, `Stalled`, `Promoted` move it. The
attempts are `queue.module.ts:29`; the stall limit is BullMQ's default. Delays
and backoff are a `delayed` state that ends at some time.

### RecipientLedger
The abstract specification. `rcpt` is what the report shows, `asked` the
requests to OpenWA to write to each recipient, `answered` those for whom one was
answered with a success. OpenWA is asked to write only to an unsettled
recipient; an entry becomes *sent* only after such an answer; a settled entry
stays until the broadcast is deleted. It deliberately allows several requests
for a recipient whose outcome was lost, and does not promise a message for every
*sent*: OpenWA may answer with a 2xx what it did not carry out, which nothing in
the code looks at.

### Broadcast
One broadcast, from the draft `create()` leaves.

| TLA+ | code |
|---|---|
| `row`, `rcpt` | the rows of `broadcasts` and `broadcast_recipients` (`NoRow`, `"gone"` when deleted) |
| `jobs` | the jobs of `wa-broadcasts` for this broadcast |
| `pc`, `job`, `mem`, `plan`, `cont`, `todo`, `cur` | the one running `process()`: where it is, its job, its entity `broadcast`, the columns its `save()` will write, where it continues, the rest of `pending`, `recipient` |
| `api` | requests in flight: handler, step, its loaded entity, its `save()` |
| `asked`, `answered` | not in the code: sends asked of OpenWA, and the recipients for whom it answered one with a 2xx |
| `logs` | rows `sent` of `message_logs` |
| `Send`, `Cancel`, `Update`, `ApiLoad`, `ApiWrite`, `ApiEnqueue`, `ApiFails`, `Remove` | the handlers of `broadcasts.service.ts`, one action per stretch between two awaits that matter |
| `Take` ... `Return`, `Throw` | `process()` of `broadcast.processor.ts`, one action per await |
| `Promote`, `RecoverStalled`, `Crash` | BullMQ timers, BullMQ stall check, the process dying and being restarted |

`save()` is modelled by what TypeORM does: it SELECTs the row, keeps the
columns that differ from the entity, then UPDATEs those (nothing happens if
the row has gone by then) or INSERTs if the SELECT found no row (an error if
one exists by then). `SavePlan` and `Saved` are those two halves; other steps
may come between. Of the columns, `status`, `sentCount` and `failedCount` are
kept: the others decide nothing the properties see.

Choices worth knowing:

* `find` returns the pending recipients in no specified order, so the next one
  is any of `todo`.
* A failed database call leaves no effect. Whether a `sendText` was carried out
  is open: one that throws (an error status, no answer in time) may have been,
  one that returns (any 2xx, `success: false` included) may not. So the models
  count what OpenWA was asked (`AskOpenwa`) and what it answered, and nothing is
  said of what WhatsApp delivered.
* `recipients.save` on a deleted recipient either INSERTs it (its SELECT came
  after the deletion; this needs the broadcast's row) or does nothing (it came
  before), or throws on the foreign key (`MarkThrows`, `Throw`).
* `findOne` and `remove` in `remove()` are one step: its decision is not
  based on anything that can go stale but the row's existence.
* One `process()` runs at a time: BullMQ's default concurrency and one
  process. BullMQ also declares a job stalled when a busy event loop fails to renew its
  lock; the worker spends its time in awaits, so this is left out.
* Requests are named and used once, jobs likewise: `Requests` and `Jobs` are
  bounds on how many there ever are, `MaxCrashes` on crashes.

Not in this module: `create()` (its result is `Init`), reads, authorisation,
the progress event.

### Outbox
The abstract specification of a queue of outgoing requests: for an accepted item
requests go out any number of times while it is pending (`requests`), and it is
settled once, as delivered only if one of them backs that (`backing`): a POST
that the subscriber took in, for webhooks; a send that OpenWA answered with a 2xx,
for messages.

### Webhooks
The registry of webhooks, the events enqueued for them and the worker.

| TLA+ | code |
|---|---|
| `hooks` | the rows of `webhooks`: `isActive`, `retryCount` |
| `jobs`, `info` | the jobs of `wa-webhooks`; their webhook, their `attempts`, the delay their last rejection asked for |
| `pc`, `job` | the one running `process()` |
| `api` | update, test and dispatch calls in flight; `left` is the rest of the loop, with the webhooks as they were found |
| `received`, `rows` | POSTs the subscriber took in; rows of `webhook_deliveries`, per delivery |
| `Create`, `Update`, `ApiLoad`, `ApiWrite`, `Remove` | the registry; `update` is a `save()` in two steps, as in `Broadcast` |
| `Test`, `Dispatch`, `ApiEnqueue`, `ApiFails` | the loop of `enqueue` calls, one await each |
| `Take`, `LoadWebhook`, `PostOk`, `PostFails`, `Record...`, `Return`, `Throw` | `process()` of `webhook.processor.ts` |
| `Retried`, `Backoff` | BullMQ's retry with the delay of `backoffStrategy` |

`webhook_deliveries` has no foreign key: a delivery is recorded though its
webhook has been removed. A POST that throws may have been taken in; one that
resolves was. BullMQ 5 calls `backoffStrategy` with 1 after the first failed
attempt, puts a job whose delay is 0 straight among the waiting ones, and
counts an attempt only when `process()` rejects, not when it stalls. The
subscription to an event is a choice: `Dispatch` takes any non-empty set of
active webhooks.

### ActionEngine
One run of the action list of an automation, from the call of `run()` to its
end or its error. An action is its order and what the control flow sees of its
type; `list` is the list as loaded, `sorted`, `index` (from 1) and `steps` the
variables of `run()`, `trace` the indices executed.

| TLA+ | code |
|---|---|
| `Sorted`, `Rank` | the stable sort by order |
| `IndexOf`, `Jump`, `After` | `findIndex`, the orders a condition names, the next index |
| `Start`, `Goes`, `Begins`, `End` | `run()` and its loop |
| `Branch`, `Delay`, `Send`, `Log` | the cases of `execute()`; `log()` swallows the errors of `record()` |
| `asked`, `answered`, `logged` | per action: sends asked of OpenWA, answered by it with a 2xx, logged as sent |
| `Throws` | OpenWA refuses or does not answer in time, a template or a condition throws |

What a condition evaluates to depends on the variables of the run, which no
action changes: `truth` fixes it per run. So a run that comes back to an action
repeats itself for ever, which is what the budget is for.

### Messages
A call is its list of recipients and the place it has come to: `Begin`,
`Enqueue`, `EnqueueFails` are `send()` (a list of one) and `sendBulk()`, which
awaits one `queue.add` per recipient. The worker (`Take` ... `Throw`) records
inside the `try` that the send is in, so `RecordSentThrows` leads to the `catch`
block: a message that OpenWA accepted is then recorded as failed and sent again.
`asked` and `answered` are the sends asked of OpenWA and those it answered with a
2xx, which is all that a row *sent* goes by (`AskOpenwa`, as in `Broadcast`). A
chat id longer than `to_phone` (`varchar(20)`) can never be recorded:
`LongIds`. Lengths of delays are left out: a delayed job is promoted at any
time.

### Automations

| TLA+ | code |
|---|---|
| `autos`, `acts` | the rows of `automations` (`isActive`, `runCount`) and their lists in `automation_actions` |
| `api` | requests in flight: an entity and what its `save()` decided, or the runs a trigger has still to enqueue |
| `jobs`, `info`, `pc`, `job` | the queue `wa-automations` and its worker |
| `DeleteActions`, `SaveLoad`, `SaveWrite` | `update()`: the deletion commits before the save; `SetActive` is the save alone |
| `Test`, `Hook`, `Tick`, `Inbound`, `FindMatching`, `EnqueueRun`, `TickPassesOver` | what makes runs |
| `Load` ... `Throw` | `process()`: the run, `markRun()` in two queries |

`save()` here goes through the eager, cascading relation `actions`. TypeORM
INSERTs the actions of the entity that it does not find and orphans those the
entity lacks, by setting a column that is NOT NULL to NULL. So a save that
overlaps an update mostly fails, and its transaction with it:
`SaveConflicts`. The actions of one update are one list, named after its
request. `api[q].cut` remembers that an update has deleted and not saved, or
not successfully.

### Scheduler
Time is counted in units, `Period` to a minute. The timer comes at its minute
or later; `tick()` reads the clock (`Tick`), later the automations (`Read`),
then enqueues a run per phone (`Enqueue`); the next call may begin before.
`Window` is the half-open minute before the clock as it was read; an
expression is the set of the times it names, of which the first in the window
counts. `excused` and `since` are not in the code: the runs with which
something went wrong (process down, a tick more than a minute late, the query
failed, or `enqueueRun` did for this or an earlier phone of the automation) and
when an automation was last edited.

### Tables, Accounts, Workspaces, Sessions, Contacts, Tenancy
The handlers of these parts are short sequences of awaits on one database, and
what is hard about them is only how the awaits of two calls interleave. So a
call is a record whose `todo` is the list of the awaits still ahead of it: a
handler is the operator that begins a call with its list, and each kind of
await is one action, shared by all of them.

| Await | code |
|---|---|
| `member`, `admin`, `owner`, `invitee`, `absent`, `creds` | the lookups and checks a handler begins with (`Check`, `Granted`) |
| `find` | `findOne` by id and workspace, then `Object.assign` |
| `load`, `write` | the two halves of TypeORM's `save()` |
| `insert`, `delete` | `save()` of a new entity, `remove()` with its cascades |
| `sign`, `store`, `forget` | the JWT, the cache of refresh tokens |
| `terminate`, `launch`, `ask` | OpenWA: carried out or not, whether it answers with a 2xx or not |
| `lookup` | a row of an import: it puts the awaits of that row in front |
| `resolve`, `publish` | the contacts of a broadcast, and its INSERT |

`Fails` ends a call at any await and leaves what it did. `db` maps the key of
every row to what matters of it; `Permitted` is what the constraints of the
schema refuse. A refresh token is its user and the second it was signed in, as
the JWT is: two tokens of one second are equal. `running` is what OpenWA runs.

Variables that are not in the code serve the properties: `removed` and `sealed`
(removed while no other call held the entity), `firm` (blacklisted likewise),
`issued` and `dead` (tokens signed, and superseded once no other call was
about to store one), `excused` (sessions that a removal did not stop at OpenWA,
or a start that overlapped it started again). They name exactly the overlaps in which the code loses:
an entity saved by a call that loaded it before a removal comes back. That is
the finding of `BroadcastDeleted`; it is not stated again per table.

`Invite` takes any role: `InviteMemberDto` asks for a string and no more, and
`invite()` stores it, so `Roles` has, beside the three of `WorkspaceRole`, one
for all other strings, which pass no check but that of a member. An admin may so
make a second `owner`, who passes the check of `remove()` of the workspace.
`Patches` is what a PATCH of a contact may set: its phone, `isBlacklisted`, both,
or neither.

`NoOrphan` asks for more than a row: whoever stops a session must be a member of
its workspace, so the workspace's owner must be one (`HasOwner`). A kill that
OpenWA answers and does not carry out leaves a stopped session running; its row
and its owner are still there to try again. A removal whose kill was not
carried out deletes the row all the same, and is excused.

A session row is taken to have an OpenWA session of its own.

## 4. Properties and runs

| Property | Says |
|---|---|
| `TypeOK` | shape of the state, `made <= Attempts` |
| `CountersHonest` | the counters never exceed the recipients whose rows back them |
| `DoneIsComplete` | *done* with nobody pending |
| `LogsMatchReport` | the log shows a recipient once, and only if its row agrees |
| `CompletionHasReason` | `process()` resolves only with the broadcast done, cancelled or deleted |
| `LedgerKept` | refinement of `RecipientLedger`: nobody settled is written to, nobody is *sent* without an answer of OpenWA |
| `IInv` | the inductive invariant of the proofs |
| `JobsSettle` | every job ends as completed or failed (both modules) |
| `AttemptsInOrder` | the delivery log numbers attempts upwards, within those configured, a number twice only after a stall |
| `SuccessIsLast` | a logged success is real, and the last entry but for a stall |
| `NoSilentLoss` | a delivery completes only with a success recorded or its webhook off |
| `OutboxKept` | refinement of `Outbox` (`Webhooks`, `Messages`) |
| `StepBound` | at most 4n+10 actions executed for a list of n, whatever the jumps |
| `CutIffLoop` | a run is cut by the budget exactly if it came back to an action; else it gets to the end and repeats nothing |
| `RunsInOrder` | without jumps: every action once, by order, ties as listed |
| `MessagesMatch` | per action: rows logged <= sends OpenWA answered <= sends asked <= times executed; when the run ends without error, each execution was answered |
| `RunEnds` | every run ends (liveness) |
| `CallsAreWhole` | a call enqueued each recipient up to some place once, all of them when it was answered |
| `LogBacked` | rows *sent* <= sends OpenWA answered <= sends asked; sends and rows at most one per attempt; completed means logged *sent* last |
| `NoListLost` | an automation has no actions only after an update that was cut off, or when a save brought it back |
| `CountHonest` | `runCount` never exceeds the runs carried out |
| `EachRunOnce` | a trigger enqueues each run once, all of them when it is answered |
| `RunsBounded` | the actions of a job are begun once per attempt, and once more after a stall |
| `NeverTwice` | a minute is fired at most once per automation and phone |
| `EachMinuteServed` | once no call is under way, each run owed was fired: due, and not down, too late, edited since, or cut off by a failure at its own automation |
| `OwnerPresent` | a workspace with members has its owner among them, as owner, until it or the owner's account is removed |
| `SupersededStaysDead` | a refresh token that was superseded or logged out is not accepted again |
| `RemovedStays` | a row removed while nobody held it does not come back |
| `NoOrphan` | what runs on OpenWA has its row, in a workspace whose owner is a member; unless `excused`, or workspace or owner's account removed |
| `BlacklistHonoured` | a blacklisting made while nobody held the contact is lifted only by a call that names `isBlacklisted`; no broadcast draws such a contact |

| Run | Bounds | Checks |
|---|---|---|
| `BroadcastOverlap` | 2 recipients, 3 requests, 2 jobs, 1 attempt, no crash | `CountersHonest`, `DoneIsComplete`, `CompletionHasReason` |
| `BroadcastRetries` | 2 recipients, 2 requests, 1 job, 2 attempts, 1 crash | `TypeOK`, `IInv`, `LogsMatchReport`, `LedgerKept`, `JobsSettle` |
| `BroadcastCancel` | 1 recipient, 2 requests, 1 job | `CancelHonoured`, violated |
| `BroadcastDeleted` | same | `DeletedStaysDeleted`, violated |
| `BroadcastStuck` | same, 3 attempts | `SendingEnds`, violated |
| `WebhookDelivery` | 1 webhook, 2 requests, 1 delivery, `retryCount` 2 (3 attempts, the last after a wait), 2 crashes | `TypeOK`, `IInv`, `AttemptsInOrder`, `SuccessIsLast`, `OutboxKept`, `JobsSettle`, `NoSilentLoss` |
| `MessagesSent` | 2 calls of 1 or 2 chats, one with a long id, 2 messages, 2 attempts, 2 crashes | `IInv`, `CallsAreWhole`, `LogBacked`, `OutboxKept` |
| `ActionEngineRuns` | every list of up to 3 of 10 actions | `TypeOK`, `IInv`, `StepBound`, `CutIffLoop`, `RunsInOrder`, `MessagesMatch`, `RunEnds` |
| `AutomationRuns` | 1 automation, 3 requests, 2 runs, 2 attempts, 1 crash; attempts fail or stall at one run only (`OneInTrouble`) | `IInv`, `NoListLost`, `CountHonest`, `EachRunOnce`, `RunsBounded` |
| `SchedulerTicks` | 2 automations of which one is edited once the clock runs (`OneEdited`), 2 phones, minutes of 2 units, 2 minutes, 2 expressions | `IInv`, `NeverTwice`, `EachMinuteServed` |
| `TenancyCalls` | 3 calls, 2 at once; 2 users, 1 workspace, key, session and group, 2 contacts and phones, 2 token seconds, imports of 1 row; roles owner, admin, member and another; calls about unrelated rows not at once (`Related`) | `TypeOK`, `OwnerPresent`, `SupersededStaysDead`, `RemovedStays`, `NoOrphan`, `BlacklistHonoured` |
| `WebhookBackoff` | 1 delivery, `retryCount` 3 | `BackoffAsDocumented`, violated |

Why the bounds are enough. For broadcasts, two recipients are one being handled and one that
is not; three requests are what it takes to send, cancel and send again, or to have
two stale entities at once; two jobs overlap in the queue; two attempts are a
retry (the code has three); one crash gives the one recovery BullMQ allows, so a second
would fail the job. The two passing runs split retries from overlap to
keep each within minutes, and the theorems below close the gap: they hold for
every value of all the bounds. Deadlock is not checked: when the requests are
answered and the jobs settled the system rests.

For webhooks, two requests are an edit beside a dispatch or two dispatches,
three attempts a retry at once and one after a wait, two crashes the stall that
fails a job; several webhooks and deliveries are left to the theorems.

For messages, a list of two can be cut in its middle, its second chat has the
long id, two calls compete for the queue. Two attempts are a retry, two crashes
the stall that fails a job.

For automations, three requests are two overlapping updates and a trigger, or
two triggers and an activation; two runs are a tick for two phones, or
two triggers. Two attempts and a crash make both kinds of repetition; the
retries of two runs do not depend on each other, so `OneInTrouble` lets only
one of them have some.

For the scheduler, two units to a minute tell a late tick from one on time; two
minutes hold a tick and its successor while it is still at work; the
expressions name every minute, or one of them and a time between. Two
automations of two phones show a failure that must cut off the rest of one and
none of the other; which of them is edited makes no difference, so one is.

For tenancy, two calls in flight are an overlap, and the third comes after or
replaces the one that ended; two users are an owner and a member, or an
invited one. The initial states are an empty database and one with a workspace
in use, so that three calls reach what would take eight. Calls about
different tables, none of them a workspace, a member or an account, read and write
different rows: their awaits commute, and `Related` leaves out that they are in
flight together. They read users and memberships only at their start, so an
invitation or a removed member may as well come before or after them. The draw
of a broadcast writes to none of these tables, so it meets only calls on
contacts. The theorems have no such constraint.

For the engine, three actions make ties of order, jumps forward, back, to the
action itself and to an order that is not there, and loops of one, two and
three actions.

Symmetry in the constants' elements is used in runs without liveness only.

Fairness (`FairSpec`): weak fairness of the worker's, or the run's, step as a whole (the
event loop resumes a `process()` it began; whether a step fails is not
constrained), of `Take`, `Promote` and `RecoverStalled` for each job (BullMQ
hands out waiting jobs, fires timers, runs its stall check). Nothing is assumed of
users, of OpenWA's answers or of crashes. `FairSpec` is used for broadcasts,
webhooks and the engine; the other modules state safety only.

Each property of a passing run comes with a mutant, an operator defined just above
the one it replaces and marked *Mutant*: a counter moved above a save, a
`break` for a `return`, an error swallowed, a filter forgotten.

## 5. What the violated runs show

* **Cancel during a send is lost** (`BroadcastCancel`). After each recipient
  the worker saves its old entity, whose status is `sending`. A cancel that
  commits while `sendText` is under way is overwritten by that save, before
  the check at the head of the loop. `broadcast.processor.ts:55` says "Honour
  cancellation requested mid-flight."
* **A deleted broadcast comes back** (`BroadcastDeleted`): `save()` INSERTs
  an entity whose row it does not find. The trace shows it with a send request
  that overlaps the deletion; edits, cancels and the worker's saves do the same.
* **The second delivery attempt does not wait** (`WebhookBackoff`): the delay
  the comment on the worker gives to attempt 2 comes before attempt 3.
* **Stuck in `sending`** (`BroadcastStuck`): no code assigns the
  status `failed`; a run out of attempts leaves `sending`, which `send()` and
  `update()` refuse.

Other things a reader of the code should know, which the models reach but no
document of the repository promises otherwise, so that no run states them:

* **Answered is taken for carried out.** A send that OpenWA answers with a 2xx and
  `success: false` is reported and logged as *sent* (`openwa.service.ts:46`,
  `broadcast.processor.ts:73`, `message.processor.ts:59`, `action.engine.ts:66`).
  A kill answered so ends as a session shown `disconnected`, or removed, that
  still runs.
* **A revoked API key comes back** when its removal overlaps a `validate()` of
  it, which saves the key it read (`api-keys.service.ts:53`); so do accounts,
  sessions and contacts beside a save of their old entity. `RemovedStays` is
  about the removals without such an overlap.
* **A blacklisting is taken back**, or a logout written over, by an edit or a
  refresh that began before it: `BlacklistHonoured` and `SupersededStaysDead` are
  about those without such an overlap.
* **Anybody who may invite may invite an owner.** The API document offers `admin` and
  `member` (`update-workspace.dto.ts:40`), the validation takes any string.
* **Removing a workspace, or its owner's account, stops no session**: what runs at
  OpenWA goes on, and nobody is left who may stop it.

`src/README.md:38` says the refresh tokens are in a Redis cache; the cache is
`CacheModule.register({ isGlobal: true })` (`app.module.ts:52`), in the memory
of the process. The models follow the code: `Crash` of `Tenancy` empties it.

## 6. Proofs

`BroadcastProofs` EXTENDS `Broadcast`. Assumptions: the recipients are a
finite non-empty set, `Attempts` a positive and `MaxCrashes` a natural number, `Nil` neither
a recipient nor a job. TLC evaluates them in every run.

Theorems: `Inductive` (`Spec => []IInv`), `TypeCorrect`,
`CountersNeverAhead`, `DoneMeansComplete`, `LogsAgree`, `CompletionJustified`
and `KeepsLedger`, the refinement: it needs that a recipient in `todo` is
unsettled, and that the worker is at `mark` only for one that was answered.

None of the properties is inductive by itself. The argument:

* `JobsInv`: the worker's job is active and a live job has attempts left, so a
  rejection keeps the count within `Attempts`.
* `TodoInv`: what is in `todo` is pending (or deleted) and not logged; it is empty until the run has listed, and from
  then on everything pending is in it. This is what retries and crashes
  preserve: `todo` dies with the run, the rows do not.
* `LogInv`: a logged recipient is in no worklist, so it is not logged twice.
* `DoneInv`: only the last save of a run carries `done`, and no request's
  entity does. It also shows that this save really writes the status: no row
  is `done` inside the loop, so its plan has the column.
* `CountInv`: `Backed(e)` for the row and for every entity made from it. A
  stale save mixes columns of two of them; each column is bounded on its own,
  by settled recipients outside `todo`. Settling one moves it out of `todo`,
  which pays for the increment. A bound on the *sum* of the two counters is
  not inductive, since after a deletion a row may mix counters of both
  entities; without deletions it follows.

There is one lemma per part (`TypeStep`, `JobsStep`, `TodoStep`, `LogStep`,
`DoneStep`, `CountStep`), each by cases on the actions, over lemmas about
`SavePlan`, `Saved`, job outcomes and `BackedBy`.

`WebhookProofs` EXTENDS `Webhooks`. Assumptions: the retry counts are within
the 0..10 the DTO admits, `MaxCrashes` is a natural number, `Nil` is neither a
webhook nor a job. Theorems: `Inductive`, `TypeCorrect`, `LogInOrder`,
`SuccessFinal`, `NothingLost` and `KeepsOutbox`. The strengthening is
`RowsInv`: as long as its job has not stalled, a delivery about to be tried
has logged only failures of attempts already counted. The record of an attempt
comes before BullMQ counts it, so between the two the log is one ahead; that
window, left by a crash, is why a number may appear twice after a stall.
`RegistryFrame` sets the steps that touch neither queue nor log apart;
`LogKept` and `LogAppended` treat the steps that write no row, and those that
write one, once for all.

`ActionEngineProofs` EXTENDS `ActionEngine`. Assumptions: orders are integers,
`NoJump` is none, the lists are sequences of actions. Theorems: `Inductive`,
`TypeCorrect`, `StepsBounded`, `LoopsCut`. `RankOnto` and `SortedType` show that
sorting is well defined (ranks are a bijection) and ascending. `PeriodInv` is
the strengthening: if places a < b of the trace show one action, the last
place shows what stood b - a before it. It is inductive because the next index
depends on the last action only; a looped run therefore never leaves the list.
The converse is the pigeonhole principle: a run that is cut executed more
actions than the list has.

`OrderKept` proves `RunsInOrder`, whose order of ties is stated by the places
of the actions (`StablySorted`): `SortIsStable` shows that `sort()` puts the
actions there, and `OrderInv` that without jumps a run has executed 1..n after
n steps.

`MessagesLogged` proves `MessagesMatch` beside that invariant, from `MatchInv`:
until an error ends the run, OpenWA answered a send for each time its action was
executed, and between a send and its `log()` the log is one behind.

`MessageProofs` EXTENDS `Messages`. Assumptions: lists are non-empty sequences
of chats, `Attempts` is positive, `MaxCrashes` a natural number, `Nil` not a
job. Theorems: `Inductive`, `CallsWhole`, `LogTrue`, `KeepsOutbox`. The measure
is `Begun(j)`, the attempts at a message that may have begun: BullMQ counts an
attempt when it rejects, a stall when it finds one, so one more may be under
way, have ended well or have died for good. `SentInv` says that the worker's
attempt is among these and has not yet been used up by a send or a row, that at
`ok` and `return` a send was answered, before `return` once more than is logged, and
that until a job has stalled its rows are all *failed*: a *sent* row is then
the last, since only a crash comes between it and completion. `Logged` and
`Counted` split the invariant by job; `LogFrame` treats the jobs a step leaves
alone, `QueueLog` the queue's moves, `WorkerLog` the worker's.

`SchedulerProofs` EXTENDS `Scheduler`. Assumptions: `Period` is positive, the
expressions are sets of the times modelled, `Down` is no time. Theorems:
`Inductive`, `FiredOnce`, `NoneMissed` (and `TypeCorrect`). Minutes are a
`Period` apart, so a window holds exactly one (`OneMinute`). `CallsInv`: a full
minute lies between any two calls' readings of the clock, and the timer is
ahead of them all, so no minute is in two windows (`NoneShared`): what a call
has left nobody else fires (`LeftInv`), and nothing later than the clock was
fired (`FiredInv`). That gives at most once. For at least once, `ServedInv`:
what is owed (`Owed`: it is due, the timer has passed it, the automation was
not edited since, nothing went wrong at it) was fired or is ahead of a call. A
failure excuses what it cuts off, the runs of one automation that the call had
left; those of the others stay ahead of the call.

`JobQueueProofs` holds the lemmas on jobs that `MessageProofs` and
`AutomationProofs` share: what a queue step may do to a job, which steps leave
it settled, what keeps its counts within `Attempts`.

`AutomationProofs` EXTENDS `Automations`. Assumptions: `Attempts` and
`MaxTargets` are positive, `MaxCrashes` is a natural number, `Nil` is neither a
job nor an automation, the name of the first list is no request. Theorems:
`Inductive`, `ListsKept`, `CountsHonest`, `RunsOnce`, `BeginsBounded`. The
strengthening:

* `CountInv`: no row, and no entity a request holds, has a count above the
  runs carried out; a run that ended and is not yet marked is one to spare. A
  save of an old entity writes an old count, never one too high.
* `SaveInv`, `InsertInv`, `OwnInv`: what a `save()` works on. An update brings
  its own list, which is nowhere else until then, and is `cut` from its
  deletion until its save has ended well; a save that INSERTs does so because
  the automation was removed. This carries `NoListLost`.
* `LoopInv`: the runs a trigger has enqueued are those before its place in the
  loop. `EachRunOnce` counts them, so it also takes that the runs of a request
  are finitely many (`FiniteRuns`, invariant beside `IInv`).
* `JobsInv`, `RunsBounded`: as in `MessageProofs`, one begin per attempt or
  stall, one more while the worker is at it.

`TenancyProofs` EXTENDS `Tenancy`. Assumptions: keys of different tables differ
and no row is `Nil` (`IdsAssumption`); `MaxTokens`, `MaxRows` and `MaxInFlight`
are positive. Theorems: `TypeKept`, `RemovedKept`, `BlacklistKept`,
`SupersededKept`, `OrphansNone`, `OwnersKept`. A call is the list of its
awaits, so the argument is about lists:

* `CallOK`: the awaits ahead of a call ascend in one order (`Rank`), whichever
  handler began it; only the lookup of an import comes more than once. What
  the operation is says which awaits, and awaits on which table, can be ahead,
  and what the entity in hand is a row of.
* `Base`, the tables (`DbOK`), the calls (`CallsInv`) and OpenWA (`RemoteOK`),
  is inductive and gives `TypeOK`. The steps of one await, and the call each
  leaves, are treated once in `CallChanges`: a step leaves a call alone, moves it
  one await on (`Advances`), begins it (`Opened`), turns an import to its next
  row (`Turned`) or has a new workspace get its owner (`Founded`).
* One invariant per property stands on `Base`. `SealInv`: an entity whose row
  was removed while nobody held it is held by nobody since. `FirmInv`: whoever
  holds a firmly blacklisted contact holds it blacklisted, or is told to lift
  that; a broadcast about to be queued drew nobody barred. `TokenInv`: a call
  stores next the token it signed, and that one is not dead.
* `OwnerInv` takes most: an owner is lost through a removal that took a member
  for no owner, an invitation over the owner's row or a save of an old
  workspace. So it says what each call has learned: past `admin` that the
  workspace has its owner (`HasOwner`), past `absent` or `find` that the member
  in question is `NotOwner`; and that all entities of a workspace name the owner
  its row names, since no handler changes it. It does not matter which role an
  invitation names: what it saves is a row that is not the owner's.
* `OrphansNone` stands on `OwnerInv` and two more. `RemovalInv`: a removal that
  got past OpenWA left the session stopped, or it is excused; the row of a
  session that runs is there otherwise (`Rowed`). `SessionInv`: every session,
  and every entity of one that a call holds (`Belongs`), is of a workspace that
  has its owner: the call that made it was let in by a member, and no handler
  moves it to another.

TLC finds these strengthenings kept within the bounds of `TenancyCalls`, too;
they are not in its list because they speak of nothing a reader of the code would
look for.

Only model-checked: the two `JobsSettle` and `RunEnds`. They are liveness
properties, which are out of the prover's reach.

## 7. Not modelled

* Analytics, and the reads of every component (`findAll`, `status`, `report`,
  logs): they change nothing.
* Texts: what a trigger matches (`trigger.engine.ts`) is a choice among the
  active automations; what CSV parsing and `normalizePhone` make of a line is a
  phone; a phone without a digit is left out; templates, signatures, hashes,
  encryption and passwords are not told apart.
* The HTTP layer (DTO validation, envelopes, filters, throttling), the
  WebSocket gateway's events, configuration.
* The lengths of delays outside `Webhooks`, where the order of the attempts
  depends on them; Redis or Postgres losing data.
* BullMQ, TypeORM, cron-parser, `@nestjs/schedule` and OpenWA are modelled from
  how the code uses them.
