------------------------------ MODULE Webhooks ------------------------------
(***************************************************************************)
(* Outbound webhooks of src/src/modules/webhooks: the registry (create,    *)
(* update, remove), the events that dispatch() and test() enqueue, and the *)
(* worker that posts them, records each attempt in webhook_deliveries and  *)
(* is retried with a backoff of its own.                                   *)
(*                                                                         *)
(* A delivery is read, posted and recorded in three awaits of one          *)
(* process(); the webhook it is for can be edited, switched off or removed *)
(* before each of them, and the process can die after each.  update() goes *)
(* through TypeORM's save(), in two steps as in Broadcast.tla.             *)
(*                                                                         *)
(* One event is dispatched: the webhooks subscribed to it are any of the   *)
(* active ones.  There is one worker, as for every queue of the program.   *)
(***************************************************************************)
EXTENDS FiniteSets, Sequences, JobQueue

CONSTANTS Hooks,        \* bound: webhooks ever created
          Requests,     \* bound: update, test and dispatch calls ever made
          Jobs,         \* bound: deliveries ever enqueued
          Retries,      \* the retryCount values in use
          MaxCrashes,   \* bound: crashes of the process
          Nil

ASSUME RetriesAssumption    == Retries \subseteq 0..10   \* the DTO's @Min, @Max
ASSUME HookCrashAssumption  == MaxCrashes \in Nat
ASSUME HookNilAssumption    == Nil \notin Jobs /\ Nil \notin Hooks

VARIABLES
  hooks,      \* the rows of webhooks
  jobs,       \* the queue wa-webhooks
  info,       \* per job: its webhook, its attempts, the delay it waits for
  pc, job,    \* the worker: where process() is, the job it holds
  api,        \* the requests in flight
  received,   \* POSTs the subscriber took in, per job (not visible here)
  rows,       \* the rows of webhook_deliveries, per job, oldest first
  crashes

vars == <<hooks, jobs, info, pc, job, api, received, rows, crashes>>

-----------------------------------------------------------------------------
(* The registry and TypeORM's save().                                      *)

Hook    == [state : {"none", "here", "gone"}, active : BOOLEAN, retry : 0..10]
NoHook  == [state |-> "none", active |-> FALSE, retry |-> 0]
Removed == [state |-> "gone", active |-> FALSE, retry |-> 0]
Here(h) == hooks[h].state = "here"
On(h)   == Here(h) /\ hooks[h].active

Columns == {"active", "retry"}
Plans   == SUBSET (Columns \cup {"insert"})

\* What save(e) decides from the row of h it SELECTs.
SavePlan(h, e) ==
  IF ~Here(h) THEN {"insert"} ELSE {c \in Columns : hooks[h][c] # e[c]}

\* The INSERT of a row that exists by now: save() throws.
SaveConflicts(h, p) == "insert" \in p /\ Here(h)

\* The row of h after the UPDATE or INSERT that p asks for.
Saved(h, e, p) ==
  IF "insert" \in p THEN e
  ELSE IF ~Here(h) THEN hooks[h]
  ELSE [state  |-> "here",
        active |-> IF "active" \in p THEN e.active ELSE hooks[h].active,
        retry  |-> IF "retry"  \in p THEN e.retry  ELSE hooks[h].retry]

-----------------------------------------------------------------------------
(* The HTTP handlers, and the dispatch of an event.                        *)

\* A webhook as dispatch() or test() found it.
Found(h) == [hook |-> h, retry |-> hooks[h].retry]

Request ==
  [pc : {"new", "load", "write", "enqueue", "answered"},
   hook : Hooks \cup {Nil}, ent : Hook, plan : Plans,
   left : SUBSET [hook : Hooks, retry : 0..10]]

Idle(at) == [pc |-> at, hook |-> Nil, ent |-> NoHook, plan |-> {}, left |-> {}]
Unmade   == Idle("new")
Answered == Idle("answered")

Create(h) ==
  /\ hooks[h].state = "none"
  /\ \E on \in BOOLEAN, n \in Retries :
       hooks' = [hooks EXCEPT ![h] = [state |-> "here", active |-> on, retry |-> n]]
  /\ UNCHANGED <<jobs, info, pc, job, api, received, rows, crashes>>

Remove(h) ==
  /\ Here(h)
  /\ hooks' = [hooks EXCEPT ![h] = Removed]
  /\ UNCHANGED <<jobs, info, pc, job, api, received, rows, crashes>>

\* findOne, then Object.assign of whatever the DTO holds.
Update(q, h) ==
  /\ api[q] = Unmade /\ Here(h)
  /\ \E on \in BOOLEAN, n \in Retries \cup {hooks[h].retry} :
       api' = [api EXCEPT ![q] =
         [pc |-> "load", hook |-> h, plan |-> {}, left |-> {},
          ent |-> [state |-> "here", active |-> on, retry |-> n]]]
  /\ UNCHANGED <<hooks, jobs, info, pc, job, received, rows, crashes>>

ApiLoad(q) ==
  /\ api[q].pc = "load"
  /\ api' = [api EXCEPT ![q] =
       [@ EXCEPT !.pc = "write", !.plan = SavePlan(api[q].hook, api[q].ent)]]
  /\ UNCHANGED <<hooks, jobs, info, pc, job, received, rows, crashes>>

ApiWrite(q) ==
  /\ api[q].pc = "write"
  /\ ~SaveConflicts(api[q].hook, api[q].plan)
  /\ hooks' = [hooks EXCEPT ![api[q].hook] = Saved(api[q].hook, api[q].ent, api[q].plan)]
  /\ api' = [api EXCEPT ![q] = Answered]
  /\ UNCHANGED <<jobs, info, pc, job, received, rows, crashes>>

\* The loop of enqueue() calls begins, with the webhooks as they were found.
Enqueueing(q, S) ==
  /\ api[q] = Unmade /\ S # {}
  /\ api' = [api EXCEPT ![q] =
       [pc |-> "enqueue", hook |-> Nil, ent |-> NoHook, plan |-> {}, left |-> {Found(h) : h \in S}]]
  /\ UNCHANGED <<hooks, jobs, info, pc, job, received, rows, crashes>>

Test(q, h)     == Here(h) /\ Enqueueing(q, {h})
Dispatch(q)    == \E S \in SUBSET {h \in Hooks : On(h)} : Enqueueing(q, S)

\* attempts: (webhook.retryCount || 3) + 1
AttemptsFor(retry) == (IF retry = 0 THEN 3 ELSE retry) + 1

\* What is kept with a job: its webhook, its attempts, and the delay in
\* seconds that its last rejection asked for.
Info   == [hook : Hooks \cup {Nil}, attempts : 0..11, delay : {0, 30, 300}]
NoInfo == [hook |-> Nil, attempts |-> 0, delay |-> 0]

ApiEnqueue(q) ==
  /\ api[q].pc = "enqueue"
  /\ \E f \in api[q].left, j \in Jobs :
       /\ jobs[j] = NoJob
       /\ jobs' = [jobs EXCEPT ![j] = Added(FALSE)]
       /\ info' = [info EXCEPT ![j] =
            [hook |-> f.hook, attempts |-> AttemptsFor(f.retry), delay |-> 0]]
       /\ api' = [api EXCEPT ![q] =
            IF api[q].left = {f} THEN Answered ELSE [api[q] EXCEPT !.left = @ \ {f}]]
  /\ UNCHANGED <<hooks, pc, job, received, rows, crashes>>

\* The database or Redis rejects: the rest of the loop is not enqueued.
ApiFails(q) ==
  /\ api[q].pc \in {"load", "write", "enqueue"}
  /\ api' = [api EXCEPT ![q] = Answered]
  /\ UNCHANGED <<hooks, jobs, info, pc, job, received, rows, crashes>>

-----------------------------------------------------------------------------
(* The worker.                                                             *)

Take(j) ==
  /\ pc = "idle"
  /\ jobs[j].state = "waiting"
  /\ jobs' = [jobs EXCEPT ![j] = Taken(@)]
  /\ job' = j /\ pc' = "load"
  /\ UNCHANGED <<hooks, info, api, received, rows, crashes>>

\* A webhook that is gone or switched off by now is skipped.
LoadWebhook ==
  /\ pc = "load"
  /\ pc' = IF On(info[job].hook) THEN "post" ELSE "return"
  /\ UNCHANGED <<hooks, jobs, info, job, api, received, rows, crashes>>

\* Mutant: every answer counts as a success (validateStatus).
PostAnyStatus ==
  /\ pc = "post"
  /\ pc' = "ok"
  /\ UNCHANGED <<hooks, jobs, info, job, api, received, rows, crashes>>

\* axios resolved: the subscriber took the event in and said so.
PostOk ==
  /\ pc = "post"
  /\ received' = [received EXCEPT ![job] = @ + 1]
  /\ pc' = "ok"
  /\ UNCHANGED <<hooks, jobs, info, job, api, rows, crashes>>

\* It threw: an error status or no answer in time, taken in or not.
PostFails ==
  /\ pc = "post"
  /\ \/ UNCHANGED received
     \/ received' = [received EXCEPT ![job] = @ + 1]
  /\ pc' = "bad"
  /\ UNCHANGED <<hooks, jobs, info, job, api, rows, crashes>>

\* Mutant: the attempt is numbered by the failures so far.
AttemptMade(j) == jobs[j].made

\* attempt: job.attemptsMade + 1
Attempt(j) == jobs[j].made + 1

\* A row of webhook_deliveries.
Row == [attempt : 1..11, status : {"success", "failed"}]
Delivery(j, status) == [attempt |-> Attempt(j), status |-> status]

\* Mutant: something after the record, within the try, throws.
RecordThenThrow ==
  /\ pc = "ok"
  /\ rows' = [rows EXCEPT ![job] = Append(@, Delivery(job, "success"))]
  /\ pc' = "bad"
  /\ UNCHANGED <<hooks, jobs, info, job, api, received, crashes>>

RecordSuccess ==
  /\ pc = "ok"
  /\ rows' = [rows EXCEPT ![job] = Append(@, Delivery(job, "success"))]
  /\ pc' = "return"
  /\ UNCHANGED <<hooks, jobs, info, job, api, received, crashes>>

\* recordDelivery threw inside the try: the catch block takes over.
RecordThrows ==
  /\ pc = "ok"
  /\ pc' = "bad"
  /\ UNCHANGED <<hooks, jobs, info, job, api, received, rows, crashes>>

\* Mutant: the catch block records the failure and does not rethrow.
RecordSwallows ==
  /\ pc = "bad"
  /\ rows' = [rows EXCEPT ![job] = Append(@, Delivery(job, "failed"))]
  /\ pc' = "return"
  /\ UNCHANGED <<hooks, jobs, info, job, api, received, crashes>>

RecordFailed ==
  /\ pc = "bad"
  /\ rows' = [rows EXCEPT ![job] = Append(@, Delivery(job, "failed"))]
  /\ pc' = "throw"
  /\ UNCHANGED <<hooks, jobs, info, job, api, received, crashes>>

Return ==
  /\ pc = "return"
  /\ jobs' = [jobs EXCEPT ![job] = Completed(@)]
  /\ pc' = "idle" /\ job' = Nil
  /\ UNCHANGED <<hooks, info, api, received, rows, crashes>>

\* backoffStrategy(attemptsMade), in seconds.
Backoff(made) == IF made <= 1 THEN 0 ELSE IF made = 2 THEN 30 ELSE 300

\* Mutant: a rejected attempt does not count as made.
RetriedUncounted(x, attempts, delay) ==
  [x EXCEPT !.state = IF delay = 0 THEN "waiting" ELSE "delayed"]

\* A rejected attempt: with no backoff the job waits for a worker at once.
Retried(x, attempts, delay) ==
  IF x.made + 1 < attempts /\ delay = 0
    THEN Promoted(Rejected(x, attempts))
    ELSE Rejected(x, attempts)

\* process() rejects: getById or the record of the failure threw, or the
\* catch block came to its end.
Throw ==
  /\ pc \in {"load", "bad", "throw"}
  /\ LET delay == Backoff(jobs[job].made + 1) IN
       /\ jobs' = [jobs EXCEPT ![job] = Retried(@, info[job].attempts, delay)]
       /\ info' = [info EXCEPT ![job] = [@ EXCEPT !.delay = delay]]
  /\ pc' = "idle" /\ job' = Nil
  /\ UNCHANGED <<hooks, api, received, rows, crashes>>

-----------------------------------------------------------------------------
(* The queue's own moves, and a crash of the process.                      *)

Promote(j) ==
  /\ jobs[j].state = "delayed"
  /\ jobs' = [jobs EXCEPT ![j] = Promoted(@)]
  /\ UNCHANGED <<hooks, info, pc, job, api, received, rows, crashes>>

RecoverStalled(j) ==
  /\ jobs[j].state = "active" /\ job # j
  /\ jobs' = [jobs EXCEPT ![j] = Stalled(@)]
  /\ UNCHANGED <<hooks, info, pc, job, api, received, rows, crashes>>

Crash ==
  /\ crashes < MaxCrashes
  /\ crashes' = crashes + 1
  /\ pc' = "idle" /\ job' = Nil
  /\ api' = [q \in Requests |-> IF api[q] = Unmade THEN Unmade ELSE Answered]
  /\ UNCHANGED <<hooks, jobs, info, received, rows>>

-----------------------------------------------------------------------------
Init ==
  /\ hooks = [h \in Hooks |-> NoHook]
  /\ jobs = [j \in Jobs |-> NoJob]
  /\ info = [j \in Jobs |-> NoInfo]
  /\ pc = "idle" /\ job = Nil
  /\ api = [q \in Requests |-> Unmade]
  /\ received = [j \in Jobs |-> 0]
  /\ rows = [j \in Jobs |-> <<>>]
  /\ crashes = 0

ApiStep(q) ==
  \/ \E h \in Hooks : Update(q, h) \/ Test(q, h)
  \/ Dispatch(q)
  \/ ApiLoad(q) \/ ApiWrite(q) \/ ApiEnqueue(q) \/ ApiFails(q)

WorkerStep ==
  \/ LoadWebhook \/ PostOk \/ PostFails
  \/ RecordSuccess \/ RecordThrows \/ RecordFailed \/ Return \/ Throw

Next ==
  \/ \E h \in Hooks : Create(h) \/ Remove(h)
  \/ \E q \in Requests : ApiStep(q)
  \/ WorkerStep
  \/ \E j \in Jobs : Take(j) \/ Promote(j) \/ RecoverStalled(j)
  \/ Crash

\* The event loop runs a process() it has begun, BullMQ hands out waiting
\* jobs, fires their timers and recovers stalled ones.
Fairness ==
  /\ WF_vars(WorkerStep)
  /\ \A j \in Jobs : WF_vars(Take(j)) /\ WF_vars(Promote(j)) /\ WF_vars(RecoverStalled(j))

Spec     == Init /\ [][Next]_vars
FairSpec == Spec /\ Fairness
-----------------------------------------------------------------------------
(* Properties.                                                             *)

\* Every variable keeps the shape the code gives it.
TypeOK ==
  /\ hooks \in [Hooks -> Hook]
  /\ info \in [Jobs -> Info]
  /\ jobs \in [Jobs -> Job(11)]
  /\ pc \in {"idle", "load", "post", "ok", "bad", "throw", "return"}
  /\ job \in Jobs \cup {Nil}
  /\ api \in [Requests -> Request]
  /\ received \in [Jobs -> Nat]
  /\ rows \in [Jobs -> Seq(Row)]
  /\ crashes \in 0..MaxCrashes

Succeeded(j) == \E i \in 1..Len(rows[j]) : rows[j][i].status = "success"

\* webhook_deliveries numbers the attempts of a delivery 1, 2, ... in the
\* order they were made, within those it has, and shows a number twice only
\* if the process died during it.
AttemptsInOrder ==
  \A j \in Jobs :
    /\ \A i \in 1..Len(rows[j]) : rows[j][i].attempt <= info[j].attempts
    /\ \A i, k \in 1..Len(rows[j]) :
         i < k => \/ rows[j][i].attempt < rows[j][k].attempt
                  \/ rows[j][i].attempt = rows[j][k].attempt /\ jobs[j].stalls > 0

\* After the row that shows a success there is no further attempt, unless the
\* process died before BullMQ heard of it; and the success is a real one.
SuccessIsLast ==
  \A j \in Jobs : \A i \in 1..Len(rows[j]) :
    rows[j][i].status = "success" =>
      /\ received[j] > 0
      /\ i = Len(rows[j]) \/ jobs[j].stalls > 0

\* A delivery counts as completed, and is not retried, only if it was
\* recorded as a success or its webhook was off or removed at that moment.
NoSilentLoss ==
  [][pc # "return" /\ pc' = "return" => Succeeded(job)' \/ ~On(info[job].hook)]_vars

\* What the queue and the delivery log show of a job.
Outcome(j) ==
  CASE jobs[j].state = "none" -> "none"
    [] Live(jobs[j]) -> "pending"
    [] jobs[j].state = "failed" -> "failed"
    [] OTHER -> IF Succeeded(j) THEN "delivered" ELSE "dropped"

\* Each event enqueued for a webhook goes through the outbox of Outbox.tla.
Box == INSTANCE Outbox WITH
         Items <- Jobs, requests <- received, backing <- received,
         outcome <- [j \in Jobs |-> Outcome(j)]
OutboxKept == Box!OutboxSpec

\* Every delivery enqueued ends as completed or failed.
JobsSettle == \A j \in Jobs : Live(jobs[j]) ~> Settled(jobs[j])

-----------------------------------------------------------------------------
(* The inductive invariant behind the safety properties.                   *)

\* The worker's job is active; an enqueued job has attempts left.
JobsInv ==
  /\ pc # "idle" => job \in Jobs /\ jobs[job].state = "active"
  /\ pc = "idle" => job = Nil
  /\ \A j \in Jobs :
       /\ jobs[j].state # "none" => info[j].attempts \in 2..11
       /\ Live(jobs[j]) => jobs[j].made < info[j].attempts
       /\ jobs[j].state = "none" => rows[j] = <<>> /\ received[j] = 0

\* A job whose next attempt has neither begun nor been recorded.
Fresh(j) ==
  \/ jobs[j].state \in {"delayed", "waiting"}
  \/ job = j /\ pc \in {"load", "post", "ok", "bad"}

\* What is recorded is within the attempts begun; unless the process died,
\* it is within those before a fresh one, and no success as long as the job
\* is to be tried again.
RowsInv ==
  /\ pc = "ok" => received[job] > 0
  /\ \A j \in Jobs : \A i \in 1..Len(rows[j]) :
       /\ rows[j][i].attempt <= jobs[j].made + 1
       /\ jobs[j].stalls = 0 =>
            /\ Fresh(j) => rows[j][i].attempt <= jobs[j].made
            /\ Fresh(j) \/ (job = j /\ pc = "throw") => rows[j][i].status = "failed"

\* The conjunction of the parts above with the two properties of the log.
IInv == TypeOK /\ JobsInv /\ RowsInv /\ AttemptsInOrder /\ SuccessIsLast

-----------------------------------------------------------------------------
(* What the code's own comments and checks say of it, and TLC refutes.     *)

\* "attempt 1 -> immediate, attempt 2 -> 30s, attempt 3+ -> 5 minutes": the
\* delay before the attempt that comes after `made` others.
BackoffAsDocumented ==
  \A j \in Jobs :
    jobs[j].state \in {"waiting", "delayed"} =>
      info[j].delay = CASE jobs[j].made = 0 -> 0
                        [] jobs[j].made = 1 -> 30
                        [] OTHER -> 300
=============================================================================
