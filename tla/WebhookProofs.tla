---------------------------- MODULE WebhookProofs ----------------------------
(* Machine-checked proofs about Webhooks.tla, for every number of webhooks, *)
(* requests, deliveries and crashes, and every set of retry counts.         *)
EXTENDS Webhooks, TLAPS

-----------------------------------------------------------------------------
(* Facts about jobs, deliveries and save().                                 *)

LEMMA RowAttempt == \A x \in Row : x.attempt \in Nat
BY DEF Row

\* Every outcome of a delivery's job is a job.
LEMMA JobTypes ==
  ASSUME NEW x \in Job(11)
  PROVE  /\ Promoted(x) \in Job(11)
         /\ Taken(x) \in Job(11)
         /\ Completed(x) \in Job(11)
         /\ Stalled(x) \in Job(11)
         /\ Added(FALSE) \in Job(11)
         /\ NoJob \in Job(11)
<1>. USE DEF Job, JobStates, MaxStalls
<1>1. Promoted(x) \in Job(11) /\ Taken(x) \in Job(11) /\ Completed(x) \in Job(11)
  BY DEF Promoted, Taken, Completed
<1>2. Stalled(x) \in Job(11)
  <2>1. CASE x.stalls < MaxStalls
    <3>1. x.stalls + 1 \in 0..MaxStalls BY <2>1
    <3>. QED BY <2>1, <3>1 DEF Stalled
  <2>2. CASE ~(x.stalls < MaxStalls) BY <2>2 DEF Stalled
  <2>. QED BY <2>1, <2>2
<1>3. Added(FALSE) \in Job(11) BY DEF Added
<1>4. NoJob \in Job(11) BY DEF NoJob
<1>. QED BY <1>1, <1>2, <1>3, <1>4

\* A rejected attempt is counted, and the job has attempts left or is failed.
LEMMA RetriedJob ==
  ASSUME NEW x \in Job(11), NEW n \in 0..11, NEW d, x.made < n
  PROVE  /\ Retried(x, n, d) \in Job(11)
         /\ Retried(x, n, d).made = x.made + 1
         /\ Retried(x, n, d).stalls = x.stalls
         /\ \/ Retried(x, n, d).state \in {"waiting", "delayed"} /\ x.made + 1 < n
            \/ Retried(x, n, d).state = "failed"
<1>1. x.made + 1 \in 0..11 BY DEF Job
<1>. QED BY <1>1 DEF Retried, Promoted, Rejected, Job, JobStates

\* What a stall makes of an active job: one more stall, or the end of it.
LEMMA StalledJob ==
  ASSUME NEW x \in Job(11), x.state = "active"
  PROVE  /\ Stalled(x).made = x.made
         /\ \/ Stalled(x).state = "waiting" /\ Stalled(x).stalls > 0
            \/ Stalled(x).state = "failed" /\ Stalled(x).stalls = x.stalls
BY DEF Stalled, Job, MaxStalls

\* What save() writes over the row of a webhook is a row again.
LEMMA SaveTypes ==
  ASSUME NEW h \in Hooks, hooks \in [Hooks -> Hook], NEW e \in Hook, NEW p \in Plans
  PROVE  SavePlan(h, e) \in Plans /\ Saved(h, e, p) \in Hook
<1>1. hooks[h] \in Hook OBVIOUS
<1>2. SavePlan(h, e) \in Plans BY DEF SavePlan, Plans, Columns
<1>3. Saved(h, e, p) \in Hook BY <1>1 DEF Saved, Hook
<1>. QED BY <1>2, <1>3

LEMMA IdleTypes == Unmade \in Request /\ Answered \in Request
BY DEF Unmade, Answered, Idle, Request, NoHook, Hook, Plans

-----------------------------------------------------------------------------
(* Steps that leave the queue, the worker and the log alone.                *)

\* The steps of the registry: they change rows of webhooks and requests only.
RegistryStep ==
  \/ \E h \in Hooks : Create(h) \/ Remove(h)
  \/ \E q \in Requests, h \in Hooks : Update(q, h) \/ Test(q, h)
  \/ \E q \in Requests : Dispatch(q) \/ ApiLoad(q) \/ ApiWrite(q) \/ ApiFails(q)

LEMMA RegistryFrame ==
  ASSUME RegistryStep
  PROVE  UNCHANGED <<jobs, info, pc, job, received, rows, crashes>>
BY DEF RegistryStep, Create, Remove, Update, Test, Dispatch, Enqueueing, ApiLoad,
       ApiWrite, ApiFails

-----------------------------------------------------------------------------
(* The type invariant.                                                      *)

LEMMA RegistryTypes ==
  ASSUME TypeOK, RegistryStep
  PROVE  hooks' \in [Hooks -> Hook] /\ api' \in [Requests -> Request]
<1>. USE RetriesAssumption DEF TypeOK
<1>1. ASSUME NEW h \in Hooks, Create(h)
      PROVE  hooks' \in [Hooks -> Hook] /\ api' \in [Requests -> Request]
  <2>1. PICK on \in BOOLEAN, n \in Retries :
          hooks' = [hooks EXCEPT ![h] = [state |-> "here", active |-> on, retry |-> n]]
    BY <1>1 DEF Create
  <2>2. [state |-> "here", active |-> on, retry |-> n] \in Hook BY DEF Hook
  <2>. QED BY <1>1, <2>1, <2>2 DEF Create
<1>2. ASSUME NEW h \in Hooks, Remove(h)
      PROVE  hooks' \in [Hooks -> Hook] /\ api' \in [Requests -> Request]
  BY <1>2 DEF Remove, Removed, Hook
<1>3. ASSUME NEW q \in Requests, NEW h \in Hooks, Update(q, h)
      PROVE  hooks' \in [Hooks -> Hook] /\ api' \in [Requests -> Request]
  <2>1. PICK on \in BOOLEAN, n \in Retries \cup {hooks[h].retry} :
          api' = [api EXCEPT ![q] =
            [pc |-> "load", hook |-> h, plan |-> {}, left |-> {},
             ent |-> [state |-> "here", active |-> on, retry |-> n]]]
    BY <1>3 DEF Update
  <2>2. n \in 0..10
    <3>1. hooks[h] \in Hook OBVIOUS
    <3>. QED BY <3>1 DEF Hook
  <2>3. [state |-> "here", active |-> on, retry |-> n] \in Hook BY <2>2 DEF Hook
  <2>4. [pc |-> "load", hook |-> h, plan |-> {}, left |-> {},
         ent |-> [state |-> "here", active |-> on, retry |-> n]] \in Request
    BY <2>3 DEF Request, Plans
  <2>. QED BY <1>3, <2>1, <2>4 DEF Update
<1>4. ASSUME NEW q \in Requests, NEW S \in SUBSET Hooks, Enqueueing(q, S)
      PROVE  hooks' \in [Hooks -> Hook] /\ api' \in [Requests -> Request]
  <2>1. {Found(h) : h \in S} \in SUBSET [hook : Hooks, retry : 0..10]
    <3>1. \A h \in Hooks : hooks[h] \in Hook OBVIOUS
    <3>. QED BY <3>1 DEF Found, Hook
  <2>. DEFINE L == {Found(h) : h \in S}
             R == [pc |-> "enqueue", hook |-> Nil, ent |-> NoHook, plan |-> {}, left |-> L]
  <2>2. NoHook \in Hook /\ {} \in Plans BY DEF NoHook, Hook, Plans
  <2>3. api' = [api EXCEPT ![q] = R] BY <1>4 DEF Enqueueing
  <2>. HIDE DEF L
  <2>4. R \in Request BY <2>1, <2>2 DEF Request, L
  <2>. QED BY <1>4, <2>3, <2>4 DEF Enqueueing
<1>5. ASSUME NEW q \in Requests, ApiLoad(q)
      PROVE  hooks' \in [Hooks -> Hook] /\ api' \in [Requests -> Request]
  <2>1. api[q] \in Request OBVIOUS
  <2>2. SavePlan(api[q].hook, api[q].ent) \in Plans BY DEF SavePlan, Plans, Columns
  <2>3. [api[q] EXCEPT !.pc = "write", !.plan = SavePlan(api[q].hook, api[q].ent)] \in Request
    BY <2>1, <2>2 DEF Request
  <2>. QED BY <1>5, <2>3 DEF ApiLoad
<1>6. ASSUME NEW q \in Requests, ApiWrite(q)
      PROVE  hooks' \in [Hooks -> Hook] /\ api' \in [Requests -> Request]
  <2>1. api[q] \in Request OBVIOUS
  <2>2. api[q].hook \in Hooks =>
          Saved(api[q].hook, api[q].ent, api[q].plan) \in Hook
    BY <2>1, SaveTypes DEF Request
  <2>3. hooks' \in [Hooks -> Hook]
    <3>1. CASE api[q].hook \in Hooks BY <1>6, <2>2, <3>1 DEF ApiWrite
    <3>2. CASE api[q].hook \notin Hooks
      <4>1. hooks' = hooks BY <1>6, <3>2 DEF ApiWrite
      <4>. QED BY <4>1
    <3>. QED BY <3>1, <3>2
  <2>. QED BY <1>6, <2>3, IdleTypes DEF ApiWrite
<1>7. ASSUME NEW q \in Requests, ApiFails(q)
      PROVE  hooks' \in [Hooks -> Hook] /\ api' \in [Requests -> Request]
  BY <1>7, IdleTypes DEF ApiFails
<1>8. ASSUME NEW q \in Requests, Dispatch(q)
      PROVE  \E S \in SUBSET Hooks : Enqueueing(q, S)
  BY <1>8 DEF Dispatch
<1>9. ASSUME NEW q \in Requests, NEW h \in Hooks, Test(q, h)
      PROVE  \E S \in SUBSET Hooks : Enqueueing(q, S)
  BY <1>9 DEF Test
<1>. QED BY <1>1, <1>2, <1>3, <1>4, <1>5, <1>6, <1>7, <1>8, <1>9 DEF RegistryStep

\* A row that the worker writes is a row.
LEMMA DeliveryType ==
  ASSUME TypeOK, JobsInv, pc \in {"ok", "bad"}, NEW s \in {"success", "failed"}
  PROVE  Delivery(job, s) \in Row
<1>1. job \in Jobs /\ jobs[job].state = "active" BY DEF JobsInv
<1>2. jobs[job].made < info[job].attempts /\ info[job].attempts \in 2..11
  BY <1>1 DEF JobsInv, Live
<1>3. jobs[job].made \in 0..11 BY <1>1 DEF TypeOK, Job
<1>. QED BY <1>2, <1>3 DEF Delivery, Attempt, Row

\* Every step of the registry, the worker and the queue keeps the types.
LEMMA TypeStep ==
  ASSUME TypeOK, JobsInv, [Next]_vars
  PROVE  TypeOK'
<1>. USE DEF TypeOK
<1>1. CASE RegistryStep
  BY <1>1, RegistryFrame, RegistryTypes
<1>2. ASSUME NEW q \in Requests, ApiEnqueue(q)
      PROVE  TypeOK'
  <2>1. api[q] \in Request OBVIOUS
  <2>2. PICK f \in api[q].left, j \in Jobs :
          /\ jobs' = [jobs EXCEPT ![j] = Added(FALSE)]
          /\ info' = [info EXCEPT ![j] =
               [hook |-> f.hook, attempts |-> AttemptsFor(f.retry), delay |-> 0]]
          /\ api' = [api EXCEPT ![q] =
               IF api[q].left = {f} THEN Answered ELSE [api[q] EXCEPT !.left = @ \ {f}]]
    BY <1>2 DEF ApiEnqueue
  <2>3. f \in [hook : Hooks, retry : 0..10] BY <2>1 DEF Request
  <2>4. AttemptsFor(f.retry) \in 0..11 BY <2>3 DEF AttemptsFor
  <2>5. jobs' \in [Jobs -> Job(11)]
    <3>1. Added(FALSE) \in Job(11) BY DEF Added, Job, JobStates, MaxStalls
    <3>. QED BY <2>2, <3>1
  <2>6. [api[q] EXCEPT !.left = @ \ {f}] \in Request BY <2>1 DEF Request
  <2>7. api' \in [Requests -> Request] BY <2>2, <2>6, IdleTypes
  <2>8. info' \in [Jobs -> Info]
    BY <2>2, <2>3, <2>4 DEF Info
  <2>. QED BY <1>2, <2>5, <2>7, <2>8 DEF ApiEnqueue
<1>3. ASSUME NEW j \in Jobs, Take(j)
      PROVE  TypeOK'
  <2>1. Taken(jobs[j]) \in Job(11) BY JobTypes
  <2>. QED BY <1>3, <2>1 DEF Take
<1>4. CASE LoadWebhook
  BY <1>4 DEF LoadWebhook
<1>5. CASE PostOk \/ PostFails
  <2>1. job \in Jobs BY <1>5 DEF PostOk, PostFails, JobsInv
  <2>2. received[job] + 1 \in Nat BY <2>1
  <2>3. received' \in [Jobs -> Nat] BY <1>5, <2>2 DEF PostOk, PostFails
  <2>. QED BY <1>5, <2>3 DEF PostOk, PostFails
<1>6. CASE RecordSuccess
  <2>1. Delivery(job, "success") \in Row /\ job \in Jobs
    BY <1>6, DeliveryType DEF RecordSuccess, JobsInv
  <2>2. Append(rows[job], Delivery(job, "success")) \in Seq(Row) BY <2>1
  <2>. QED BY <1>6, <2>2 DEF RecordSuccess
<1>7. CASE RecordThrows
  BY <1>7 DEF RecordThrows
<1>8. CASE RecordFailed
  <2>1. Delivery(job, "failed") \in Row /\ job \in Jobs
    BY <1>8, DeliveryType DEF RecordFailed, JobsInv
  <2>2. Append(rows[job], Delivery(job, "failed")) \in Seq(Row) BY <2>1
  <2>. QED BY <1>8, <2>2 DEF RecordFailed
<1>9. CASE Return
  <2>1. job \in Jobs BY <1>9 DEF Return, JobsInv
  <2>2. Completed(jobs[job]) \in Job(11) BY <2>1, JobTypes
  <2>. QED BY <1>9, <2>2 DEF Return
<1>10. CASE Throw
  <2>1. job \in Jobs /\ jobs[job].state = "active" BY <1>10 DEF Throw, JobsInv
  <2>2. jobs[job].made < info[job].attempts /\ info[job].attempts \in 0..11
    BY <2>1 DEF JobsInv, Live
  <2>. DEFINE d == Backoff(jobs[job].made + 1)
  <2>3. Retried(jobs[job], info[job].attempts, d) \in Job(11) BY <2>1, <2>2, RetriedJob
  <2>4. d \in {0, 30, 300} BY DEF Backoff
  <2>5. jobs' = [jobs EXCEPT ![job] = Retried(@, info[job].attempts, d)]
        /\ info' = [info EXCEPT ![job] = [@ EXCEPT !.delay = d]]
    BY <1>10 DEF Throw
  <2>6. jobs' \in [Jobs -> Job(11)] BY <2>3, <2>5
  <2>. HIDE DEF d
  <2>7. info' \in [Jobs -> Info]
    <3>1. info[job] \in Info BY <2>1
    <3>2. [info[job] EXCEPT !.delay = d] \in Info BY <2>4, <3>1 DEF Info
    <3>. QED BY <2>1, <2>5, <3>2
  <2>. QED BY <1>10, <2>6, <2>7 DEF Throw
<1>11. ASSUME NEW j \in Jobs, Promote(j) \/ RecoverStalled(j)
       PROVE  TypeOK'
  <2>1. Promoted(jobs[j]) \in Job(11) /\ Stalled(jobs[j]) \in Job(11) BY JobTypes
  <2>. QED BY <1>11, <2>1 DEF Promote, RecoverStalled
<1>12. CASE Crash
  <2>1. crashes' \in 0..MaxCrashes BY <1>12, HookCrashAssumption DEF Crash
  <2>2. api' \in [Requests -> Request] BY <1>12, IdleTypes DEF Crash
  <2>. QED BY <1>12, <2>1, <2>2 DEF Crash
<1>13. CASE UNCHANGED vars
  BY <1>13 DEF vars
<1>. QED BY <1>1, <1>2, <1>3, <1>4, <1>5, <1>6, <1>7, <1>8, <1>9, <1>10, <1>11, <1>12, <1>13
            DEF Next, ApiStep, WorkerStep, RegistryStep
-----------------------------------------------------------------------------
(* The worker's job is active, and a live job has attempts left.            *)

LEMMA JobsStep ==
  ASSUME TypeOK, JobsInv, [Next]_vars
  PROVE  JobsInv'
<1>. USE DEF TypeOK, JobsInv
<1>1. CASE RegistryStep
  BY <1>1, RegistryFrame DEF Live
<1>2. ASSUME NEW q \in Requests, ApiEnqueue(q)
      PROVE  JobsInv'
  <2>1. PICK f \in api[q].left, j \in Jobs :
          /\ jobs[j] = NoJob
          /\ jobs' = [jobs EXCEPT ![j] = Added(FALSE)]
          /\ info' = [info EXCEPT ![j] =
               [hook |-> f.hook, attempts |-> AttemptsFor(f.retry), delay |-> 0]]
    BY <1>2 DEF ApiEnqueue
  <2>2. f \in [hook : Hooks, retry : 0..10]
    <3>1. api[q] \in Request OBVIOUS
    <3>. QED BY <3>1 DEF Request
  <2>3. AttemptsFor(f.retry) \in 2..11 BY <2>2, SMTT(30) DEF AttemptsFor
  <2>4. UNCHANGED <<pc, job, received, rows>> BY <1>2 DEF ApiEnqueue
  <2>5. Added(FALSE).state = "waiting" /\ Added(FALSE).made = 0 BY DEF Added
  <2>6. job # j \/ pc = "idle" BY <2>1 DEF NoJob
  <2>7. info'[j].attempts = AttemptsFor(f.retry) BY <2>1
  <2>8. jobs'[j].state = "waiting" /\ jobs'[j].made = 0 BY <2>1, <2>5
  <2>9. \A k \in Jobs \ {j} : jobs'[k] = jobs[k] /\ info'[k] = info[k] BY <2>1
  <2>10. pc' # "idle" => job' \in Jobs /\ jobs'[job'].state = "active"
    BY <2>4, <2>6, <2>9
  <2>11. ASSUME NEW k \in Jobs
         PROVE  /\ jobs'[k].state # "none" => info'[k].attempts \in 2..11
                /\ Live(jobs'[k]) => jobs'[k].made < info'[k].attempts
                /\ jobs'[k].state = "none" => rows'[k] = <<>> /\ received'[k] = 0
    <3>1. CASE k = j BY <2>3, <2>7, <2>8, <3>1
    <3>2. CASE k # j BY <2>4, <2>9, <3>2
    <3>. QED BY <3>1, <3>2
  <2>12. pc' = "idle" => job' = Nil BY <2>4
  <2>. QED BY <2>10, <2>11, <2>12
<1>3. ASSUME NEW j \in Jobs, Take(j)
      PROVE  JobsInv'
  <2>1. Taken(jobs[j]).state = "active" /\ Taken(jobs[j]).made = jobs[j].made
    BY DEF Taken, Job
  <2>. QED BY <1>3, <2>1, HookNilAssumption DEF Take, Live
<1>4. CASE LoadWebhook \/ PostOk \/ PostFails \/ RecordThrows
  BY <1>4 DEF LoadWebhook, PostOk, PostFails, RecordThrows, Live
<1>5. CASE RecordSuccess \/ RecordFailed
  BY <1>5 DEF RecordSuccess, RecordFailed, Live
<1>6. CASE Return
  <2>1. Completed(jobs[job]).state = "completed" BY <1>6 DEF Return, Completed, Job
  <2>. QED BY <1>6, <2>1 DEF Return, Live
<1>7. CASE Throw
  <2>1. job \in Jobs /\ jobs[job].state = "active" BY <1>7 DEF Throw
  <2>2. jobs[job].made < info[job].attempts /\ info[job].attempts \in 0..11
    BY <2>1 DEF Live
  <2>. DEFINE d == Backoff(jobs[job].made + 1)
              x == Retried(jobs[job], info[job].attempts, d)
  <2>3. /\ x.made = jobs[job].made + 1
        /\ \/ x.state \in {"waiting", "delayed"} /\ jobs[job].made + 1 < info[job].attempts
           \/ x.state = "failed"
    <3>1. jobs[job] \in Job(11) BY <2>1 DEF TypeOK
    <3>. HIDE DEF d, TypeOK, JobsInv
    <3>. QED BY ONLY <2>2, <3>1, RetriedJob
  <2>4. /\ jobs' = [jobs EXCEPT ![job] = x]
        /\ info' = [info EXCEPT ![job] = [@ EXCEPT !.delay = d]]
        /\ pc' = "idle" /\ job' = Nil /\ UNCHANGED <<received, rows>>
    BY <1>7 DEF Throw
  <2>. HIDE DEF d, x
  <2>5. \A j \in Jobs : info'[j].attempts = info[j].attempts
    <3>1. info[job] \in Info BY <2>1
    <3>. QED BY <2>1, <2>4, <3>1 DEF Info
  <2>. QED BY <2>1, <2>3, <2>4, <2>5 DEF Live
<1>8. ASSUME NEW j \in Jobs, Promote(j)
      PROVE  JobsInv'
  <2>1. Promoted(jobs[j]).state = "waiting" /\ Promoted(jobs[j]).made = jobs[j].made
    BY DEF Promoted, Job
  <2>. QED BY <1>8, <2>1 DEF Promote, Live
<1>9. ASSUME NEW j \in Jobs, RecoverStalled(j)
      PROVE  JobsInv'
  <2>1. jobs[j] \in Job(11) /\ jobs[j].state = "active" /\ job # j
    BY <1>9 DEF RecoverStalled
  <2>2. Stalled(jobs[j]).made = jobs[j].made /\ Stalled(jobs[j]).state \in {"waiting", "failed"}
    BY <2>1, StalledJob
  <2>. QED BY <1>9, <2>1, <2>2 DEF RecoverStalled, Live
<1>10. CASE Crash
  BY <1>10 DEF Crash, Live
<1>11. CASE UNCHANGED vars
  BY <1>11 DEF vars, Live
<1>. QED BY <1>1, <1>2, <1>3, <1>4, <1>5, <1>6, <1>7, <1>8, <1>9, <1>10, <1>11
            DEF Next, ApiStep, WorkerStep, RegistryStep

-----------------------------------------------------------------------------
(* The delivery log.                                                        *)

LogInv == RowsInv /\ AttemptsInOrder /\ SuccessIsLast

\* A step that writes no row keeps the log in order as long as no job loses
\* stalls or attempts, and no POST is taken back.
LEMMA LogKept ==
  ASSUME TypeOK, TypeOK', LogInv, UNCHANGED rows,
         \A j \in Jobs : rows[j] # <<>> =>
           /\ jobs[j].stalls > 0 => jobs'[j].stalls > 0
           /\ info'[j].attempts = info[j].attempts
           /\ received'[j] >= received[j]
  PROVE  (AttemptsInOrder /\ SuccessIsLast)'
<1>1. ASSUME NEW j \in Jobs, NEW i \in 1..Len(rows[j]), rows[j] = <<>>
      PROVE  FALSE
  <2>1. Len(rows[j]) = 0 BY <1>1
  <2>. QED BY <1>1, <2>1
<1>2. AttemptsInOrder'
  BY <1>1 DEF LogInv, AttemptsInOrder, TypeOK
<1>3. SuccessIsLast'
  BY <1>1 DEF LogInv, SuccessIsLast, TypeOK
<1>. QED BY <1>2, <1>3

\* A row written for the attempt under way keeps the log in order.
LEMMA LogAppended ==
  ASSUME TypeOK, JobsInv, LogInv, pc \in {"ok", "bad"}, NEW s \in {"success", "failed"},
         s = "success" => pc = "ok",
         rows' = [rows EXCEPT ![job] = Append(@, Delivery(job, s))],
         UNCHANGED <<jobs, info, received, job>>, pc' \in {"return", "throw"},
         pc' = "throw" => s = "failed"
  PROVE  LogInv'
<1>. DEFINE r == rows[job]
            n == Len(r)
            d == Delivery(job, s)
<1>1. job \in Jobs /\ jobs[job].state = "active" /\ jobs[job].made < info[job].attempts
  BY DEF JobsInv, Live
<1>2. d \in Row BY DeliveryType
<1>3. d.attempt = jobs[job].made + 1 /\ d.status = s BY DEF Delivery, Attempt
<1>4. r \in Seq(Row) /\ n \in Nat BY <1>1 DEF TypeOK
<1>5. /\ rows'[job] = Append(r, d)
      /\ \A j \in Jobs : j # job => rows'[j] = rows[j]
  BY <1>1 DEF TypeOK
<1>. HIDE DEF d, r
<1>6. /\ Len(rows'[job]) = n + 1
      /\ rows'[job][n + 1] = d
      /\ \A i \in 1..n : rows'[job][i] = r[i]
  BY <1>2, <1>4, <1>5
<1>. HIDE DEF n
<1>7. jobs[job].made \in 0..11 /\ jobs[job].stalls \in 0..MaxStalls
  BY <1>1 DEF TypeOK, Job
<1>8. \A i \in 1..n :
        /\ r[i] \in Row
        /\ r[i].attempt <= jobs[job].made + 1
        /\ jobs[job].stalls = 0 => r[i].attempt <= jobs[job].made /\ r[i].status = "failed"
  BY <1>1, <1>4 DEF LogInv, RowsInv, Fresh, r, n
<1>12. \A i \in 1..(n + 1) : i = n + 1 \/ i \in 1..n BY <1>4
<1>13. jobs' = jobs /\ info' = info /\ received' = received /\ job' = job OBVIOUS
<1>9. RowsInv'
  <2>1. ASSUME NEW j \in Jobs, NEW i \in 1..Len(rows'[j])
        PROVE  /\ rows'[j][i].attempt <= jobs'[j].made + 1
               /\ jobs'[j].stalls = 0 =>
                    /\ Fresh(j)' => rows'[j][i].attempt <= jobs'[j].made
                    /\ Fresh(j)' \/ (job' = j /\ pc' = "throw") => rows'[j][i].status = "failed"
    <3>1. CASE j = job
      <4>1. ~Fresh(j)' BY <1>1, <3>1 DEF Fresh
      <4>2. CASE i = n + 1
        <5>1. rows'[j][i] = d BY <1>6, <3>1, <4>2
        <5>2. d.attempt <= jobs[j].made + 1 BY <1>3, <1>7, <3>1, SMTT(30)
        <5>. QED BY <1>3, <1>13, <4>1, <5>1, <5>2
      <4>3. CASE i \in 1..n
        <5>1. rows'[j][i] = r[i] BY <1>6, <3>1, <4>3
        <5>2. pc' = "throw" /\ jobs[j].stalls = 0 => r[i].status = "failed"
          BY <1>8, <3>1, <4>3
        <5>3. r[i].attempt <= jobs[j].made + 1 BY <1>8, <3>1, <4>3
        <5>. QED BY <1>13, <4>1, <5>1, <5>2, <5>3
      <4>. QED BY <1>4, <1>6, <3>1, <4>2, <4>3
    <3>2. CASE j # job
      <4>1. rows'[j] = rows[j] BY <1>5, <3>2
      <4>2. Fresh(j)' => Fresh(j) BY <3>2 DEF Fresh
      <4>. QED BY <3>2, <4>1, <4>2 DEF LogInv, RowsInv
    <3>. QED BY <3>1, <3>2
  <2>. QED BY <2>1 DEF RowsInv
<1>10. AttemptsInOrder'
  <2>1. ASSUME NEW j \in Jobs
        PROVE  /\ \A i \in 1..Len(rows'[j]) : rows'[j][i].attempt <= info[j].attempts
               /\ \A i, k \in 1..Len(rows'[j]) :
                    i < k => \/ rows'[j][i].attempt < rows'[j][k].attempt
                             \/ rows'[j][i].attempt = rows'[j][k].attempt /\ jobs[j].stalls > 0
    <3>1. CASE j = job
      <4>1. info[job].attempts \in Nat
        <5>1. info[job] \in Info BY <1>1 DEF TypeOK
        <5>. QED BY <5>1 DEF Info
      <4>4. d.attempt <= info[job].attempts BY <1>1, <1>3, <1>7, <4>1
      <4>2. ASSUME NEW i \in 1..(n + 1)
            PROVE  rows'[job][i].attempt <= info[job].attempts
        <5>1. CASE i = n + 1 BY <1>6, <4>4, <5>1
        <5>2. CASE i \in 1..n
          <6>1. rows'[job][i] = r[i] BY <1>6, <5>2
          <6>2. r[i].attempt <= info[job].attempts
            BY <1>1, <5>2 DEF LogInv, AttemptsInOrder, r, n
          <6>. QED BY <6>1, <6>2
        <5>. QED BY <1>12, <5>1, <5>2
      <4>3. ASSUME NEW i \in 1..(n + 1), NEW k \in 1..(n + 1), i < k
            PROVE  \/ rows'[job][i].attempt < rows'[job][k].attempt
                   \/ rows'[job][i].attempt = rows'[job][k].attempt /\ jobs[job].stalls > 0
        <5>1. i \in 1..n BY <1>4, <4>3
        <5>2. CASE k = n + 1
          <6>1. r[i].attempt \in Nat BY <1>8, <5>1 DEF Row
          <6>2. jobs[job].stalls = 0 \/ jobs[job].stalls > 0 BY <1>7 DEF MaxStalls
          <6>3. \/ r[i].attempt < jobs[job].made + 1
                \/ r[i].attempt = jobs[job].made + 1 /\ jobs[job].stalls > 0
            <7>1. r[i].attempt <= jobs[job].made + 1 BY <1>8, <5>1
            <7>2. CASE jobs[job].stalls = 0
              <8>1. r[i].attempt <= jobs[job].made BY <1>8, <5>1, <7>2
              <8>. QED BY <1>7, <6>1, <8>1, SMTT(30)
            <7>3. CASE jobs[job].stalls > 0
              <8>1. \/ r[i].attempt < jobs[job].made + 1
                    \/ r[i].attempt = jobs[job].made + 1
                BY ONLY <1>7, <6>1, <7>1
              <8>. QED BY ONLY <7>3, <8>1
            <7>. QED BY <6>2, <7>2, <7>3
          <6>. QED BY <1>3, <1>6, <5>1, <5>2, <6>3
        <5>3. CASE k \in 1..n
          <6>1. rows'[job][i] = r[i] /\ rows'[job][k] = r[k] BY <1>6, <5>1, <5>3
          <6>2. \/ r[i].attempt < r[k].attempt
                \/ r[i].attempt = r[k].attempt /\ jobs[job].stalls > 0
            BY <1>1, <4>3, <5>1, <5>3 DEF LogInv, AttemptsInOrder, r, n
          <6>. QED BY <6>1, <6>2
        <5>. QED BY <1>12, <5>2, <5>3
      <4>. QED BY <1>6, <3>1, <4>2, <4>3
    <3>2. CASE j # job
      <4>1. rows'[j] = rows[j] BY <1>5, <3>2
      <4>. DEFINE Ordered(log) ==
                    /\ \A i \in 1..Len(log) : log[i].attempt <= info[j].attempts
                    /\ \A i, k \in 1..Len(log) :
                         i < k => \/ log[i].attempt < log[k].attempt
                                  \/ log[i].attempt = log[k].attempt /\ jobs[j].stalls > 0
      <4>2. Ordered(rows[j]) BY DEF LogInv, AttemptsInOrder
      <4>. HIDE DEF Ordered
      <4>3. Ordered(rows'[j]) BY <4>1, <4>2
      <4>. QED BY <4>3 DEF Ordered
    <3>. QED BY <3>1, <3>2
  <2>. QED BY <1>13, <2>1 DEF AttemptsInOrder
<1>11. SuccessIsLast'
  <2>1. ASSUME NEW j \in Jobs, NEW i \in 1..Len(rows'[j]), rows'[j][i].status = "success"
        PROVE  /\ received'[j] > 0
               /\ i = Len(rows'[j]) \/ jobs'[j].stalls > 0
    <3>1. CASE j = job
      <4>1. CASE i = n + 1 BY <1>3, <1>6, <2>1, <3>1, <4>1 DEF LogInv, RowsInv
      <4>2. CASE i \in 1..n
        <5>1. r[i].status = "success" BY <1>6, <2>1, <3>1, <4>2
        <5>2. received[job] > 0 BY <1>1, <4>2, <5>1 DEF LogInv, SuccessIsLast, r, n
        <5>3. jobs[job].stalls > 0 BY <1>7, <1>8, <4>2, <5>1 DEF MaxStalls
        <5>. QED BY <3>1, <5>2, <5>3
      <4>. QED BY <1>4, <1>6, <3>1, <4>1, <4>2
    <3>2. CASE j # job
      <4>1. rows'[j] = rows[j] BY <1>5, <3>2
      <4>. QED BY <2>1, <4>1 DEF LogInv, SuccessIsLast
    <3>. QED BY <3>1, <3>2
  <2>. QED BY <2>1 DEF SuccessIsLast
<1>. QED BY <1>9, <1>10, <1>11 DEF LogInv

\* The log after every step.
LEMMA LogStep ==
  ASSUME TypeOK, TypeOK', JobsInv, LogInv, [Next]_vars
  PROVE  LogInv'
<1>. USE DEF TypeOK
<1>1. CASE RegistryStep
  <2>1. (AttemptsInOrder /\ SuccessIsLast)' BY <1>1, RegistryFrame, LogKept, SMTT(30)
  <2>2. RowsInv' BY <1>1, RegistryFrame DEF LogInv, RowsInv, Fresh
  <2>. QED BY <2>1, <2>2 DEF LogInv
<1>2. ASSUME NEW q \in Requests, ApiEnqueue(q)
      PROVE  LogInv'
  <2>1. PICK j \in Jobs :
          /\ jobs[j] = NoJob
          /\ jobs' = [jobs EXCEPT ![j] = Added(FALSE)]
          /\ \A k \in Jobs \ {j} : info'[k] = info[k]
    BY <1>2 DEF ApiEnqueue
  <2>2. UNCHANGED <<pc, job, received, rows>> BY <1>2 DEF ApiEnqueue
  <2>3. rows[j] = <<>> BY <2>1 DEF JobsInv, NoJob
  <2>4. (AttemptsInOrder /\ SuccessIsLast)'
    <3>1. \A k \in Jobs \ {j} : jobs'[k] = jobs[k] BY <2>1
    <3>2. \A k \in Jobs : received[k] \in Nat OBVIOUS
    <3>. HIDE DEF TypeOK
    <3>3. \A k \in Jobs : rows[k] # <<>> =>
            /\ jobs[k].stalls > 0 => jobs'[k].stalls > 0
            /\ info'[k].attempts = info[k].attempts
            /\ received'[k] >= received[k]
      <4>1. ASSUME NEW k \in Jobs, rows[k] # <<>>
            PROVE  jobs'[k] = jobs[k] /\ info'[k] = info[k]
        BY <2>1, <2>3, <3>1, <4>1
      <4>2. \A k \in Jobs : received'[k] = received[k] /\ received[k] >= received[k]
        BY <2>2, <3>2
      <4>. QED BY <4>1, <4>2
    <3>. QED BY <2>2, <3>3, LogKept
  <2>5. RowsInv'
    <3>1. \A k \in Jobs : k # j => jobs'[k] = jobs[k] BY <2>1
    <3>2. Len(rows[j]) = 0 BY <2>3
    <3>3. \A k \in Jobs : \A i \in 1..Len(rows[k]) : k # j BY <3>2
    <3>. QED BY <2>2, <3>1, <3>3 DEF LogInv, RowsInv, Fresh
  <2>. QED BY <2>4, <2>5 DEF LogInv
<1>3. ASSUME NEW j \in Jobs, Take(j)
      PROVE  LogInv'
  <2>1. /\ Taken(jobs[j]).state = "active" /\ Taken(jobs[j]).made = jobs[j].made
        /\ Taken(jobs[j]).stalls = jobs[j].stalls
    BY DEF Taken, Job
  <2>2. jobs' = [jobs EXCEPT ![j] = Taken(@)] /\ UNCHANGED <<info, received, rows>>
    BY <1>3 DEF Take
  <2>3. (AttemptsInOrder /\ SuccessIsLast)' BY <2>1, <2>2, LogKept, SMTT(30)
  <2>4. RowsInv' BY <1>3, <2>1, <2>2, HookNilAssumption DEF Take, LogInv, RowsInv, Fresh
  <2>. QED BY <2>3, <2>4 DEF LogInv
<1>4. CASE LoadWebhook \/ RecordThrows
  <2>1. UNCHANGED <<jobs, info, received, rows, job>> BY <1>4 DEF LoadWebhook, RecordThrows
  <2>2. (AttemptsInOrder /\ SuccessIsLast)' BY <2>1, LogKept, SMTT(30)
  <2>3. RowsInv' BY <1>4, <2>1 DEF LoadWebhook, RecordThrows, LogInv, RowsInv, Fresh
  <2>. QED BY <2>2, <2>3 DEF LogInv
<1>5. CASE PostOk \/ PostFails
  <2>1. job \in Jobs BY <1>5 DEF PostOk, PostFails, JobsInv
  <2>2. UNCHANGED <<jobs, info, rows, job>> BY <1>5 DEF PostOk, PostFails
  <2>3. \A j \in Jobs : received[j] \in Nat /\ received'[j] >= received[j]
    <3>1. \A j \in Jobs : received[j] \in Nat OBVIOUS
    <3>2. CASE UNCHANGED received BY <3>1, <3>2
    <3>3. CASE received' = [received EXCEPT ![job] = @ + 1] BY <2>1, <3>1, <3>3
    <3>. QED BY <1>5, <3>2, <3>3 DEF PostOk, PostFails
  <2>4. pc' = "ok" => received'[job] > 0 BY <1>5, <2>1, <2>3 DEF PostOk, PostFails
  <2>5. (AttemptsInOrder /\ SuccessIsLast)' BY <2>2, <2>3, LogKept, SMTT(30)
  <2>6. RowsInv' BY <1>5, <2>2, <2>4 DEF PostOk, PostFails, LogInv, RowsInv, Fresh
  <2>. QED BY <2>5, <2>6 DEF LogInv
<1>6. CASE RecordSuccess
  BY <1>6, LogAppended DEF RecordSuccess
<1>7. CASE RecordFailed
  BY <1>7, LogAppended DEF RecordFailed
<1>8. CASE Return
  <2>1. job \in Jobs BY <1>8 DEF Return, JobsInv
  <2>2. /\ Completed(jobs[job]).state = "completed"
        /\ Completed(jobs[job]).made = jobs[job].made
        /\ Completed(jobs[job]).stalls = jobs[job].stalls
    BY <2>1 DEF Completed, Job
  <2>3. jobs' = [jobs EXCEPT ![job] = Completed(@)] /\ UNCHANGED <<info, received, rows>>
    BY <1>8 DEF Return
  <2>4. (AttemptsInOrder /\ SuccessIsLast)' BY <2>1, <2>2, <2>3, LogKept, SMTT(30)
  <2>5. RowsInv' BY <1>8, <2>1, <2>2, <2>3, HookNilAssumption
    DEF Return, LogInv, RowsInv, Fresh
  <2>. QED BY <2>4, <2>5 DEF LogInv
<1>9. CASE Throw
  <2>1. job \in Jobs /\ jobs[job].state = "active" BY <1>9 DEF Throw, JobsInv
  <2>2. jobs[job].made < info[job].attempts /\ info[job].attempts \in 0..11
    BY <2>1 DEF JobsInv, Live, Info
  <2>. DEFINE dl == Backoff(jobs[job].made + 1)
              x  == Retried(jobs[job], info[job].attempts, dl)
  <2>3. x.made = jobs[job].made + 1 /\ x.stalls = jobs[job].stalls
    <3>1. jobs[job] \in Job(11) BY <2>1
    <3>. HIDE DEF TypeOK
    <3>. QED BY <2>2, <3>1, RetriedJob
  <2>4. /\ jobs' = [jobs EXCEPT ![job] = x]
        /\ info' = [info EXCEPT ![job] = [@ EXCEPT !.delay = dl]]
        /\ pc' = "idle" /\ job' = Nil /\ UNCHANGED <<received, rows>>
    BY <1>9 DEF Throw
  <2>5. Fresh(job) \/ pc = "throw" BY <1>9 DEF Throw, Fresh
  <2>. HIDE DEF dl, x
  <2>6. \A j \in Jobs : info'[j].attempts = info[j].attempts
    <3>1. info[job] \in Info BY <2>1
    <3>. QED BY <2>1, <2>4, <3>1 DEF Info
  <2>7. (AttemptsInOrder /\ SuccessIsLast)' BY <2>1, <2>3, <2>4, <2>6, LogKept, SMTT(30)
  <2>8. RowsInv'
    <3>1. ASSUME NEW j \in Jobs, NEW i \in 1..Len(rows[j])
          PROVE  /\ rows[j][i].attempt <= jobs'[j].made + 1
                 /\ jobs'[j].stalls = 0 =>
                      /\ Fresh(j)' => rows[j][i].attempt <= jobs'[j].made
                      /\ Fresh(j)' => rows[j][i].status = "failed"
      <4>1. CASE j = job
        <5>1. jobs[j].made \in 0..11 BY <2>1, <4>1 DEF Job
        <5>2. rows[j] \in Seq(Row) OBVIOUS
        <5>3. rows[j][i].attempt \in Nat
          <6>. HIDE DEF TypeOK
          <6>1. rows[j][i] \in Row BY <5>2
          <6>. QED BY <6>1, RowAttempt
        <5>4. /\ rows[j][i].attempt <= jobs[j].made + 1
              /\ jobs[j].stalls = 0 => rows[j][i].status = "failed"
          BY <2>1, <2>5, <4>1 DEF LogInv, RowsInv
        <5>5. jobs'[j].made = jobs[j].made + 1 /\ jobs'[j].stalls = jobs[j].stalls
          BY <2>1, <2>3, <2>4, <4>1
        <5>6. rows[j][i].attempt <= jobs[j].made + 1 + 1
          <6>1. \A a, b \in Nat : a <= b + 1 => a <= b + 1 + 1 OBVIOUS
          <6>. HIDE DEF TypeOK
          <6>2. 0..11 \subseteq Nat OBVIOUS
          <6>3. jobs[j].made \in Nat BY <5>1, <6>2
          <6>. QED BY <5>3, <5>4, <6>1, <6>3
        <5>. QED BY <5>4, <5>5, <5>6
      <4>2. CASE j # job
        <5>1. Fresh(j)' => Fresh(j) BY <2>4, <4>2, HookNilAssumption DEF Fresh
        <5>. QED BY <2>4, <4>2, <5>1 DEF LogInv, RowsInv
      <4>. QED BY <4>1, <4>2
    <3>. QED BY <2>4, <3>1, HookNilAssumption DEF RowsInv
  <2>. QED BY <2>7, <2>8 DEF LogInv
<1>10. ASSUME NEW j \in Jobs, Promote(j)
       PROVE  LogInv'
  <2>1. /\ Promoted(jobs[j]).state = "waiting" /\ Promoted(jobs[j]).made = jobs[j].made
        /\ Promoted(jobs[j]).stalls = jobs[j].stalls
    BY DEF Promoted, Job
  <2>2. jobs[j].state = "delayed" /\ jobs' = [jobs EXCEPT ![j] = Promoted(@)]
        /\ UNCHANGED <<info, received, rows, pc, job>>
    BY <1>10 DEF Promote
  <2>3. (AttemptsInOrder /\ SuccessIsLast)' BY <2>1, <2>2, LogKept, SMTT(30)
  <2>4. RowsInv' BY <2>1, <2>2 DEF LogInv, RowsInv, Fresh
  <2>. QED BY <2>3, <2>4 DEF LogInv
<1>11. ASSUME NEW j \in Jobs, RecoverStalled(j)
       PROVE  LogInv'
  <2>1. /\ jobs[j] \in Job(11) /\ jobs[j].state = "active" /\ job # j
        /\ jobs' = [jobs EXCEPT ![j] = Stalled(@)]
        /\ UNCHANGED <<info, received, rows, pc, job>>
    BY <1>11 DEF RecoverStalled
  <2>2. /\ Stalled(jobs[j]).made = jobs[j].made
        /\ \/ Stalled(jobs[j]).state = "waiting" /\ Stalled(jobs[j]).stalls > 0
           \/ Stalled(jobs[j]).state = "failed" /\ Stalled(jobs[j]).stalls = jobs[j].stalls
    BY <2>1, StalledJob
  <2>3. (AttemptsInOrder /\ SuccessIsLast)' BY <2>1, <2>2, LogKept, SMTT(30)
  <2>4. RowsInv' BY <2>1, <2>2 DEF LogInv, RowsInv, Fresh
  <2>. QED BY <2>3, <2>4 DEF LogInv
<1>12. CASE Crash
  <2>1. UNCHANGED <<jobs, info, received, rows>> BY <1>12 DEF Crash
  <2>2. (AttemptsInOrder /\ SuccessIsLast)' BY <2>1, LogKept, SMTT(30)
  <2>3. RowsInv' BY <1>12, <2>1, HookNilAssumption DEF Crash, LogInv, RowsInv, Fresh
  <2>. QED BY <2>2, <2>3 DEF LogInv
<1>13. CASE UNCHANGED vars
  BY <1>13, LogKept DEF vars, LogInv, RowsInv, Fresh
<1>. QED BY <1>1, <1>2, <1>3, <1>4, <1>5, <1>6, <1>7, <1>8, <1>9, <1>10, <1>11, <1>12, <1>13
            DEF Next, ApiStep, WorkerStep, RegistryStep

-----------------------------------------------------------------------------
(* The theorems.                                                            *)

\* The invariant holds in every reachable state, whatever the sizes.
THEOREM Inductive == Spec => []IInv
<1>1. Init => IInv
  <2>. SUFFICES ASSUME Init PROVE IInv OBVIOUS
  <2>. USE DEF Init
  <2>1. TypeOK
    <3>1. NoHook \in Hook BY DEF NoHook, Hook
    <3>2. NoJob \in Job(11) BY DEF NoJob, Job, JobStates, MaxStalls
    <3>3. NoInfo \in Info BY DEF NoInfo, Info
    <3>4. crashes \in 0..MaxCrashes BY HookCrashAssumption
    <3>. QED BY <3>1, <3>2, <3>3, <3>4, IdleTypes DEF TypeOK
  <2>2. JobsInv BY DEF JobsInv, NoJob, Live
  <2>3. LogInv BY DEF LogInv, RowsInv, AttemptsInOrder, SuccessIsLast
  <2>. QED BY <2>1, <2>2, <2>3 DEF IInv, LogInv
<1>2. IInv /\ [Next]_vars => IInv'
  <2>. SUFFICES ASSUME IInv, [Next]_vars PROVE IInv' OBVIOUS
  <2>1. TypeOK' BY TypeStep DEF IInv
  <2>2. JobsInv' BY JobsStep DEF IInv
  <2>3. LogInv' BY <2>1, LogStep DEF IInv, LogInv
  <2>. QED BY <2>1, <2>2, <2>3 DEF IInv, LogInv
<1>. QED BY <1>1, <1>2, PTL DEF Spec

\* Every variable keeps its type in every reachable state.
THEOREM TypeCorrect == Spec => []TypeOK
<1>1. IInv => TypeOK BY DEF IInv
<1>. QED BY <1>1, Inductive, PTL

\* webhook_deliveries numbers attempts in order, within those configured,
\* and repeats a number only after a stall.
THEOREM LogInOrder == Spec => []AttemptsInOrder
<1>1. IInv => AttemptsInOrder BY DEF IInv
<1>. QED BY <1>1, Inductive, PTL

\* A recorded success is real and ends the delivery, but for a stall.
THEOREM SuccessFinal == Spec => []SuccessIsLast
<1>1. IInv => SuccessIsLast BY DEF IInv
<1>. QED BY <1>1, Inductive, PTL

\* process() resolves only with a success recorded, or the webhook off.
THEOREM NothingLost == Spec => NoSilentLoss
<1>1. IInv /\ [Next]_vars =>
        [pc # "return" /\ pc' = "return" => Succeeded(job)' \/ ~On(info[job].hook)]_vars
  <2>. SUFFICES ASSUME IInv, Next, pc # "return", pc' = "return"
                PROVE  Succeeded(job)' \/ ~On(info[job].hook)
    OBVIOUS
  <2>1. CASE RegistryStep BY <2>1, RegistryFrame
  <2>2. CASE LoadWebhook BY <2>2 DEF LoadWebhook
  <2>3. CASE RecordSuccess
    <3>1. job \in Jobs /\ rows[job] \in Seq(Row)
      BY <2>3 DEF RecordSuccess, IInv, JobsInv, TypeOK
    <3>2. Delivery(job, "success") \in Row BY <2>3, DeliveryType DEF RecordSuccess, IInv
    <3>3. Delivery(job, "success").status = "success" BY DEF Delivery
    <3>4. job' = job /\ rows'[job] = Append(rows[job], Delivery(job, "success"))
      BY <2>3, <3>1 DEF RecordSuccess, IInv, TypeOK
    <3>5. /\ Len(rows'[job]) = Len(rows[job]) + 1
          /\ rows'[job][Len(rows[job]) + 1] = Delivery(job, "success")
      BY <3>1, <3>2, <3>4
    <3>6. Len(rows[job]) + 1 \in 1..Len(rows'[job]) BY <3>1, <3>5
    <3>. QED BY <3>3, <3>4, <3>5, <3>6 DEF Succeeded
  <2>4. CASE PostOk \/ PostFails \/ RecordThrows \/ RecordFailed \/ Return \/ Throw \/ Crash
    BY <2>4 DEF PostOk, PostFails, RecordThrows, RecordFailed, Return, Throw, Crash
  <2>5. ASSUME NEW j \in Jobs, Take(j) \/ Promote(j) \/ RecoverStalled(j)
        PROVE  FALSE
    BY <2>5 DEF Take, Promote, RecoverStalled
  <2>6. ASSUME NEW q \in Requests, ApiEnqueue(q)
        PROVE  FALSE
    BY <2>6 DEF ApiEnqueue
  <2>. QED BY <2>1, <2>2, <2>3, <2>4, <2>5, <2>6 DEF Next, ApiStep, WorkerStep, RegistryStep
<1>. QED BY <1>1, Inductive, PTL DEF Spec, NoSilentLoss

-----------------------------------------------------------------------------
(* Webhooks implements Outbox.                                              *)

\* What Outcome says of each state of a job.
LEMMA OutcomeCases ==
  ASSUME NEW j \in Jobs
  PROVE  /\ jobs[j].state = "none" => Outcome(j) = "none"
         /\ Live(jobs[j]) => Outcome(j) = "pending"
         /\ jobs[j].state = "failed" => Outcome(j) = "failed"
         /\ jobs[j].state = "completed" =>
              Outcome(j) = IF Succeeded(j) THEN "delivered" ELSE "dropped"
BY DEF Outcome, Live

\* A step that changes neither the state of a job nor a settled job's rows
\* does not change what became of it.
LEMMA OutcomeKept ==
  \A j \in Jobs :
    /\ jobs'[j].state = jobs[j].state \/ (Live(jobs[j]) /\ Live(jobs'[j]))
    /\ rows'[j] = rows[j] \/ (Live(jobs[j]) /\ Live(jobs'[j]))
    => Outcome(j)' = Outcome(j)
BY DEF Outcome, Live, Succeeded

\* The state of the outbox that the queue and the log amount to.
Outcomes == [j \in Jobs |-> Outcome(j)]

\* The job that a step moves goes through the outbox, the others stay.
LEMMA OneOutcome ==
  ASSUME NEW j \in Jobs, \A k \in Jobs \ {j} : Outcome(k)' = Outcome(k)
  PROVE  Outcomes' = [Outcomes EXCEPT ![j] = Outcome(j)']
BY DEF Outcomes

\* Each event enqueued is settled once, called delivered only if the
\* subscriber took it in, and never posted after it is settled.
THEOREM KeepsOutbox == Spec => OutboxKept
<1>. DEFINE Same == UNCHANGED <<Outcomes, received, received>>
<1>1. Init => Box!OutboxInit
  <2>. SUFFICES ASSUME Init PROVE Box!OutboxInit OBVIOUS
  <2>1. \A j \in Jobs : Outcome(j) = "none"
    <3>1. \A j \in Jobs : jobs[j].state = "none" BY DEF Init, NoJob
    <3>. QED BY <3>1, OutcomeCases
  <2>. QED BY <2>1 DEF Init, Box!OutboxInit
<1>2. IInv /\ [Next]_vars => [Box!OutboxNext]_<<Outcomes, received, received>>
  <2>. SUFFICES ASSUME IInv, [Next]_vars
                PROVE  Box!OutboxNext \/ Same
    OBVIOUS
  <2>. USE DEF IInv, TypeOK
  <2>1. ASSUME \A j \in Jobs : Outcome(j)' = Outcome(j), UNCHANGED received
        PROVE  Same
    BY <2>1 DEF Outcomes
  <2>2. ASSUME NEW j \in Jobs, \A k \in Jobs \ {j} : Outcome(k)' = Outcome(k),
               UNCHANGED received, Outcome(j) = "pending",
               Outcome(j)' \in {"delivered", "dropped", "failed"},
               Outcome(j)' = "delivered" => received[j] > 0
        PROVE  Box!OutboxNext
    <3>1. Outcomes' = [Outcomes EXCEPT ![j] = Outcome(j)'] BY <2>2, OneOutcome
    <3>2. Outcomes[j] = "pending" BY <2>2 DEF Outcomes
    <3>3. Box!Settle(j, Outcome(j)') BY <2>2, <3>1, <3>2 DEF Box!Settle, Outcomes
    <3>. QED BY <2>2, <3>3 DEF Box!OutboxNext
  <2>3. CASE RegistryStep
    <3>1. UNCHANGED <<jobs, received, rows>> BY <2>3, RegistryFrame
    <3>2. \A j \in Jobs : Outcome(j)' = Outcome(j) BY <3>1, OutcomeKept
    <3>. QED BY <2>1, <3>1, <3>2
  <2>4. ASSUME NEW q \in Requests, ApiEnqueue(q)
        PROVE  Box!OutboxNext
    <3>1. PICK j \in Jobs : jobs[j] = NoJob /\ jobs' = [jobs EXCEPT ![j] = Added(FALSE)]
      BY <2>4 DEF ApiEnqueue
    <3>2. UNCHANGED <<received, rows>> BY <2>4 DEF ApiEnqueue
    <3>3. \A k \in Jobs \ {j} : Outcome(k)' = Outcome(k) BY <3>1, <3>2, OutcomeKept
    <3>4. Outcome(j) = "none" BY <3>1, OutcomeCases DEF NoJob
    <3>5. jobs'[j].state = "waiting" BY <3>1 DEF Added
    <3>6. Outcome(j)' = "pending" BY <3>5 DEF Outcome, Live
    <3>7. Outcomes' = [Outcomes EXCEPT ![j] = "pending"] BY <3>3, <3>6, OneOutcome
    <3>8. Box!Accept(j) BY <3>2, <3>4, <3>7 DEF Box!Accept, Outcomes
    <3>. QED BY <3>8 DEF Box!OutboxNext
  <2>5. ASSUME NEW j \in Jobs, Take(j) \/ Promote(j)
        PROVE  Same
    <3>1. jobs[j].state \in {"waiting", "delayed"} /\ UNCHANGED <<received, rows>>
      BY <2>5 DEF Take, Promote
    <3>2. jobs[j] \in Job(11) OBVIOUS
    <3>3. jobs'[j].state \in {"waiting", "active"}
      BY <2>5, <3>2 DEF Take, Promote, Taken, Promoted, Job
    <3>4. \A k \in Jobs \ {j} : jobs'[k] = jobs[k] BY <2>5 DEF Take, Promote
    <3>5. \A k \in Jobs : Outcome(k)' = Outcome(k)
      BY <3>1, <3>3, <3>4, OutcomeKept DEF Live
    <3>. QED BY <2>1, <3>1, <3>5
  <2>6. CASE LoadWebhook \/ RecordThrows \/ Crash \/ UNCHANGED vars
    <3>1. UNCHANGED <<jobs, received, rows>>
      BY <2>6 DEF LoadWebhook, RecordThrows, Crash, vars
    <3>2. \A j \in Jobs : Outcome(j)' = Outcome(j) BY <3>1, OutcomeKept
    <3>. QED BY <2>1, <3>1, <3>2
  <2>7. CASE PostOk \/ PostFails
    <3>1. job \in Jobs /\ Live(jobs[job]) BY <2>7 DEF PostOk, PostFails, JobsInv, Live
    <3>2. UNCHANGED <<jobs, rows>> BY <2>7 DEF PostOk, PostFails
    <3>3. \A j \in Jobs : Outcome(j)' = Outcome(j) BY <3>2, OutcomeKept
    <3>4. Outcomes' = Outcomes BY <3>3 DEF Outcomes
    <3>5. Outcomes[job] = "pending" BY <3>1, OutcomeCases DEF Outcomes
    <3>6. CASE UNCHANGED received BY <3>4, <3>6
    <3>7. CASE received' = [received EXCEPT ![job] = @ + 1]
      <4>1. Box!Request(job) BY <3>4, <3>5, <3>7 DEF Box!Request, Outcomes
      <4>. QED BY <3>1, <4>1 DEF Box!OutboxNext
    <3>. QED BY <2>7, <3>6, <3>7 DEF PostOk, PostFails
  <2>8. CASE RecordSuccess \/ RecordFailed
    <3>1. job \in Jobs /\ Live(jobs[job])
      BY <2>8 DEF RecordSuccess, RecordFailed, JobsInv, Live
    <3>2. UNCHANGED <<jobs, received>> /\ \A k \in Jobs \ {job} : rows'[k] = rows[k]
      BY <2>8 DEF RecordSuccess, RecordFailed
    <3>3. \A k \in Jobs : Outcome(k)' = Outcome(k) BY <3>1, <3>2, OutcomeKept
    <3>. QED BY <2>1, <3>2, <3>3
  <2>9. CASE Return
    <3>1. PICK j \in Jobs : j = job /\ jobs[j].state = "active" BY <2>9 DEF Return, JobsInv
    <3>2. jobs' = [jobs EXCEPT ![j] = Completed(@)] /\ UNCHANGED <<received, rows>>
      BY <2>9, <3>1 DEF Return
    <3>3. jobs'[j].state = "completed"
      <4>1. jobs[j] \in Job(11) OBVIOUS
      <4>. QED BY <3>2, <4>1 DEF Completed, Job
    <3>4. \A k \in Jobs \ {j} : Outcome(k)' = Outcome(k) BY <3>2, OutcomeKept
    <3>5. Outcome(j) = "pending" BY <3>1, OutcomeCases DEF Live
    <3>6. Outcome(j)' = IF Succeeded(j) THEN "delivered" ELSE "dropped"
      BY <3>2, <3>3 DEF Outcome, Live, Succeeded
    <3>7. Succeeded(j) => received[j] > 0 BY DEF Succeeded, SuccessIsLast
    <3>. QED BY <2>2, <3>2, <3>4, <3>5, <3>6, <3>7
  <2>10. ASSUME NEW j \in Jobs, jobs[j].state = "active",
                jobs'[j].state \in {"waiting", "delayed", "failed"},
                \A k \in Jobs \ {j} : jobs'[k] = jobs[k], UNCHANGED <<received, rows>>
         PROVE  Box!OutboxNext \/ Same
    <3>1. \A k \in Jobs \ {j} : Outcome(k)' = Outcome(k) BY <2>10, OutcomeKept
    <3>2. CASE jobs'[j].state \in {"waiting", "delayed"}
      <4>1. Outcome(j)' = Outcome(j) BY <2>10, <3>2, OutcomeKept DEF Live
      <4>. QED BY <2>1, <2>10, <3>1, <4>1
    <3>3. CASE jobs'[j].state = "failed"
      <4>1. Outcome(j)' = "failed" BY <3>3 DEF Outcome, Live
      <4>2. Outcome(j) = "pending" BY <2>10, OutcomeCases DEF Live
      <4>. QED BY <2>2, <2>10, <3>1, <4>1, <4>2
    <3>. QED BY <2>10, <3>2, <3>3
  <2>11. CASE Throw
    <3>1. PICK j \in Jobs : j = job /\ jobs[j].state = "active" BY <2>11 DEF Throw, JobsInv
    <3>2. jobs[j].made < info[j].attempts /\ info[j].attempts \in 0..11
      BY <3>1 DEF JobsInv, Live, Info
    <3>. DEFINE x == Retried(jobs[j], info[j].attempts, Backoff(jobs[j].made + 1))
    <3>3. x.state \in {"waiting", "delayed", "failed"} BY <3>2, RetriedJob
    <3>4. jobs' = [jobs EXCEPT ![j] = x] /\ UNCHANGED <<received, rows>>
      BY <2>11, <3>1 DEF Throw
    <3>. QED BY <2>10, <3>1, <3>3, <3>4
  <2>12. ASSUME NEW j \in Jobs, RecoverStalled(j)
         PROVE  Box!OutboxNext \/ Same
    <3>1. jobs[j].state = "active" /\ jobs' = [jobs EXCEPT ![j] = Stalled(@)]
            /\ UNCHANGED <<received, rows>>
      BY <2>12 DEF RecoverStalled
    <3>2. Stalled(jobs[j]).state \in {"waiting", "failed"} BY <3>1, StalledJob
    <3>. QED BY <2>10, <3>1, <3>2
  <2>. QED BY <2>3, <2>4, <2>5, <2>6, <2>7, <2>8, <2>9, <2>11, <2>12
              DEF Next, ApiStep, WorkerStep, RegistryStep
<1>. QED BY <1>1, <1>2, Inductive, PTL DEF Spec, OutboxKept, Box!OutboxSpec, Outcomes
=============================================================================
