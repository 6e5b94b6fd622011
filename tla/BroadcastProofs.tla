--------------------------- MODULE BroadcastProofs ---------------------------
(* Machine-checked proofs about Broadcast.tla, for every number of          *)
(* recipients, requests, jobs, attempts and crashes.                        *)
EXTENDS Broadcast, FiniteSetTheorems, TLAPS

-----------------------------------------------------------------------------
(* Facts about save() and about jobs.                                       *)

\* save() asks for columns of the row or for an INSERT, and what it writes
\* is a row again.
LEMMA SavePlanType ==
  ASSUME NEW e
  PROVE  SavePlan(e) \in Plans
BY DEF SavePlan, Plans, Columns

LEMMA SavedType ==
  ASSUME row \in Entity, NEW e \in Entity, NEW p \in Plans
  PROVE  Saved(e, p) \in Entity
BY DEF Saved, Entity, Gone

\* A plan that leaves the status alone was made from a row that had it.
LEMMA SavePlanStatus ==
  ASSUME NEW e, e.status # row.status
  PROVE  SavePlan(e) \cap {"status", "insert"} # {}
BY DEF SavePlan, Columns

\* Every outcome of a job is a job.
LEMMA JobTypes ==
  ASSUME NEW x \in Job(Attempts)
  PROVE  /\ Promoted(x) \in Job(Attempts)
         /\ Taken(x) \in Job(Attempts)
         /\ Completed(x) \in Job(Attempts)
         /\ Stalled(x) \in Job(Attempts)
         /\ x.made < Attempts => Rejected(x, Attempts) \in Job(Attempts)
         /\ \A d \in BOOLEAN : Added(d) \in Job(Attempts)
         /\ NoJob \in Job(Attempts)
<1>. USE AttemptsAssumption DEF Job, JobStates, MaxStalls
<1>1. Promoted(x) \in Job(Attempts) BY DEF Promoted
<1>2. Taken(x) \in Job(Attempts) BY DEF Taken
<1>3. Completed(x) \in Job(Attempts) BY DEF Completed
<1>4. Stalled(x) \in Job(Attempts)
  <2>1. CASE x.stalls < MaxStalls
    <3>1. x.stalls + 1 \in 0..MaxStalls BY <2>1
    <3>. QED BY <2>1, <3>1 DEF Stalled
  <2>2. CASE ~(x.stalls < MaxStalls)
    BY <2>2 DEF Stalled
  <2>. QED BY <2>1, <2>2
<1>5. ASSUME x.made < Attempts
      PROVE  Rejected(x, Attempts) \in Job(Attempts)
  <2>1. x.made + 1 \in 0..Attempts BY <1>5
  <2>2. (IF x.made + 1 < Attempts THEN "delayed" ELSE "failed") \in JobStates OBVIOUS
  <2>. QED BY <2>1, <2>2 DEF Rejected
<1>6. \A d \in BOOLEAN : Added(d) \in Job(Attempts) BY DEF Added
<1>7. NoJob \in Job(Attempts) BY DEF NoJob
<1>. QED BY <1>1, <1>2, <1>3, <1>4, <1>5, <1>6, <1>7

-----------------------------------------------------------------------------
(* The type invariant.                                                      *)

\* What Release leaves of the worker.
LEMMA ReleaseType ==
  ASSUME TypeOK, job \in Jobs, NEW x \in Job(Attempts), Release(x)
  PROVE  /\ jobs' \in [Jobs -> Job(Attempts)]
         /\ pc' = "idle" /\ job' = Nil /\ mem' = NoRow /\ plan' = {}
         /\ cont' = "idle" /\ todo' = {} /\ cur' = Nil
BY DEF Release, TypeOK

LEMMA NoRowType == NoRow \in Entity
BY DEF NoRow, Entity

\* Every step of the handlers, the worker and the queue keeps the types.
LEMMA TypeStep ==
  ASSUME TypeOK, JobsInv, TodoInv, [Next]_vars
  PROVE  TypeOK'
<1>. USE DEF TypeOK
<1>1. ASSUME NEW q \in Requests, Send(q) \/ Cancel(q) \/ Update(q)
      PROVE  TypeOK'
  <2>1. PICK op \in {"send", "cancel", "update"}, s \in Statuses : Handling(q, op, s)
    BY <1>1 DEF Send, Cancel, Update, Statuses
  <2>2. [row EXCEPT !.status = s] \in Entity
    BY DEF Entity
  <2>3. [op |-> op, pc |-> "load", ent |-> [row EXCEPT !.status = s], plan |-> {}] \in Request
    BY <2>2 DEF Request, Plans
  <2>. QED BY <2>1, <2>3 DEF Handling, worker
<1>2. ASSUME NEW q \in Requests, ApiLoad(q)
      PROVE  TypeOK'
  <2>1. SavePlan(api[q].ent) \in Plans BY SavePlanType
  <2>. QED BY <1>2, <2>1, ZenonT(30) DEF ApiLoad, worker, Request
<1>3. ASSUME NEW q \in Requests, ApiWrite(q)
      PROVE  TypeOK'
  <2>1. api[q] \in Request OBVIOUS
  <2>2. Saved(api[q].ent, api[q].plan) \in Entity BY <2>1, SavedType DEF Request
  <2>3. Answered \in Request BY NoRowType DEF Answered, Request, Plans
  <2>4. [api[q] EXCEPT !.pc = "enqueue"] \in Request BY <2>1 DEF Request
  <2>. QED BY <1>3, <2>2, <2>3, <2>4 DEF ApiWrite, worker
<1>4. ASSUME NEW q \in Requests, ApiEnqueue(q)
      PROVE  TypeOK'
  <2>1. Answered \in Request BY NoRowType DEF Answered, Request, Plans
  <2>2. PICK j \in Jobs, d \in BOOLEAN : jobs' = [jobs EXCEPT ![j] = Added(d)]
    BY <1>4 DEF ApiEnqueue
  <2>3. Added(d) \in Job(Attempts) BY JobTypes
  <2>. QED BY <1>4, <2>1, <2>2, <2>3 DEF ApiEnqueue, worker
<1>5. ASSUME NEW q \in Requests, ApiFails(q)
      PROVE  TypeOK'
  <2>1. Answered \in Request BY NoRowType DEF Answered, Request, Plans
  <2>. QED BY <1>5, <2>1 DEF ApiFails, worker
<1>6. CASE Remove
  BY <1>6, NoRowType DEF Remove, worker
<1>7. CASE LoadBroadcast
  <2>1. [row EXCEPT !.status = "sending"] \in Entity BY DEF Entity, Statuses
  <2>. QED BY <1>7, <2>1 DEF LoadBroadcast
<1>8. CASE SaveLoad
  BY <1>8, SavePlanType DEF SaveLoad
<1>9. CASE SaveWrite
  <2>1. Saved(mem, plan) \in Entity BY SavedType
  <2>. QED BY <1>9, <2>1 DEF SaveWrite, Plans, JobsInv, Saving
<1>10. CASE ListPending
  BY <1>10 DEF ListPending
<1>11. CASE NextRecipient
  BY <1>11 DEF NextRecipient
<1>12. CASE StopCancelled
  BY <1>12 DEF StopCancelled
<1>13. CASE FinishRun
  <2>1. [mem EXCEPT !.status = "done"] \in Entity BY DEF Entity, Statuses
  <2>. QED BY <1>13, <2>1 DEF FinishRun
<1>14. CASE SendOk \/ SendThrows
  <2>1. cur \in Recipients BY <1>14 DEF SendOk, SendThrows, AskOpenwa, TodoInv
  <2>. QED BY <1>14, <2>1 DEF SendOk, SendThrows, AskOpenwa
<1>15. CASE MarkSent
  <2>1. [mem EXCEPT !.sent = @ + 1] \in Entity BY DEF Entity
  <2>. QED BY <1>15, <2>1 DEF MarkSent, SaveRecipient
<1>16. CASE MarkThrows
  BY <1>16 DEF MarkThrows
<1>17. CASE Record
  <2>1. cur \in Recipients BY <1>17 DEF Record, TodoInv
  <2>. QED BY <1>17, <2>1 DEF Record
<1>18. CASE MarkFailed
  <2>1. [mem EXCEPT !.failed = @ + 1] \in Entity BY DEF Entity
  <2>. QED BY <1>18, <2>1 DEF MarkFailed, SaveRecipient
<1>19. CASE Return
  <2>1. job \in Jobs BY <1>19 DEF Return, JobsInv
  <2>2. Completed(jobs[job]) \in Job(Attempts) BY <2>1, JobTypes
  <2>. QED BY <1>19, <2>1, <2>2, ReleaseType, NoRowType DEF Return, Plans
<1>20. CASE Throw
  <2>1. job \in Jobs /\ Live(jobs[job])
    BY <1>20 DEF Throw, ThrowPoints, JobsInv, Live
  <2>2. Rejected(jobs[job], Attempts) \in Job(Attempts)
    BY <2>1, JobTypes DEF JobsInv
  <2>. QED BY <1>20, <2>1, <2>2, ReleaseType, NoRowType DEF Throw, Plans
<1>21. ASSUME NEW j \in Jobs, Take(j) \/ Promote(j) \/ RecoverStalled(j)
       PROVE  TypeOK'
  <2>1. /\ Taken(jobs[j]) \in Job(Attempts)
        /\ Promoted(jobs[j]) \in Job(Attempts)
        /\ Stalled(jobs[j]) \in Job(Attempts)
    BY JobTypes
  <2>. QED BY <1>21, <2>1 DEF Take, Promote, RecoverStalled, worker
<1>22. CASE Crash
  <2>1. Unmade \in Request /\ Answered \in Request
    BY NoRowType DEF Unmade, Answered, Request, Plans
  <2>. QED BY <1>22, <2>1, NoRowType, CrashesAssumption DEF Crash, Plans
<1>23. CASE UNCHANGED vars
  BY <1>23 DEF vars, worker
<1>. QED
  BY <1>1, <1>2, <1>3, <1>4, <1>5, <1>6, <1>7, <1>8, <1>9, <1>10, <1>11, <1>12,
     <1>13, <1>14, <1>15, <1>16, <1>17, <1>18, <1>19, <1>20, <1>21, <1>22, <1>23
     DEF Next, ApiStep, WorkerStep
-----------------------------------------------------------------------------
(* The jobs and the worker that holds one.                                  *)

\* The steps of a request that touch only the row and the requests.
ApiRowStep(q) ==
  Send(q) \/ Cancel(q) \/ Update(q) \/ ApiLoad(q) \/ ApiWrite(q) \/ ApiFails(q)

LEMMA ApiFrame ==
  ASSUME NEW q \in Requests, ApiRowStep(q)
  PROVE  UNCHANGED <<rcpt, jobs, worker, asked, answered, logs, crashes>>
BY DEF ApiRowStep, Send, Cancel, Update, Handling, ApiLoad, ApiWrite, ApiFails

LEMMA JobsStep ==
  ASSUME TypeOK, JobsInv, [Next]_vars
  PROVE  JobsInv'
<1>. USE DEF TypeOK, JobsInv, Saving
<1>1. ASSUME NEW q \in Requests, ApiRowStep(q)
      PROVE  JobsInv'
  BY <1>1, ApiFrame DEF worker
<1>2. ASSUME NEW q \in Requests, ApiEnqueue(q)
      PROVE  JobsInv'
  <2>1. PICK j \in Jobs, d \in BOOLEAN :
          jobs[j] = NoJob /\ jobs' = [jobs EXCEPT ![j] = Added(d)]
    BY <1>2 DEF ApiEnqueue
  <2>2. Added(d).made = 0 BY DEF Added
  <2>3. NoJob.state # "active" BY DEF NoJob
  <2>. QED BY <1>2, <2>1, <2>2, <2>3, AttemptsAssumption DEF ApiEnqueue, worker
<1>3. CASE Remove
  BY <1>3 DEF Remove, worker
<1>4. CASE LoadBroadcast
  BY <1>4 DEF LoadBroadcast
<1>5. CASE SaveLoad
  BY <1>5 DEF SaveLoad
<1>6. CASE SaveWrite
  BY <1>6 DEF SaveWrite
<1>7. CASE ListPending \/ NextRecipient \/ StopCancelled
  BY <1>7 DEF ListPending, NextRecipient, StopCancelled
<1>8. CASE FinishRun
  BY <1>8 DEF FinishRun
<1>9. CASE SendOk \/ SendThrows \/ MarkThrows
  BY <1>9 DEF SendOk, SendThrows, AskOpenwa, MarkThrows
<1>10. CASE MarkSent \/ Record \/ MarkFailed
  BY <1>10 DEF MarkSent, Record, MarkFailed
<1>11. CASE Return
  <2>1. Completed(jobs[job]).state = "completed"
    BY <1>11, JobTypes DEF Return, Completed, Job
  <2>. QED BY <1>11, <2>1 DEF Return, Release, Live
<1>12. CASE Throw
  <2>1. job \in Jobs /\ jobs[job] \in Job(Attempts)
    BY <1>12 DEF Throw, ThrowPoints
  <2>2. Live(Rejected(jobs[job], Attempts)) => Rejected(jobs[job], Attempts).made < Attempts
    BY <2>1 DEF Rejected, Live, Job
  <2>. QED BY <1>12, <2>1, <2>2 DEF Throw, Release
<1>13. ASSUME NEW j \in Jobs, Take(j)
       PROVE  JobsInv'
  <2>1. Taken(jobs[j]).state = "active" /\ Taken(jobs[j]).made = jobs[j].made
    BY DEF Taken, Job
  <2>. QED BY <1>13, <2>1 DEF Take, Live
<1>14. ASSUME NEW j \in Jobs, Promote(j)
       PROVE  JobsInv'
  <2>1. Promoted(jobs[j]).made = jobs[j].made
    BY DEF Promoted, Job
  <2>. QED BY <1>14, <2>1 DEF Promote, Live, worker
<1>15. ASSUME NEW j \in Jobs, RecoverStalled(j)
       PROVE  JobsInv'
  <2>1. Stalled(jobs[j]).made = jobs[j].made
    BY DEF Stalled, Job
  <2>. QED BY <1>15, <2>1 DEF RecoverStalled, Live, worker
<1>16. CASE Crash
  BY <1>16 DEF Crash
<1>17. CASE UNCHANGED vars
  BY <1>17 DEF vars, worker
<1>. QED
  BY <1>1, <1>2, <1>3, <1>4, <1>5, <1>6, <1>7, <1>8, <1>9, <1>10, <1>11, <1>12,
     <1>13, <1>14, <1>15, <1>16, <1>17
     DEF Next, ApiStep, ApiRowStep, WorkerStep

-----------------------------------------------------------------------------
(* What the run has left to do, and what is logged.                         *)

LEMMA TodoStep ==
  ASSUME TypeOK, JobsInv, TodoInv, LogInv, [Next]_vars
  PROVE  TodoInv'
<1>. USE DEF TypeOK, TodoInv, Saving, Unlisted, Listed, Reported, Shown
<1>1. ASSUME NEW q \in Requests, ApiRowStep(q) \/ ApiEnqueue(q)
      PROVE  TodoInv'
  BY <1>1, ApiFrame DEF worker, ApiEnqueue
<1>2. CASE Remove
  BY <1>2 DEF Remove, worker
<1>3. CASE LoadBroadcast
  BY <1>3 DEF LoadBroadcast
<1>4. CASE SaveLoad
  BY <1>4 DEF SaveLoad
<1>5. CASE SaveWrite
  BY <1>5 DEF SaveWrite
<1>6. CASE ListPending
  BY <1>6 DEF ListPending, LogInv
<1>7. CASE NextRecipient
  BY <1>7 DEF NextRecipient
<1>8. CASE StopCancelled
  BY <1>8 DEF StopCancelled
<1>9. CASE FinishRun
  BY <1>9 DEF FinishRun
<1>10. CASE SendOk
  BY <1>10 DEF SendOk, AskOpenwa
<1>11. CASE SendThrows
  BY <1>11 DEF SendThrows, AskOpenwa
<1>12. CASE MarkThrows
  BY <1>12 DEF MarkThrows
<1>13. CASE MarkSent
  BY <1>13 DEF MarkSent, SaveRecipient
<1>14. CASE Record
  BY <1>14 DEF Record
<1>15. CASE MarkFailed
  BY <1>15 DEF MarkFailed, SaveRecipient
<1>16. CASE Return \/ Throw
  BY <1>16 DEF Return, Throw, Release
<1>17. ASSUME NEW j \in Jobs, Take(j)
       PROVE  TodoInv'
  BY <1>17 DEF Take, JobsInv
<1>18. ASSUME NEW j \in Jobs, Promote(j) \/ RecoverStalled(j)
       PROVE  TodoInv'
  BY <1>18 DEF Promote, RecoverStalled, worker
<1>19. CASE Crash
  BY <1>19 DEF Crash
<1>20. CASE UNCHANGED vars
  BY <1>20 DEF vars, worker
<1>. QED
  BY <1>1, <1>2, <1>3, <1>4, <1>5, <1>6, <1>7, <1>8, <1>9, <1>10, <1>11, <1>12,
     <1>13, <1>14, <1>15, <1>16, <1>17, <1>18, <1>19, <1>20
     DEF Next, ApiStep, ApiRowStep, WorkerStep

LEMMA LogStep ==
  ASSUME TypeOK, TodoInv, LogInv, [Next]_vars
  PROVE  LogInv'
<1>. USE DEF TypeOK, TodoInv, LogInv
<1>1. ASSUME NEW q \in Requests, ApiRowStep(q) \/ ApiEnqueue(q)
      PROVE  LogInv'
  BY <1>1, ApiFrame DEF worker, ApiEnqueue
<1>2. CASE Remove
  BY <1>2 DEF Remove, worker
<1>3. CASE LoadBroadcast \/ SaveLoad \/ SaveWrite
  BY <1>3 DEF LoadBroadcast, SaveLoad, SaveWrite
<1>4. CASE ListPending
  BY <1>4 DEF ListPending
<1>5. CASE NextRecipient \/ StopCancelled \/ FinishRun
  BY <1>5 DEF NextRecipient, StopCancelled, FinishRun
<1>6. CASE SendOk \/ SendThrows \/ MarkThrows
  BY <1>6 DEF SendOk, SendThrows, AskOpenwa, MarkThrows
<1>7. CASE MarkSent
  BY <1>7 DEF MarkSent, SaveRecipient
<1>8. CASE Record
  BY <1>8 DEF Record
<1>9. CASE MarkFailed
  BY <1>9 DEF MarkFailed, SaveRecipient
<1>10. CASE Return \/ Throw
  BY <1>10 DEF Return, Throw, Release
<1>11. ASSUME NEW j \in Jobs, Take(j) \/ Promote(j) \/ RecoverStalled(j)
       PROVE  LogInv'
  BY <1>11 DEF Take, Promote, RecoverStalled, worker
<1>12. CASE Crash
  BY <1>12 DEF Crash
<1>13. CASE UNCHANGED vars
  BY <1>13 DEF vars, worker
<1>. QED
  BY <1>1, <1>2, <1>3, <1>4, <1>5, <1>6, <1>7, <1>8, <1>9, <1>10, <1>11, <1>12, <1>13
     DEF Next, ApiStep, ApiRowStep, WorkerStep
-----------------------------------------------------------------------------
(* Who may write 'done'.                                                    *)

\* The status save() leaves is the row's or the entity's, and the entity's
\* when the plan says so.
LEMMA SavedStatus ==
  ASSUME NEW e \in Entity, NEW p, row \in Entity
  PROVE  /\ Saved(e, p).status \in {row.status, e.status}
         /\ p \cap {"status", "insert"} # {} =>
              Saved(e, p).status = e.status \/ (Saved(e, p) = row /\ Gone(row))
BY DEF Saved, Entity

LEMMA DoneStep ==
  ASSUME TypeOK, JobsInv, TodoInv, DoneInv, [Next]_vars
  PROVE  DoneInv'
<1>. USE DEF TypeOK, DoneInv, Saving, Reported, Shown
<1>1. ASSUME NEW q \in Requests, Send(q) \/ Cancel(q) \/ Update(q)
      PROVE  DoneInv'
  <2>1. PICK op \in {"send", "cancel", "update"}, s \in {"queued", "cancelled", "draft"} :
          Handling(q, op, s)
    BY <1>1 DEF Send, Cancel, Update
  <2>2. [row EXCEPT !.status = s].status = s BY DEF Entity
  <2>. QED BY <2>1, <2>2 DEF Handling, worker
<1>2. ASSUME NEW q \in Requests, ApiLoad(q)
      PROVE  DoneInv'
  BY <1>2 DEF ApiLoad, worker, Request
<1>3. ASSUME NEW q \in Requests, ApiWrite(q)
      PROVE  DoneInv'
  <2>1. api[q] \in Request /\ api[q].ent \in Entity BY DEF Request
  <2>2. row'.status \in {row.status, api[q].ent.status}
    BY <1>3, <2>1, SavedStatus DEF ApiWrite
  <2>3. Answered.ent.status # "done" BY DEF Answered, NoRow
  <2>4. [api[q] EXCEPT !.pc = "enqueue"].ent = api[q].ent BY <2>1 DEF Request
  <2>. QED BY <1>3, <2>2, <2>3, <2>4 DEF ApiWrite, worker
<1>4. ASSUME NEW q \in Requests, ApiEnqueue(q) \/ ApiFails(q)
      PROVE  DoneInv'
  <2>1. Answered.ent.status # "done" BY DEF Answered, NoRow
  <2>. QED BY <1>4, <2>1 DEF ApiEnqueue, ApiFails, worker
<1>5. CASE Remove
  BY <1>5 DEF Remove, worker, NoRow
<1>6. CASE LoadBroadcast
  <2>1. [row EXCEPT !.status = "sending"].status = "sending" BY DEF Entity
  <2>. QED BY <1>6, <2>1 DEF LoadBroadcast
<1>7. CASE SaveLoad
  <2>1. mem.status # row.status => SavePlan(mem) \cap {"status", "insert"} # {}
    BY SavePlanStatus
  <2>. QED BY <1>7, <2>1 DEF SaveLoad
<1>8. CASE SaveWrite
  <2>1. row'.status \in {row.status, mem.status}
    BY <1>8, SavedStatus DEF SaveWrite
  <2>2. plan \cap {"status", "insert"} # {} =>
          row'.status = mem.status \/ row'.status = "gone"
    BY <1>8, SavedStatus DEF SaveWrite, Gone
  <2>. QED BY <1>8, <2>1, <2>2 DEF SaveWrite, TodoInv, Listed, JobsInv
<1>9. CASE ListPending \/ NextRecipient \/ StopCancelled
  BY <1>9 DEF ListPending, NextRecipient, StopCancelled
<1>10. CASE FinishRun
  <2>1. mem'.status = "done" BY <1>10 DEF FinishRun, Entity
  <2>. QED BY <1>10, <2>1 DEF FinishRun
<1>11. CASE SendOk \/ SendThrows \/ MarkThrows
  BY <1>11 DEF SendOk, SendThrows, AskOpenwa, MarkThrows
<1>12. CASE MarkSent
  <2>1. mem'.status = mem.status BY <1>12 DEF MarkSent, Entity
  <2>. QED BY <1>12, <2>1 DEF MarkSent, SaveRecipient
<1>13. CASE Record
  BY <1>13 DEF Record
<1>14. CASE MarkFailed
  <2>1. mem'.status = mem.status BY <1>14 DEF MarkFailed, Entity
  <2>. QED BY <1>14, <2>1 DEF MarkFailed, SaveRecipient
<1>15. CASE Return \/ Throw
  BY <1>15 DEF Return, Throw, Release, NoRow
<1>16. ASSUME NEW j \in Jobs, Take(j) \/ Promote(j) \/ RecoverStalled(j)
       PROVE  DoneInv'
  BY <1>16 DEF Take, Promote, RecoverStalled, worker
<1>17. CASE Crash
  <2>1. Unmade.ent.status # "done" /\ Answered.ent.status # "done"
    BY DEF Unmade, Answered, NoRow
  <2>. QED BY <1>17, <2>1 DEF Crash, NoRow
<1>18. CASE UNCHANGED vars
  BY <1>18 DEF vars, worker
<1>. QED
  BY <1>1, <1>2, <1>3, <1>4, <1>5, <1>6, <1>7, <1>8, <1>9, <1>10, <1>11, <1>12,
     <1>13, <1>14, <1>15, <1>16, <1>17, <1>18
     DEF Next, ApiStep, WorkerStep
-----------------------------------------------------------------------------
(* The counters.                                                            *)

\* The sets the counters are compared with are finite.
LEMMA ShownFinite ==
  ASSUME NEW report, NEW S, NEW left
  PROVE  /\ IsFiniteSet(Shown(report, S) \ left)
         /\ Cardinality(Shown(report, S) \ left) \in Nat
<1>1. Shown(report, S) \ left \subseteq Recipients BY DEF Shown
<1>2. IsFiniteSet(Shown(report, S) \ left)
  BY <1>1, RecipientsAssumption, FS_Subset
<1>. QED BY <1>2, FS_CardinalityType

\* No recipient is backing while the blank row counts none.
LEMMA BlankBacked ==
  ASSUME NEW report, NEW left
  PROVE  BackedBy(NoRow, report, left)
<1>1. /\ Cardinality(Shown(report, {"sent", "gone"}) \ left) \in Nat
      /\ Cardinality(Shown(report, {"failed", "gone"}) \ left) \in Nat
  BY ShownFinite
<1>2. NoRow.sent = 0 /\ NoRow.failed = 0 BY DEF NoRow
<1>. QED BY <1>1, <1>2 DEF BackedBy

\* Recipients that settle, or are deleted, back no less than before.
LEMMA BackedGrows ==
  ASSUME NEW e \in Entity, NEW report, NEW report2, NEW left, NEW left2,
         BackedBy(e, report, left),
         \A r \in Recipients \ left :
           report[r] # "pending" => r \notin left2 /\ report2[r] \in {report[r], "gone"}
  PROVE  BackedBy(e, report2, left2)
<1>1. ASSUME NEW s \in {"sent", "failed"}
      PROVE  Cardinality(Shown(report, {s, "gone"}) \ left)
               <= Cardinality(Shown(report2, {s, "gone"}) \ left2)
  <2>1. Shown(report, {s, "gone"}) \ left \subseteq Shown(report2, {s, "gone"}) \ left2
    BY DEF Shown
  <2>. QED BY <2>1, ShownFinite, FS_Subset
<1>2. /\ Cardinality(Shown(report, {"sent", "gone"}) \ left) \in Nat
      /\ Cardinality(Shown(report, {"failed", "gone"}) \ left) \in Nat
      /\ Cardinality(Shown(report2, {"sent", "gone"}) \ left2) \in Nat
      /\ Cardinality(Shown(report2, {"failed", "gone"}) \ left2) \in Nat
  BY ShownFinite
<1>3. e.sent \in Nat /\ e.failed \in Nat BY DEF Entity
<1>4. e.sent <= Cardinality(Shown(report2, {"sent", "gone"}) \ left2)
  BY <1>1, <1>2, <1>3 DEF BackedBy
<1>5. e.failed <= Cardinality(Shown(report2, {"failed", "gone"}) \ left2)
  BY <1>1, <1>2, <1>3 DEF BackedBy
<1>. QED BY <1>4, <1>5 DEF BackedBy

\* What save() leaves is backed when the row and the entity were.
LEMMA SavedBacked ==
  ASSUME NEW e \in Entity, NEW p, row \in Entity, Backed(row), Backed(e)
  PROVE  BackedBy(Saved(e, p), rcpt, todo)
BY DEF Saved, Backed, BackedBy, Entity

\* A step that changes no recipient and no entity, except to forget some.
LEMMA CountFrame ==
  ASSUME TypeOK, CountInv, rcpt' = rcpt, todo' \in {todo, {}},
         row' = row, mem' \in {mem, NoRow},
         \A q \in Requests : api'[q].ent \in {api[q].ent, NoRow}
  PROVE  CountInv'
<1>1. ASSUME NEW e \in Entity, Backed(e)
      PROVE  BackedBy(e, rcpt', todo')
  BY <1>1, BackedGrows DEF Backed
<1>2. BackedBy(NoRow, rcpt', todo') BY BlankBacked
<1>3. BackedBy(row', rcpt', todo') BY <1>1 DEF TypeOK, CountInv
<1>4. BackedBy(mem', rcpt', todo')
  <2>1. BackedBy(mem, rcpt', todo') BY <1>1 DEF TypeOK, CountInv
  <2>. QED BY <2>1, <1>2
<1>5. ASSUME NEW q \in Requests
      PROVE  BackedBy(api'[q].ent, rcpt', todo')
  <2>1. api[q].ent \in Entity BY DEF TypeOK, Request
  <2>2. BackedBy(api[q].ent, rcpt', todo') BY <1>1, <2>1 DEF CountInv
  <2>. QED BY <2>2, <1>2
<1>. QED BY <1>3, <1>4, <1>5 DEF CountInv, Backed
LEMMA CountStep ==
  ASSUME TypeOK, JobsInv, TodoInv, CountInv, [Next]_vars
  PROVE  CountInv'
<1>. USE DEF TypeOK
<1>1. ASSUME NEW q \in Requests, Send(q) \/ Cancel(q) \/ Update(q)
      PROVE  CountInv'
  <2>1. PICK op \in {"send", "cancel", "update"}, s \in Statuses : Handling(q, op, s)
    BY <1>1 DEF Send, Cancel, Update, Statuses
  <2>2. Backed([row EXCEPT !.status = s])
    BY DEF CountInv, Backed, BackedBy, Entity
  <2>. QED BY <2>1, <2>2 DEF Handling, worker, CountInv, Backed
<1>2. ASSUME NEW q \in Requests, ApiLoad(q) \/ ApiEnqueue(q) \/ ApiFails(q)
      PROVE  CountInv'
  <2>1. Answered.ent = NoRow BY DEF Answered
  <2>2. \A x \in Requests : api'[x].ent \in {api[x].ent, NoRow}
    BY <1>2, <2>1 DEF ApiLoad, ApiEnqueue, ApiFails, Request
  <2>3. rcpt' = rcpt /\ todo' = todo /\ row' = row /\ mem' = mem
    BY <1>2 DEF ApiLoad, ApiEnqueue, ApiFails, worker
  <2>. QED BY <2>2, <2>3, CountFrame
<1>3. ASSUME NEW q \in Requests, ApiWrite(q)
      PROVE  CountInv'
  <2>1. api[q] \in Request /\ api[q].ent \in Entity BY DEF Request
  <2>2. BackedBy(row', rcpt, todo)
    BY <1>3, <2>1, SavedBacked DEF ApiWrite, CountInv
  <2>3. Answered.ent = NoRow BY DEF Answered
  <2>4. [api[q] EXCEPT !.pc = "enqueue"].ent = api[q].ent BY <2>1 DEF Request
  <2>5. \A x \in Requests : api'[x].ent \in {api[x].ent, NoRow}
    BY <1>3, <2>3, <2>4 DEF ApiWrite
  <2>6. BackedBy(NoRow, rcpt, todo) BY BlankBacked
  <2>7. rcpt' = rcpt /\ todo' = todo /\ mem' = mem BY <1>3 DEF ApiWrite, worker
  <2>. QED BY <2>2, <2>5, <2>6, <2>7 DEF CountInv, Backed
<1>4. CASE Remove
  <2>1. rcpt' = [r \in Recipients |-> "gone"] /\ row' = NoRow
        /\ todo' = todo /\ mem' = mem /\ api' = api
    BY <1>4 DEF Remove, worker
  <2>2. ASSUME NEW e \in Entity, Backed(e)
        PROVE  BackedBy(e, rcpt', todo')
    BY <2>1, <2>2, BackedGrows DEF Backed
  <2>3. BackedBy(NoRow, rcpt', todo') BY BlankBacked
  <2>4. \A q \in Requests : api[q].ent \in Entity BY DEF Request
  <2>. QED BY <2>1, <2>2, <2>3, <2>4 DEF CountInv, Backed
<1>5. CASE LoadBroadcast
  <2>1. Backed([row EXCEPT !.status = "sending"])
    BY DEF CountInv, Backed, BackedBy, Entity
  <2>. QED BY <1>5, <2>1 DEF LoadBroadcast, CountInv, Backed
<1>6. CASE SaveLoad \/ NextRecipient \/ StopCancelled \/ SendOk \/ SendThrows
             \/ MarkThrows \/ Record
  BY <1>6, CountFrame
     DEF SaveLoad, NextRecipient, StopCancelled, SendOk, SendThrows, AskOpenwa, MarkThrows, Record
<1>7. CASE SaveWrite
  <2>1. BackedBy(row', rcpt, todo)
    BY <1>7, SavedBacked DEF SaveWrite, CountInv
  <2>. QED BY <1>7, <2>1 DEF SaveWrite, CountInv, Backed
<1>8. CASE ListPending
  <2>1. rcpt' = rcpt /\ row' = row /\ mem' = mem /\ api' = api /\ todo = {}
        /\ todo' = {r \in Recipients : rcpt[r] = "pending"}
    BY <1>8 DEF ListPending, TodoInv, Unlisted
  <2>2. ASSUME NEW e \in Entity, Backed(e)
        PROVE  BackedBy(e, rcpt', todo')
    BY <2>1, <2>2, BackedGrows DEF Backed
  <2>3. \A q \in Requests : api[q].ent \in Entity BY DEF Request
  <2>. QED BY <2>1, <2>2, <2>3 DEF CountInv, Backed
<1>9. CASE FinishRun
  <2>1. BackedBy([mem EXCEPT !.status = "done"], rcpt, todo)
    BY DEF CountInv, Backed, BackedBy, Entity
  <2>. QED BY <1>9, <2>1 DEF FinishRun, CountInv, Backed
<1>10. ASSUME NEW s \in {"sent", "failed"}, cur \in todo, SaveRecipient(s),
              todo' = todo \ {cur}, mem' = [mem EXCEPT ![s] = @ + 1],
              row' = row, api' = api
       PROVE  CountInv'
  <2>1. /\ cur \in Recipients \cap todo
        /\ rcpt'[cur] \in {s, "gone"}
        /\ \A x \in Recipients \ {cur} : rcpt'[x] = rcpt[x]
    BY <1>10 DEF SaveRecipient
  <2>2. ASSUME NEW e \in Entity, Backed(e)
        PROVE  BackedBy(e, rcpt', todo')
    BY <1>10, <2>1, <2>2, BackedGrows DEF Backed
  <2>3. Cardinality(Shown(rcpt', {s, "gone"}) \ todo')
          = Cardinality(Shown(rcpt, {s, "gone"}) \ todo) + 1
    <3>1. Shown(rcpt', {s, "gone"}) \ todo' = (Shown(rcpt, {s, "gone"}) \ todo) \cup {cur}
      BY <1>10, <2>1 DEF Shown
    <3>2. cur \notin Shown(rcpt, {s, "gone"}) \ todo BY <2>1
    <3>3. IsFiniteSet(Shown(rcpt, {s, "gone"}) \ todo) BY ShownFinite
    <3>. QED BY <3>1, <3>2, <3>3, FS_AddElement
  <2>4. BackedBy(mem, rcpt, todo) /\ BackedBy(mem, rcpt', todo')
    BY <2>2 DEF CountInv, Backed
  <2>5. BackedBy(mem', rcpt', todo')
    <3>1. /\ Cardinality(Shown(rcpt, {"sent", "gone"}) \ todo) \in Nat
          /\ Cardinality(Shown(rcpt, {"failed", "gone"}) \ todo) \in Nat
      BY ShownFinite
    <3>2. CASE s = "sent"
      BY <1>10, <2>3, <2>4, <3>1, <3>2 DEF BackedBy, Entity
    <3>3. CASE s = "failed"
      BY <1>10, <2>3, <2>4, <3>1, <3>3 DEF BackedBy, Entity
    <3>. QED BY <3>2, <3>3
  <2>6. \A q \in Requests : api[q].ent \in Entity BY DEF Request
  <2>. QED BY <1>10, <2>2, <2>5, <2>6 DEF CountInv, Backed
<1>11. CASE MarkSent
  BY <1>11, <1>10 DEF MarkSent, TodoInv
<1>12. CASE MarkFailed
  BY <1>12, <1>10 DEF MarkFailed, TodoInv
<1>13. CASE Return \/ Throw
  <2>1. rcpt' = rcpt /\ todo' = {} /\ row' = row /\ mem' = NoRow /\ api' = api
    BY <1>13 DEF Return, Throw, Release
  <2>. QED BY <2>1, CountFrame
<1>14. ASSUME NEW j \in Jobs, Take(j) \/ Promote(j) \/ RecoverStalled(j)
       PROVE  CountInv'
  BY <1>14, CountFrame DEF Take, Promote, RecoverStalled, worker
<1>15. CASE Crash
  <2>1. \A q \in Requests : api'[q].ent = NoRow
    BY <1>15 DEF Crash, Unmade, Answered
  <2>. QED BY <1>15, <2>1, CountFrame DEF Crash
<1>16. CASE UNCHANGED vars
  BY <1>16, CountFrame DEF vars, worker
<1>. QED
  BY <1>1, <1>2, <1>3, <1>4, <1>5, <1>6, <1>7, <1>8, <1>9, <1>11, <1>12,
     <1>13, <1>14, <1>15, <1>16
     DEF Next, ApiStep, WorkerStep
-----------------------------------------------------------------------------
(* The theorems.                                                            *)

LEMMA InitInv == Init => IInv
<1>. SUFFICES ASSUME Init PROVE IInv OBVIOUS
<1>. USE DEF Init
<1>1. Unmade \in Request /\ Unmade.ent = NoRow
  BY NoRowType DEF Unmade, Request, Plans
<1>2. TypeOK
  BY <1>1, NoRowType, JobTypes, AttemptsAssumption, CrashesAssumption
     DEF TypeOK, Entity, Statuses, Plans, NoJob, Job, JobStates, MaxStalls
<1>3. JobsInv
  BY DEF JobsInv, Saving, NoJob, Live
<1>4. TodoInv /\ LogInv
  BY DEF TodoInv, LogInv, Unlisted, Listed, Saving
<1>5. DoneInv
  BY <1>1 DEF DoneInv, Saving, NoRow
<1>6. CountInv
  <2>1. row.sent = 0 /\ row.failed = 0 /\ NoRow.sent = 0 /\ NoRow.failed = 0
    BY DEF NoRow
  <2>2. Backed(NoRow) BY BlankBacked DEF Backed
  <2>3. Backed(row) BY <2>1, <2>2 DEF Backed, BackedBy
  <2>. QED BY <1>1, <2>2, <2>3 DEF CountInv
<1>. QED BY <1>2, <1>3, <1>4, <1>5, <1>6 DEF IInv

LEMMA StepInv == IInv /\ [Next]_vars => IInv'
<1>. SUFFICES ASSUME IInv, [Next]_vars PROVE IInv' OBVIOUS
<1>1. TypeOK' BY TypeStep DEF IInv
<1>2. JobsInv' BY JobsStep DEF IInv
<1>3. TodoInv' BY TodoStep DEF IInv
<1>4. LogInv' BY LogStep DEF IInv
<1>5. DoneInv' BY DoneStep DEF IInv
<1>6. CountInv' BY CountStep DEF IInv
<1>. QED BY <1>1, <1>2, <1>3, <1>4, <1>5, <1>6 DEF IInv

\* The handlers, the worker, retries, stalls and crashes together keep what
\* each of them relies on.
THEOREM Inductive == Spec => []IInv
<1>1. Init => IInv BY InitInv
<1>2. IInv /\ [Next]_vars => IInv' BY StepInv
<1>. QED BY <1>1, <1>2, PTL DEF Spec

\* Every variable keeps its type; a job in particular never uses more
\* attempts than it was given.
THEOREM TypeCorrect == Spec => []TypeOK
<1>1. IInv => TypeOK BY DEF IInv
<1>. QED BY <1>1, Inductive, PTL

\* The progress of a broadcast never counts someone twice.
THEOREM CountersNeverAhead == Spec => []CountersHonest
<1>1. IInv => CountersHonest
  <2>. SUFFICES ASSUME IInv PROVE CountersHonest OBVIOUS
  <2>1. ASSUME NEW s \in {"sent", "failed"}
        PROVE  Cardinality(Shown(rcpt, {s, "gone"}) \ todo)
                 <= Cardinality(Shown(rcpt, {s, "gone"}))
    <3>1. Shown(rcpt, {s, "gone"}) \subseteq Recipients BY DEF Shown
    <3>2. IsFiniteSet(Shown(rcpt, {s, "gone"})) BY <3>1, RecipientsAssumption, FS_Subset
    <3>. QED BY <3>2, FS_Subset
  <2>2. /\ Cardinality(Shown(rcpt, {"sent", "gone"}) \ todo) \in Nat
        /\ Cardinality(Shown(rcpt, {"failed", "gone"}) \ todo) \in Nat
    BY ShownFinite
  <2>3. /\ Cardinality(Shown(rcpt, {"sent", "gone"})) \in Nat
        /\ Cardinality(Shown(rcpt, {"failed", "gone"})) \in Nat
    <3>1. \A S : Shown(rcpt, S) \ {} = Shown(rcpt, S) OBVIOUS
    <3>. QED BY <3>1, ShownFinite
  <2>. QED
    BY <2>1, <2>2, <2>3 DEF IInv, TypeOK, Entity, CountInv, Backed, BackedBy, CountersHonest, Reported
<1>. QED BY <1>1, Inductive, PTL

\* A broadcast shown as done has nobody left pending.
THEOREM DoneMeansComplete == Spec => []DoneIsComplete
<1>1. IInv => DoneIsComplete BY DEF IInv, DoneInv, DoneIsComplete
<1>. QED BY <1>1, Inductive, PTL

\* The message log shows each recipient at most once, as the report does.
THEOREM LogsAgree == Spec => []LogsMatchReport
<1>1. IInv => LogsMatchReport BY DEF IInv, LogInv, LogsMatchReport
<1>. QED BY <1>1, Inductive, PTL

\* A job completes only with its broadcast done, cancelled or deleted.
THEOREM CompletionJustified == Spec => CompletionHasReason
<1>1. IInv /\ [Next]_vars =>
        [pc # "return" /\ pc' = "return" => row'.status \in {"done", "cancelled", "gone"}]_vars
  <2>. SUFFICES ASSUME IInv, Next, pc # "return", pc' = "return"
                PROVE  row'.status \in {"done", "cancelled", "gone"}
    OBVIOUS
  <2>. USE DEF IInv, TypeOK
  <2>1. CASE LoadBroadcast BY <2>1 DEF LoadBroadcast, Gone
  <2>2. CASE StopCancelled BY <2>2 DEF StopCancelled
  <2>3. CASE SaveWrite
    <3>1. cont = "return" BY <2>3 DEF SaveWrite
    <3>2. mem.status = "done" /\ plan \cap {"status", "insert"} # {}
      BY <2>3, <3>1 DEF SaveWrite, DoneInv, Saving
    <3>3. row' = Saved(mem, plan) BY <2>3 DEF SaveWrite
    <3>. QED BY <3>2, <3>3, SavedStatus DEF Gone
  <2>4. ASSUME NEW q \in Requests, ApiRowStep(q) \/ ApiEnqueue(q)
        PROVE  FALSE
    BY <2>4, ApiFrame DEF worker, ApiEnqueue
  <2>5. ASSUME NEW j \in Jobs, Take(j) \/ Promote(j) \/ RecoverStalled(j)
        PROVE  FALSE
    BY <2>5 DEF Take, Promote, RecoverStalled, worker
  <2>6. CASE Remove \/ Crash BY <2>6 DEF Remove, Crash, worker
  <2>7. CASE SaveLoad \/ ListPending \/ NextRecipient \/ FinishRun \/ SendOk \/ SendThrows
    BY <2>7 DEF SaveLoad, ListPending, NextRecipient, FinishRun, SendOk, SendThrows, AskOpenwa
  <2>8. CASE MarkSent \/ MarkThrows \/ Record \/ MarkFailed \/ Return \/ Throw
    BY <2>8 DEF MarkSent, MarkThrows, Record, MarkFailed, Return, Throw, Release
  <2>. QED BY <2>1, <2>2, <2>3, <2>4, <2>5, <2>6, <2>7, <2>8
              DEF Next, ApiStep, ApiRowStep, WorkerStep
<1>. QED BY <1>1, Inductive, PTL DEF Spec, CompletionHasReason

\* The recipients' rows and the messages sent implement the ledger: no
\* settled recipient is written to or changed, in any interleaving.
THEOREM KeepsLedger == Spec => LedgerKept
<1>1. Init => Ledger!LedgerInit
  BY DEF Init, Ledger!LedgerInit
<1>2. IInv /\ [Next]_vars => [Ledger!LedgerNext]_<<rcpt, asked, answered>>
  <2>. SUFFICES ASSUME IInv, [Next]_vars
                PROVE  Ledger!LedgerNext \/ UNCHANGED <<rcpt, asked, answered>>
    OBVIOUS
  <2>. USE DEF IInv, TypeOK, TodoInv
  <2>1. ASSUME NEW q \in Requests, ApiRowStep(q) \/ ApiEnqueue(q)
        PROVE  UNCHANGED <<rcpt, asked, answered>>
    BY <2>1, ApiFrame DEF ApiEnqueue
  <2>2. CASE Remove
    BY <2>2 DEF Remove, Ledger!LedgerNext, Ledger!Delete
  <2>3. CASE LoadBroadcast \/ SaveLoad \/ SaveWrite \/ ListPending \/ NextRecipient
                \/ StopCancelled \/ FinishRun
    BY <2>3 DEF LoadBroadcast, SaveLoad, SaveWrite, ListPending, NextRecipient,
                StopCancelled, FinishRun
  <2>4. CASE SendOk \/ SendThrows
    <3>1. cur \in Recipients /\ Ledger!Unsettled(cur)
      BY <2>4 DEF SendOk, SendThrows, AskOpenwa, Ledger!Unsettled
    <3>2. Ledger!Request(cur) \/ UNCHANGED <<rcpt, asked, answered>>
      BY <2>4, <3>1 DEF SendOk, SendThrows, AskOpenwa, Ledger!Request
    <3>. QED BY <3>1, <3>2 DEF Ledger!LedgerNext
  <2>5. CASE MarkSent
    <3>1. cur \in Recipients /\ Ledger!Unsettled(cur) /\ cur \in answered
      BY <2>5 DEF MarkSent, Ledger!Unsettled
    <3>2. Ledger!SettleSent(cur) \/ UNCHANGED <<rcpt, asked, answered>>
      BY <2>5, <3>1 DEF MarkSent, SaveRecipient, Ledger!SettleSent
    <3>. QED BY <3>1, <3>2 DEF Ledger!LedgerNext
  <2>6. CASE MarkFailed
    <3>1. cur \in Recipients /\ Ledger!Unsettled(cur)
      BY <2>6 DEF MarkFailed, Ledger!Unsettled
    <3>2. Ledger!SettleFailed(cur) \/ UNCHANGED <<rcpt, asked, answered>>
      BY <2>6, <3>1 DEF MarkFailed, SaveRecipient, Ledger!SettleFailed
    <3>. QED BY <3>1, <3>2 DEF Ledger!LedgerNext
  <2>7. CASE MarkThrows \/ Record \/ Return \/ Throw \/ Crash
    BY <2>7 DEF MarkThrows, Record, Return, Throw, Release, Crash
  <2>8. ASSUME NEW j \in Jobs, Take(j) \/ Promote(j) \/ RecoverStalled(j)
        PROVE  UNCHANGED <<rcpt, asked, answered>>
    BY <2>8 DEF Take, Promote, RecoverStalled
  <2>9. CASE UNCHANGED vars
    BY <2>9 DEF vars
  <2>. QED BY <2>1, <2>2, <2>3, <2>4, <2>5, <2>6, <2>7, <2>8, <2>9
              DEF Next, ApiStep, ApiRowStep, WorkerStep
<1>. QED BY <1>1, <1>2, Inductive, PTL DEF Spec, LedgerKept, Ledger!LedgerSpec
=============================================================================
