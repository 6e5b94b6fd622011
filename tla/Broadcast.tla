------------------------------ MODULE Broadcast ------------------------------
(***************************************************************************)
(* One broadcast of src/src/modules/broadcasts, from the draft create()    *)
(* leaves behind: the HTTP handlers of BroadcastsService (send, cancel,    *)
(* update, remove), the BullMQ job that runs it and the worker             *)
(* (BroadcastProcessor.process), all sharing one row of the table          *)
(* broadcasts and its rows of broadcast_recipients.                        *)
(*                                                                         *)
(* The handlers and the worker each work on an entity they loaded earlier  *)
(* and hand it to TypeORM's save().  save() is two steps here, as in the   *)
(* library: it SELECTs the row to find the columns that differ from the    *)
(* entity (SavePlan), then UPDATEs those columns, or INSERTs the entity    *)
(* when the row was not there (Saved).  Anything can happen in between,    *)
(* and an old entity carries its old columns with it.                      *)
(*                                                                         *)
(* There is one worker: BullMQ runs a queue's jobs one at a time by        *)
(* default and ecosystem.config.js keeps a single process.                 *)
(***************************************************************************)
EXTENDS FiniteSets, JobQueue

CONSTANTS Recipients,   \* the recipients create() collected
          Requests,     \* bound: HTTP requests ever made, each with its own name
          Jobs,         \* bound: jobs ever added for this broadcast
          Attempts,     \* attempts of queue.module.ts (3)
          MaxCrashes,   \* bound: crashes of the process
          Nil

ASSUME RecipientsAssumption == IsFiniteSet(Recipients) /\ Recipients # {}
ASSUME AttemptsAssumption   == Attempts \in Nat \ {0}
ASSUME CrashesAssumption    == MaxCrashes \in Nat
ASSUME NilAssumption        == Nil \notin Recipients /\ Nil \notin Jobs

VARIABLES
  row,        \* the row of broadcasts, NoRow when deleted
  rcpt,       \* status of each row of broadcast_recipients
  jobs,       \* the queue wa-broadcasts
  pc, job,    \* the worker: where process() is, the job it holds
  mem,        \*   its entity `broadcast`
  plan,       \*   the columns its save() is about to write
  cont,       \*   where process() goes on after that save()
  todo, cur,  \*   recipients left to handle, the one being handled
  api,        \* the requests in flight
  asked,      \* sends asked of OpenWA per recipient, carried out or not (not in the code)
  answered,   \* recipients whose send it answered with a 2xx (not in the code)
  logs,       \* 'sent' rows of message_logs, per recipient
  crashes

worker == <<pc, job, mem, plan, cont, todo, cur>>
vars   == <<row, rcpt, jobs, worker, api, asked, answered, logs, crashes>>

-----------------------------------------------------------------------------
(* The row, the entities made from it, and TypeORM's save().               *)

Statuses == {"draft", "queued", "sending", "done", "failed", "cancelled"}
Columns  == {"status", "sent", "failed"}
Plans    == SUBSET (Columns \cup {"insert"})

Entity == [status : Statuses \cup {"gone"}, sent : Nat, failed : Nat]
NoRow  == [status |-> "gone", sent |-> 0, failed |-> 0]
Gone(e) == e.status = "gone"

\* What save(e) decides from the row it SELECTs.
SavePlan(e) ==
  IF Gone(row) THEN {"insert"} ELSE {c \in Columns : row[c] # e[c]}

\* The INSERT of a row that exists by now: save() throws.
SaveConflicts(p) == "insert" \in p /\ ~Gone(row)

\* The row after the UPDATE or INSERT that p asks for.
Saved(e, p) ==
  IF "insert" \in p THEN e
  ELSE IF Gone(row) THEN row
  ELSE [status |-> IF "status" \in p THEN e.status ELSE row.status,
        sent   |-> IF "sent"   \in p THEN e.sent   ELSE row.sent,
        failed |-> IF "failed" \in p THEN e.failed ELSE row.failed]

-----------------------------------------------------------------------------
(* The HTTP handlers.                                                      *)

Unmade   == [op |-> "none", pc |-> "new", ent |-> NoRow, plan |-> {}]
Answered == [op |-> "none", pc |-> "answered", ent |-> NoRow, plan |-> {}]

Request ==
  [op : {"none", "send", "cancel", "update"},
   pc : {"new", "load", "write", "enqueue", "answered"},
   ent : Entity, plan : Plans]

Handling(q, op, status) ==
  /\ api[q] = Unmade
  /\ ~Gone(row)
  /\ api' = [api EXCEPT ![q] =
       [op |-> op, pc |-> "load", ent |-> [row EXCEPT !.status = status], plan |-> {}]]
  /\ UNCHANGED <<row, rcpt, jobs, worker, asked, answered, logs, crashes>>

\* findOne and the guard of each handler, up to its save().
Send(q)   == row.status \in {"draft", "failed", "cancelled"} /\ Handling(q, "send", "queued")
Cancel(q) == Handling(q, "cancel", "cancelled")
Update(q) == row.status = "draft" /\ Handling(q, "update", "draft")

ApiLoad(q) ==
  /\ api[q].pc = "load"
  /\ api' = [api EXCEPT ![q].pc = "write", ![q].plan = SavePlan(api[q].ent)]
  /\ UNCHANGED <<row, rcpt, jobs, worker, asked, answered, logs, crashes>>

ApiWrite(q) ==
  /\ api[q].pc = "write"
  /\ ~SaveConflicts(api[q].plan)
  /\ row' = Saved(api[q].ent, api[q].plan)
  /\ api' = [api EXCEPT ![q] =
       IF api[q].op = "send" THEN [api[q] EXCEPT !.pc = "enqueue"] ELSE Answered]
  /\ UNCHANGED <<rcpt, jobs, worker, asked, answered, logs, crashes>>

\* queue.add; the delay is positive for a broadcast scheduled for later.
ApiEnqueue(q) ==
  /\ api[q].pc = "enqueue"
  /\ \E j \in Jobs, delayed \in BOOLEAN :
       /\ jobs[j] = NoJob
       /\ jobs' = [jobs EXCEPT ![j] = Added(delayed)]
  /\ api' = [api EXCEPT ![q] = Answered]
  /\ UNCHANGED <<row, rcpt, worker, asked, answered, logs, crashes>>

\* The database or Redis rejects, or the INSERT conflicts: the request ends
\* with an error and what it had done stays.
ApiFails(q) ==
  /\ api[q].pc \in {"load", "write", "enqueue"}
  /\ api' = [api EXCEPT ![q] = Answered]
  /\ UNCHANGED <<row, rcpt, jobs, worker, asked, answered, logs, crashes>>

\* remove(): the recipients go with the row (onDelete CASCADE).
Remove ==
  /\ ~Gone(row)
  /\ row' = NoRow
  /\ rcpt' = [r \in Recipients |-> "gone"]
  /\ UNCHANGED <<jobs, worker, api, asked, answered, logs, crashes>>

-----------------------------------------------------------------------------
(* The worker.                                                             *)

\* process() has returned or rejected: the worker holds no job.
Release(outcome) ==
  /\ jobs' = [jobs EXCEPT ![job] = outcome]
  /\ pc' = "idle" /\ job' = Nil /\ mem' = NoRow /\ plan' = {}
  /\ cont' = "idle" /\ todo' = {} /\ cur' = Nil

Take(j) ==
  /\ pc = "idle"
  /\ jobs[j].state = "waiting"
  /\ jobs' = [jobs EXCEPT ![j] = Taken(@)]
  /\ job' = j /\ pc' = "load"
  /\ UNCHANGED <<row, rcpt, mem, plan, cont, todo, cur, api, asked, answered, logs, crashes>>

LoadBroadcast ==
  /\ pc = "load"
  /\ IF Gone(row)
       THEN pc' = "return" /\ UNCHANGED <<mem, cont>>
       ELSE /\ mem' = [row EXCEPT !.status = "sending"]
            /\ pc' = "saveLoad" /\ cont' = "list"
  /\ UNCHANGED <<row, rcpt, jobs, job, plan, todo, cur, api, asked, answered, logs, crashes>>

SaveLoad ==
  /\ pc = "saveLoad"
  /\ plan' = SavePlan(mem)
  /\ pc' = "saveWrite"
  /\ UNCHANGED <<row, rcpt, jobs, job, mem, cont, todo, cur, api, asked, answered, logs, crashes>>

SaveWrite ==
  /\ pc = "saveWrite"
  /\ ~SaveConflicts(plan)
  /\ row' = Saved(mem, plan)
  /\ pc' = cont /\ plan' = {}
  /\ UNCHANGED <<rcpt, jobs, job, mem, cont, todo, cur, api, asked, answered, logs, crashes>>

\* Mutant: the query forgets `status: 'pending'` and lists failed ones again.
ListPendingOrFailed ==
  /\ pc = "list"
  /\ todo' = {r \in Recipients : rcpt[r] \in {"pending", "failed"}}
  /\ pc' = "next"
  /\ UNCHANGED <<row, rcpt, jobs, job, mem, plan, cont, cur, api, asked, answered, logs, crashes>>

ListPending ==
  /\ pc = "list"
  /\ todo' = {r \in Recipients : rcpt[r] = "pending"}
  /\ pc' = "next"
  /\ UNCHANGED <<row, rcpt, jobs, job, mem, plan, cont, cur, api, asked, answered, logs, crashes>>

\* The head of the loop, which reads the status afresh.  A deleted row is
\* not 'cancelled'.
NextRecipient ==
  /\ pc = "next" /\ todo # {} /\ row.status # "cancelled"
  /\ cur' \in todo
  /\ pc' = "send"
  /\ UNCHANGED <<row, rcpt, jobs, job, mem, plan, cont, todo, api, asked, answered, logs, crashes>>

\* Mutant: `break` for `return`, and the code after the loop runs.
BreakCancelled ==
  /\ pc = "next" /\ todo # {} /\ row.status = "cancelled"
  /\ mem' = [mem EXCEPT !.status = "done"] /\ todo' = {}
  /\ pc' = "saveLoad" /\ cont' = "return"
  /\ UNCHANGED <<row, rcpt, jobs, job, plan, cur, api, asked, answered, logs, crashes>>

StopCancelled ==
  /\ pc = "next" /\ todo # {} /\ row.status = "cancelled"
  /\ pc' = "return"
  /\ UNCHANGED <<row, rcpt, jobs, job, mem, plan, cont, todo, cur, api, asked, answered, logs, crashes>>

FinishRun ==
  /\ pc = "next" /\ todo = {}
  /\ mem' = [mem EXCEPT !.status = "done"]
  /\ pc' = "saveLoad" /\ cont' = "return"
  /\ UNCHANGED <<row, rcpt, jobs, job, plan, todo, cur, api, asked, answered, logs, crashes>>

\* openwa.sendText for cur.  Whether the message goes out is not for the code
\* to see: not after an error or a timeout, and not after a 2xx either, whose
\* body may say success: false.
AskOpenwa ==
  /\ pc = "send"
  /\ asked' = [asked EXCEPT ![cur] = @ + 1]
  /\ UNCHANGED <<row, rcpt, jobs, job, mem, plan, cont, todo, cur, api, crashes>>

\* Mutant: the message is logged as soon as it is answered, before its row is saved.
SendOkLogged ==
  /\ AskOpenwa
  /\ answered' = answered \cup {cur}
  /\ logs' = [logs EXCEPT ![cur] = @ + 1]
  /\ pc' = "mark"

\* It returned: any 2xx.
SendOk ==
  /\ AskOpenwa
  /\ answered' = answered \cup {cur}
  /\ pc' = "mark"
  /\ UNCHANGED logs

\* It threw: an error status, or no answer within 30 s.
SendThrows ==
  /\ AskOpenwa
  /\ pc' = "fail"
  /\ UNCHANGED <<answered, logs>>

\* recipients.save(recipient).  A row deleted before its SELECT is INSERTed
\* again, which needs the broadcast's row; one deleted after it is left out.
SaveRecipient(status) ==
  \/ /\ rcpt[cur] = "gone" => ~Gone(row)
     /\ rcpt' = [rcpt EXCEPT ![cur] = status]
  \/ rcpt[cur] = "gone" /\ UNCHANGED rcpt

MarkSent ==
  /\ pc = "mark"
  /\ SaveRecipient("sent")
  /\ mem' = [mem EXCEPT !.sent = @ + 1]
  /\ todo' = todo \ {cur}
  /\ pc' = "record"
  /\ UNCHANGED <<row, jobs, job, plan, cont, cur, api, asked, answered, logs, crashes>>

\* Mutant: sentCount++ above the save of the recipient.
MarkThrowsCounted ==
  /\ pc = "mark"
  /\ mem' = [mem EXCEPT !.sent = @ + 1]
  /\ pc' = "fail"
  /\ UNCHANGED <<row, rcpt, jobs, job, plan, cont, todo, cur, api, asked, answered, logs, crashes>>

\* recipients.save threw: the catch block takes over.
MarkThrows ==
  /\ pc = "mark"
  /\ pc' = "fail"
  /\ UNCHANGED <<row, rcpt, jobs, job, mem, plan, cont, todo, cur, api, asked, answered, logs, crashes>>

\* messages.record, whose failure is swallowed.
Record ==
  /\ pc = "record"
  /\ \/ logs' = [logs EXCEPT ![cur] = @ + 1]
     \/ UNCHANGED logs
  /\ pc' = "saveLoad" /\ cont' = "next" /\ cur' = Nil
  /\ UNCHANGED <<row, rcpt, jobs, job, mem, plan, todo, api, asked, answered, crashes>>

MarkFailed ==
  /\ pc = "fail"
  /\ SaveRecipient("failed")
  /\ mem' = [mem EXCEPT !.failed = @ + 1]
  /\ todo' = todo \ {cur}
  /\ pc' = "saveLoad" /\ cont' = "next" /\ cur' = Nil
  /\ UNCHANGED <<row, jobs, job, plan, api, asked, answered, logs, crashes>>

\* process() resolved, and BullMQ moves the job to completed.
Return ==
  /\ pc = "return"
  /\ Release(Completed(jobs[job]))
  /\ UNCHANGED <<row, rcpt, api, asked, answered, logs, crashes>>

\* A query outside the try block rejects, and process() with it.
ThrowPoints == {"load", "saveLoad", "saveWrite", "list", "next", "fail"}

\* Mutant: process() catches and logs instead of rejecting.
ThrowSwallowed ==
  /\ pc \in ThrowPoints
  /\ pc' = "return"
  /\ UNCHANGED <<row, rcpt, jobs, job, mem, plan, cont, todo, cur, api, asked, answered, logs, crashes>>

Throw ==
  /\ pc \in ThrowPoints
  /\ Release(Rejected(jobs[job], Attempts))
  /\ UNCHANGED <<row, rcpt, api, asked, answered, logs, crashes>>

-----------------------------------------------------------------------------
(* The queue's own moves, and a crash of the process.                      *)

\* The delay or the backoff of a job is over.
Promote(j) ==
  /\ jobs[j].state = "delayed"
  /\ jobs' = [jobs EXCEPT ![j] = Promoted(@)]
  /\ UNCHANGED <<row, rcpt, worker, api, asked, answered, logs, crashes>>

\* BullMQ finds an active job that no worker holds.
RecoverStalled(j) ==
  /\ jobs[j].state = "active" /\ job # j
  /\ jobs' = [jobs EXCEPT ![j] = Stalled(@)]
  /\ UNCHANGED <<row, rcpt, worker, api, asked, answered, logs, crashes>>

\* API and workers are one process: both lose what they had in memory.
Crash ==
  /\ crashes < MaxCrashes
  /\ crashes' = crashes + 1
  /\ pc' = "idle" /\ job' = Nil /\ mem' = NoRow /\ plan' = {}
  /\ cont' = "idle" /\ todo' = {} /\ cur' = Nil
  /\ api' = [q \in Requests |-> IF api[q] = Unmade THEN Unmade ELSE Answered]
  /\ UNCHANGED <<row, rcpt, jobs, asked, answered, logs>>

-----------------------------------------------------------------------------
\* The state create() leaves: a draft with every recipient pending.
Init ==
  /\ row = [status |-> "draft", sent |-> 0, failed |-> 0]
  /\ rcpt = [r \in Recipients |-> "pending"]
  /\ jobs = [j \in Jobs |-> NoJob]
  /\ pc = "idle" /\ job = Nil /\ mem = NoRow /\ plan = {}
  /\ cont = "idle" /\ todo = {} /\ cur = Nil
  /\ api = [q \in Requests |-> Unmade]
  /\ asked = [r \in Recipients |-> 0]
  /\ answered = {}
  /\ logs = [r \in Recipients |-> 0]
  /\ crashes = 0

ApiStep(q) ==
  \/ Send(q) \/ Cancel(q) \/ Update(q)
  \/ ApiLoad(q) \/ ApiWrite(q) \/ ApiEnqueue(q) \/ ApiFails(q)

WorkerStep ==
  \/ LoadBroadcast \/ SaveLoad \/ SaveWrite \/ ListPending
  \/ NextRecipient \/ StopCancelled \/ FinishRun
  \/ SendOk \/ SendThrows \/ MarkSent \/ MarkThrows \/ Record \/ MarkFailed
  \/ Return \/ Throw

Next ==
  \/ \E q \in Requests : ApiStep(q)
  \/ Remove
  \/ WorkerStep
  \/ \E j \in Jobs : Take(j) \/ Promote(j) \/ RecoverStalled(j)
  \/ Crash

\* The event loop runs a process() it has begun, BullMQ hands out waiting
\* jobs, fires their timers and recovers stalled ones.  Nothing obliges a
\* user to call, or the database to answer without an error.
Fairness ==
  /\ WF_vars(WorkerStep)
  /\ \A j \in Jobs : WF_vars(Take(j)) /\ WF_vars(Promote(j)) /\ WF_vars(RecoverStalled(j))

Spec     == Init /\ [][Next]_vars
FairSpec == Spec /\ Fairness
-----------------------------------------------------------------------------
(* Properties.                                                             *)

\* Every variable keeps the shape the code gives it.
TypeOK ==
  /\ row \in Entity
  /\ rcpt \in [Recipients -> {"pending", "sent", "failed", "gone"}]
  /\ jobs \in [Jobs -> Job(Attempts)]
  /\ pc \in {"idle", "load", "list", "next", "send", "mark", "record", "fail",
             "saveLoad", "saveWrite", "return"}
  /\ job \in Jobs \cup {Nil}
  /\ mem \in Entity
  /\ plan \in Plans
  /\ cont \in {"idle", "list", "next", "return"}
  /\ todo \in SUBSET Recipients
  /\ cur \in Recipients \cup {Nil}
  /\ api \in [Requests -> Request]
  /\ asked \in [Recipients -> Nat]
  /\ answered \in SUBSET Recipients
  /\ logs \in [Recipients -> Nat]
  /\ crashes \in 0..MaxCrashes

Shown(report, S) == {r \in Recipients : report[r] \in S}
Reported(S)      == Shown(rcpt, S)

\* sentCount and failedCount, which status() and the progress events show,
\* never run ahead of the recipients' own rows (report()): crashes, retries
\* and saves of old entities may lose counts, but none is counted twice.
CountersHonest ==
  /\ row.sent <= Cardinality(Reported({"sent", "gone"}))
  /\ row.failed <= Cardinality(Reported({"failed", "gone"}))

\* A broadcast shown as done has handled each of its recipients: no crash,
\* overlapping request, retry or cancelled run leaves someone pending in it.
DoneIsComplete == row.status = "done" => Reported({"pending"}) = {}

\* The message log never shows a recipient of the broadcast twice, and shows
\* as sent only those whose own row says so (or was deleted since).
LogsMatchReport ==
  \A r \in Recipients :
    logs[r] <= 1 /\ (logs[r] = 1 => rcpt[r] \in {"sent", "gone"})

\* process() resolves, and so the job counts as completed and is not retried,
\* only when the broadcast is done, cancelled or deleted at that moment.
CompletionHasReason ==
  [][pc # "return" /\ pc' = "return" =>
       row'.status \in {"done", "cancelled", "gone"}]_vars

\* Whatever the handlers, retries and crashes do to them, the recipients'
\* rows, the requests to OpenWA and its answers follow the ledger of
\* RecipientLedger.tla.
Ledger == INSTANCE RecipientLedger
LedgerKept == Ledger!LedgerSpec

\* Every job added for the broadcast ends as completed or failed: attempts,
\* stalls and the loop over the recipients all run out.
JobsSettle == \A j \in Jobs : Live(jobs[j]) ~> Settled(jobs[j])

-----------------------------------------------------------------------------
(* The inductive invariant behind the safety properties.                   *)

Saving == pc \in {"saveLoad", "saveWrite"}

\* Before process() has listed its recipients, and after.
Unlisted == pc \in {"load", "list"} \/ (Saving /\ cont = "list")
Listed   == pc \in {"next", "send", "mark", "record", "fail"}
              \/ (Saving /\ cont \in {"next", "return"})

\* No live job has used up its attempts, and the worker's job is active.
JobsInv ==
  /\ \A j \in Jobs : Live(jobs[j]) => jobs[j].made < Attempts
  /\ pc # "idle" => job \in Jobs /\ jobs[job].state = "active"
  /\ pc = "idle" => job = Nil /\ todo = {}
  /\ Saving => cont # "idle"

\* What is left to do is unsettled and unlogged, and once listed it is all
\* that is left.
TodoInv ==
  /\ \A r \in todo : rcpt[r] \in {"pending", "gone"} /\ logs[r] = 0
  /\ Unlisted => todo = {}
  /\ Listed => Reported({"pending"}) \subseteq todo
  /\ Saving /\ cont = "return" => todo = {}
  /\ pc \in {"send", "mark", "fail"} => cur \in todo
  /\ pc = "mark" => cur \in answered
  /\ pc = "record" =>
       /\ cur \in Recipients \ todo
       /\ rcpt[cur] \in {"sent", "gone"} /\ logs[cur] = 0

LogInv ==
  \A r \in Recipients :
    logs[r] <= 1 /\ (logs[r] = 1 => rcpt[r] \in {"sent", "gone"} /\ r \notin todo)

\* Only the last save() of a run carries 'done', once nobody is pending, and
\* a row it finds done is overwritten by its first.
DoneInv ==
  /\ row.status = "done" => Reported({"pending"}) = {}
  /\ mem.status = "done" => (Saving /\ cont = "return") \/ pc = "return"
  /\ Saving /\ cont = "return" => mem.status = "done"
  /\ \A q \in Requests : api[q].ent.status # "done"
  /\ pc = "saveWrite" /\ (cont = "return" \/ row.status = "done") =>
       plan \cap {"status", "insert"} # {}
  /\ pc \in {"list", "next", "send", "mark", "record", "fail"} => row.status # "done"
  /\ pc = "saveLoad" /\ cont # "list" => row.status # "done"
  /\ pc = "saveWrite" /\ cont = "next" => row.status # "done"

\* The counts of the row, and of every entity made from it, are backed by
\* recipients that nobody will handle again.
BackedBy(e, report, left) ==
  /\ e.sent <= Cardinality(Shown(report, {"sent", "gone"}) \ left)
  /\ e.failed <= Cardinality(Shown(report, {"failed", "gone"}) \ left)

Backed(e) == BackedBy(e, rcpt, todo)

CountInv ==
  /\ Backed(row)
  /\ Backed(mem)
  /\ \A q \in Requests : Backed(api[q].ent)

\* The conjunction of the parts above is preserved by every step: what each
\* handler and each point of process() relies on in the others.
IInv == TypeOK /\ JobsInv /\ TodoInv /\ LogInv /\ DoneInv /\ CountInv

-----------------------------------------------------------------------------
(* What the code's own comments and documents say of it, and TLC refutes.  *)

\* "Honour cancellation requested mid-flight": once its loop is under way, a
\* run leaves a cancelled broadcast cancelled.
CancelHonoured ==
  [][row.status = "cancelled" /\ cont = "next" /\ api' = api =>
       row'.status \in {"cancelled", "gone"}]_vars

\* remove() answers "Broadcast deleted": it does not come back.
DeletedStaysDeleted == [][Gone(row) => Gone(row')]_vars

\* A run of the broadcast comes to an end the status shows, 'done', or the
\* 'failed' that the entity declares and send() accepts.
SendingEnds == row.status = "sending" ~> row.status # "sending"
=============================================================================
