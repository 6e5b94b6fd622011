------------------------------ MODULE Messages ------------------------------
(***************************************************************************)
(* Queued messages of src/src/modules/messages: send() and sendBulk()      *)
(* enqueue one job per recipient, and the worker sends each through OpenWA *)
(* and records the outcome in message_logs.                                *)
(*                                                                         *)
(* A bulk call adds its jobs one by one and may fail between two of them.  *)
(* The worker records inside the try block that the send is in: a message  *)
(* OpenWA accepted but that was not recorded is treated as one that failed,*)
(* and the retry sends it again.  That is always so for a chat id that is  *)
(* longer than the column to_phone.                                        *)
(***************************************************************************)
EXTENDS FiniteSets, Sequences, JobQueue

CONSTANTS Chats,        \* the chats written to
          LongIds,      \* those whose id does not fit to_phone (20 characters)
          Lists,        \* the recipients of a call, in order
          Requests,     \* bound: calls of send() and sendBulk() ever made
          Jobs,         \* bound: messages ever enqueued
          Attempts,     \* attempts of queue.module.ts (3)
          MaxCrashes,   \* bound: crashes of the process
          Nil

ASSUME ListsAssumption      == \A l \in Lists : l \in Seq(Chats) /\ l # <<>>
ASSUME MsgAttemptAssumption == Attempts \in Nat \ {0}
ASSUME MsgCrashAssumption   == MaxCrashes \in Nat
ASSUME MsgNilAssumption     == Nil \notin Jobs

VARIABLES
  jobs,       \* the queue wa-messages
  info,       \* per job: the call it is of, the place in its list, the chat
  api,        \* the calls in flight
  pc, job,    \* the worker: where process() is, the job it holds
  asked,      \* sends asked of OpenWA per job, carried out or not (not in the code)
  answered,   \* those of them it answered with a 2xx (not in the code)
  rows,       \* the rows of message_logs, per job, oldest first
  crashes

vars == <<jobs, info, api, pc, job, asked, answered, rows, crashes>>

-----------------------------------------------------------------------------
(* send() and sendBulk().                                                  *)

Call   == [pc : {"new", "enqueue", "ok", "error"}, list : Lists \cup {<<>>}, next : Nat]
Unmade == [pc |-> "new", list |-> <<>>, next |-> 1]

\* What a job carries.
Info   == [call : Requests, place : Nat, to : Chats]

\* assertMember and findOne passed; send() is a list of one.
Begin(q) ==
  /\ api[q] = Unmade
  /\ \E l \in Lists : api' = [api EXCEPT ![q] = [pc |-> "enqueue", list |-> l, next |-> 1]]
  /\ UNCHANGED <<jobs, info, pc, job, asked, answered, rows, crashes>>

\* Mutant: the loop ends one recipient early.
OneShort(c) == c.next >= Len(c.list) - 1

\* The recipient being enqueued is the last one.
AtLast(c) == c.next = Len(c.list)

\* queue.add with a delay of i times delayMs, which may be 0.
Enqueue(q) ==
  /\ api[q].pc = "enqueue"
  /\ \E j \in Jobs, delayed \in BOOLEAN :
       /\ jobs[j] = NoJob
       /\ delayed => api[q].next > 1
       /\ jobs' = [jobs EXCEPT ![j] = Added(delayed)]
       /\ info' = [info EXCEPT ![j] =
            [call |-> q, place |-> api[q].next, to |-> api[q].list[api[q].next]]]
  /\ api' = [api EXCEPT ![q].pc = IF AtLast(api[q]) THEN "ok" ELSE "enqueue",
                        ![q].next = @ + 1]
  /\ UNCHANGED <<pc, job, asked, answered, rows, crashes>>

\* A query or queue.add rejects: the caller gets an error, and what was
\* enqueued stays.
EnqueueFails(q) ==
  /\ api[q].pc = "enqueue"
  /\ api' = [api EXCEPT ![q] = [@ EXCEPT !.pc = "error"]]
  /\ UNCHANGED <<jobs, info, pc, job, asked, answered, rows, crashes>>

-----------------------------------------------------------------------------
(* The worker.                                                             *)

Take(j) ==
  /\ pc = "idle"
  /\ jobs[j].state = "waiting"
  /\ jobs' = [jobs EXCEPT ![j] = Taken(@)]
  /\ job' = j /\ pc' = "load"
  /\ UNCHANGED <<info, api, asked, answered, rows, crashes>>

\* getOpenwaCredentials, before the try block.
Load ==
  /\ pc = "load"
  /\ pc' = "send"
  /\ UNCHANGED <<jobs, info, api, job, asked, answered, rows, crashes>>

\* sendText, sendImage or sendFile.  Whether the message goes out is not for
\* the code to see: not after an error or a timeout, and not after a 2xx
\* either, whose body may say success: false.
AskOpenwa ==
  /\ pc = "send"
  /\ asked' = [asked EXCEPT ![job] = @ + 1]
  /\ UNCHANGED <<jobs, info, api, job, rows, crashes>>

\* It returned: any 2xx.
SendOk ==
  /\ AskOpenwa
  /\ answered' = [answered EXCEPT ![job] = @ + 1]
  /\ pc' = "ok"

\* Mutant: an error of the send is taken for an answer without an id.
SendErrorIgnored ==
  /\ AskOpenwa
  /\ pc' = "ok"
  /\ UNCHANGED answered

\* It threw: an error status, or no answer within 30 s.
SendThrows ==
  /\ AskOpenwa
  /\ pc' = "bad"
  /\ UNCHANGED answered

Recorded(status) == rows' = [rows EXCEPT ![job] = Append(@, status)]

RecordSent ==
  /\ pc = "ok" /\ info[job].to \notin LongIds
  /\ Recorded("sent")
  /\ pc' = "return"
  /\ UNCHANGED <<jobs, info, api, job, asked, answered, crashes>>

\* record threw inside the try: the catch block takes over.
RecordSentThrows ==
  /\ pc = "ok"
  /\ pc' = "bad"
  /\ UNCHANGED <<jobs, info, api, job, asked, answered, rows, crashes>>

RecordFailed ==
  /\ pc = "bad" /\ info[job].to \notin LongIds
  /\ Recorded("failed")
  /\ pc' = "throw"
  /\ UNCHANGED <<jobs, info, api, job, asked, answered, crashes>>

Return ==
  /\ pc = "return"
  /\ jobs' = [jobs EXCEPT ![job] = Completed(@)]
  /\ pc' = "idle" /\ job' = Nil
  /\ UNCHANGED <<info, api, asked, answered, rows, crashes>>

\* process() rejects: the workspace is gone, the record of the failure threw,
\* or the catch block came to its end.
Throw ==
  /\ pc \in {"load", "bad", "throw"}
  /\ jobs' = [jobs EXCEPT ![job] = Rejected(@, Attempts)]
  /\ pc' = "idle" /\ job' = Nil
  /\ UNCHANGED <<info, api, asked, answered, rows, crashes>>

-----------------------------------------------------------------------------
(* The queue's own moves, and a crash of the process.                      *)

Promote(j) ==
  /\ jobs[j].state = "delayed"
  /\ jobs' = [jobs EXCEPT ![j] = Promoted(@)]
  /\ UNCHANGED <<info, api, pc, job, asked, answered, rows, crashes>>

RecoverStalled(j) ==
  /\ jobs[j].state = "active" /\ job # j
  /\ jobs' = [jobs EXCEPT ![j] = Stalled(@)]
  /\ UNCHANGED <<info, api, pc, job, asked, answered, rows, crashes>>

Crash ==
  /\ crashes < MaxCrashes
  /\ crashes' = crashes + 1
  /\ pc' = "idle" /\ job' = Nil
  /\ api' = [q \in Requests |->
       IF api[q].pc = "enqueue" THEN [api[q] EXCEPT !.pc = "error"] ELSE api[q]]
  /\ UNCHANGED <<jobs, info, asked, answered, rows>>

-----------------------------------------------------------------------------
Init ==
  /\ jobs = [j \in Jobs |-> NoJob]
  /\ info = [j \in Jobs |-> Nil]
  /\ api = [q \in Requests |-> Unmade]
  /\ pc = "idle" /\ job = Nil
  /\ asked = [j \in Jobs |-> 0] /\ answered = [j \in Jobs |-> 0]
  /\ rows = [j \in Jobs |-> <<>>]
  /\ crashes = 0

WorkerStep ==
  \/ Load \/ SendOk \/ SendThrows \/ RecordSent \/ RecordSentThrows
  \/ RecordFailed \/ Return \/ Throw

Next ==
  \/ \E q \in Requests : Begin(q) \/ Enqueue(q) \/ EnqueueFails(q)
  \/ WorkerStep
  \/ \E j \in Jobs : Take(j) \/ Promote(j) \/ RecoverStalled(j)
  \/ Crash

Spec == Init /\ [][Next]_vars

-----------------------------------------------------------------------------
(* Properties.                                                             *)

\* Every variable keeps the shape the code gives it.
TypeOK ==
  /\ jobs \in [Jobs -> Job(Attempts)]
  /\ info \in [Jobs -> Info \cup {Nil}]
  /\ api \in [Requests -> Call]
  /\ pc \in {"idle", "load", "send", "ok", "bad", "throw", "return"}
  /\ job \in Jobs \cup {Nil}
  /\ asked \in [Jobs -> Nat] /\ answered \in [Jobs -> Nat]
  /\ rows \in [Jobs -> Seq({"sent", "failed"})]
  /\ crashes \in 0..MaxCrashes

JobsOf(q) == {j \in Jobs : jobs[j].state # "none" /\ info[j].call = q}

\* Whatever fails in the middle of a call, it has enqueued each recipient up
\* to some place of its list once, and all of them if it was answered.
CallsAreWhole ==
  \A q \in Requests :
    LET upto == IF api[q].pc = "ok" THEN Len(api[q].list) ELSE api[q].next - 1
    IN  /\ \A i \in 1..upto : \E j \in JobsOf(q) :
             info[j].place = i /\ info[j].to = api[q].list[i]
        /\ \A j \in JobsOf(q) : info[j].place <= upto
        /\ \A j, k \in JobsOf(q) : info[j].place = info[k].place => j = k

SentRows(j) == Cardinality({i \in 1..Len(rows[j]) : rows[j][i] = "sent"})

\* The attempts at a message that may have begun: those counted, those that
\* stalled, and the one that ended well, is under way, or stalled for good.
Begun(j) ==
  jobs[j].made + jobs[j].stalls +
    (IF \/ jobs[j].state \in {"active", "completed"}
        \/ jobs[j].state = "failed" /\ jobs[j].stalls = MaxStalls
     THEN 1 ELSE 0)

\* The log shows a message as sent only as often as OpenWA answered so, and
\* nothing after it unless the process died; it is asked for, and logged, at
\* most once per attempt; a completed one is logged as sent at last.
LogBacked ==
  \A j \in Jobs :
    /\ SentRows(j) <= answered[j] /\ answered[j] <= asked[j] /\ asked[j] <= Begun(j)
    /\ Len(rows[j]) <= Begun(j)
    /\ \A i \in 1..Len(rows[j]) :
         rows[j][i] = "sent" => i = Len(rows[j]) \/ jobs[j].stalls > 0
    /\ jobs[j].state = "completed" => rows[j] # <<>> /\ rows[j][Len(rows[j])] = "sent"

\* What the queue shows of a job.
Outcome(j) ==
  CASE jobs[j].state = "none" -> "none"
    [] Live(jobs[j]) -> "pending"
    [] jobs[j].state = "failed" -> "failed"
    [] OTHER -> "delivered"

\* Each message enqueued goes through the outbox of Outbox.tla.
Box == INSTANCE Outbox WITH
         Items <- Jobs, requests <- asked, backing <- answered,
         outcome <- [j \in Jobs |-> Outcome(j)]
OutboxKept == Box!OutboxSpec

-----------------------------------------------------------------------------
(* The inductive invariant behind the safety properties.                   *)

\* A call that goes on has a recipient to enqueue.
CallInv ==
  \A q \in Requests :
    /\ api[q].pc = "enqueue" => api[q].list \in Lists /\ api[q].next \in 1..Len(api[q].list)
    /\ api[q].pc = "ok" => Len(api[q].list) = api[q].next - 1

\* The worker's job is active; an enqueued job has attempts left.
JobsInv ==
  /\ pc # "idle" => job \in Jobs /\ jobs[job].state = "active"
  /\ pc = "idle" => job = Nil
  /\ \A j \in Jobs :
       /\ Live(jobs[j]) => jobs[j].made < Attempts
       /\ jobs[j].state = "none" => rows[j] = <<>> /\ asked[j] = 0
       /\ jobs[j].state # "none" => info[j] \in Info

\* An attempt that the worker has not sent, or not recorded, yet.
Unsent(j)     == job = j /\ pc \in {"load", "send"}
Unrecorded(j) == job = j /\ pc \in {"load", "send", "ok", "bad"}

\* What is asked, answered and recorded, counted by the attempts that are past it.
SentInv ==
  /\ pc \in {"ok", "return"} => answered[job] > 0
  /\ pc = "ok" => SentRows(job) < answered[job]
  /\ pc = "return" => rows[job] # <<>> /\ rows[job][Len(rows[job])] = "sent"
  /\ \A j \in Jobs :
       /\ Unsent(j) => asked[j] < Begun(j)
       /\ Unrecorded(j) => Len(rows[j]) < Begun(j)
       /\ Live(jobs[j]) /\ jobs[j].stalls = 0 /\ ~(job = j /\ pc = "return")
            /\ ~(jobs[j].state = "active" /\ job # j) =>
            \A i \in 1..Len(rows[j]) : rows[j][i] = "failed"

IInv == TypeOK /\ CallInv /\ JobsInv /\ SentInv /\ CallsAreWhole /\ LogBacked
=============================================================================
