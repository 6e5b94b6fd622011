---------------------------- MODULE MessageProofs ---------------------------
(* Machine-checked proofs about Messages.tla, for every number of chats,    *)
(* calls, messages, attempts and crashes.                                   *)
EXTENDS Messages, JobQueueProofs, FiniteSetTheorems

-----------------------------------------------------------------------------
(* Facts about logs.                                                       *)

\* The number of rows of a log that say sent.
SentIn(r) == Cardinality({i \in 1..Len(r) : r[i] = "sent"})

LEMMA SentInAppend ==
  ASSUME NEW r \in Seq({"sent", "failed"}), NEW x \in {"sent", "failed"}
  PROVE  /\ SentIn(r) \in Nat
         /\ x = "sent" => SentIn(Append(r, x)) = SentIn(r) + 1
         /\ x = "failed" => SentIn(Append(r, x)) = SentIn(r)
<1>. DEFINE S == {i \in 1..Len(r) : r[i] = "sent"}
            s == Append(r, x)
            T == {i \in 1..Len(s) : s[i] = "sent"}
            n == Len(r) + 1
<1>1. Len(r) \in Nat /\ Len(s) = n OBVIOUS
<1>2. IsFiniteSet(1..Len(r)) BY <1>1, FS_Interval
<1>3. IsFiniteSet(S) /\ n \notin S BY <1>1, <1>2, FS_Subset
<1>4. Cardinality(S) \in Nat BY <1>3, FS_CardinalityType
<1>5. s[n] = x /\ \A i \in 1..Len(r) : s[i] = r[i] OBVIOUS
<1>6. 1..Len(s) = 1..Len(r) \cup {n} BY <1>1
<1>. HIDE DEF s, n
<1>7. CASE x = "sent"
  <2>1. T = S \cup {n} BY <1>5, <1>6, <1>7
  <2>2. Cardinality(T) = Cardinality(S) + 1 BY <1>3, <2>1, FS_AddElement
  <2>. QED BY <1>4, <1>7, <2>2 DEF SentIn, s
<1>8. CASE x = "failed"
  <2>1. T = S BY <1>5, <1>6, <1>8
  <2>. QED BY <1>4, <1>8, <2>1 DEF SentIn, s
<1>. QED BY <1>7, <1>8

-----------------------------------------------------------------------------
(* The shape of the state, the calls, and the queue.                        *)

\* The worker's job is a job under way with attempts left.
LEMMA WorkerJob ==
  ASSUME TypeOK, JobsInv, pc # "idle"
  PROVE  /\ job \in Jobs /\ jobs[job] \in Job(Attempts) /\ jobs[job].state = "active"
         /\ jobs[job].made < Attempts /\ info[job] \in Info
BY DEF TypeOK, JobsInv, Live

LEMMA TypeStep ==
  ASSUME TypeOK, CallInv, JobsInv, Next
  PROVE  TypeOK'
<1>. USE DEF TypeOK
<1>1. ASSUME NEW q \in Requests, Begin(q)
      PROVE  TypeOK'
  BY <1>1 DEF Begin, Call
<1>2. ASSUME NEW q \in Requests, Enqueue(q)
      PROVE  TypeOK'
  <2>. DEFINE c == api[q]
              n == [c EXCEPT !.pc = IF AtLast(c) THEN "ok" ELSE "enqueue", !.next = @ + 1]
  <2>1. PICK j \in Jobs, d \in BOOLEAN :
          /\ jobs' = [jobs EXCEPT ![j] = Added(d)]
          /\ info' = [info EXCEPT ![j] = [call |-> q, place |-> c.next, to |-> c.list[c.next]]]
    BY <1>2 DEF Enqueue
  <2>2. c \in Call /\ c.list \in Lists /\ c.next \in 1..Len(c.list)
    BY <1>2 DEF Enqueue, CallInv
  <2>3. n \in Call
    <3>1. (IF AtLast(c) THEN "ok" ELSE "enqueue") \in {"ok", "enqueue"} OBVIOUS
    <3>2. c.next + 1 \in Nat BY <2>2 DEF Call
    <3>. HIDE DEF c
    <3>. QED BY <2>2, <3>1, <3>2 DEF Call
  <2>4. c.next \in Nat /\ c.list[c.next] \in Chats BY <2>2, ListsAssumption DEF Call
  <2>5. [call |-> q, place |-> c.next, to |-> c.list[c.next]] \in Info BY <2>4 DEF Info
  <2>6. jobs' \in [Jobs -> Job(Attempts)] BY <2>1, JobAdded, MsgAttemptAssumption
  <2>7. info' \in [Jobs -> Info \cup {Nil}] BY <2>1, <2>5
  <2>8. api' \in [Requests -> Call]
    <3>1. api' = [api EXCEPT ![q] = n] BY <1>2 DEF Enqueue, TypeOK
    <3>. HIDE DEF n
    <3>. QED BY <2>3, <3>1
  <2>. QED BY <1>2, <2>6, <2>7, <2>8 DEF Enqueue
<1>3. ASSUME NEW q \in Requests, EnqueueFails(q)
      PROVE  TypeOK'
  BY <1>3 DEF EnqueueFails, Call
<1>4. CASE Load BY <1>4 DEF Load
<1>5. CASE SendOk \/ SendThrows
  <2>. USE DEF SendOk, SendThrows, AskOpenwa
  <2>1. job \in Jobs BY <1>5, WorkerJob
  <2>2. asked[job] + 1 \in Nat /\ answered[job] + 1 \in Nat BY <2>1
  <2>3. /\ asked' = [asked EXCEPT ![job] = asked[job] + 1]
        /\ answered' = answered \/ answered' = [answered EXCEPT ![job] = answered[job] + 1]
    BY <1>5
  <2>4. asked' \in [Jobs -> Nat] /\ answered' \in [Jobs -> Nat] BY <2>1, <2>2, <2>3
  <2>. QED BY <1>5, <2>4
<1>6. CASE RecordSent \/ RecordFailed
  <2>1. job \in Jobs BY <1>6, WorkerJob DEF RecordSent, RecordFailed
  <2>2. PICK x \in {"sent", "failed"} : rows' = [rows EXCEPT ![job] = Append(@, x)]
    BY <1>6 DEF RecordSent, RecordFailed, Recorded
  <2>3. rows' \in [Jobs -> Seq({"sent", "failed"})] BY <2>1, <2>2
  <2>. QED BY <1>6, <2>3 DEF RecordSent, RecordFailed
<1>7. CASE RecordSentThrows BY <1>7 DEF RecordSentThrows
<1>8. CASE Return
  <2>1. job \in Jobs BY <1>8, WorkerJob DEF Return
  <2>2. Completed(jobs[job]) \in Job(Attempts) BY <2>1, JobMoves
  <2>. QED BY <1>8, <2>1, <2>2 DEF Return
<1>9. CASE Throw
  <2>1. job \in Jobs /\ jobs[job].made < Attempts BY <1>9, WorkerJob DEF Throw
  <2>2. Rejected(jobs[job], Attempts) \in Job(Attempts) BY <2>1, JobRejected, MsgAttemptAssumption
  <2>. QED BY <1>9, <2>1, <2>2 DEF Throw
<1>10. ASSUME NEW j \in Jobs, Take(j) \/ Promote(j)
       PROVE  TypeOK'
  <2>1. Taken(jobs[j]) \in Job(Attempts) /\ Promoted(jobs[j]) \in Job(Attempts) BY JobMoves
  <2>. QED BY <1>10, <2>1 DEF Take, Promote
<1>11. ASSUME NEW j \in Jobs, RecoverStalled(j)
       PROVE  TypeOK'
  <2>1. Stalled(jobs[j]) \in Job(Attempts) BY <1>11, JobStalled DEF RecoverStalled
  <2>. QED BY <1>11, <2>1 DEF RecoverStalled
<1>12. CASE Crash
  <2>1. crashes + 1 \in 0..MaxCrashes BY <1>12, MsgCrashAssumption DEF Crash
  <2>2. \A q \in Requests : [api[q] EXCEPT !.pc = "error"] \in Call BY DEF Call
  <2>3. api' \in [Requests -> Call] BY <1>12, <2>2 DEF Crash
  <2>. QED BY <1>12, <2>1, <2>3 DEF Crash
<1>. QED BY <1>1, <1>2, <1>3, <1>4, <1>5, <1>6, <1>7, <1>8, <1>9, <1>10, <1>11, <1>12
     DEF Next, WorkerStep

LEMMA JobsStep ==
  ASSUME TypeOK, CallInv, JobsInv, Next
  PROVE  JobsInv'
<1>. USE DEF JobsInv
<1>1. CASE UNCHANGED <<jobs, info, pc, job, asked, answered, rows>> BY <1>1
<1>2. ASSUME NEW q \in Requests, Enqueue(q)
      PROVE  JobsInv'
  <2>1. PICK j \in Jobs, d \in BOOLEAN :
          /\ jobs[j] = NoJob /\ jobs' = [jobs EXCEPT ![j] = Added(d)]
          /\ info' = [info EXCEPT ![j] =
               [call |-> q, place |-> api[q].next, to |-> api[q].list[api[q].next]]]
    BY <1>2 DEF Enqueue
  <2>2. UNCHANGED <<pc, job, asked, answered, rows>> BY <1>2 DEF Enqueue
  <2>3. jobs[j].state = "none" BY <2>1 DEF NoJob
  <2>4. pc # "idle" => job # j BY <2>3
  <2>5. /\ jobs'[j].state # "none" /\ jobs'[j].made = 0 /\ 0 < Attempts
        /\ \A k \in Jobs \ {j} : jobs'[k] = jobs[k] /\ info'[k] = info[k]
    <3>1. jobs'[j] = Added(d) /\ \A k \in Jobs \ {j} : jobs'[k] = jobs[k] /\ info'[k] = info[k]
      BY <2>1 DEF TypeOK
    <3>2. Added(d).state \in {"waiting", "delayed"} /\ Added(d).made = 0 BY JobAdded, MsgAttemptAssumption
    <3>. QED BY <3>1, <3>2, MsgAttemptAssumption
  <2>6. info'[j] \in Info
    <3>1. api[q] \in Call /\ api[q].list \in Lists /\ api[q].next \in 1..Len(api[q].list)
      BY <1>2 DEF Enqueue, CallInv, TypeOK
    <3>2. api[q].next \in Nat /\ api[q].list[api[q].next] \in Chats
      BY <3>1, ListsAssumption DEF Call
    <3>3. info'[j] = [call |-> q, place |-> api[q].next, to |-> api[q].list[api[q].next]]
      BY <2>1 DEF TypeOK
    <3>. QED BY <3>2, <3>3 DEF Info
  <2>. QED BY <2>2, <2>4, <2>5, <2>6
<1>3. ASSUME NEW j \in Jobs, Take(j)
      PROVE  JobsInv'
  <2>1. Taken(jobs[j]).state = "active" /\ Taken(jobs[j]).made = jobs[j].made
    <3>1. jobs[j] \in Job(Attempts) BY DEF TypeOK
    <3>. QED BY <3>1, JobMoves
  <2>2. Live(jobs[j]) /\ jobs[j].state # "none" BY <1>3 DEF Take, Live
  <2>3. /\ jobs'[j] = Taken(jobs[j]) /\ \A k \in Jobs \ {j} : jobs'[k] = jobs[k]
        /\ pc' # "idle" /\ job' = j /\ UNCHANGED <<info, asked, answered, rows>>
    BY <1>3 DEF Take, TypeOK
  <2>. QED BY <2>1, <2>2, <2>3
<1>4. CASE Load \/ RecordSentThrows
  BY <1>4 DEF Load, RecordSentThrows
<1>5. CASE SendOk \/ SendThrows \/ RecordSent \/ RecordFailed
  <2>1. job \in Jobs /\ jobs[job].state = "active"
    BY <1>5, WorkerJob DEF SendOk, SendThrows, AskOpenwa, RecordSent, RecordFailed
  <2>2. /\ UNCHANGED <<jobs, info, job>> /\ pc' # "idle"
        /\ \A k \in Jobs \ {job} : asked'[k] = asked[k] /\ rows'[k] = rows[k]
    BY <1>5, <2>1 DEF SendOk, SendThrows, AskOpenwa, RecordSent, RecordFailed, Recorded, TypeOK
  <2>. QED BY <2>1, <2>2, <1>5 DEF SendOk, SendThrows, RecordSent, RecordFailed
<1>6. CASE Return
  <2>1. job \in Jobs /\ jobs[job] \in Job(Attempts) /\ jobs[job].state = "active"
    BY <1>6, WorkerJob DEF Return
  <2>2. Completed(jobs[job]).state = "completed" BY <2>1, JobMoves
  <2>3. /\ jobs'[job] = Completed(jobs[job]) /\ \A k \in Jobs \ {job} : jobs'[k] = jobs[k]
        /\ pc' = "idle" /\ job' = Nil /\ UNCHANGED <<info, asked, answered, rows>>
    BY <1>6, <2>1 DEF Return, TypeOK
  <2>. QED BY <2>1, <2>2, <2>3 DEF Live
<1>7. CASE Throw
  <2>1. job \in Jobs /\ jobs[job] \in Job(Attempts) /\ jobs[job].state = "active"
          /\ jobs[job].made < Attempts
    BY <1>7, WorkerJob DEF Throw
  <2>. DEFINE x == Rejected(jobs[job], Attempts)
  <2>2. /\ x.made = jobs[job].made + 1
        /\ \/ x.state = "delayed" /\ jobs[job].made + 1 < Attempts
           \/ x.state = "failed"
    BY <2>1, JobRejected, MsgAttemptAssumption
  <2>3. /\ jobs'[job] = x /\ \A k \in Jobs \ {job} : jobs'[k] = jobs[k]
        /\ pc' = "idle" /\ job' = Nil /\ UNCHANGED <<info, asked, answered, rows>>
    BY <1>7, <2>1 DEF Throw, TypeOK
  <2>. HIDE DEF x
  <2>. QED BY <2>1, <2>2, <2>3 DEF Live
<1>8. ASSUME NEW j \in Jobs, Promote(j)
      PROVE  JobsInv'
  <2>1. Promoted(jobs[j]).state = "waiting" /\ Promoted(jobs[j]).made = jobs[j].made
    <3>1. jobs[j] \in Job(Attempts) BY DEF TypeOK
    <3>. QED BY <3>1, JobMoves
  <2>2. jobs[j].state = "delayed" BY <1>8 DEF Promote
  <2>3. /\ jobs'[j] = Promoted(jobs[j]) /\ \A k \in Jobs \ {j} : jobs'[k] = jobs[k]
        /\ UNCHANGED <<info, asked, answered, rows, pc, job>>
    BY <1>8 DEF Promote, TypeOK
  <2>. QED BY <2>1, <2>2, <2>3 DEF Live
<1>9. ASSUME NEW j \in Jobs, RecoverStalled(j)
      PROVE  JobsInv'
  <2>1. jobs[j].state = "active" /\ job # j BY <1>9 DEF RecoverStalled
  <2>2. Stalled(jobs[j]).state \in {"waiting", "failed"} /\ Stalled(jobs[j]).made = jobs[j].made
    BY <2>1, JobStalled DEF TypeOK
  <2>3. /\ jobs'[j] = Stalled(jobs[j]) /\ \A k \in Jobs \ {j} : jobs'[k] = jobs[k]
        /\ UNCHANGED <<info, asked, answered, rows, pc, job>>
    BY <1>9 DEF RecoverStalled, TypeOK
  <2>. QED BY <2>1, <2>2, <2>3 DEF Live
<1>10. CASE Crash BY <1>10 DEF Crash
<1>11. ASSUME NEW q \in Requests, Begin(q) \/ EnqueueFails(q)
       PROVE  JobsInv'
  BY <1>1, <1>11 DEF Begin, EnqueueFails
<1>. QED BY <1>2, <1>3, <1>4, <1>5, <1>6, <1>7, <1>8, <1>9, <1>10, <1>11 DEF Next, WorkerStep

-----------------------------------------------------------------------------
(* What a call has enqueued.                                                *)

\* Up to the place it has come to, a call has enqueued each recipient once.
Whole(q) ==
  LET upto == api[q].next - 1 IN
    /\ \A i \in 1..upto : \E j \in JobsOf(q) : info[j].place = i /\ info[j].to = api[q].list[i]
    /\ \A j \in JobsOf(q) : info[j].place <= upto
    /\ \A j, k \in JobsOf(q) : info[j].place = info[k].place => j = k

LEMMA WholeCalls ==
  ASSUME CallInv
  PROVE  CallsAreWhole <=> \A q \in Requests : Whole(q)
BY DEF CallInv, CallsAreWhole, Whole

\* A job stays of its call, and a job enqueued is new to it.
LEMMA JobsOfKept ==
  ASSUME \A j \in Jobs : jobs'[j].state = "none" <=> jobs[j].state = "none",
         UNCHANGED info, NEW q \in Requests
  PROVE  JobsOf(q)' = JobsOf(q)
BY DEF JobsOf

LEMMA CallInvStep ==
  ASSUME TypeOK, CallInv, Next
  PROVE  CallInv'
<1>. USE DEF CallInv
<1>1. ASSUME NEW q \in Requests, Begin(q)
      PROVE  CallInv'
  <2>1. PICK l \in Lists :
          api' = [api EXCEPT ![q] = [pc |-> "enqueue", list |-> l, next |-> 1]]
    BY <1>1 DEF Begin
  <2>2. 1 \in 1..Len(l)
    <3>1. l \in Seq(Chats) /\ l # <<>> BY ListsAssumption
    <3>2. Len(l) \in Nat /\ Len(l) # 0 BY <3>1
    <3>. QED BY <3>2
  <2>. QED BY <2>1, <2>2 DEF TypeOK
<1>2. ASSUME NEW q \in Requests, Enqueue(q)
      PROVE  CallInv'
  <2>1. /\ api[q].pc = "enqueue" /\ api[q].list \in Lists /\ api[q].next \in 1..Len(api[q].list)
        /\ api[q] \in Call
    BY <1>2 DEF Enqueue, TypeOK
  <2>2. Len(api[q].list) \in Nat BY <2>1, ListsAssumption
  <2>3. /\ api'[q].list = api[q].list /\ api'[q].next = api[q].next + 1
        /\ api'[q].pc = IF AtLast(api[q]) THEN "ok" ELSE "enqueue"
        /\ \A p \in Requests \ {q} : api'[p] = api[p]
    BY <1>2, <2>1 DEF Enqueue, TypeOK, Call
  <2>4. CASE AtLast(api[q]) BY <2>1, <2>2, <2>3, <2>4 DEF AtLast
  <2>5. CASE ~AtLast(api[q])
    <3>1. api[q].next + 1 \in 1..Len(api[q].list) BY <2>1, <2>2, <2>5 DEF AtLast
    <3>. QED BY <2>1, <2>3, <2>5, <3>1
  <2>. QED BY <2>4, <2>5
<1>3. ASSUME NEW q \in Requests, EnqueueFails(q)
      PROVE  CallInv'
  BY <1>3 DEF EnqueueFails, TypeOK, Call
<1>4. CASE UNCHANGED api BY <1>4
<1>5. CASE Crash
  <2>1. \A q \in Requests : api'[q] = api[q] \/ api'[q].pc = "error"
    BY <1>5 DEF Crash, TypeOK, Call
  <2>. QED BY <2>1
<1>6. CASE WorkerStep
  BY <1>4, <1>6 DEF WorkerStep, Load, SendOk, SendThrows, AskOpenwa, RecordSent, RecordSentThrows,
     RecordFailed, Return, Throw
<1>7. CASE \E j \in Jobs : Take(j) \/ Promote(j) \/ RecoverStalled(j)
  BY <1>4, <1>7 DEF Take, Promote, RecoverStalled
<1>. QED BY <1>1, <1>2, <1>3, <1>5, <1>6, <1>7 DEF Next

\* The steps that neither begin a call nor enqueue leave every call and every
\* job where they are, as far as Whole is concerned.
LEMMA CallFrame ==
  ASSUME TypeOK, JobsInv, Next
  PROVE  \/ \E q \in Requests : Begin(q) \/ Enqueue(q)
         \/ /\ \A j \in Jobs : jobs'[j].state = "none" <=> jobs[j].state = "none"
            /\ UNCHANGED info
            /\ \A q \in Requests : api'[q].next = api[q].next /\ api'[q].list = api[q].list
<1>. DEFINE Same == /\ \A j \in Jobs : jobs'[j].state = "none" <=> jobs[j].state = "none"
                    /\ UNCHANGED info
                    /\ \A q \in Requests : api'[q].next = api[q].next /\ api'[q].list = api[q].list
<1>1. ASSUME NEW q \in Requests, EnqueueFails(q)
      PROVE  Same
  BY <1>1 DEF EnqueueFails, TypeOK, Call
<1>2. CASE Load \/ SendOk \/ SendThrows \/ RecordSent \/ RecordSentThrows \/ RecordFailed
  BY <1>2 DEF Load, SendOk, SendThrows, AskOpenwa, RecordSent, RecordSentThrows, RecordFailed
<1>3. ASSUME NEW j \in Jobs, jobs[j].state # "none",
             NEW x, x.state # "none", jobs' = [jobs EXCEPT ![j] = x], UNCHANGED <<info, api>>
      PROVE  Same
  BY <1>3 DEF TypeOK
<1>4. CASE Return
  <2>1. job \in Jobs /\ jobs[job] \in Job(Attempts) /\ jobs[job].state = "active"
    BY <1>4, WorkerJob DEF Return
  <2>2. Completed(jobs[job]).state # "none" BY <2>1, JobMoves
  <2>3. jobs' = [jobs EXCEPT ![job] = Completed(jobs[job])] /\ UNCHANGED <<info, api>>
    BY <1>4 DEF Return
  <2>. QED BY <1>3, <2>1, <2>2, <2>3
<1>5. CASE Throw
  <2>1. job \in Jobs /\ jobs[job] \in Job(Attempts) /\ jobs[job].state = "active"
          /\ jobs[job].made < Attempts
    BY <1>5, WorkerJob DEF Throw
  <2>2. Rejected(jobs[job], Attempts).state # "none" BY <2>1, JobRejected, MsgAttemptAssumption
  <2>3. jobs' = [jobs EXCEPT ![job] = Rejected(jobs[job], Attempts)] /\ UNCHANGED <<info, api>>
    BY <1>5 DEF Throw
  <2>. QED BY <1>3, <2>1, <2>2, <2>3
<1>6. ASSUME NEW j \in Jobs, Take(j) \/ Promote(j) \/ RecoverStalled(j)
      PROVE  Same
  <2>1. jobs[j] \in Job(Attempts) /\ jobs[j].state # "none"
    BY <1>6 DEF Take, Promote, RecoverStalled, TypeOK
  <2>2. CASE Take(j)
    <3>1. Taken(jobs[j]).state # "none" BY <2>1, JobMoves
    <3>. QED BY <1>3, <2>1, <2>2, <3>1 DEF Take
  <2>3. CASE Promote(j)
    <3>1. Promoted(jobs[j]).state # "none" BY <2>1, JobMoves
    <3>. QED BY <1>3, <2>1, <2>3, <3>1 DEF Promote
  <2>4. CASE RecoverStalled(j)
    <3>1. Stalled(jobs[j]).state # "none" BY <2>1, <2>4, JobStalled DEF RecoverStalled
    <3>. QED BY <1>3, <2>1, <2>4, <3>1 DEF RecoverStalled
  <2>. QED BY <1>6, <2>2, <2>3, <2>4
<1>7. CASE Crash BY <1>7 DEF Crash, TypeOK, Call
<1>8. CASE WorkerStep BY <1>2, <1>4, <1>5, <1>8 DEF WorkerStep
<1>9. CASE \E q \in Requests : Begin(q) \/ Enqueue(q) \/ EnqueueFails(q) BY <1>1, <1>9
<1>10. CASE \E j \in Jobs : Take(j) \/ Promote(j) \/ RecoverStalled(j) BY <1>6, <1>10
<1>. QED BY <1>7, <1>8, <1>9, <1>10 DEF Next

LEMMA WholeStep ==
  ASSUME TypeOK, CallInv, JobsInv, CallsAreWhole, Next
  PROVE  CallsAreWhole'
<1>1. CallInv' BY CallInvStep
<1>2. \A q \in Requests : Whole(q) BY WholeCalls
<1>3. SUFFICES \A q \in Requests : Whole(q)' BY <1>1 DEF CallInv, CallsAreWhole, Whole
<1>4. ASSUME NEW q \in Requests, Begin(q)
      PROVE  \A p \in Requests : Whole(p)'
  <2>1. api[q].next = 1 /\ api'[q].next = 1 /\ \A p \in Requests \ {q} : api'[p] = api[p]
    BY <1>4 DEF Begin, Unmade, TypeOK
  <2>2. \A p \in Requests : JobsOf(p)' = JobsOf(p) BY <1>4, JobsOfKept DEF Begin
  <2>3. UNCHANGED info BY <1>4 DEF Begin
  <2>. QED BY <1>2, <2>1, <2>2, <2>3 DEF Whole
<1>5. ASSUME NEW q \in Requests, Enqueue(q)
      PROVE  \A p \in Requests : Whole(p)'
  <2>. DEFINE n == api[q].next
  <2>1. PICK j \in Jobs, d \in BOOLEAN :
          /\ jobs[j] = NoJob /\ jobs' = [jobs EXCEPT ![j] = Added(d)]
          /\ info' = [info EXCEPT ![j] = [call |-> q, place |-> n, to |-> api[q].list[n]]]
    BY <1>5 DEF Enqueue
  <2>2. /\ api'[q].list = api[q].list /\ api'[q].next = n + 1 /\ n \in Nat
        /\ \A p \in Requests \ {q} : api'[p] = api[p]
    BY <1>5 DEF Enqueue, TypeOK, Call
  <2>3. /\ jobs[j].state = "none" /\ jobs'[j].state # "none"
        /\ info'[j] = [call |-> q, place |-> n, to |-> api[q].list[n]]
        /\ \A k \in Jobs \ {j} : jobs'[k] = jobs[k] /\ info'[k] = info[k]
    <3>1. Added(d).state # "none" BY JobAdded, MsgAttemptAssumption
    <3>. QED BY <2>1, <3>1 DEF TypeOK, NoJob
  <2>4. JobsOf(q)' = JobsOf(q) \cup {j} /\ j \notin JobsOf(q) BY <2>3 DEF JobsOf
  <2>5. \A p \in Requests \ {q} : JobsOf(p)' = JobsOf(p) /\ j \notin JobsOf(p)
    BY <2>3 DEF JobsOf
  <2>6. \A p \in Requests : \A k \in JobsOf(p) : info'[k] = info[k]
    BY <2>3, <2>4, <2>5 DEF JobsOf
  <2>. HIDE DEF n
  <2>7. Whole(q)'
    <3>1. Whole(q) BY <1>2
    <3>2. \A k \in JobsOf(q) : info[k].place <= n - 1 /\ info[k].place \in Nat
      BY <3>1 DEF Whole, n, JobsOf, JobsInv, Info
    <3>3. \A i \in 1..n : \E k \in JobsOf(q)' : info'[k].place = i /\ info'[k].to = api[q].list[i]
      <4>1. TAKE i \in 1..n
      <4>2. CASE i = n BY <2>3, <2>4, <4>2
      <4>3. CASE i # n
        <5>1. i \in 1..(n - 1) BY <2>2, <4>3
        <5>2. PICK k \in JobsOf(q) : info[k].place = i /\ info[k].to = api[q].list[i]
          BY <3>1, <5>1 DEF Whole, n
        <5>. QED BY <2>4, <2>6, <5>2
      <4>. QED BY <4>2, <4>3
    <3>4. \A k \in JobsOf(q)' : info'[k].place <= n
      BY <2>2, <2>3, <2>4, <2>6, <3>2
    <3>5. \A k, l \in JobsOf(q)' : info'[k].place = info'[l].place => k = l
      <4>1. \A k \in JobsOf(q) : info'[k].place # info'[j].place BY <2>2, <2>3, <2>6, <3>2
      <4>2. \A k, l \in JobsOf(q) : info'[k].place = info'[l].place => k = l
        BY <2>6, <3>1 DEF Whole
      <4>. QED BY <2>4, <4>1, <4>2
    <3>6. api'[q].next - 1 = n BY <2>2
    <3>. QED BY <2>2, <3>3, <3>4, <3>5, <3>6 DEF Whole
  <2>8. ASSUME NEW p \in Requests \ {q}
        PROVE  Whole(p)'
    BY <1>2, <2>2, <2>5, <2>6 DEF Whole
  <2>. QED BY <2>7, <2>8
<1>6. CASE /\ \A j \in Jobs : jobs'[j].state = "none" <=> jobs[j].state = "none"
           /\ UNCHANGED info
           /\ \A q \in Requests : api'[q].next = api[q].next /\ api'[q].list = api[q].list
  <2>1. \A q \in Requests : JobsOf(q)' = JobsOf(q) BY <1>6, JobsOfKept
  <2>. QED BY <1>2, <1>6, <2>1 DEF Whole
<1>. QED BY <1>4, <1>5, <1>6, CallFrame

-----------------------------------------------------------------------------
(* What was sent and what was logged, job by job.                           *)

\* The last row of a log says sent.
SentLast(r) == r # <<>> /\ r[Len(r)] = "sent"

\* The parts of SentInv and LogBacked that are about one job.
Logged(j) ==
  /\ SentRows(j) <= answered[j] /\ answered[j] <= asked[j]
  /\ \A i \in 1..Len(rows[j]) :
       rows[j][i] = "sent" => i = Len(rows[j]) \/ jobs[j].stalls > 0
  /\ jobs[j].state = "completed" => SentLast(rows[j])
  /\ Live(jobs[j]) /\ jobs[j].stalls = 0 /\ ~(job = j /\ pc = "return")
       /\ ~(jobs[j].state = "active" /\ job # j) =>
       \A i \in 1..Len(rows[j]) : rows[j][i] = "failed"

Counted(j) ==
  /\ asked[j] <= Begun(j) /\ Len(rows[j]) <= Begun(j)
  /\ Unsent(j) => asked[j] < Begun(j)
  /\ Unrecorded(j) => Len(rows[j]) < Begun(j)

\* The part that is about the worker.
Sent ==
  /\ pc \in {"ok", "return"} => answered[job] > 0
  /\ pc = "ok" => SentRows(job) < answered[job]
  /\ pc = "return" => SentLast(rows[job])

LEMMA LogParts ==
  SentInv /\ LogBacked <=> Sent /\ \A j \in Jobs : Logged(j) /\ Counted(j)
BY DEF SentInv, LogBacked, Sent, Logged, Counted, SentLast

LEMMA BegunType ==
  ASSUME TypeOK, NEW j \in Jobs
  PROVE  Begun(j) \in Nat /\ asked[j] \in Nat /\ answered[j] \in Nat /\ Len(rows[j]) \in Nat
           /\ SentRows(j) \in Nat /\ rows[j] \in Seq({"sent", "failed"})
<1>1. jobs[j] \in Job(Attempts) /\ rows[j] \in Seq({"sent", "failed"}) BY DEF TypeOK
<1>2. jobs[j].made \in Nat /\ jobs[j].stalls \in Nat
  BY <1>1, MsgAttemptAssumption DEF Job, MaxStalls
<1>3. SentIn(rows[j]) \in Nat BY <1>1, SentInAppend
<1>. QED BY <1>1, <1>2, <1>3 DEF Begun, TypeOK, SentRows, SentIn

\* A job that is left alone, and not taken, keeps its facts.
LEMMA LogFrame ==
  ASSUME JobsInv, NEW j \in Jobs, Logged(j), Counted(j),
         jobs'[j] = jobs[j], asked'[j] = asked[j], answered'[j] = answered[j], rows'[j] = rows[j],
         job' = j => job = j /\ pc' = pc
  PROVE  Logged(j)' /\ Counted(j)'
<1>1. job = j => jobs[j].state = "active" \/ pc = "idle" BY DEF JobsInv
<1>2. SentRows(j)' = SentRows(j) /\ Begun(j)' = Begun(j) BY DEF SentRows, Begun
<1>3. Logged(j)'
  <2>1. pc = "idle" => job # j BY MsgNilAssumption DEF JobsInv
  <2>. QED BY <1>1, <1>2, <2>1 DEF Logged
<1>4. Counted(j)' BY <1>2 DEF Counted, Unsent, Unrecorded
<1>. QED BY <1>3, <1>4

\* A job that moves in the queue, and has no row added, keeps them if the
\* attempts begun are no fewer.
LEMMA LogMove ==
  ASSUME TypeOK, TypeOK', NEW j \in Jobs, Logged(j), Counted(j),
         asked'[j] = asked[j], answered'[j] = answered[j], rows'[j] = rows[j],
         Begun(j)' >= Begun(j),
         job' = j => Begun(j)' > Begun(j),
         jobs[j].stalls > 0 => jobs'[j].stalls > 0,
         jobs'[j].state = "completed" => SentLast(rows[j]),
         Live(jobs'[j]) /\ jobs'[j].stalls = 0 =>
           /\ Live(jobs[j]) /\ jobs[j].stalls = 0 /\ ~(job = j /\ pc = "return")
           /\ ~(jobs[j].state = "active" /\ job # j)
  PROVE  Logged(j)' /\ Counted(j)'
<1>1. SentRows(j)' = SentRows(j) BY DEF SentRows
<1>2. Logged(j)' BY <1>1 DEF Logged
<1>3. Begun(j) \in Nat /\ asked[j] \in Nat /\ Len(rows[j]) \in Nat BY BegunType
<1>4. Begun(j)' \in Nat
  <2>1. jobs'[j] \in Job(Attempts) BY DEF TypeOK
  <2>2. jobs'[j].made \in Nat /\ jobs'[j].stalls \in Nat
    BY <2>1, MsgAttemptAssumption DEF Job, MaxStalls
  <2>. QED BY <2>2 DEF Begun
<1>5. Counted(j)' BY <1>3, <1>4 DEF Counted, Unsent, Unrecorded
<1>. QED BY <1>2, <1>5

LEMMA QueueLog ==
  ASSUME TypeOK, TypeOK', JobsInv, Sent, NEW j \in Jobs, Logged(j), Counted(j),
         \/ Take(j) \/ Promote(j) \/ RecoverStalled(j)
         \/ job = j /\ (Return \/ Throw)
  PROVE  Logged(j)' /\ Counted(j)'
<1>. DEFINE x == jobs[j]
<1>1. x \in Job(Attempts) /\ x.made \in Nat /\ x.stalls \in 0..MaxStalls /\ MaxStalls = 1
  <2>1. x \in Job(Attempts) BY DEF TypeOK
  <2>2. x.made \in 0..Attempts /\ x.stalls \in 0..MaxStalls BY <2>1 DEF Job
  <2>3. MaxStalls = 1 BY DEF MaxStalls
  <2>4. x.made \in Nat BY <2>2, MsgAttemptAssumption
  <2>. QED BY <2>1, <2>2, <2>3, <2>4
<1>2. pc = "idle" => job # j BY MsgNilAssumption DEF JobsInv
<1>3. Begun(j) = x.made + x.stalls +
        (IF \/ x.state \in {"active", "completed"}
            \/ x.state = "failed" /\ x.stalls = MaxStalls
         THEN 1 ELSE 0)
  BY DEF Begun
<1>4. Begun(j)' = jobs'[j].made + jobs'[j].stalls +
        (IF \/ jobs'[j].state \in {"active", "completed"}
            \/ jobs'[j].state = "failed" /\ jobs'[j].stalls = MaxStalls
         THEN 1 ELSE 0)
  BY DEF Begun
<1>. HIDE DEF x
<1>5. CASE Take(j)
  <2>1. /\ x.state = "waiting" /\ jobs'[j] = Taken(x) /\ UNCHANGED <<asked, answered, rows>>
        /\ pc = "idle" /\ job' = j
    BY <1>5 DEF Take, TypeOK, x
  <2>2. /\ jobs'[j].state = "active" /\ jobs'[j].made = x.made /\ jobs'[j].stalls = x.stalls
    BY <1>1, <2>1, JobMoves
  <2>3. Begun(j)' = x.made + x.stalls + 1 BY <1>4, <2>2
  <2>4. Begun(j) = x.made + x.stalls BY <1>1, <1>3, <2>1
  <2>5. Begun(j)' > Begun(j) BY <1>1, <2>3, <2>4
  <2>6. Begun(j)' >= Begun(j) BY <1>1, <2>3, <2>4
  <2>. QED BY <1>2, <2>1, <2>2, <2>5, <2>6, LogMove DEF Live, x
<1>6. CASE Promote(j)
  <2>1. /\ x.state = "delayed" /\ jobs'[j] = Promoted(x)
        /\ UNCHANGED <<asked, answered, rows, pc, job>>
    BY <1>6 DEF Promote, TypeOK, x
  <2>2. /\ jobs'[j].state = "waiting" /\ jobs'[j].made = x.made /\ jobs'[j].stalls = x.stalls
    BY <1>1, <2>1, JobMoves
  <2>3. Begun(j)' = x.made + x.stalls BY <1>1, <1>4, <2>2
  <2>4. Begun(j) = x.made + x.stalls BY <1>1, <1>3, <2>1
  <2>5. Begun(j)' >= Begun(j) BY <1>1, <2>3, <2>4
  <2>6. job # j BY <1>2, <2>1 DEF JobsInv, x
  <2>. QED BY <2>1, <2>2, <2>5, <2>6, LogMove DEF Live, x
<1>7. CASE RecoverStalled(j)
  <2>1. /\ x.state = "active" /\ job # j /\ jobs'[j] = Stalled(x)
        /\ UNCHANGED <<asked, answered, rows, pc, job>>
    BY <1>7 DEF RecoverStalled, TypeOK, x
  <2>2. /\ jobs'[j].made = x.made
        /\ \/ jobs'[j].state = "waiting" /\ jobs'[j].stalls = x.stalls + 1
           \/ jobs'[j].state = "failed" /\ jobs'[j].stalls = x.stalls /\ x.stalls = MaxStalls
    BY <1>1, <2>1, JobStalled
  <2>3. Begun(j)' = x.made + x.stalls + 1
    <3>1. CASE jobs'[j].state = "waiting" /\ jobs'[j].stalls = x.stalls + 1
      BY <1>1, <1>4, <2>2, <3>1
    <3>2. CASE jobs'[j].state = "failed" /\ jobs'[j].stalls = x.stalls /\ x.stalls = MaxStalls
      BY <1>1, <1>4, <2>2, <3>2
    <3>. QED BY <2>2, <3>1, <3>2
  <2>4. Begun(j) = x.made + x.stalls + 1 BY <1>3, <2>1
  <2>5. Begun(j)' >= Begun(j) BY <1>1, <2>3, <2>4
  <2>6. jobs'[j].stalls > 0 BY <1>1, <2>2
  <2>. QED BY <1>1, <2>1, <2>2, <2>5, <2>6, LogMove DEF Live, x
<1>8. CASE job = j /\ Return
  <2>1. /\ x.state = "active" /\ pc = "return" /\ jobs'[j] = Completed(x)
        /\ UNCHANGED <<asked, answered, rows>> /\ job' = Nil
    BY <1>8 DEF Return, JobsInv, TypeOK, x
  <2>2. /\ jobs'[j].state = "completed" /\ jobs'[j].made = x.made /\ jobs'[j].stalls = x.stalls
    BY <1>1, <2>1, JobMoves
  <2>3. SentLast(rows[j]) BY <1>8, <2>1 DEF Sent
  <2>4. Begun(j)' = x.made + x.stalls + 1 BY <1>4, <2>2
  <2>5. Begun(j) = x.made + x.stalls + 1 BY <1>3, <2>1
  <2>6. Begun(j)' >= Begun(j) BY <1>1, <2>4, <2>5
  <2>7. job' # j BY <2>1, MsgNilAssumption
  <2>. QED BY <1>1, <2>1, <2>2, <2>3, <2>6, <2>7, LogMove DEF Live, x
<1>9. CASE job = j /\ Throw
  <2>1. /\ x.state = "active" /\ pc # "return" /\ x.made < Attempts
        /\ jobs'[j] = Rejected(x, Attempts) /\ UNCHANGED <<asked, answered, rows>> /\ job' = Nil
    BY <1>9 DEF Throw, JobsInv, TypeOK, Live, x
  <2>2. /\ jobs'[j].made = x.made + 1 /\ jobs'[j].stalls = x.stalls
        /\ jobs'[j].state \in {"delayed", "failed"}
    BY <1>1, <2>1, JobRejected, MsgAttemptAssumption
  <2>3. Begun(j) = x.made + x.stalls + 1 BY <1>3, <2>1
  <2>4. \E i \in {0, 1} : Begun(j)' = x.made + 1 + x.stalls + i BY <1>4, <2>2
  <2>5. Begun(j)' >= Begun(j) BY <1>1, <2>3, <2>4
  <2>6. job' # j BY <2>1, MsgNilAssumption
  <2>7. Live(x) BY <2>1 DEF Live
  <2>8. jobs'[j].state # "completed" BY <2>2
  <2>. QED BY <1>1, <1>9, <2>1, <2>2, <2>5, <2>6, <2>7, <2>8, LogMove DEF x
<1>. QED BY <1>5, <1>6, <1>7, <1>8, <1>9

\* The worker's own steps, at the job it holds.
LEMMA WorkerLog ==
  ASSUME TypeOK, TypeOK', JobsInv, Sent, pc # "idle", Logged(job), Counted(job),
         \/ Load \/ SendOk \/ SendThrows \/ RecordSent \/ RecordSentThrows \/ RecordFailed
  PROVE  /\ \A j \in Jobs : j = job => Logged(j)' /\ Counted(j)'
         /\ Sent'
<1>. DEFINE r == rows[job]
            n == answered[job]
            m == asked[job]
<1>1. /\ job \in Jobs /\ jobs[job].state = "active" /\ Begun(job) \in Nat
      /\ n \in Nat /\ m \in Nat /\ n <= m /\ Len(r) \in Nat /\ SentRows(job) \in Nat /\ r \in Seq({"sent", "failed"})
  BY WorkerJob, BegunType DEF Logged
<1>2. /\ UNCHANGED <<jobs, job>> /\ Begun(job)' = Begun(job) /\ Live(jobs[job])
      /\ jobs[job].state # "completed"
  BY <1>1 DEF Load, SendOk, SendThrows, AskOpenwa, RecordSent, RecordSentThrows, RecordFailed,
     Begun, Live
<1>3. jobs[job].stalls = 0 /\ pc # "return" => \A i \in 1..Len(r) : r[i] = "failed"
  BY <1>1, <1>2 DEF Logged
<1>4. jobs[job].stalls \in Nat
  <2>1. jobs[job] \in Job(Attempts) BY <1>1 DEF TypeOK
  <2>. QED BY <2>1 DEF Job, MaxStalls
<1>5. CASE Load \/ RecordSentThrows
  <2>1. /\ UNCHANGED <<asked, answered, rows, jobs, job>> /\ SentRows(job)' = SentRows(job)
        /\ pc' \in {"send", "bad"} /\ pc \in {"load", "ok"} /\ (pc' = "send" => pc = "load")
    BY <1>5 DEF Load, RecordSentThrows, SentRows
  <2>2. Logged(job)' BY <1>1, <2>1 DEF Logged
  <2>3. Counted(job)' BY <1>1, <1>2, <2>1 DEF Counted, Unsent, Unrecorded
  <2>. QED BY <2>1, <2>2, <2>3 DEF Sent
<1>6. CASE SendOk \/ SendThrows
  <2>1. /\ UNCHANGED <<rows, jobs, job>> /\ SentRows(job)' = SentRows(job)
        /\ pc' \in {"ok", "bad"} /\ pc = "send"
        /\ asked'[job] = m + 1
        /\ answered'[job] \in {n, n + 1} /\ (pc' = "ok" => answered'[job] = n + 1)
    BY <1>1, <1>6 DEF SendOk, SendThrows, AskOpenwa, SentRows, TypeOK
  <2>2. SentRows(job) <= n /\ m < Begun(job) /\ Len(r) < Begun(job)
    BY <2>1 DEF Logged, Counted, Unsent, Unrecorded
  <2>3. /\ answered'[job] <= asked'[job] /\ asked'[job] <= Begun(job)
        /\ SentRows(job) <= answered'[job]
        /\ pc' = "ok" => SentRows(job) < answered'[job] /\ answered'[job] > 0
    BY <1>1, <2>1, <2>2
  <2>4. Logged(job)' BY <1>1, <2>1, <2>3 DEF Logged
  <2>5. Counted(job)' BY <1>1, <1>2, <2>1, <2>2, <2>3 DEF Counted, Unsent, Unrecorded
  <2>. QED BY <2>1, <2>3, <2>4, <2>5 DEF Sent
<1>7. ASSUME NEW x \in {"sent", "failed"}, rows' = [rows EXCEPT ![job] = Append(@, x)],
             UNCHANGED <<asked, answered>>
      PROVE  /\ rows'[job] = Append(r, x) /\ Len(rows'[job]) = Len(r) + 1
             /\ rows'[job][Len(r) + 1] = x /\ \A i \in 1..Len(r) : rows'[job][i] = r[i]
             /\ x = "sent" => SentRows(job)' = SentRows(job) + 1
             /\ x = "failed" => SentRows(job)' = SentRows(job)
  <2>1. rows'[job] = Append(r, x) BY <1>1, <1>7 DEF TypeOK
  <2>2. SentRows(job)' = SentIn(rows'[job]) BY <1>2 DEF SentRows, SentIn
  <2>3. SentRows(job) = SentIn(r) BY DEF SentRows, SentIn
  <2>. HIDE DEF r
  <2>. QED BY <1>1, <2>1, <2>2, <2>3, SentInAppend
<1>8. CASE RecordSent
  <2>1. /\ rows' = [rows EXCEPT ![job] = Append(@, "sent")] /\ UNCHANGED <<asked, answered>>
        /\ pc = "ok" /\ pc' = "return"
    BY <1>8 DEF RecordSent, Recorded
  <2>2. /\ rows'[job] = Append(r, "sent") /\ Len(rows'[job]) = Len(r) + 1
        /\ rows'[job][Len(r) + 1] = "sent" /\ \A i \in 1..Len(r) : rows'[job][i] = r[i]
        /\ SentRows(job)' = SentRows(job) + 1
    BY <1>7, <2>1
  <2>3. SentRows(job) < n /\ n > 0 /\ m <= Begun(job) /\ Len(r) < Begun(job)
    BY <2>1 DEF Sent, Counted, Unrecorded
  <2>4. SentLast(rows'[job]) BY <1>1, <2>2 DEF SentLast
  <2>5. \A i \in 1..Len(rows'[job]) :
          rows'[job][i] = "sent" => i = Len(rows'[job]) \/ jobs[job].stalls > 0
    <3>1. TAKE i \in 1..(Len(rows'[job]))
    <3>2. i = Len(r) + 1 \/ i \in 1..Len(r) BY <1>1, <2>2
    <3>. QED BY <1>3, <1>4, <2>1, <2>2, <3>2
  <2>6. SentRows(job) + 1 <= n /\ Len(r) + 1 <= Begun(job) BY <1>1, <2>3
  <2>7. Logged(job)' BY <1>1, <1>2, <2>1, <2>2, <2>5, <2>6 DEF Logged
  <2>8. Counted(job)' BY <1>2, <2>1, <2>2, <2>3, <2>6 DEF Counted, Unsent, Unrecorded
  <2>. QED BY <1>2, <2>1, <2>3, <2>4, <2>7, <2>8 DEF Sent
<1>9. CASE RecordFailed
  <2>1. /\ rows' = [rows EXCEPT ![job] = Append(@, "failed")] /\ UNCHANGED <<asked, answered>>
        /\ pc = "bad" /\ pc' = "throw"
    BY <1>9 DEF RecordFailed, Recorded
  <2>2. /\ rows'[job] = Append(r, "failed") /\ Len(rows'[job]) = Len(r) + 1
        /\ rows'[job][Len(r) + 1] = "failed" /\ \A i \in 1..Len(r) : rows'[job][i] = r[i]
        /\ SentRows(job)' = SentRows(job)
    BY <1>7, <2>1
  <2>3. SentRows(job) <= n /\ m <= Begun(job) /\ Len(r) < Begun(job)
    BY <2>1 DEF Logged, Counted, Unrecorded
  <2>4. /\ jobs[job].stalls = 0 => \A i \in 1..Len(rows'[job]) : rows'[job][i] = "failed"
        /\ \A i \in 1..Len(rows'[job]) : rows'[job][i] = "sent" => jobs[job].stalls > 0
    <3>1. \A i \in 1..Len(rows'[job]) : i = Len(r) + 1 \/ i \in 1..Len(r) BY <1>1, <2>2
    <3>. QED BY <1>3, <1>4, <2>1, <2>2, <3>1
  <2>5. Len(r) + 1 <= Begun(job) BY <1>1, <2>3
  <2>6. Logged(job)' BY <1>1, <1>2, <2>1, <2>2, <2>3, <2>4 DEF Logged
  <2>7. Counted(job)' BY <1>2, <2>1, <2>2, <2>3, <2>5 DEF Counted, Unsent, Unrecorded
  <2>8. Sent' BY <2>1 DEF Sent
  <2>. QED BY <1>2, <2>6, <2>7, <2>8
<1>. QED BY <1>5, <1>6, <1>8, <1>9

LEMMA LogStep ==
  ASSUME TypeOK, TypeOK', JobsInv, SentInv, LogBacked, Next
  PROVE  SentInv' /\ LogBacked'
<1>1. Sent /\ \A j \in Jobs : Logged(j) /\ Counted(j) BY LogParts
<1>2. SUFFICES Sent' /\ \A j \in Jobs : Logged(j)' /\ Counted(j)'
  BY DEF SentInv, LogBacked, Sent, Logged, Counted, SentLast
<1>3. ASSUME UNCHANGED <<jobs, asked, answered, rows>>,
             \/ pc' = pc /\ job' = job
             \/ pc' = "idle" /\ job' = Nil
      PROVE  Sent' /\ \A j \in Jobs : Logged(j)' /\ Counted(j)'
  <2>1. Sent' BY <1>1, <1>3 DEF Sent, SentRows
  <2>2. \A j \in Jobs : job' = j => job = j /\ pc' = pc BY <1>3, MsgNilAssumption
  <2>. QED BY <1>1, <1>3, <2>1, <2>2, LogFrame
<1>4. ASSUME NEW q \in Requests, Begin(q) \/ EnqueueFails(q)
      PROVE  Sent' /\ \A j \in Jobs : Logged(j)' /\ Counted(j)'
  <2>1. UNCHANGED <<jobs, asked, answered, rows, pc, job>> BY <1>4 DEF Begin, EnqueueFails
  <2>. QED BY <1>3, <2>1
<1>5. CASE Crash BY <1>3, <1>5 DEF Crash
<1>6. ASSUME NEW q \in Requests, Enqueue(q)
      PROVE  Sent' /\ \A j \in Jobs : Logged(j)' /\ Counted(j)'
  <2>1. PICK j \in Jobs, d \in BOOLEAN :
          jobs[j] = NoJob /\ jobs' = [jobs EXCEPT ![j] = Added(d)]
    BY <1>6 DEF Enqueue
  <2>2. /\ UNCHANGED <<pc, job, asked, answered, rows>> /\ jobs'[j] = Added(d)
        /\ \A k \in Jobs \ {j} : jobs'[k] = jobs[k]
    BY <1>6, <2>1 DEF Enqueue, TypeOK
  <2>3. jobs[j].state = "none" /\ rows[j] = <<>> /\ asked[j] = 0
    BY <2>1 DEF NoJob, JobsInv
  <2>4. job # j /\ answered[j] = 0
    <3>1. answered[j] <= asked[j] /\ answered[j] \in Nat BY <1>1, BegunType DEF Logged
    <3>. QED BY <2>3, <3>1, MsgNilAssumption DEF JobsInv
  <2>5. /\ jobs'[j].state \in {"waiting", "delayed"}
        /\ jobs'[j].made = 0 /\ jobs'[j].stalls = 0
    BY <2>2, JobAdded, MsgAttemptAssumption
  <2>6. SentRows(j)' = 0
    <3>1. {i \in 1..Len(rows'[j]) : rows'[j][i] = "sent"} = {} BY <2>2, <2>3
    <3>. QED BY <3>1, FS_EmptySet DEF SentRows
  <2>7. Begun(j)' = 0 BY <2>5 DEF Begun
  <2>8. Logged(j)' BY <2>2, <2>3, <2>4, <2>5, <2>6 DEF Logged
  <2>9. Counted(j)' BY <2>2, <2>3, <2>4, <2>7 DEF Counted, Unsent, Unrecorded
  <2>10. Sent' BY <1>1, <2>2 DEF Sent, SentRows
  <2>. QED BY <1>1, <2>2, <2>8, <2>9, <2>10, LogFrame
<1>7. ASSUME NEW j \in Jobs, Take(j) \/ Promote(j) \/ RecoverStalled(j)
      PROVE  Sent' /\ \A k \in Jobs : Logged(k)' /\ Counted(k)'
  <2>1. /\ UNCHANGED <<asked, answered, rows>> /\ \A k \in Jobs \ {j} : jobs'[k] = jobs[k]
        /\ \/ UNCHANGED <<pc, job>>
           \/ pc' = "load" /\ job' = j
    BY <1>7 DEF Take, Promote, RecoverStalled, TypeOK
  <2>2. Logged(j)' /\ Counted(j)' BY <1>1, <1>7, QueueLog
  <2>3. Sent' BY <1>1, <2>1 DEF Sent, SentRows
  <2>. QED BY <1>1, <2>1, <2>2, <2>3, LogFrame
<1>8. CASE Return \/ Throw
  <2>1. pc # "idle" /\ pc' = "idle" /\ job' = Nil /\ UNCHANGED <<asked, answered, rows>>
    BY <1>8 DEF Return, Throw
  <2>2. PICK j \in Jobs : job = j BY <1>8, WorkerJob DEF Return, Throw
  <2>3. \A k \in Jobs \ {j} : jobs'[k] = jobs[k] BY <1>8, <2>2 DEF Return, Throw, TypeOK
  <2>4. Logged(j)' /\ Counted(j)' BY <1>1, <1>8, <2>2, QueueLog
  <2>5. Sent' BY <2>1 DEF Sent
  <2>6. \A k \in Jobs : job' # k BY <2>1, MsgNilAssumption
  <2>. QED BY <1>1, <2>1, <2>3, <2>4, <2>5, <2>6, LogFrame
<1>9. CASE Load \/ SendOk \/ SendThrows \/ RecordSent \/ RecordSentThrows \/ RecordFailed
  <2>1. pc # "idle" /\ UNCHANGED <<jobs, job>>
    BY <1>9 DEF Load, SendOk, SendThrows, AskOpenwa, RecordSent, RecordSentThrows, RecordFailed
  <2>2. job \in Jobs BY <2>1, WorkerJob
  <2>3. \A k \in Jobs \ {job} :
          asked'[k] = asked[k] /\ answered'[k] = answered[k] /\ rows'[k] = rows[k]
    BY <1>9, <2>2 DEF Load, SendOk, SendThrows, AskOpenwa, RecordSent, RecordSentThrows, RecordFailed,
       Recorded, TypeOK
  <2>4. (\A j \in Jobs : j = job => Logged(j)' /\ Counted(j)') /\ Sent'
    BY <1>1, <1>9, <2>1, <2>2, WorkerLog
  <2>5. \A k \in Jobs \ {job} : Logged(k)' /\ Counted(k)'
    BY <1>1, <2>1, <2>3, LogFrame
  <2>. QED BY <2>4, <2>5
<1>. QED BY <1>4, <1>5, <1>6, <1>7, <1>8, <1>9 DEF Next, WorkerStep

-----------------------------------------------------------------------------
(* The invariant, and what it gives.                                        *)

LEMMA InitInv == Init => IInv
<1>. SUFFICES ASSUME Init PROVE IInv OBVIOUS
<1>. USE DEF Init
<1>1. \A j \in Jobs : jobs[j].state = "none" BY DEF NoJob
<1>2. TypeOK
  <2>1. Unmade \in Call BY DEF Unmade, Call
  <2>2. NoJob \in Job(Attempts) BY JobAdded, MsgAttemptAssumption
  <2>3. crashes \in 0..MaxCrashes BY MsgCrashAssumption
  <2>. QED BY <2>1, <2>2, <2>3 DEF TypeOK
<1>3. CallInv BY DEF CallInv, Unmade
<1>4. JobsInv BY <1>1 DEF JobsInv, Live
<1>5. CallsAreWhole
  <2>1. \A q \in Requests : JobsOf(q) = {} BY <1>1 DEF JobsOf
  <2>. QED BY <2>1 DEF CallsAreWhole, Unmade
<1>6. SentInv /\ LogBacked
  <2>1. Sent BY DEF Sent
  <2>2. \A j \in Jobs : Logged(j) /\ Counted(j)
    <3>1. TAKE j \in Jobs
    <3>2. rows[j] = <<>> /\ asked[j] = 0 /\ answered[j] = 0 /\ job # j
      BY MsgNilAssumption
    <3>3. SentRows(j) = 0
      <4>1. {i \in 1..Len(rows[j]) : rows[j][i] = "sent"} = {} BY <3>2
      <4>. QED BY <4>1, FS_EmptySet DEF SentRows
    <3>4. Begun(j) = 0 BY DEF Begun, NoJob
    <3>5. Logged(j) BY <1>1, <3>2, <3>3 DEF Logged, Live
    <3>6. Counted(j) BY <3>2, <3>4 DEF Counted, Unsent, Unrecorded
    <3>. QED BY <3>5, <3>6
  <2>. QED BY <2>1, <2>2, LogParts
<1>. QED BY <1>2, <1>3, <1>4, <1>5, <1>6 DEF IInv

LEMMA Stutter == IInv /\ UNCHANGED vars => IInv'
<1>. SUFFICES ASSUME IInv, UNCHANGED vars PROVE IInv' OBVIOUS
<1>. USE DEF IInv, vars
<1>1. TypeOK' BY DEF TypeOK
<1>2. CallInv' BY DEF CallInv
<1>3. JobsInv' BY DEF JobsInv
<1>4. SentInv' BY DEF SentInv, SentRows, Unsent, Unrecorded, Begun
<1>5. CallsAreWhole' BY DEF CallsAreWhole, JobsOf
<1>6. LogBacked' BY DEF LogBacked, SentRows, Begun
<1>. QED BY <1>1, <1>2, <1>3, <1>4, <1>5, <1>6

\* The inductive invariant: whatever crashes, refusals and lost answers, the
\* attempts counted by the queue bound what was asked of OpenWA and what was
\* logged.
THEOREM Inductive == Spec => []IInv
<1>1. IInv /\ [Next]_vars => IInv'
  <2>. SUFFICES ASSUME IInv, Next PROVE IInv' BY Stutter
  <2>1. TypeOK' BY TypeStep DEF IInv
  <2>2. CallInv' /\ JobsInv' /\ CallsAreWhole' BY CallInvStep, JobsStep, WholeStep DEF IInv
  <2>3. SentInv' /\ LogBacked' BY <2>1, LogStep DEF IInv
  <2>. QED BY <2>1, <2>2, <2>3 DEF IInv
<1>. QED BY <1>1, InitInv, PTL DEF Spec

\* A call of send() or sendBulk() has enqueued each recipient up to some place
\* of its list once, and all of them if it was answered.
THEOREM CallsWhole == Spec => []CallsAreWhole
<1>1. IInv => CallsAreWhole BY DEF IInv
<1>. QED BY <1>1, Inductive, PTL

\* message_logs says sent only as often as OpenWA answered that send with a
\* 2xx, and it was asked no more often than attempts were begun.
THEOREM LogTrue == Spec => []LogBacked
<1>1. IInv => LogBacked BY DEF IInv
<1>. QED BY <1>1, Inductive, PTL

-----------------------------------------------------------------------------
(* The outbox.                                                              *)

\* The state of the outbox that the queue amounts to.
Outcomes == [j \in Jobs |-> Outcome(j)]

LEMMA OutcomeCases ==
  ASSUME NEW j \in Jobs
  PROVE  /\ jobs[j].state = "none" => Outcome(j) = "none"
         /\ Live(jobs[j]) => Outcome(j) = "pending"
         /\ jobs[j].state = "failed" => Outcome(j) = "failed"
         /\ jobs[j].state = "completed" => Outcome(j) = "delivered"
BY DEF Outcome, Live

\* A step that leaves a job live, or its state alone, leaves its outcome.
LEMMA OutcomeKept ==
  \A j \in Jobs : jobs'[j].state = jobs[j].state \/ (Live(jobs[j]) /\ Live(jobs'[j]))
    => Outcome(j)' = Outcome(j)
BY DEF Outcome, Live

\* Each message enqueued is settled once, called delivered only if OpenWA
\* answered a send of it with a 2xx, and never asked for after it is settled.
THEOREM KeepsOutbox == Spec => OutboxKept
<1>. DEFINE Same == UNCHANGED <<Outcomes, asked, answered>>
<1>1. Init => Box!OutboxInit
  <2>. SUFFICES ASSUME Init PROVE Box!OutboxInit OBVIOUS
  <2>1. \A j \in Jobs : Outcome(j) = "none" BY OutcomeCases DEF Init, NoJob
  <2>. QED BY <2>1 DEF Init, Box!OutboxInit
<1>2. IInv /\ [Next]_vars => [Box!OutboxNext]_<<Outcomes, asked, answered>>
  <2>. SUFFICES ASSUME IInv, [Next]_vars
                PROVE  Box!OutboxNext \/ Same
    OBVIOUS
  <2>1. TypeOK /\ JobsInv /\ SentInv BY DEF IInv
  <2>2. ASSUME UNCHANGED <<jobs, asked, answered>>
        PROVE  Same
    BY <2>2, OutcomeKept DEF Outcomes
  <2>3. ASSUME NEW j \in Jobs, \A k \in Jobs \ {j} : jobs'[k] = jobs[k],
               UNCHANGED <<asked, answered>>
        PROVE  Outcomes' = [Outcomes EXCEPT ![j] = Outcome(j)']
    BY <2>3, OutcomeKept DEF Outcomes
  <2>4. ASSUME NEW j \in Jobs, jobs[j].state # "none",
               \A k \in Jobs \ {j} : jobs'[k] = jobs[k], UNCHANGED <<asked, answered>>,
               Live(jobs[j]), Live(jobs'[j])
        PROVE  Same
    BY <2>4, OutcomeKept DEF Outcomes
  <2>5. ASSUME NEW j \in Jobs, \A k \in Jobs \ {j} : jobs'[k] = jobs[k], UNCHANGED <<asked, answered>>,
               Live(jobs[j]),
               \/ jobs'[j].state = "failed"
               \/ jobs'[j].state = "completed" /\ answered[j] > 0
        PROVE  Box!OutboxNext
    <3>1. Outcomes' = [Outcomes EXCEPT ![j] = Outcome(j)'] BY <2>3, <2>5
    <3>2. Outcomes[j] = "pending" BY <2>5, OutcomeCases DEF Outcomes
    <3>3. /\ Outcome(j)' \in {"delivered", "failed"}
          /\ Outcome(j)' = "delivered" => answered[j] > 0
      <4>1. jobs'[j].state = "failed" => Outcome(j)' = "failed" BY DEF Outcome, Live
      <4>2. jobs'[j].state = "completed" => Outcome(j)' = "delivered" BY DEF Outcome, Live
      <4>. QED BY <2>5, <4>1, <4>2
    <3>4. Box!Settle(j, Outcome(j)') BY <2>5, <3>1, <3>2, <3>3 DEF Box!Settle, Outcomes
    <3>. QED BY <3>3, <3>4 DEF Box!OutboxNext
  <2>6. ASSUME NEW q \in Requests, Enqueue(q)
        PROVE  Box!OutboxNext
    <3>1. PICK j \in Jobs, d \in BOOLEAN :
            jobs[j] = NoJob /\ jobs' = [jobs EXCEPT ![j] = Added(d)]
      BY <2>6 DEF Enqueue
    <3>2. UNCHANGED <<asked, answered>> /\ \A k \in Jobs \ {j} : jobs'[k] = jobs[k]
      BY <2>6, <3>1 DEF Enqueue
    <3>3. Outcomes[j] = "none" BY <3>1, OutcomeCases DEF Outcomes, NoJob
    <3>4. jobs'[j].state \in {"waiting", "delayed"}
      <4>1. jobs'[j] = Added(d) BY <2>1, <3>1 DEF TypeOK
      <4>. QED BY <4>1, JobAdded, MsgAttemptAssumption
    <3>5. Outcome(j)' = "pending" BY <3>4 DEF Outcome, Live
    <3>6. Outcomes' = [Outcomes EXCEPT ![j] = "pending"] BY <2>3, <3>2, <3>5
    <3>7. Box!Accept(j) BY <3>2, <3>3, <3>6 DEF Box!Accept, Outcomes
    <3>. QED BY <3>7 DEF Box!OutboxNext
  <2>7. CASE \/ Load \/ RecordSent \/ RecordSentThrows \/ RecordFailed \/ Crash
             \/ UNCHANGED vars
    <3>1. UNCHANGED <<jobs, asked, answered>>
      BY <2>7 DEF Load, RecordSent, RecordSentThrows, RecordFailed, Crash, vars
    <3>. QED BY <2>2, <3>1
  <2>8. CASE SendOk \/ SendThrows
    <3>1. job \in Jobs /\ Live(jobs[job]) /\ UNCHANGED jobs
      BY <2>1, <2>8, WorkerJob DEF SendOk, SendThrows, AskOpenwa, Live
    <3>2. Outcomes' = Outcomes BY <3>1, OutcomeKept DEF Outcomes
    <3>3. Outcomes[job] = "pending" BY <3>1, OutcomeCases DEF Outcomes
    <3>4. /\ asked' = [asked EXCEPT ![job] = @ + 1]
          /\ answered' \in {answered, [answered EXCEPT ![job] = @ + 1]}
      BY <2>8 DEF SendOk, SendThrows, AskOpenwa
    <3>5. Box!Request(job) BY <3>2, <3>3, <3>4 DEF Box!Request, Outcomes
    <3>. QED BY <3>1, <3>5 DEF Box!OutboxNext
  <2>9. CASE Return
    <3>1. PICK j \in Jobs : j = job /\ jobs[j] \in Job(Attempts) /\ jobs[j].state = "active"
      BY <2>1, <2>9, WorkerJob DEF Return
    <3>2. answered[j] > 0 BY <2>1, <2>9, <3>1 DEF Return, SentInv
    <3>3. Completed(jobs[j]).state = "completed" BY <3>1, JobMoves
    <3>4. /\ jobs'[j] = Completed(jobs[j]) /\ UNCHANGED <<asked, answered>>
          /\ \A k \in Jobs \ {j} : jobs'[k] = jobs[k]
      BY <2>1, <2>9, <3>1 DEF Return, TypeOK
    <3>. QED BY <2>5, <3>1, <3>2, <3>3, <3>4 DEF Live
  <2>10. ASSUME NEW j \in Jobs, NEW x,
                jobs[j].state = "active", jobs' = [jobs EXCEPT ![j] = x], UNCHANGED <<asked, answered>>,
                x.state \in {"waiting", "delayed", "failed"}
         PROVE  Box!OutboxNext \/ Same
    <3>1. jobs'[j] = x /\ \A k \in Jobs \ {j} : jobs'[k] = jobs[k] BY <2>1, <2>10 DEF TypeOK
    <3>2. CASE x.state = "failed" BY <2>5, <2>10, <3>1, <3>2 DEF Live
    <3>3. CASE x.state # "failed" BY <2>4, <2>10, <3>1, <3>3 DEF Live
    <3>. QED BY <3>2, <3>3
  <2>11. CASE Throw
    <3>1. PICK j \in Jobs : j = job /\ jobs[j] \in Job(Attempts) /\ jobs[j].state = "active"
                            /\ jobs[j].made < Attempts
      BY <2>1, <2>11, WorkerJob DEF Throw
    <3>2. Rejected(jobs[j], Attempts).state \in {"delayed", "failed"} BY <3>1, JobRejected, MsgAttemptAssumption
    <3>3. jobs' = [jobs EXCEPT ![j] = Rejected(jobs[j], Attempts)] /\ UNCHANGED <<asked, answered>>
      BY <2>11, <3>1 DEF Throw
    <3>. QED BY <2>10, <3>1, <3>2, <3>3
  <2>12. ASSUME NEW j \in Jobs, RecoverStalled(j)
         PROVE  Box!OutboxNext \/ Same
    <3>1. jobs[j] \in Job(Attempts) /\ jobs[j].state = "active"
      BY <2>1, <2>12 DEF RecoverStalled, TypeOK
    <3>2. Stalled(jobs[j]).state \in {"waiting", "failed"} BY <3>1, JobStalled
    <3>3. jobs' = [jobs EXCEPT ![j] = Stalled(jobs[j])] /\ UNCHANGED <<asked, answered>>
      BY <2>12 DEF RecoverStalled
    <3>. QED BY <2>10, <3>1, <3>2, <3>3
  <2>13. ASSUME NEW j \in Jobs, Take(j) \/ Promote(j)
         PROVE  Same
    <3>1. jobs[j] \in Job(Attempts) /\ jobs[j].state \in {"waiting", "delayed"}
      BY <2>1, <2>13 DEF Take, Promote, TypeOK
    <3>2. Taken(jobs[j]).state = "active" /\ Promoted(jobs[j]).state = "waiting"
      BY <3>1, JobMoves
    <3>3. /\ jobs'[j] = Taken(jobs[j]) \/ jobs'[j] = Promoted(jobs[j])
          /\ UNCHANGED <<asked, answered>> /\ \A k \in Jobs \ {j} : jobs'[k] = jobs[k]
      BY <2>1, <2>13 DEF Take, Promote, TypeOK
    <3>4. Live(jobs[j]) /\ Live(jobs'[j]) BY <3>1, <3>2, <3>3 DEF Live
    <3>. QED BY <2>4, <3>1, <3>3, <3>4
  <2>14. ASSUME NEW q \in Requests, Begin(q) \/ EnqueueFails(q)
         PROVE  Same
    BY <2>2, <2>14 DEF Begin, EnqueueFails
  <2>. QED BY <2>6, <2>7, <2>8, <2>9, <2>11, <2>12, <2>13, <2>14 DEF Next, WorkerStep
<1>. QED BY <1>1, <1>2, Inductive, PTL DEF Spec, OutboxKept, Box!OutboxSpec, Outcomes
=============================================================================
