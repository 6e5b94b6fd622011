-------------------------- MODULE AutomationProofs --------------------------
(* Machine-checked proofs about Automations.tla, for every number of        *)
(* automations, requests, runs, targets, attempts and crashes.              *)
EXTENDS Automations, JobQueueProofs, FiniteSetTheorems

-----------------------------------------------------------------------------
(* The records.                                                             *)

LEMMA NoneCounts == None \in Counts /\ \A a \in Autos : None[a] = 0
BY AutoBoundsAssumption DEF None, Counts

LEMMA OnceCounts ==
  ASSUME NEW S
  PROVE  Once(S) \in Counts
BY AutoBoundsAssumption DEF Once, Counts

LEMMA UnmadeIs ==
  /\ Unmade \in Request /\ Unmade.op = "none" /\ Unmade.pc = "new" /\ Unmade.auto = Nil
  /\ Unmade.ent = NoEntity /\ Unmade.plan = NoPlan /\ Unmade.want = None /\ Unmade.left = None
  /\ Unmade.cut = FALSE
<1>1. NoEntity \in Entity BY DEF NoEntity, Entity
<1>2. NoPlan \in Plan BY DEF NoPlan, Plan
<1>. QED BY <1>1, <1>2, NoneCounts DEF Unmade, Request

LEMMA AnsweredIs ==
  ASSUME NEW r \in Request, NEW as \in {"ok", "error"}
  PROVE  /\ Answered(r, as) \in Request
         /\ Answered(r, as).op = r.op /\ Answered(r, as).auto = r.auto
         /\ Answered(r, as).want = r.want /\ Answered(r, as).cut = r.cut
         /\ Answered(r, as).pc = as /\ Answered(r, as).left = None
         /\ Answered(r, as).ent = NoEntity /\ Answered(r, as).plan = NoPlan
<1>1. NoEntity \in Entity BY DEF NoEntity, Entity
<1>2. NoPlan \in Plan BY DEF NoPlan, Plan
<1>. QED BY <1>1, <1>2, NoneCounts DEF Answered, Request

LEMMA EnqueueingIs ==
  ASSUME NEW r \in Request, NEW c \in Counts
  PROVE  /\ Enqueueing(r, c) \in Request
         /\ Enqueueing(r, c).op = r.op /\ Enqueueing(r, c).auto = r.auto
         /\ Enqueueing(r, c).ent = r.ent /\ Enqueueing(r, c).plan = r.plan
         /\ Enqueueing(r, c).want = c /\ Enqueueing(r, c).left = c
         /\ Enqueueing(r, c).cut = r.cut
         /\ \/ c = None /\ Enqueueing(r, c).pc = "ok"
            \/ c # None /\ Enqueueing(r, c).pc = "enqueue"
BY DEF Enqueueing, Request

LEMMA OneLessIs ==
  ASSUME NEW c \in Counts, NEW a \in Autos, c[a] > 0
  PROVE  /\ OneLess(c, a) \in Counts /\ OneLess(c, a)[a] = c[a] - 1
         /\ \A b \in Autos \ {a} : OneLess(c, a)[b] = c[b]
<1>1. MaxTargets \in Nat BY AutoBoundsAssumption
<1>2. c \in [Autos -> 0..MaxTargets] BY DEF Counts
<1>3. c[a] - 1 \in 0..MaxTargets BY <1>1, <1>2
<1>. QED BY <1>2, <1>3 DEF OneLess, Counts

\* The request as a shortened loop leaves it: with nothing left it is answered.
LEMMA ShortenedIs ==
  ASSUME NEW r \in Request, NEW c \in Counts, r.pc = "enqueue",
         NEW n, n = IF c = None THEN Answered(r, "ok") ELSE [r EXCEPT !.left = c]
  PROVE  /\ n \in Request /\ n.op = r.op /\ n.auto = r.auto /\ n.want = r.want /\ n.cut = r.cut
         /\ n.left = c
         /\ \/ c = None /\ n.pc = "ok" /\ n.ent = NoEntity /\ n.plan = NoPlan
            \/ c # None /\ n.pc = "enqueue" /\ n.ent = r.ent /\ n.plan = r.plan
<1>1. CASE c = None BY <1>1, AnsweredIs
<1>2. CASE c # None BY <1>2 DEF Request
<1>. QED BY <1>1, <1>2

-----------------------------------------------------------------------------
(* What each kind of step does to the requests.                             *)

\* Request q, and no other, moved.
Only(q) == \A p \in Requests \ {q} : api'[p] = api[p]

\* A save of the whole entity, an update that replaces the actions, a trigger,
\* and an inbound message, as they begin.
NewSave(r) ==
  /\ r.op = "save" /\ r.pc = "load" /\ r.auto \in Autos /\ Here(r.auto)
  /\ r.ent.runs = autos[r.auto].runs /\ r.ent.lists = acts[r.auto]
  /\ r.want = None /\ r.left = None /\ r.plan = NoPlan

NewReplace(r, q) ==
  /\ r.op = "replace" /\ r.pc = "delete" /\ r.auto \in Autos /\ Here(r.auto)
  /\ r.ent.runs = autos[r.auto].runs /\ r.ent.lists = {q}
  /\ r.want = None /\ r.left = None /\ r.plan = NoPlan

NewTrigger(r) ==
  /\ r.op \in {"call", "tick"} /\ r.auto = Nil /\ r.ent = NoEntity /\ r.plan = NoPlan
  /\ r.want = r.left
  /\ \/ r.left = None /\ r.pc \in {"ok", "hooks"}
     \/ r.pc = "enqueue"

LEMMA FoundIs ==
  ASSUME TypeOK, NEW a \in Autos
  PROVE  /\ Found(a) \in Entity
         /\ Found(a).runs = autos[a].runs /\ Found(a).lists = acts[a]
<1>1. autos[a] \in Row /\ acts[a] \in SUBSET ListIds BY DEF TypeOK
<1>2. autos[a].active \in BOOLEAN /\ autos[a].runs \in Nat BY <1>1 DEF Row
<1>. QED BY <1>1, <1>2 DEF Found, Entity

LEMMA TriggerIs ==
  ASSUME NEW q \in Requests, NEW op \in {"call", "tick"}, NEW c \in Counts, Triggered(q, op, c)
  PROVE  /\ api[q] = Unmade
         /\ api' = [api EXCEPT ![q] = Enqueueing([Unmade EXCEPT !.op = op], c)]
         /\ Enqueueing([Unmade EXCEPT !.op = op], c) \in Request
         /\ NewTrigger(Enqueueing([Unmade EXCEPT !.op = op], c))
         /\ Enqueueing([Unmade EXCEPT !.op = op], c).cut = FALSE
         /\ UNCHANGED <<autos, acts, jobs, info, pc, job, done, begun, removed, crashes>>
<1>. DEFINE u == [Unmade EXCEPT !.op = op]
<1>1. /\ u \in Request /\ u.op = op /\ u.auto = Nil /\ u.ent = NoEntity /\ u.plan = NoPlan
      /\ u.cut = FALSE
  BY UnmadeIs DEF Request
<1>2. /\ api[q] = Unmade /\ api' = [api EXCEPT ![q] = Enqueueing(u, c)]
      /\ UNCHANGED <<autos, acts, jobs, info, pc, job, done, begun, removed, crashes>>
  BY DEF Triggered, Handling
<1>. HIDE DEF u
<1>3. NewTrigger(Enqueueing(u, c)) BY <1>1, EnqueueingIs DEF NewTrigger
<1>4. Enqueueing(u, c) \in Request /\ Enqueueing(u, c).cut = FALSE BY <1>1, EnqueueingIs
<1>. QED BY <1>2, <1>3, <1>4 DEF u

\* The beginning of any request.
Begins(q) ==
  \/ \E a \in Autos : SetActive(q, a) \/ Update(q, a) \/ Test(q, a) \/ Hook(q, a)
  \/ Tick(q) \/ Inbound(q)

LEMMA BeginsIs ==
  ASSUME TypeOK, NEW q \in Requests, Begins(q)
  PROVE  /\ api[q] = Unmade /\ Only(q) /\ api' \in [Requests -> Request]
         /\ api'[q].cut = FALSE
         /\ NewSave(api'[q]) \/ NewReplace(api'[q], q) \/ NewTrigger(api'[q])
         /\ UNCHANGED <<autos, acts, jobs, info, pc, job, done, begun, removed, crashes>>
<1>. DEFINE Goal(r) ==
       /\ r \in Request /\ r.cut = FALSE
       /\ NewSave(r) \/ NewReplace(r, q) \/ NewTrigger(r)
<1>1. ASSUME NEW r, Goal(r), Handling(q, r)
      PROVE  /\ api[q] = Unmade /\ Only(q) /\ api' \in [Requests -> Request]
             /\ api'[q] = r
             /\ UNCHANGED <<autos, acts, jobs, info, pc, job, done, begun, removed, crashes>>
  BY <1>1 DEF Handling, Only, TypeOK
<1>2. CASE \E a \in Autos : SetActive(q, a)
  <2>1. PICK a \in Autos, on \in BOOLEAN :
          /\ Here(a)
          /\ Handling(q, [Unmade EXCEPT !.op = "save", !.pc = "load", !.auto = a,
                                        !.ent = [Found(a) EXCEPT !.active = on]])
    BY <1>2 DEF SetActive
  <2>. DEFINE e == [Found(a) EXCEPT !.active = on]
  <2>2. e \in Entity /\ e.runs = autos[a].runs /\ e.lists = acts[a] BY FoundIs DEF Entity
  <2>. HIDE DEF e
  <2>. DEFINE r == [Unmade EXCEPT !.op = "save", !.pc = "load", !.auto = a, !.ent = e]
  <2>3. /\ r \in Request /\ r.op = "save" /\ r.pc = "load" /\ r.auto = a /\ r.ent = e
        /\ r.want = None /\ r.left = None /\ r.plan = NoPlan /\ r.cut = FALSE
    BY <2>2, UnmadeIs DEF Request
  <2>4. Handling(q, r) BY <2>1 DEF e
  <2>. HIDE DEF r
  <2>5. Goal(r) BY <2>1, <2>2, <2>3 DEF NewSave
  <2>. QED BY <1>1, <2>4, <2>5
<1>3. CASE \E a \in Autos : Update(q, a)
  <2>1. PICK a \in Autos : Update(q, a) BY <1>3
  <2>2. CASE Handling(q, [Unmade EXCEPT !.op = "save", !.pc = "load", !.auto = a,
                                        !.ent = Found(a)])
    <3>. DEFINE r == [Unmade EXCEPT !.op = "save", !.pc = "load", !.auto = a, !.ent = Found(a)]
    <3>1. /\ r \in Request /\ r.op = "save" /\ r.pc = "load" /\ r.auto = a /\ r.ent = Found(a)
          /\ r.want = None /\ r.left = None /\ r.plan = NoPlan /\ r.cut = FALSE
      BY UnmadeIs, FoundIs DEF Request
    <3>2. Handling(q, r) /\ Here(a) BY <2>1, <2>2 DEF Update
    <3>. HIDE DEF r
    <3>3. Goal(r) BY <3>1, <3>2, FoundIs DEF NewSave
    <3>. QED BY <1>1, <3>2, <3>3
  <2>3. CASE Handling(q, [Unmade EXCEPT !.op = "replace", !.pc = "delete", !.auto = a,
                                        !.ent = [Found(a) EXCEPT !.lists = {q}]])
    <3>. DEFINE e == [Found(a) EXCEPT !.lists = {q}]
    <3>1. e \in Entity /\ e.runs = autos[a].runs /\ e.lists = {q}
      BY FoundIs DEF Entity, ListIds
    <3>. HIDE DEF e
    <3>. DEFINE r == [Unmade EXCEPT !.op = "replace", !.pc = "delete", !.auto = a, !.ent = e]
    <3>2. /\ r \in Request /\ r.op = "replace" /\ r.pc = "delete" /\ r.auto = a /\ r.ent = e
          /\ r.want = None /\ r.left = None /\ r.plan = NoPlan /\ r.cut = FALSE
      BY <3>1, UnmadeIs DEF Request
    <3>3. Handling(q, r) /\ Here(a) BY <2>1, <2>3 DEF Update, e
    <3>. HIDE DEF r
    <3>4. Goal(r) BY <3>1, <3>2, <3>3 DEF NewReplace
    <3>. QED BY <1>1, <3>3, <3>4
  <2>. QED BY <2>1, <2>2, <2>3 DEF Update
<1>4. ASSUME NEW op \in {"call", "tick"}, NEW c \in Counts, Triggered(q, op, c)
      PROVE  /\ api[q] = Unmade /\ Only(q) /\ api' \in [Requests -> Request]
             /\ Goal(api'[q])
             /\ UNCHANGED <<autos, acts, jobs, info, pc, job, done, begun, removed, crashes>>
  <2>. DEFINE r == Enqueueing([Unmade EXCEPT !.op = op], c)
  <2>1. /\ api[q] = Unmade /\ api' = [api EXCEPT ![q] = r] /\ r \in Request
        /\ NewTrigger(r) /\ r.cut = FALSE
        /\ UNCHANGED <<autos, acts, jobs, info, pc, job, done, begun, removed, crashes>>
    BY <1>4, TriggerIs
  <2>. HIDE DEF r
  <2>2. api'[q] = r /\ Only(q) /\ api' \in [Requests -> Request] BY <2>1 DEF Only, TypeOK
  <2>. QED BY <2>1, <2>2
<1>5. CASE \E a \in Autos : Test(q, a) \/ Hook(q, a)
  BY <1>4, <1>5, OnceCounts DEF Test, Hook
<1>6. CASE Tick(q)
  <2>1. PICK S \in SUBSET {a \in Autos : On(a)} : \E n \in [S -> 1..MaxTargets] :
          Triggered(q, "tick", [a \in Autos |-> IF a \in S THEN n[a] ELSE 0])
    BY <1>6 DEF Tick
  <2>2. PICK n \in [S -> 1..MaxTargets] :
          Triggered(q, "tick", [a \in Autos |-> IF a \in S THEN n[a] ELSE 0])
    BY <2>1
  <2>3. [a \in Autos |-> IF a \in S THEN n[a] ELSE 0] \in Counts
    BY AutoBoundsAssumption DEF Counts
  <2>. QED BY <1>4, <2>2, <2>3
<1>7. CASE Inbound(q)
  <2>. DEFINE r == [Unmade EXCEPT !.op = "call", !.pc = "hooks"]
  <2>1. /\ r \in Request /\ r.op = "call" /\ r.pc = "hooks" /\ r.auto = Nil /\ r.ent = NoEntity
        /\ r.want = None /\ r.left = None /\ r.plan = NoPlan /\ r.cut = FALSE
    BY UnmadeIs DEF Request
  <2>2. Handling(q, r) BY <1>7 DEF Inbound
  <2>. HIDE DEF r
  <2>3. Goal(r) BY <2>1 DEF NewTrigger
  <2>. QED BY <1>1, <2>2, <2>3
<1>. QED BY <1>2, <1>3, <1>4, <1>5, <1>6, <1>7 DEF Begins

\* The steps of a save.
LEMMA DeleteIs ==
  ASSUME TypeOK, NEW q \in Requests, DeleteActions(q)
  PROVE  /\ api[q].pc = "delete" /\ Only(q) /\ api' \in [Requests -> Request]
         /\ api'[q].pc = "load" /\ api'[q].cut = TRUE
         /\ api'[q].op = api[q].op /\ api'[q].auto = api[q].auto /\ api'[q].ent = api[q].ent
         /\ api'[q].plan = api[q].plan /\ api'[q].want = api[q].want /\ api'[q].left = api[q].left
         /\ acts' = [acts EXCEPT ![api[q].auto] = {}]
         /\ UNCHANGED <<autos, jobs, info, pc, job, done, begun, removed, crashes>>
<1>. DEFINE n == [api[q] EXCEPT !.pc = "load", !.cut = TRUE]
<1>1. /\ n \in Request /\ n.pc = "load" /\ n.cut = TRUE
      /\ n.op = api[q].op /\ n.auto = api[q].auto /\ n.ent = api[q].ent
      /\ n.plan = api[q].plan /\ n.want = api[q].want /\ n.left = api[q].left
  BY DEF TypeOK, Request
<1>2. /\ api[q].pc = "delete" /\ api' = [api EXCEPT ![q] = n]
      /\ acts' = [acts EXCEPT ![api[q].auto] = {}]
      /\ UNCHANGED <<autos, jobs, info, pc, job, done, begun, removed, crashes>>
  BY DEF DeleteActions
<1>. HIDE DEF n
<1>3. api'[q] = n /\ Only(q) /\ api' \in [Requests -> Request] BY <1>1, <1>2 DEF Only, TypeOK
<1>. QED BY <1>1, <1>2, <1>3

LEMMA PlanIs ==
  ASSUME TypeOK, NEW a \in Autos, NEW e \in Entity
  PROVE  /\ SavePlan(a, e) \in Plan
         /\ SavePlan(a, e).insert = ~Here(a)
         /\ SavePlan(a, e).add = e.lists \ acts[a]
         /\ SavePlan(a, e).orphan = acts[a] \ e.lists
<1>1. e.lists \subseteq ListIds /\ acts[a] \subseteq ListIds BY DEF TypeOK, Entity
<1>2. (IF Here(a) THEN {c \in Columns : autos[a][c] # e[c]} ELSE {}) \in SUBSET Columns
  OBVIOUS
<1>3. (~Here(a)) \in BOOLEAN BY DEF Here
<1>. QED BY <1>1, <1>2, <1>3 DEF SavePlan, Plan

LEMMA LoadIs ==
  ASSUME TypeOK, SaveInv, NEW q \in Requests, SaveLoad(q)
  PROVE  /\ api[q].pc = "load" /\ Only(q) /\ api' \in [Requests -> Request]
         /\ api[q].auto \in Autos
         /\ api'[q].pc = "write" /\ api'[q].plan = SavePlan(api[q].auto, api[q].ent)
         /\ api'[q].op = api[q].op /\ api'[q].auto = api[q].auto /\ api'[q].ent = api[q].ent
         /\ api'[q].cut = api[q].cut /\ api'[q].want = api[q].want /\ api'[q].left = api[q].left
         /\ UNCHANGED <<autos, acts, jobs, info, pc, job, done, begun, removed, crashes>>
<1>. DEFINE P == SavePlan(api[q].auto, api[q].ent)
            n == [api[q] EXCEPT !.pc = "write", !.plan = P]
<1>1. /\ api[q].pc = "load" /\ api' = [api EXCEPT ![q] = n]
      /\ UNCHANGED <<autos, acts, jobs, info, pc, job, done, begun, removed, crashes>>
  BY DEF SaveLoad
<1>2. api[q] \in Request BY DEF TypeOK
<1>3. api[q].auto \in Autos /\ api[q].ent \in Entity BY <1>1, <1>2 DEF SaveInv, Request
<1>4. P \in Plan BY <1>3, PlanIs
<1>. HIDE DEF P
<1>5. /\ n \in Request /\ n.pc = "write" /\ n.plan = P
      /\ n.op = api[q].op /\ n.auto = api[q].auto /\ n.ent = api[q].ent
      /\ n.cut = api[q].cut /\ n.want = api[q].want /\ n.left = api[q].left
  BY <1>2, <1>4 DEF Request
<1>. HIDE DEF n
<1>6. api'[q] = n /\ Only(q) /\ api' \in [Requests -> Request] BY <1>1, <1>5 DEF Only, TypeOK
<1>. QED BY <1>1, <1>3, <1>5, <1>6 DEF P

\* The lists that are added were not there, and none is left without its
\* automation.
LEMMA WriteIs ==
  ASSUME TypeOK, SaveInv, NEW q \in Requests, SaveWrite(q)
  PROVE  /\ api[q].pc = "write" /\ Only(q) /\ api' \in [Requests -> Request]
         /\ api[q].auto \in Autos
         /\ api'[q].pc = "ok" /\ api'[q].cut = FALSE
         /\ api'[q].op = api[q].op /\ api'[q].auto = api[q].auto /\ api'[q].want = api[q].want
         /\ api'[q].left = None /\ api'[q].ent = NoEntity /\ api'[q].plan = NoPlan
         /\ ~SaveConflicts(api[q].auto, api[q].plan)
         /\ autos' = [autos EXCEPT ![api[q].auto] = Saved(api[q].auto, api[q].ent, api[q].plan)]
         /\ acts' = [acts EXCEPT ![api[q].auto] = acts[api[q].auto] \cup api[q].plan.add]
         /\ UNCHANGED <<jobs, info, pc, job, done, begun, removed, crashes>>
<1>. DEFINE A == api[q].auto  P == api[q].plan
            n == [Answered(api[q], "ok") EXCEPT !.cut = FALSE]
<1>1. /\ api[q].pc = "write" /\ api' = [api EXCEPT ![q] = n]
      /\ ~SaveConflicts(A, P)
      /\ autos' = [autos EXCEPT ![A] = Saved(A, api[q].ent, P)]
      /\ acts' = [acts EXCEPT ![A] = (acts[A] \ P.orphan) \cup P.add]
      /\ UNCHANGED <<jobs, info, pc, job, done, begun, removed, crashes>>
  BY DEF SaveWrite
<1>2. api[q] \in Request BY DEF TypeOK
<1>3. A \in Autos BY <1>1, <1>2 DEF SaveInv, Request
<1>4. (acts[A] \ P.orphan) \cup P.add = acts[A] \cup P.add BY <1>1 DEF SaveConflicts
<1>5. /\ n \in Request /\ n.pc = "ok" /\ n.cut = FALSE /\ n.left = None
      /\ n.op = api[q].op /\ n.auto = A /\ n.want = api[q].want
      /\ n.ent = NoEntity /\ n.plan = NoPlan
  <2>. DEFINE w == Answered(api[q], "ok")
  <2>1. /\ w \in Request /\ w.op = api[q].op /\ w.auto = A /\ w.want = api[q].want
        /\ w.pc = "ok" /\ w.left = None /\ w.ent = NoEntity /\ w.plan = NoPlan
    BY <1>2, AnsweredIs
  <2>. HIDE DEF w
  <2>2. n = [w EXCEPT !.cut = FALSE] BY DEF w
  <2>. QED BY <2>1, <2>2 DEF Request
<1>. HIDE DEF n
<1>6. api'[q] = n /\ Only(q) /\ api' \in [Requests -> Request] BY <1>1, <1>5 DEF Only, TypeOK
<1>. QED BY <1>1, <1>3, <1>4, <1>5, <1>6

-----------------------------------------------------------------------------
(* The steps of a trigger, and how a request ends in an error.              *)

\* Up to the loop of an inbound message.
LEMMA FindIs ==
  ASSUME TypeOK, NEW q \in Requests, HooksDispatched(q) \/ FindMatching(q)
  PROVE  /\ api[q].pc \in {"hooks", "find"} /\ Only(q) /\ api' \in [Requests -> Request]
         /\ api'[q].op = api[q].op /\ api'[q].auto = api[q].auto /\ api'[q].ent = api[q].ent
         /\ api'[q].plan = api[q].plan /\ api'[q].cut = api[q].cut
         /\ \/ api'[q].pc = "find" /\ api'[q].want = api[q].want /\ api'[q].left = api[q].left
            \/ /\ api'[q].want = api'[q].left
               /\ \/ api'[q].left = None /\ api'[q].pc = "ok"
                  \/ api'[q].pc = "enqueue"
         /\ UNCHANGED <<autos, acts, jobs, info, pc, job, done, begun, removed, crashes>>
<1>1. CASE HooksDispatched(q)
  <2>. DEFINE n == [api[q] EXCEPT !.pc = "find"]
  <2>1. /\ n \in Request /\ n.pc = "find" /\ n.op = api[q].op /\ n.auto = api[q].auto
        /\ n.ent = api[q].ent /\ n.plan = api[q].plan /\ n.want = api[q].want
        /\ n.left = api[q].left /\ n.cut = api[q].cut
    BY DEF TypeOK, Request
  <2>2. /\ api[q].pc = "hooks" /\ api' = [api EXCEPT ![q] = n]
        /\ UNCHANGED <<autos, acts, jobs, info, pc, job, done, begun, removed, crashes>>
    BY <1>1 DEF HooksDispatched
  <2>. HIDE DEF n
  <2>3. api'[q] = n /\ Only(q) /\ api' \in [Requests -> Request] BY <2>1, <2>2 DEF Only, TypeOK
  <2>. QED BY <2>1, <2>2, <2>3
<1>2. CASE FindMatching(q)
  <2>1. PICK S \in SUBSET {a \in Autos : On(a)} :
          api' = [api EXCEPT ![q] = Enqueueing(api[q], Once(S))]
    BY <1>2 DEF FindMatching
  <2>2. /\ api[q].pc = "find"
        /\ UNCHANGED <<autos, acts, jobs, info, pc, job, done, begun, removed, crashes>>
    BY <1>2 DEF FindMatching
  <2>3. api[q] \in Request /\ Once(S) \in Counts BY OnceCounts DEF TypeOK
  <2>. DEFINE n == Enqueueing(api[q], Once(S))
  <2>4. /\ n \in Request /\ n.op = api[q].op /\ n.auto = api[q].auto
        /\ n.ent = api[q].ent /\ n.plan = api[q].plan /\ n.cut = api[q].cut
        /\ n.want = n.left
        /\ \/ n.left = None /\ n.pc = "ok"
           \/ n.pc = "enqueue"
    BY <2>3, EnqueueingIs
  <2>. HIDE DEF n
  <2>5. api'[q] = n /\ Only(q) /\ api' \in [Requests -> Request]
    BY <2>1, <2>4 DEF n, Only, TypeOK
  <2>. QED BY <2>2, <2>4, <2>5
<1>. QED BY <1>1, <1>2

\* What a step of the loop over enqueueRun makes of request q.
Loops(q, c) ==
  /\ api[q].pc = "enqueue" /\ Only(q) /\ api' \in [Requests -> Request] /\ c \in Counts
  /\ api'[q].op = api[q].op /\ api'[q].auto = api[q].auto /\ api'[q].want = api[q].want
  /\ api'[q].cut = api[q].cut /\ api'[q].left = c
  /\ \/ c = None /\ api'[q].pc = "ok" /\ api'[q].ent = NoEntity /\ api'[q].plan = NoPlan
     \/ c # None /\ api'[q].pc = "enqueue" /\ api'[q].ent = api[q].ent /\ api'[q].plan = api[q].plan

LEMMA LoopIs ==
  ASSUME TypeOK, NEW q \in Requests, NEW c \in Counts, api[q].pc = "enqueue",
         api' = [api EXCEPT ![q] = IF c = None THEN Answered(@, "ok") ELSE [@ EXCEPT !.left = c]]
  PROVE  Loops(q, c)
<1>. DEFINE n == IF c = None THEN Answered(api[q], "ok") ELSE [api[q] EXCEPT !.left = c]
<1>1. api[q] \in Request BY DEF TypeOK
<1>2. /\ n \in Request /\ n.op = api[q].op /\ n.auto = api[q].auto /\ n.want = api[q].want
      /\ n.cut = api[q].cut /\ n.left = c
      /\ \/ c = None /\ n.pc = "ok" /\ n.ent = NoEntity /\ n.plan = NoPlan
         \/ c # None /\ n.pc = "enqueue" /\ n.ent = api[q].ent /\ n.plan = api[q].plan
  BY <1>1, ShortenedIs
<1>3. api' = [api EXCEPT ![q] = n] OBVIOUS
<1>. HIDE DEF n
<1>4. api'[q] = n /\ Only(q) /\ api' \in [Requests -> Request] BY <1>2, <1>3 DEF Only, TypeOK
<1>. QED BY <1>2, <1>4 DEF Loops

LEMMA EnqueueIs ==
  ASSUME TypeOK, NEW q \in Requests, NEW a \in Autos, EnqueueRun(q, a)
  PROVE  /\ api[q].left[a] > 0 /\ Loops(q, OneLess(api[q].left, a))
         /\ \E j \in Jobs :
              /\ jobs[j] = NoJob
              /\ jobs' = [jobs EXCEPT ![j] = Added(FALSE)]
              /\ info' = [info EXCEPT ![j] = [auto |-> a, by |-> q]]
         /\ UNCHANGED <<autos, acts, pc, job, done, begun, removed, crashes>>
<1>. DEFINE c == OneLess(api[q].left, a)
<1>1. api[q].pc = "enqueue" /\ api[q].left[a] > 0 BY DEF EnqueueRun
<1>2. api[q].left \in Counts BY DEF TypeOK, Request
<1>3. c \in Counts BY <1>1, <1>2, OneLessIs
<1>4. api' = [api EXCEPT ![q] = IF c = None THEN Answered(@, "ok") ELSE [@ EXCEPT !.left = c]]
  BY DEF EnqueueRun
<1>. HIDE DEF c
<1>5. Loops(q, c) BY <1>1, <1>3, <1>4, LoopIs
<1>. QED BY <1>1, <1>5 DEF c, EnqueueRun

LEMMA PassOverIs ==
  ASSUME TypeOK, NEW q \in Requests, NEW a \in Autos, TickPassesOver(q, a)
  PROVE  /\ api[q].op = "tick" /\ Loops(q, [api[q].left EXCEPT ![a] = 0])
         /\ UNCHANGED <<autos, acts, jobs, info, pc, job, done, begun, removed, crashes>>
<1>. DEFINE c == [api[q].left EXCEPT ![a] = 0]
<1>1. api[q].pc = "enqueue" BY DEF TickPassesOver
<1>2. api[q].left \in Counts BY DEF TypeOK, Request
<1>3. c \in Counts BY <1>2, AutoBoundsAssumption DEF Counts
<1>4. api' = [api EXCEPT ![q] = IF c = None THEN Answered(@, "ok") ELSE [@ EXCEPT !.left = c]]
  BY DEF TickPassesOver
<1>. HIDE DEF c
<1>5. Loops(q, c) BY <1>1, <1>3, <1>4, LoopIs
<1>. QED BY <1>5 DEF c, TickPassesOver

\* Request q goes on as it was, or ends in an error.
Cut(q) ==
  \/ api'[q] = api[q]
  \/ /\ api[q].pc \notin {"new", "ok"}
     /\ api'[q].pc = "error" /\ api'[q].left = None
     /\ api'[q].ent = NoEntity /\ api'[q].plan = NoPlan
     /\ api'[q].op = api[q].op /\ api'[q].auto = api[q].auto /\ api'[q].want = api[q].want
     /\ api'[q].cut = api[q].cut

\* An error of one call, and a crash.
LEMMA FailsIs ==
  ASSUME TypeOK, NEW q \in Requests, Fails(q)
  PROVE  /\ api' \in [Requests -> Request]
         /\ \A p \in Requests : Cut(p)
         /\ UNCHANGED <<autos, acts, jobs, info, pc, job, done, begun, removed, crashes>>
<1>1. /\ api' = [api EXCEPT ![q] = Answered(api[q], "error")]
      /\ api[q].pc \notin {"new", "ok"}
      /\ UNCHANGED <<autos, acts, jobs, info, pc, job, done, begun, removed, crashes>>
  BY DEF Fails
<1>2. api[q] \in Request /\ api \in [Requests -> Request] BY DEF TypeOK
<1>. DEFINE n == Answered(api[q], "error")
<1>3. /\ n \in Request /\ n.pc = "error" /\ n.left = None /\ n.ent = NoEntity /\ n.plan = NoPlan
      /\ n.op = api[q].op /\ n.auto = api[q].auto /\ n.want = api[q].want /\ n.cut = api[q].cut
  BY <1>2, AnsweredIs
<1>. HIDE DEF n
<1>4. api' \in [Requests -> Request] /\ api'[q] = n /\ \A p \in Requests \ {q} : api'[p] = api[p]
  BY <1>1, <1>2, <1>3 DEF n
<1>. QED BY <1>1, <1>3, <1>4 DEF Cut

LEMMA CrashIs ==
  ASSUME TypeOK, Crash
  PROVE  /\ api' \in [Requests -> Request]
         /\ \A p \in Requests : Cut(p)
         /\ crashes' \in 0..MaxCrashes /\ pc' = "idle" /\ job' = Nil
         /\ UNCHANGED <<autos, acts, jobs, info, done, begun, removed>>
<1>1. ASSUME NEW p \in Requests
      PROVE  api'[p] \in Request /\ Cut(p)
  <2>1. api[p] \in Request BY DEF TypeOK
  <2>2. api'[p] = IF api[p].pc \in {"new", "ok"} THEN api[p] ELSE Answered(api[p], "error")
    BY DEF Crash
  <2>3. CASE api[p].pc \in {"new", "ok"} BY <2>1, <2>2, <2>3 DEF Cut
  <2>4. CASE api[p].pc \notin {"new", "ok"} BY <2>1, <2>2, <2>4, AnsweredIs DEF Cut
  <2>. QED BY <2>3, <2>4
<1>2. crashes' \in 0..MaxCrashes BY AutoBoundsAssumption DEF TypeOK, Crash
<1>3. api' = [q \in Requests |-> api'[q]] BY DEF Crash
<1>. QED BY <1>1, <1>2, <1>3 DEF Crash

-----------------------------------------------------------------------------
(* The rows.                                                                *)

\* The row that a save leaves.
LEMMA SavedIs ==
  ASSUME TypeOK, NEW a \in Autos, NEW e \in Entity, NEW p
  PROVE  /\ Saved(a, e, p) \in Row
         /\ Saved(a, e, p).state = IF p.insert THEN "here" ELSE autos[a].state
         /\ Saved(a, e, p).runs \in {e.runs, autos[a].runs}
<1>1. autos[a] \in Row BY DEF TypeOK
<1>2. e.active \in BOOLEAN /\ e.runs \in Nat BY DEF Entity
<1>3. CASE p.insert BY <1>2, <1>3 DEF Saved, Row
<1>4. CASE ~p.insert /\ ~Here(a) BY <1>1, <1>4 DEF Saved, Row
<1>5. CASE ~p.insert /\ Here(a) BY <1>1, <1>2, <1>5 DEF Saved, Row, Here
<1>. QED BY <1>3, <1>4, <1>5

\* What the worker and the queue do to the rows: at most count a run.
LEMMA WorkIs ==
  ASSUME TypeOK, JobsInv,
         WorkerStep \/ \E j \in Jobs : Take(j) \/ Promote(j) \/ RecoverStalled(j)
  PROVE  /\ UNCHANGED <<acts, api, removed, crashes, info>>
         /\ autos' \in [Autos -> Row]
         /\ \A a \in Autos : autos'[a].state = autos[a].state
<1>1. CASE MarkRun
  <2>1. /\ pc = "mark" /\ UNCHANGED <<acts, api, removed, crashes, info>>
        /\ autos' = IF Here(info[job].auto) THEN [autos EXCEPT ![info[job].auto].runs = @ + 1] ELSE autos
    BY <1>1 DEF MarkRun
  <2>2. job \in Jobs /\ info[job] \in Info
    <3>1. job \in Jobs /\ jobs[job].state = "active" BY <2>1 DEF JobsInv
    <3>. QED BY <3>1 DEF JobsInv
  <2>3. info[job].auto \in Autos BY <2>2 DEF Info
  <2>. DEFINE A == info[job].auto
  <2>4. autos \in [Autos -> Row] /\ autos[A] \in Row BY <2>3 DEF TypeOK
  <2>5. CASE Here(A)
    <3>1. autos' = [autos EXCEPT ![A].runs = @ + 1] BY <2>1, <2>5
    <3>2. [autos[A] EXCEPT !.runs = @ + 1] \in Row
      /\ [autos[A] EXCEPT !.runs = @ + 1].state = autos[A].state
      BY <2>4 DEF Row
    <3>. HIDE DEF A
    <3>. QED BY <2>1, <2>3, <2>4, <3>1, <3>2
  <2>6. CASE ~Here(A) BY <2>1, <2>4, <2>6
  <2>. QED BY <2>5, <2>6
<1>2. CASE Skip \/ Load \/ RunOk \/ RunThrows \/ StampRun \/ Return \/ Throw
  BY <1>2 DEF TypeOK, Skip, Load, RunOk, RunThrows, StampRun, Return, Throw
<1>3. CASE \E j \in Jobs : Take(j) \/ Promote(j) \/ RecoverStalled(j)
  BY <1>3 DEF TypeOK, Take, Promote, RecoverStalled
<1>. QED BY <1>1, <1>2, <1>3 DEF WorkerStep

-----------------------------------------------------------------------------
(* Types.                                                                   *)

LEMMA InfoIs ==
  ASSUME TypeOK, JobsInv, pc # "idle"
  PROVE  /\ job \in Jobs /\ jobs[job].state = "active" /\ jobs[job] \in Job(Attempts)
         /\ info[job] \in Info /\ info[job].auto \in Autos /\ jobs[job].made < Attempts
<1>1. job \in Jobs /\ jobs[job].state = "active" BY DEF JobsInv
<1>2. info[job] \in Info /\ jobs[job].made < Attempts BY <1>1 DEF JobsInv, Live
<1>. QED BY <1>1, <1>2 DEF TypeOK, Info

\* The parts of TypeOK that the worker, the queue and a crash touch.
LEMMA TypeWork ==
  ASSUME TypeOK, JobsInv,
         WorkerStep \/ \E j \in Jobs : Take(j) \/ Promote(j) \/ RecoverStalled(j)
  PROVE  TypeOK'
<1>1. /\ UNCHANGED <<acts, api, removed, crashes, info>> /\ autos' \in [Autos -> Row]
      /\ \A a \in Autos : autos'[a].state = autos[a].state
  BY WorkIs
<1>2. \A a \in Autos : acts'[a] # {} => Here(a)' BY <1>1 DEF TypeOK, Here
<1>3. /\ jobs' \in [Jobs -> Job(Attempts)]
      /\ pc' \in {"idle", "load", "run", "mark", "stamp", "thrown", "return"}
      /\ job' \in Jobs \cup {Nil} /\ done' \in [Autos -> Nat] /\ begun' \in [Jobs -> Nat]
  <2>1. CASE Skip \/ Load \/ MarkRun \/ StampRun
    BY <2>1 DEF TypeOK, Skip, Load, MarkRun, StampRun
  <2>2. CASE RunOk \/ RunThrows
    <3>1. job \in Jobs /\ info[job].auto \in Autos BY <2>2, InfoIs DEF RunOk, RunThrows
    <3>2. CASE RunOk
      <4>1. /\ done' = [done EXCEPT ![info[job].auto] = @ + 1]
            /\ begun' = [begun EXCEPT ![job] = @ + 1]
            /\ pc' = "mark" /\ UNCHANGED <<jobs, job>>
        BY <3>2 DEF RunOk
      <4>2. done \in [Autos -> Nat] /\ begun \in [Jobs -> Nat] BY DEF TypeOK
      <4>3. done' \in [Autos -> Nat] BY <3>1, <4>1, <4>2
      <4>4. begun' \in [Jobs -> Nat] BY <3>1, <4>1, <4>2
      <4>. QED BY <4>1, <4>3, <4>4 DEF TypeOK
    <3>3. CASE RunThrows
      <4>1. /\ begun' = [begun EXCEPT ![job] = @ + 1]
            /\ pc' = "thrown" /\ UNCHANGED <<jobs, job, done>>
        BY <3>3 DEF RunThrows
      <4>2. begun' \in [Jobs -> Nat] BY <3>1, <4>1 DEF TypeOK
      <4>. QED BY <4>1, <4>2 DEF TypeOK
    <3>. QED BY <2>2, <3>2, <3>3
  <2>3. CASE Return \/ Throw
    <3>1. /\ job \in Jobs /\ jobs[job] \in Job(Attempts) /\ jobs[job].made < Attempts
      BY <2>3, InfoIs DEF Return, Throw
    <3>2. Completed(jobs[job]) \in Job(Attempts) /\ Rejected(jobs[job], Attempts) \in Job(Attempts)
      BY <3>1, JobMoves, JobRejected, AutoAttemptAssumption
    <3>3. \/ jobs' = [jobs EXCEPT ![job] = Completed(jobs[job])]
          \/ jobs' = [jobs EXCEPT ![job] = Rejected(jobs[job], Attempts)]
      BY <2>3 DEF Return, Throw
    <3>4. jobs' \in [Jobs -> Job(Attempts)] BY <3>1, <3>2, <3>3 DEF TypeOK
    <3>. QED BY <2>3, <3>4 DEF TypeOK, Return, Throw
  <2>4. ASSUME NEW j \in Jobs, Take(j) \/ Promote(j) \/ RecoverStalled(j)
        PROVE  /\ jobs' \in [Jobs -> Job(Attempts)]
               /\ pc' \in {"idle", "load", "run", "mark", "stamp", "thrown", "return"}
               /\ job' \in Jobs \cup {Nil} /\ done' \in [Autos -> Nat] /\ begun' \in [Jobs -> Nat]
    <3>1. jobs[j] \in Job(Attempts) BY DEF TypeOK
    <3>2. PICK x \in Job(Attempts) : jobs' = [jobs EXCEPT ![j] = x]
      <4>1. CASE Take(j) BY <3>1, <4>1, JobMoves DEF Take
      <4>2. CASE Promote(j) BY <3>1, <4>2, JobMoves DEF Promote
      <4>3. CASE RecoverStalled(j) BY <3>1, <4>3, JobStalled DEF RecoverStalled
      <4>. QED BY <2>4, <4>1, <4>2, <4>3
    <3>3. jobs' \in [Jobs -> Job(Attempts)] BY <3>2 DEF TypeOK
    <3>. QED BY <2>4, <3>3 DEF TypeOK, Take, Promote, RecoverStalled
  <2>. QED BY <2>1, <2>2, <2>3, <2>4 DEF WorkerStep
<1>. QED BY <1>1, <1>2, <1>3 DEF TypeOK

LEMMA TypeStep ==
  ASSUME TypeOK, JobsInv, SaveInv, [Next]_vars
  PROVE  TypeOK'
<1>1. CASE UNCHANGED vars BY <1>1 DEF vars, TypeOK, Here
<1>2. ASSUME NEW a \in Autos, Create(a) PROVE TypeOK'
  <2>1. [NoAuto EXCEPT !.state = "here"] \in Row
        /\ [NoAuto EXCEPT !.state = "here"].state = "here"
    BY DEF NoAuto, Row
  <2>2. /\ autos' = [autos EXCEPT ![a] = [NoAuto EXCEPT !.state = "here"]]
        /\ acts' = [acts EXCEPT ![a] = {"first"}]
        /\ UNCHANGED <<jobs, info, api, pc, job, done, begun, removed, crashes>>
    BY <1>2 DEF Create
  <2>. DEFINE n == [NoAuto EXCEPT !.state = "here"]
  <2>. HIDE DEF n
  <2>3. autos' = [autos EXCEPT ![a] = n] /\ n \in Row /\ n.state = "here" BY <2>1, <2>2 DEF n
  <2>4. autos' \in [Autos -> Row] /\ acts' \in [Autos -> SUBSET ListIds]
    BY <2>2, <2>3 DEF TypeOK, ListIds
  <2>5. \A b \in Autos : acts'[b] # {} => autos'[b].state = "here"
    BY <2>2, <2>3 DEF TypeOK, Here
  <2>. QED BY <2>2, <2>4, <2>5 DEF TypeOK, Here
<1>3. ASSUME NEW a \in Autos, Remove(a) PROVE TypeOK'
  <2>1. Removed \in Row BY DEF Removed, Row
  <2>2. /\ autos' = [autos EXCEPT ![a] = Removed]
        /\ acts' = [acts EXCEPT ![a] = {}]
        /\ removed' = removed \cup {a}
        /\ UNCHANGED <<jobs, info, api, pc, job, done, begun, crashes>>
    BY <1>3 DEF Remove
  <2>3. autos' \in [Autos -> Row] /\ acts' \in [Autos -> SUBSET ListIds]
    BY <2>1, <2>2 DEF TypeOK
  <2>4. \A b \in Autos : acts'[b] # {} => autos'[b].state = "here"
    BY <2>2 DEF TypeOK, Here
  <2>5. removed' \in SUBSET Autos BY <2>2 DEF TypeOK
  <2>. QED BY <2>2, <2>3, <2>4, <2>5 DEF TypeOK, Here
<1>4. ASSUME NEW q \in Requests, Begins(q) PROVE TypeOK'
  <2>1. api' \in [Requests -> Request]
        /\ UNCHANGED <<autos, acts, jobs, info, pc, job, done, begun, removed, crashes>>
    BY <1>4, BeginsIs
  <2>. QED BY <2>1 DEF TypeOK, Here
<1>5. ASSUME NEW q \in Requests, DeleteActions(q) PROVE TypeOK'
  <2>1. /\ api' \in [Requests -> Request]
        /\ acts' = [acts EXCEPT ![api[q].auto] = {}]
        /\ UNCHANGED <<autos, jobs, info, pc, job, done, begun, removed, crashes>>
    BY <1>5, DeleteIs
  <2>2. acts' \in [Autos -> SUBSET ListIds] BY <2>1 DEF TypeOK
  <2>3. \A b \in Autos : acts'[b] # {} => autos'[b].state = "here"
    BY <2>1 DEF TypeOK, Here
  <2>. QED BY <2>1, <2>2, <2>3 DEF TypeOK, Here
<1>6. ASSUME NEW q \in Requests, SaveLoad(q) PROVE TypeOK'
  <2>1. api' \in [Requests -> Request]
        /\ UNCHANGED <<autos, acts, jobs, info, pc, job, done, begun, removed, crashes>>
    BY <1>6, LoadIs
  <2>. QED BY <2>1 DEF TypeOK, Here
<1>7. ASSUME NEW q \in Requests, SaveWrite(q) PROVE TypeOK'
  <2>. DEFINE A == api[q].auto  P == api[q].plan  S == Saved(A, api[q].ent, P)
  <2>1. /\ api' \in [Requests -> Request] /\ A \in Autos
        /\ ~SaveConflicts(A, P)
        /\ autos' = [autos EXCEPT ![A] = S]
        /\ acts' = [acts EXCEPT ![A] = acts[A] \cup P.add]
        /\ UNCHANGED <<jobs, info, pc, job, done, begun, removed, crashes>>
    BY <1>7, WriteIs
  <2>2. api[q].ent \in Entity /\ P \in Plan BY DEF TypeOK, Request
  <2>3. S \in Row /\ S.state = IF P.insert THEN "here" ELSE autos[A].state
    BY <2>1, <2>2, SavedIs
  <2>4. P.add \subseteq ListIds BY <2>2 DEF Plan
  <2>5. ~P.insert /\ ~Here(A) => P.add = {} BY <2>1 DEF SaveConflicts
  <2>. HIDE DEF A, P, S
  <2>6. autos' \in [Autos -> Row] /\ acts' \in [Autos -> SUBSET ListIds]
    BY <2>1, <2>3, <2>4 DEF TypeOK
  <2>7. acts[A] # {} => Here(A) BY <2>1 DEF TypeOK
  <2>8. acts[A] \cup P.add # {} => S.state = "here" BY <2>3, <2>5, <2>7 DEF Here
  <2>9. \A b \in Autos : acts'[b] # {} => autos'[b].state = "here"
    BY <2>1, <2>8 DEF TypeOK, Here
  <2>. QED BY <2>1, <2>6, <2>9 DEF TypeOK, Here
<1>8. ASSUME NEW q \in Requests, HooksDispatched(q) \/ FindMatching(q) \/ Fails(q) PROVE TypeOK'
  <2>1. api' \in [Requests -> Request]
        /\ UNCHANGED <<autos, acts, jobs, info, pc, job, done, begun, removed, crashes>>
    BY <1>8, FindIs, FailsIs
  <2>. QED BY <2>1 DEF TypeOK, Here
<1>9. ASSUME NEW q \in Requests, NEW a \in Autos, EnqueueRun(q, a) PROVE TypeOK'
  <2>1. /\ api' \in [Requests -> Request]
        /\ UNCHANGED <<autos, acts, pc, job, done, begun, removed, crashes>>
    BY <1>9, EnqueueIs DEF Loops
  <2>2. PICK j \in Jobs :
          /\ jobs' = [jobs EXCEPT ![j] = Added(FALSE)]
          /\ info' = [info EXCEPT ![j] = [auto |-> a, by |-> q]]
    BY <1>9, EnqueueIs
  <2>3. Added(FALSE) \in Job(Attempts) BY JobAdded, AutoAttemptAssumption
  <2>4. [auto |-> a, by |-> q] \in Info BY DEF Info
  <2>5. jobs' \in [Jobs -> Job(Attempts)] BY <2>2, <2>3 DEF TypeOK
  <2>6. info' \in [Jobs -> Info \cup {Nil}] BY <2>2, <2>4 DEF TypeOK
  <2>. QED BY <2>1, <2>5, <2>6 DEF TypeOK, Here
<1>10. ASSUME NEW q \in Requests, NEW a \in Autos, TickPassesOver(q, a) PROVE TypeOK'
  <2>1. api' \in [Requests -> Request]
        /\ UNCHANGED <<autos, acts, jobs, info, pc, job, done, begun, removed, crashes>>
    BY <1>10, PassOverIs DEF Loops
  <2>. QED BY <2>1 DEF TypeOK, Here
<1>11. CASE Crash
  <2>1. /\ api' \in [Requests -> Request] /\ crashes' \in 0..MaxCrashes
        /\ pc' = "idle" /\ job' = Nil
        /\ UNCHANGED <<autos, acts, jobs, info, done, begun, removed>>
    BY <1>11, CrashIs
  <2>. QED BY <2>1 DEF TypeOK, Here
<1>. QED
  BY <1>1, <1>2, <1>3, <1>4, <1>5, <1>6, <1>7, <1>8, <1>9, <1>10, <1>11, TypeWork
  DEF Next, Edit, Trigger, Begins

-----------------------------------------------------------------------------
(* The jobs.                                                                *)

\* What JobsInv says of one job.
JobOk(j) ==
  /\ jobs[j].state # "none" => info[j] \in Info
  /\ Live(jobs[j]) => jobs[j].made < Attempts
  /\ begun[j] <= jobs[j].made + jobs[j].stalls +
       (IF \/ jobs[j].state \in {"active", "completed"}
           \/ jobs[j].state = "failed" /\ jobs[j].stalls = MaxStalls
        THEN 1 ELSE 0)
  /\ job = j /\ pc \in {"load", "run"} => begun[j] <= jobs[j].made + jobs[j].stalls

\* The steps of the registry and of the triggers touch no job, but for a run
\* that is enqueued.
LEMMA RequestIs ==
  ASSUME TypeOK, SaveInv, NEW q \in Requests, Edit(q) \/ Trigger(q) \/ Fails(q)
  PROVE  /\ UNCHANGED <<pc, job, done, begun, removed, crashes>>
         /\ \/ UNCHANGED <<jobs, info>>
            \/ \E j \in Jobs, a \in Autos :
                 /\ jobs[j] = NoJob
                 /\ jobs' = [jobs EXCEPT ![j] = Added(FALSE)]
                 /\ info' = [info EXCEPT ![j] = [auto |-> a, by |-> q]]
<1>1. CASE Begins(q) BY <1>1, BeginsIs
<1>2. CASE DeleteActions(q) BY <1>2, DeleteIs
<1>3. CASE SaveLoad(q) BY <1>3, LoadIs
<1>4. CASE SaveWrite(q) BY <1>4, WriteIs
<1>5. CASE HooksDispatched(q) \/ FindMatching(q) BY <1>5, FindIs
<1>6. ASSUME NEW a \in Autos, EnqueueRun(q, a)
      PROVE  /\ UNCHANGED <<pc, job, done, begun, removed, crashes>>
             /\ \E j \in Jobs :
                  /\ jobs[j] = NoJob
                  /\ jobs' = [jobs EXCEPT ![j] = Added(FALSE)]
                  /\ info' = [info EXCEPT ![j] = [auto |-> a, by |-> q]]
  BY <1>6, EnqueueIs
<1>7. CASE \E a \in Autos : TickPassesOver(q, a) BY <1>7, PassOverIs
<1>8. CASE Fails(q) BY <1>8, FailsIs
<1>. QED BY <1>1, <1>2, <1>3, <1>4, <1>5, <1>6, <1>7, <1>8 DEF Edit, Trigger, Begins

LEMMA JobsStep ==
  ASSUME TypeOK, JobsInv, SaveInv, RunsBounded, [Next]_vars
  PROVE  JobsInv' /\ RunsBounded'
<1>. DEFINE WorkerOk ==
              /\ pc # "idle" => job \in Jobs /\ jobs[job].state = "active"
              /\ pc = "idle" => job = Nil
<1>1. WorkerOk /\ \A j \in Jobs : JobOk(j) BY DEF JobsInv, JobOk
<1>. SUFFICES WorkerOk' /\ (\A j \in Jobs : JobOk(j))' /\ RunsBounded'
  BY DEF JobsInv, JobOk
<1>2. ASSUME NEW j \in Jobs
      PROVE  /\ jobs[j] \in Job(Attempts) /\ jobs[j].made \in 0..Attempts
             /\ jobs[j].stalls \in 0..1 /\ begun[j] \in Nat /\ Attempts \in Nat \ {0} /\ MaxStalls = 1
             /\ begun[j] <= Attempts + 1
  <2>1. jobs[j] \in Job(Attempts) /\ begun[j] \in Nat BY DEF TypeOK
  <2>2. begun[j] <= Attempts + MaxStalls BY DEF RunsBounded
  <2>. QED BY <2>1, <2>2, AutoAttemptAssumption, JobCounts
<1>3. CASE UNCHANGED <<jobs, info, pc, job, begun>>
  BY <1>1, <1>3 DEF JobOk, RunsBounded
<1>4. ASSUME NEW j \in Jobs, NEW a \in Autos, NEW q \in Requests, UNCHANGED <<pc, job, begun>>,
             jobs[j] = NoJob, jobs' = [jobs EXCEPT ![j] = Added(FALSE)],
             info' = [info EXCEPT ![j] = [auto |-> a, by |-> q]]
      PROVE  WorkerOk' /\ (\A k \in Jobs : JobOk(k))' /\ RunsBounded'
  <2>1. /\ jobs' = [jobs EXCEPT ![j] = Added(FALSE)]
        /\ info' = [info EXCEPT ![j] = [auto |-> a, by |-> q]]
        /\ UNCHANGED <<pc, job, begun>>
    BY <1>4
  <2>2. /\ Added(FALSE).state \in {"waiting", "delayed"}
        /\ Added(FALSE).made = 0 /\ Added(FALSE).stalls = 0
    BY JobAdded, AutoAttemptAssumption
  <2>3. jobs[j].state = "none" /\ jobs[j].made = 0 /\ jobs[j].stalls = 0 BY <1>4 DEF NoJob
  <2>4. begun[j] <= 0 BY <1>1, <2>3 DEF JobOk
  <2>5. job # j BY <1>1, <2>3, AutoNamesAssumption
  <2>6. ASSUME NEW k \in Jobs PROVE JobOk(k)'
    <3>1. CASE k = j
      <4>1. jobs'[k] = Added(FALSE) /\ info'[k] \in Info /\ begun'[k] <= 0 /\ job' # k
        BY <2>1, <2>4, <2>5, <3>1 DEF TypeOK, Info
      <4>2. /\ jobs'[k].state \in {"waiting", "delayed"}
            /\ jobs'[k].made = 0 /\ jobs'[k].stalls = 0
        BY <2>2, <4>1
      <4>3. jobs'[k].made < Attempts BY <4>2, AutoAttemptAssumption
      <4>4. begun'[k] \in Nat BY <1>2, <2>1
      <4>5. begun'[k] = 0 BY <4>1, <4>4
      <4>6. jobs'[k].made + jobs'[k].stalls = 0 BY <4>2
      <4>. QED BY <4>1, <4>2, <4>3, <4>5, <4>6 DEF JobOk
    <3>2. CASE k # j
      <4>1. jobs'[k] = jobs[k] /\ info'[k] = info[k] BY <2>1, <3>2 DEF TypeOK
      <4>. QED BY <1>1, <2>1, <4>1 DEF JobOk
    <3>. QED BY <3>1, <3>2
  <2>7. WorkerOk' BY <1>1, <2>1, <2>5 DEF TypeOK
  <2>. QED BY <2>1, <2>6, <2>7 DEF RunsBounded
<1>5. ASSUME NEW q \in Requests, Edit(q) \/ Trigger(q) \/ Fails(q)
      PROVE  WorkerOk' /\ (\A k \in Jobs : JobOk(k))' /\ RunsBounded'
  <2>1. CASE UNCHANGED <<jobs, info>>
    <3>. QED BY <1>3, <1>5, <2>1, RequestIs
  <2>2. CASE ~UNCHANGED <<jobs, info>>
    <3>1. UNCHANGED <<pc, job, begun>> BY <1>5, RequestIs
    <3>2. PICK j \in Jobs, a \in Autos :
            /\ jobs[j] = NoJob
            /\ jobs' = [jobs EXCEPT ![j] = Added(FALSE)]
            /\ info' = [info EXCEPT ![j] = [auto |-> a, by |-> q]]
      BY <1>5, <2>2, RequestIs
    <3>. QED BY <1>4, <3>1, <3>2
  <2>. QED BY <2>1, <2>2
<1>6. CASE Crash
  <2>1. pc' = "idle" /\ job' = Nil /\ UNCHANGED <<jobs, info, begun>> BY <1>6, CrashIs
  <2>. QED BY <1>1, <2>1, AutoNamesAssumption DEF JobOk, RunsBounded
<1>7. CASE Skip \/ Load \/ MarkRun \/ StampRun
  <2>1. /\ UNCHANGED <<jobs, info, job, begun>> /\ pc' # "idle" /\ pc # "idle"
        /\ pc' \in {"load", "run"} => pc = "load"
    BY <1>7 DEF Skip, Load, MarkRun, StampRun
  <2>. QED BY <1>1, <2>1 DEF JobOk, RunsBounded
<1>8. CASE RunOk \/ RunThrows
  <2>1. /\ pc = "run" /\ UNCHANGED <<jobs, info, job>> /\ begun' = [begun EXCEPT ![job] = @ + 1]
        /\ pc' \in {"mark", "thrown"}
    BY <1>8 DEF RunOk, RunThrows
  <2>2. job \in Jobs /\ jobs[job].state = "active" BY <1>1, <2>1
  <2>3. begun[job] <= jobs[job].made + jobs[job].stalls /\ jobs[job].made < Attempts
    BY <1>1, <2>1, <2>2 DEF JobOk, Live
  <2>4. begun \in [Jobs -> Nat] BY DEF TypeOK
  <2>5. begun'[job] = begun[job] + 1 /\ \A k \in Jobs \ {job} : begun'[k] = begun[k]
    BY <2>1, <2>2, <2>4
  <2>6. begun'[job] <= jobs[job].made + jobs[job].stalls + 1 /\ begun'[job] <= Attempts + 1
    BY <1>2, <2>2, <2>3, <2>5
  <2>7. ASSUME NEW k \in Jobs PROVE JobOk(k)' /\ begun'[k] <= Attempts + MaxStalls
    <3>1. CASE k = job
      BY <1>1, <1>2, <2>1, <2>2, <2>6, <3>1 DEF JobOk
    <3>2. CASE k # job BY <1>1, <1>2, <2>1, <2>5, <3>2 DEF JobOk
    <3>. QED BY <3>1, <3>2
  <2>. QED BY <1>1, <2>1, <2>2, <2>7 DEF RunsBounded
<1>9. ASSUME NEW j \in Jobs, NEW x \in Job(Attempts), jobs' = [jobs EXCEPT ![j] = x],
             x.made \in jobs[j].made .. jobs[j].made + 1, x.stalls >= jobs[j].stalls,
             jobs[j].state # "none", UNCHANGED <<info, begun>>,
             Live(x) => x.made < Attempts,
             begun[j] <= x.made + x.stalls +
               (IF \/ x.state \in {"active", "completed"}
                   \/ x.state = "failed" /\ x.stalls = MaxStalls
                THEN 1 ELSE 0),
             job' = j => x.state = "active" /\ begun[j] <= x.made + x.stalls,
             \/ job' = Nil /\ pc' = "idle"
             \/ job' = j /\ pc' = "load"
             \/ UNCHANGED <<pc, job>> /\ job # j
      PROVE  WorkerOk' /\ (\A k \in Jobs : JobOk(k))' /\ RunsBounded'
  <2>1. jobs'[j] = x /\ \A k \in Jobs \ {j} : jobs'[k] = jobs[k] BY <1>9 DEF TypeOK
  <2>2. ASSUME NEW k \in Jobs PROVE JobOk(k)'
    <3>1. CASE k = j
      <4>1. jobs'[k].state # "none" => info'[k] \in Info BY <1>1, <1>9, <3>1 DEF JobOk
      <4>2. Live(jobs'[k]) => jobs'[k].made < Attempts BY <1>9, <2>1, <3>1
      <4>3. begun'[k] <= jobs'[k].made + jobs'[k].stalls +
             (IF \/ jobs'[k].state \in {"active", "completed"}
                 \/ jobs'[k].state = "failed" /\ jobs'[k].stalls = MaxStalls
              THEN 1 ELSE 0)
        BY <1>9, <2>1, <3>1
      <4>4. job' = k => begun'[k] <= jobs'[k].made + jobs'[k].stalls BY <1>9, <2>1, <3>1
      <4>. QED BY <4>1, <4>2, <4>3, <4>4 DEF JobOk, Live
    <3>2. CASE k # j
      <4>1. jobs'[k] = jobs[k] /\ info'[k] = info[k] /\ begun'[k] = begun[k] BY <1>9, <2>1, <3>2
      <4>2. job' = k => job = k /\ pc' = pc BY <1>9, <3>2, AutoNamesAssumption
      <4>. QED BY <1>1, <4>1, <4>2 DEF JobOk
    <3>. QED BY <3>1, <3>2
  <2>3. WorkerOk' BY <1>1, <1>9, <2>1, AutoNamesAssumption
  <2>. QED BY <1>9, <2>2, <2>3 DEF RunsBounded
<1>10. CASE Return
  <2>1. /\ pc = "return" /\ jobs' = [jobs EXCEPT ![job] = Completed(jobs[job])]
        /\ pc' = "idle" /\ job' = Nil /\ UNCHANGED <<info, begun>>
    BY <1>10 DEF Return
  <2>2. job \in Jobs /\ jobs[job].state = "active" BY <1>1, <2>1
  <2>. DEFINE x == Completed(jobs[job])
  <2>3. /\ x \in Job(Attempts) /\ x.state = "completed"
        /\ x.made = jobs[job].made /\ x.stalls = jobs[job].stalls
    BY <1>2, <2>2, JobMoves
  <2>4. begun[job] <= x.made + x.stalls + 1 BY <1>1, <2>2, <2>3 DEF JobOk
  <2>5. ~Live(x) BY <2>3 DEF Live
  <2>. HIDE DEF x
  <2>6. jobs' = [jobs EXCEPT ![job] = x] BY <2>1 DEF x
  <2>7. begun[job] <= x.made + x.stalls +
          (IF \/ x.state \in {"active", "completed"}
              \/ x.state = "failed" /\ x.stalls = MaxStalls
           THEN 1 ELSE 0)
    BY <2>3, <2>4
  <2>8. x.made \in jobs[job].made .. jobs[job].made + 1 /\ x.stalls >= jobs[job].stalls
    BY <1>2, <2>2, <2>3
  <2>. QED BY <1>9, <2>1, <2>2, <2>3, <2>5, <2>6, <2>7, <2>8, AutoNamesAssumption
<1>11. CASE Throw
  <2>1. /\ pc \in {"load", "thrown", "mark", "stamp"}
        /\ jobs' = [jobs EXCEPT ![job] = Rejected(jobs[job], Attempts)]
        /\ pc' = "idle" /\ job' = Nil /\ UNCHANGED <<info, begun>>
    BY <1>11 DEF Throw
  <2>2. job \in Jobs /\ jobs[job].state = "active" BY <1>1, <2>1
  <2>3. jobs[job].made < Attempts BY <1>1, <2>2 DEF JobOk, Live
  <2>. DEFINE x == Rejected(jobs[job], Attempts)
  <2>4. /\ x \in Job(Attempts) /\ x.made = jobs[job].made + 1 /\ x.stalls = jobs[job].stalls
        /\ \/ x.state = "delayed" /\ jobs[job].made + 1 < Attempts
           \/ x.state = "failed"
    BY <1>2, <2>2, <2>3, JobRejected, AutoAttemptAssumption
  <2>5. begun[job] <= jobs[job].made + jobs[job].stalls + 1 BY <1>1, <2>2 DEF JobOk
  <2>6. begun[job] <= x.made + x.stalls BY <1>2, <2>2, <2>4, <2>5
  <2>7. Live(x) => x.made < Attempts BY <2>4 DEF Live
  <2>. HIDE DEF x
  <2>8. jobs' = [jobs EXCEPT ![job] = x] BY <2>1 DEF x
  <2>9. begun[job] <= x.made + x.stalls +
          (IF \/ x.state \in {"active", "completed"}
              \/ x.state = "failed" /\ x.stalls = MaxStalls
           THEN 1 ELSE 0)
    BY <1>2, <2>2, <2>4, <2>6
  <2>10. /\ x.made \in jobs[job].made .. jobs[job].made + 1 /\ x.stalls >= jobs[job].stalls
    BY <1>2, <2>2, <2>4
  <2>. QED BY <1>9, <2>1, <2>2, <2>4, <2>7, <2>8, <2>9, <2>10, AutoNamesAssumption
<1>12. ASSUME NEW j \in Jobs, Take(j) \/ Promote(j)
       PROVE  WorkerOk' /\ (\A k \in Jobs : JobOk(k))' /\ RunsBounded'
  <2>1. PICK x \in {Taken(jobs[j]), Promoted(jobs[j])} :
          /\ jobs' = [jobs EXCEPT ![j] = x] /\ UNCHANGED <<info, begun>>
          /\ \/ x = Taken(jobs[j]) /\ pc = "idle" /\ job' = j /\ pc' = "load"
             \/ x = Promoted(jobs[j]) /\ UNCHANGED <<pc, job>>
    BY <1>12 DEF Take, Promote
  <2>2. jobs[j].state \in {"waiting", "delayed"} BY <1>12 DEF Take, Promote
  <2>3. job # j BY <1>1, <2>2, AutoNamesAssumption
  <2>4. jobs[j].made < Attempts /\ begun[j] <= jobs[j].made + jobs[j].stalls
    <3>1. jobs[j].made < Attempts BY <1>1, <2>2 DEF JobOk, Live
    <3>2. begun[j] <= jobs[j].made + jobs[j].stalls + 0 BY <1>1, <2>2 DEF JobOk
    <3>. QED BY <1>2, <3>1, <3>2
  <2>5. /\ x \in Job(Attempts) /\ x.state \in {"active", "waiting"}
        /\ x.made = jobs[j].made /\ x.stalls = jobs[j].stalls
        /\ x = Taken(jobs[j]) => x.state = "active"
    <3>1. jobs[j] \in Job(Attempts) BY <1>2
    <3>. QED BY <2>1, <3>1, JobMoves
  <2>6. begun[j] <= x.made + x.stalls +
          (IF \/ x.state \in {"active", "completed"}
              \/ x.state = "failed" /\ x.stalls = MaxStalls
           THEN 1 ELSE 0)
    BY <1>2, <2>4, <2>5
  <2>7. x.made \in jobs[j].made .. jobs[j].made + 1 /\ x.stalls >= jobs[j].stalls BY <1>2, <2>5
  <2>8. job' = j => x.state = "active" /\ begun[j] <= x.made + x.stalls
    BY <2>1, <2>3, <2>4, <2>5
  <2>. QED BY <1>9, <2>1, <2>2, <2>3, <2>4, <2>5, <2>6, <2>7, <2>8
<1>13. ASSUME NEW j \in Jobs, RecoverStalled(j)
       PROVE  WorkerOk' /\ (\A k \in Jobs : JobOk(k))' /\ RunsBounded'
  <2>. DEFINE x == Stalled(jobs[j])
  <2>1. /\ jobs[j].state = "active" /\ job # j
        /\ jobs' = [jobs EXCEPT ![j] = x] /\ UNCHANGED <<info, begun, pc, job>>
    BY <1>13 DEF RecoverStalled
  <2>2. /\ x \in Job(Attempts) /\ x.made = jobs[j].made
        /\ \/ x.state = "waiting" /\ x.stalls = jobs[j].stalls + 1
           \/ x.state = "failed" /\ x.stalls = jobs[j].stalls /\ jobs[j].stalls = MaxStalls
    BY <1>2, <2>1, JobStalled
  <2>. HIDE DEF x
  <2>3. jobs[j].made < Attempts /\ begun[j] <= jobs[j].made + jobs[j].stalls + 1
    BY <1>1, <2>1 DEF JobOk, Live
  <2>4. begun[j] <= x.made + x.stalls +
          (IF \/ x.state \in {"active", "completed"}
              \/ x.state = "failed" /\ x.stalls = MaxStalls
           THEN 1 ELSE 0)
    BY <1>2, <2>2, <2>3
  <2>5. x.made \in jobs[j].made .. jobs[j].made + 1 /\ x.stalls >= jobs[j].stalls BY <1>2, <2>2
  <2>6. Live(x) => x.made < Attempts BY <2>2, <2>3
  <2>. QED BY <1>9, <2>1, <2>2, <2>4, <2>5, <2>6
<1>14. ASSUME NEW a \in Autos, Create(a) \/ Remove(a)
       PROVE  UNCHANGED <<jobs, info, pc, job, begun>>
  BY <1>14 DEF Create, Remove
<1>15. CASE UNCHANGED vars BY <1>3, <1>15 DEF vars
<1>. QED
  BY <1>3, <1>5, <1>6, <1>7, <1>8, <1>10, <1>11, <1>12, <1>13, <1>14, <1>15 DEF Next, WorkerStep

-----------------------------------------------------------------------------
(* The counts.                                                              *)

\* CountInv after a step, part by part.
LEMMA CountNext ==
  ASSUME api' \in [Requests -> Request],
         \A a \in Autos : autos'[a].runs + Unmarked(a)' <= done'[a],
         \A q \in Requests, a \in Autos :
           api'[q].auto = a => api'[q].ent.runs + Unmarked(a)' <= done'[a]
  PROVE  CountInv'
<1>1. \A q \in Requests : api'[q].auto \in Autos \cup {Nil} BY DEF Request
<1>. QED BY <1>1 DEF CountInv, Unmarked

\* A count that the row, the entity or no one holds stays earned while the
\* runs to be marked and those carried out stay.
LEMMA CountKept ==
  ASSUME TypeOK, CountInv, api' \in [Requests -> Request],
         \A a \in Autos : Unmarked(a)' = Unmarked(a), done' = done,
         \A a \in Autos :
           autos'[a].runs \in {0, autos[a].runs}
             \cup {api[q].ent.runs : q \in {p \in Requests : api[p].auto = a}},
         \A q \in Requests : api'[q].auto # Nil =>
           \/ api'[q].ent = NoEntity
           \/ api'[q].ent.runs = autos[api'[q].auto].runs
           \/ api'[q].ent = api[q].ent /\ api'[q].auto = api[q].auto
  PROVE  CountInv'
<1>1. ASSUME NEW a \in Autos
      PROVE  autos'[a].runs + Unmarked(a)' <= done'[a]
  <2>1. autos[a].runs + Unmarked(a) <= done[a] BY DEF CountInv
  <2>2. autos[a].runs \in Nat /\ done[a] \in Nat /\ Unmarked(a) \in Nat
    BY DEF TypeOK, Row, Unmarked
  <2>3. ASSUME NEW q \in Requests, api[q].auto = a
        PROVE  api[q].ent.runs + Unmarked(a) <= done[a]
    BY <2>3, AutoNamesAssumption DEF CountInv
  <2>4. CASE autos'[a].runs \in {0, autos[a].runs} BY <2>1, <2>2, <2>4
  <2>5. CASE autos'[a].runs \in {api[q].ent.runs : q \in {p \in Requests : api[p].auto = a}}
    BY <2>3, <2>5
  <2>. QED BY <2>4, <2>5
<1>2. ASSUME NEW q \in Requests, NEW a \in Autos, api'[q].auto = a
      PROVE  api'[q].ent.runs + Unmarked(a)' <= done'[a]
  <2>1. a # Nil BY AutoNamesAssumption
  <2>2. autos[a].runs + Unmarked(a) <= done[a] BY <2>1 DEF CountInv
  <2>3. autos[a].runs \in Nat /\ done[a] \in Nat /\ Unmarked(a) \in Nat
    BY <2>1 DEF TypeOK, Row, Unmarked
  <2>4. Unmarked(a)' = Unmarked(a) BY <2>1
  <2>5. CASE api'[q].ent = NoEntity
    <3>1. api'[q].ent.runs = 0 BY <2>5 DEF NoEntity
    <3>. QED BY <2>2, <2>3, <2>4, <3>1
  <2>6. CASE api'[q].ent.runs = autos[a].runs BY <2>2, <2>4, <2>6
  <2>7. CASE api'[q].ent = api[q].ent /\ a = api[q].auto
    <3>1. api[q].ent.runs + Unmarked(a) <= done[a] BY <1>2, <2>1, <2>7 DEF CountInv
    <3>. QED BY <2>4, <2>7, <3>1
  <2>. QED BY <1>2, <2>1, <2>5, <2>6, <2>7
<1>. QED BY <1>1, <1>2, CountNext

LEMMA CountStep ==
  ASSUME TypeOK, JobsInv, SaveInv, CountInv, [Next]_vars
  PROVE  CountInv'
<1>0. api \in [Requests -> Request] BY DEF TypeOK
<1>. DEFINE Same  == \A a \in Autos : Unmarked(a)' = Unmarked(a)
            Rows  == \A a \in Autos :
                       autos'[a].runs \in {0, autos[a].runs}
                         \cup {api[q].ent.runs : q \in {p \in Requests : api[p].auto = a}}
            Kept(q) == api'[q].auto # Nil =>
                       \/ api'[q].ent = NoEntity
                       \/ api'[q].ent.runs = autos[api'[q].auto].runs
                       \/ api'[q].ent = api[q].ent /\ api'[q].auto = api[q].auto
<1>1. ASSUME api' \in [Requests -> Request], Same, done' = done, Rows,
             \A q \in Requests : Kept(q)
      PROVE  CountInv'
  BY <1>1, CountKept
<1>2. UNCHANGED <<pc, job, info>> => Same BY DEF Unmarked
<1>3. UNCHANGED autos => Rows OBVIOUS
<1>4. UNCHANGED api => \A q \in Requests : Kept(q) OBVIOUS
<1>. HIDE DEF Same, Rows
<1>5. CASE UNCHANGED vars BY <1>0, <1>1, <1>2, <1>3, <1>4, <1>5 DEF vars
<1>6. ASSUME NEW a \in Autos, Create(a) \/ Remove(a) PROVE CountInv'
  <2>1. /\ UNCHANGED <<info, api, pc, job, done>>
        /\ \E n \in {[NoAuto EXCEPT !.state = "here"], Removed} : autos' = [autos EXCEPT ![a] = n]
    BY <1>6 DEF Create, Remove
  <2>2. PICK n \in {[NoAuto EXCEPT !.state = "here"], Removed} : autos' = [autos EXCEPT ![a] = n]
    BY <2>1
  <2>3. n.runs = 0 BY DEF NoAuto, Removed
  <2>4. Rows BY <2>2, <2>3 DEF Rows, TypeOK
  <2>. QED BY <1>0, <1>1, <1>2, <1>4, <2>1, <2>4
<1>7. ASSUME NEW q \in Requests, Begins(q) PROVE CountInv'
  <2>1. /\ Only(q) /\ api' \in [Requests -> Request]
        /\ NewSave(api'[q]) \/ NewReplace(api'[q], q) \/ NewTrigger(api'[q])
        /\ UNCHANGED <<autos, info, pc, job, done>>
    BY <1>7, BeginsIs
  <2>2. Kept(q) BY <2>1 DEF NewSave, NewReplace, NewTrigger
  <2>3. \A p \in Requests : Kept(p) BY <2>1, <2>2 DEF Only
  <2>. HIDE DEF Kept
  <2>. QED BY <1>1, <1>2, <1>3, <2>1, <2>3
<1>8. ASSUME NEW q \in Requests, DeleteActions(q) \/ SaveLoad(q) PROVE CountInv'
  <2>1. /\ Only(q) /\ api' \in [Requests -> Request]
        /\ api'[q].auto = api[q].auto /\ api'[q].ent = api[q].ent
        /\ UNCHANGED <<autos, info, pc, job, done>>
    BY <1>8, DeleteIs, LoadIs
  <2>2. \A p \in Requests : Kept(p) BY <2>1 DEF Only
  <2>. HIDE DEF Kept
  <2>. QED BY <1>1, <1>2, <1>3, <2>1, <2>2
<1>9. ASSUME NEW q \in Requests, SaveWrite(q) PROVE CountInv'
  <2>. DEFINE A == api[q].auto  S == Saved(A, api[q].ent, api[q].plan)
  <2>1. /\ Only(q) /\ api' \in [Requests -> Request] /\ A \in Autos
        /\ api'[q].ent = NoEntity
        /\ autos' = [autos EXCEPT ![A] = S]
        /\ UNCHANGED <<info, pc, job, done>>
    BY <1>9, WriteIs
  <2>2. S.runs \in {api[q].ent.runs, autos[A].runs}
    <3>1. api[q].ent \in Entity BY DEF TypeOK, Request
    <3>. QED BY <2>1, <3>1, SavedIs
  <2>3. \A p \in Requests : Kept(p) BY <2>1 DEF Only
  <2>. HIDE DEF Kept, S
  <2>4. Rows
    <3>1. ASSUME NEW a \in Autos
          PROVE  autos'[a].runs \in {0, autos[a].runs}
                   \cup {api[r].ent.runs : r \in {p \in Requests : api[p].auto = a}}
      <4>1. CASE a = A BY <2>1, <2>2, <4>1 DEF TypeOK
      <4>2. CASE a # A BY <2>1, <4>2 DEF TypeOK
      <4>. QED BY <4>1, <4>2
    <3>. QED BY <3>1 DEF Rows
  <2>. QED BY <1>1, <1>2, <2>1, <2>3, <2>4
<1>10. ASSUME NEW q \in Requests, HooksDispatched(q) \/ FindMatching(q) PROVE CountInv'
  <2>1. /\ Only(q) /\ api' \in [Requests -> Request]
        /\ api'[q].auto = api[q].auto /\ api'[q].ent = api[q].ent
        /\ UNCHANGED <<autos, info, pc, job, done>>
    BY <1>10, FindIs
  <2>2. \A p \in Requests : Kept(p) BY <2>1 DEF Only
  <2>. HIDE DEF Kept
  <2>. QED BY <1>1, <1>2, <1>3, <2>1, <2>2
<1>11. ASSUME NEW q \in Requests, NEW a \in Autos, EnqueueRun(q, a) \/ TickPassesOver(q, a)
       PROVE  CountInv'
  <2>1. /\ Only(q) /\ api' \in [Requests -> Request] /\ api'[q].auto = api[q].auto
        /\ api'[q].ent = NoEntity \/ api'[q].ent = api[q].ent
        /\ UNCHANGED <<autos, pc, job, done>>
    BY <1>11, EnqueueIs, PassOverIs DEF Loops
  <2>2. \A p \in Requests : Kept(p) BY <2>1 DEF Only
  <2>3. Same
    <3>1. CASE TickPassesOver(q, a) BY <1>2, <2>1, <3>1 DEF TickPassesOver
    <3>2. CASE EnqueueRun(q, a)
      <4>1. PICK j \in Jobs : /\ jobs[j] = NoJob
                              /\ info' = [info EXCEPT ![j] = [auto |-> a, by |-> q]]
        BY <3>2, EnqueueIs
      <4>2. pc # "idle" => job # j
        <5>1. jobs[j].state # "active" BY <4>1 DEF NoJob
        <5>. QED BY <5>1 DEF JobsInv
      <4>3. pc # "idle" => info'[job] = info[job] BY <4>1, <4>2 DEF TypeOK
      <4>. QED BY <2>1, <4>3 DEF Same, Unmarked
    <3>. QED BY <1>11, <3>1, <3>2
  <2>. HIDE DEF Kept
  <2>. QED BY <1>1, <1>3, <2>1, <2>2, <2>3
<1>12. ASSUME NEW q \in Requests, Fails(q) PROVE CountInv'
  <2>1. /\ api' \in [Requests -> Request] /\ \A p \in Requests : Cut(p)
        /\ UNCHANGED <<autos, info, pc, job, done>>
    BY <1>12, FailsIs
  <2>2. \A p \in Requests : Kept(p) BY <2>1 DEF Cut
  <2>. HIDE DEF Kept
  <2>. QED BY <1>1, <1>2, <1>3, <2>1, <2>2
<1>13. ASSUME api' \in [Requests -> Request], \A q \in Requests : Cut(q),
              UNCHANGED <<autos, done>>, \A a \in Autos : Unmarked(a)' = 0
       PROVE  CountInv'
  <2>1. ASSUME NEW a \in Autos PROVE autos'[a].runs + Unmarked(a)' <= done'[a]
    <3>1. /\ autos[a].runs \in Nat /\ done[a] \in Nat /\ Unmarked(a) \in Nat
          /\ autos[a].runs + Unmarked(a) <= done[a]
      BY DEF TypeOK, Row, Unmarked, CountInv
    <3>. QED BY <1>13, <3>1
  <2>2. ASSUME NEW q \in Requests, NEW a \in Autos, api'[q].auto = a
        PROVE  api'[q].ent.runs + Unmarked(a)' <= done'[a]
    <3>1. a # Nil BY AutoNamesAssumption
    <3>2. done'[a] \in Nat /\ Unmarked(a) \in Nat /\ Unmarked(a)' = 0
      BY <1>13, <3>1 DEF TypeOK, Unmarked
    <3>3. CASE api'[q].ent = NoEntity
      <4>1. api'[q].ent.runs = 0 BY <3>3 DEF NoEntity
      <4>. QED BY <3>2, <4>1
    <3>4. CASE api'[q] = api[q]
      <4>1. api[q].ent.runs + Unmarked(a) <= done[a] BY <2>2, <3>1, <3>4 DEF CountInv
      <4>2. api[q].ent.runs \in Nat BY DEF TypeOK, Request, Entity
      <4>. QED BY <1>13, <3>2, <3>4, <4>1, <4>2
    <3>. QED BY <1>13, <3>3, <3>4 DEF Cut
  <2>. QED BY <1>13, <2>1, <2>2, CountNext
<1>14. CASE Crash
  <2>1. /\ api' \in [Requests -> Request] /\ \A q \in Requests : Cut(q)
        /\ pc' = "idle" /\ UNCHANGED <<autos, done>>
    BY <1>14, CrashIs
  <2>2. \A a \in Autos : Unmarked(a)' = 0 BY <2>1 DEF Unmarked
  <2>. QED BY <1>13, <2>1, <2>2
<1>15. CASE Skip \/ Load \/ RunThrows \/ StampRun \/ Return \/ Throw
  <2>1. /\ UNCHANGED <<autos, api, done>> /\ pc' # "mark"
    BY <1>15 DEF Skip, Load, RunThrows, StampRun, Return, Throw
  <2>2. \A a \in Autos : Unmarked(a)' = 0 BY <2>1 DEF Unmarked
  <2>3. \A q \in Requests : Cut(q) BY <2>1 DEF Cut
  <2>. QED BY <1>0, <1>13, <2>1, <2>2, <2>3
<1>16. ASSUME NEW j \in Jobs, Take(j) \/ Promote(j) \/ RecoverStalled(j) PROVE CountInv'
  <2>1. CASE Take(j)
    <3>1. UNCHANGED <<autos, api, done>> /\ pc' # "mark" BY <2>1 DEF Take
    <3>2. \A a \in Autos : Unmarked(a)' = 0 BY <3>1 DEF Unmarked
    <3>3. \A q \in Requests : Cut(q) BY <3>1 DEF Cut
    <3>. QED BY <1>0, <1>13, <3>1, <3>2, <3>3
  <2>2. CASE Promote(j) \/ RecoverStalled(j)
    <3>1. UNCHANGED <<autos, api, done, pc, job, info>> BY <2>2 DEF Promote, RecoverStalled
    <3>. QED BY <1>0, <1>1, <1>2, <1>3, <1>4, <3>1
  <2>. QED BY <1>16, <2>1, <2>2
<1>17. CASE RunOk
  <2>. DEFINE A == info[job].auto
  <2>1. /\ pc = "run" /\ pc' = "mark" /\ done' = [done EXCEPT ![A] = @ + 1]
        /\ UNCHANGED <<autos, api, job, info>>
    BY <1>17 DEF RunOk
  <2>2. A \in Autos BY <2>1, InfoIs
  <2>3. \A a \in Autos : Unmarked(a) = 0 /\ Unmarked(a)' = IF a = A THEN 1 ELSE 0
    BY <2>1 DEF Unmarked
  <2>4. done \in [Autos -> Nat] BY DEF TypeOK
  <2>. HIDE DEF A
  <2>5. \A a \in Autos : done'[a] = done[a] + Unmarked(a)' BY <2>1, <2>2, <2>3, <2>4
  <2>6. ASSUME NEW a \in Autos PROVE autos'[a].runs + Unmarked(a)' <= done'[a]
    <3>1. autos[a].runs \in Nat /\ done[a] \in Nat /\ autos[a].runs + Unmarked(a) <= done[a]
      BY DEF TypeOK, Row, CountInv
    <3>2. Unmarked(a)' \in Nat BY <2>3
    <3>. QED BY <2>1, <2>3, <2>5, <3>1, <3>2
  <2>7. ASSUME NEW q \in Requests, NEW a \in Autos, api'[q].auto = a
        PROVE  api'[q].ent.runs + Unmarked(a)' <= done'[a]
    <3>1. api'[q] = api[q] /\ a # Nil BY <2>1, AutoNamesAssumption
    <3>2. api[q].ent.runs \in Nat /\ done[a] \in Nat /\ api[q].ent.runs + Unmarked(a) <= done[a]
      BY <2>7, <3>1 DEF TypeOK, Request, Entity, CountInv
    <3>3. Unmarked(a)' \in Nat BY <2>3, <3>1
    <3>. QED BY <2>3, <2>5, <3>1, <3>2, <3>3
  <2>. QED BY <1>0, <2>1, <2>6, <2>7, CountNext
<1>18. CASE MarkRun
  <2>. DEFINE A == info[job].auto
  <2>1. /\ pc = "mark" /\ pc' = "stamp" /\ UNCHANGED <<api, done>>
        /\ autos' = IF Here(A) THEN [autos EXCEPT ![A].runs = @ + 1] ELSE autos
    BY <1>18 DEF MarkRun
  <2>2. A \in Autos BY <2>1, InfoIs
  <2>3. \A a \in Autos : Unmarked(a)' = 0 /\ Unmarked(a) = IF a = A THEN 1 ELSE 0
    BY <2>1 DEF Unmarked
  <2>4. autos \in [Autos -> Row] BY DEF TypeOK
  <2>. HIDE DEF A
  <2>5. ASSUME NEW a \in Autos PROVE autos'[a].runs + Unmarked(a)' <= done'[a]
    <3>1. autos[a].runs \in Nat /\ done[a] \in Nat /\ autos[a].runs + Unmarked(a) <= done[a]
      BY DEF TypeOK, Row, CountInv
    <3>2. CASE a # A \/ ~Here(A)
      <4>1. autos'[a] = autos[a] BY <2>1, <2>2, <2>4, <3>2
      <4>2. Unmarked(a) \in Nat BY <2>3
      <4>. QED BY <2>1, <2>3, <3>1, <4>1, <4>2
    <3>3. CASE a = A /\ Here(A)
      <4>1. autos'[a].runs = autos[a].runs + 1
        <5>1. autos' = [autos EXCEPT ![A].runs = @ + 1] BY <2>1, <3>3
        <5>2. autos[A] \in Row BY <2>2, <2>4
        <5>. QED BY <2>4, <3>3, <5>1, <5>2 DEF Row
      <4>. QED BY <2>1, <2>3, <3>1, <3>3, <4>1
    <3>. QED BY <3>2, <3>3
  <2>6. ASSUME NEW q \in Requests, NEW a \in Autos, api'[q].auto = a
        PROVE  api'[q].ent.runs + Unmarked(a)' <= done'[a]
    <3>1. api'[q] = api[q] /\ a # Nil /\ done' = done BY <2>1, AutoNamesAssumption
    <3>2. api[q].ent.runs \in Nat /\ done[a] \in Nat /\ api[q].ent.runs + Unmarked(a) <= done[a]
      BY <2>6, <3>1 DEF TypeOK, Request, Entity, CountInv
    <3>3. Unmarked(a) \in Nat /\ Unmarked(a)' = 0 BY <2>3, <3>1
    <3>. QED BY <3>1, <3>2, <3>3
  <2>. QED BY <1>0, <2>1, <2>5, <2>6, CountNext
<1>. QED
  BY <1>5, <1>6, <1>7, <1>8, <1>9, <1>10, <1>11, <1>12, <1>14, <1>15, <1>16, <1>17, <1>18
  DEF Next, Edit, Trigger, Begins, WorkerStep

-----------------------------------------------------------------------------
(* The lists of actions.                                                    *)

ListInv == SaveInv /\ InsertInv /\ OwnInv /\ NoListLost

\* A request that goes on in no save it had not begun, or is answered.
Quiet(q) ==
  /\ api'[q].op = api[q].op /\ api'[q].auto = api[q].auto /\ api'[q].cut = api[q].cut
  /\ api'[q].ent = api[q].ent \/ api'[q].ent = NoEntity
  /\ api'[q].plan = api[q].plan \/ api'[q].plan = NoPlan
  /\ api'[q].pc \in {"new", "delete", "load", "write"} => api'[q] = api[q]

LEMMA EmptyLists == NoEntity.lists = {} /\ NoPlan.add = {}
BY DEF NoEntity, NoPlan

\* The steps that store no list and change no state of a row.
LEMMA QuietStep ==
  ASSUME TypeOK, ListInv, \A q \in Requests : Quiet(q), acts' = acts, removed' = removed,
         \A a \in Autos : autos'[a].state = autos[a].state
  PROVE  ListInv'
<1>. USE DEF ListInv
<1>1. SaveInv' BY DEF SaveInv, Quiet
<1>2. InsertInv'
  <2>1. \A a \in Autos : autos'[a].state = "gone" => a \in removed' BY DEF InsertInv
  <2>2. ASSUME NEW q \in Requests PROVE api'[q].auto # Nil => autos'[api'[q].auto].state # "none"
    <3>1. api'[q].auto \in Autos \cup {Nil} BY DEF Quiet, TypeOK, Request
    <3>. QED BY <3>1 DEF InsertInv, Quiet
  <2>3. \A q \in Requests : api'[q].pc = "write" /\ api'[q].plan.insert => api'[q].auto \in removed'
    BY DEF InsertInv, Quiet
  <2>. QED BY <2>1, <2>2, <2>3 DEF InsertInv
<1>3. OwnInv'
  <2>1. ASSUME NEW q \in Requests, api'[q].pc \in {"new", "delete", "load", "write"}
        PROVE  /\ \A a \in Autos : q \notin acts'[a]
               /\ \A p \in Requests \ {q} : q \notin api'[p].ent.lists \cup api'[p].plan.add
    <3>1. api[q].pc \in {"new", "delete", "load", "write"} BY <2>1 DEF Quiet
    <3>. QED BY <3>1, EmptyLists DEF OwnInv, Quiet
  <2>. QED BY <2>1 DEF OwnInv
<1>4. NoListLost' BY DEF NoListLost, Here, Quiet
<1>. QED BY <1>1, <1>2, <1>3, <1>4

\* The row of a, and its list, come or go.
LEMMA RowStep ==
  ASSUME TypeOK, ListInv, NEW a \in Autos, Create(a) \/ Remove(a)
  PROVE  ListInv'
<1>. USE DEF ListInv
<1>1. UNCHANGED api BY DEF Create, Remove
<1>2. PICK n, l :
        /\ autos' = [autos EXCEPT ![a] = n] /\ acts' = [acts EXCEPT ![a] = l]
        /\ \/ n.state = "here" /\ l = {"first"} /\ removed' = removed
           \/ n.state = "gone" /\ l = {} /\ removed' = removed \cup {a}
  <2>1. CASE Create(a)
    <3>1. [NoAuto EXCEPT !.state = "here"].state = "here" BY DEF NoAuto
    <3>. QED BY <2>1, <3>1 DEF Create
  <2>2. CASE Remove(a)
    <3>1. Removed.state = "gone" BY DEF Removed
    <3>2. /\ autos' = [autos EXCEPT ![a] = Removed] /\ acts' = [acts EXCEPT ![a] = {}]
          /\ removed' = removed \cup {a}
      BY <2>2 DEF Remove
    <3>. QED BY <3>1, <3>2
  <2>. QED BY <2>1, <2>2
<1>3. /\ autos'[a] = n /\ \A b \in Autos \ {a} : autos'[b] = autos[b]
      /\ acts'[a] = l /\ \A b \in Autos \ {a} : acts'[b] = acts[b]
      /\ removed \subseteq removed'
  BY <1>2 DEF TypeOK
<1>4. SaveInv' BY <1>1 DEF SaveInv
<1>5. InsertInv'
  <2>1. \A q \in Requests : api[q].auto \in Autos \cup {Nil} BY DEF TypeOK, Request
  <2>. QED BY <1>1, <1>2, <1>3, <2>1 DEF InsertInv
<1>6. OwnInv' BY <1>1, <1>2, <1>3, AutoNamesAssumption DEF OwnInv
<1>7. NoListLost' BY <1>1, <1>2, <1>3 DEF NoListLost, Here
<1>. QED BY <1>4, <1>5, <1>6, <1>7

LEMMA BeginStep ==
  ASSUME TypeOK, ListInv, NEW q \in Requests, Begins(q)
  PROVE  ListInv'
<1>. USE DEF ListInv
<1>1. /\ api[q] = Unmade /\ Only(q) /\ api' \in [Requests -> Request]
      /\ api'[q].cut = FALSE
      /\ NewSave(api'[q]) \/ NewReplace(api'[q], q) \/ NewTrigger(api'[q])
      /\ UNCHANGED <<autos, acts, removed>>
  BY BeginsIs
<1>2. api[q].pc = "new" /\ api[q].cut = FALSE BY <1>1, UnmadeIs
<1>3. SaveInv'
  <2>1. \A p \in Requests \ {q} : api'[p] = api[p] BY <1>1 DEF Only
  <2>2. /\ api'[q].pc \in {"delete", "load", "write"} => api'[q].auto # Nil
        /\ api'[q].pc = "delete" => api'[q].op = "replace"
        /\ api'[q].op = "replace" => api'[q].ent.lists = {q} /\ api'[q].pc = "delete"
    BY <1>1, AutoNamesAssumption DEF NewSave, NewReplace, NewTrigger
  <2>. QED BY <1>1, <2>1, <2>2 DEF SaveInv
<1>4. InsertInv'
  <2>1. /\ api'[q].auto # Nil => autos[api'[q].auto].state # "none"
        /\ api'[q].pc # "write"
    BY <1>1 DEF NewSave, NewReplace, NewTrigger, Here
  <2>. QED BY <1>1, <2>1 DEF InsertInv, Only
<1>5. OwnInv'
  <2>1. /\ api'[q].plan = NoPlan
        /\ \/ \E a \in Autos : api'[q].ent.lists = acts[a]
           \/ api'[q].ent.lists = {q}
           \/ api'[q].ent = NoEntity
    BY <1>1 DEF NewSave, NewReplace, NewTrigger
  <2>2. ASSUME NEW p \in Requests, api'[p].pc \in {"new", "delete", "load", "write"}
        PROVE  /\ \A a \in Autos : p \notin acts'[a]
               /\ \A r \in Requests \ {p} : p \notin api'[r].ent.lists \cup api'[r].plan.add
    <3>1. api[p].pc \in {"new", "delete", "load", "write"} BY <1>1, <1>2, <2>2 DEF Only
    <3>2. /\ \A a \in Autos : p \notin acts[a]
          /\ \A r \in Requests \ {p} : p \notin api[r].ent.lists \cup api[r].plan.add
      BY <3>1 DEF OwnInv
    <3>3. p # q => p \notin api'[q].ent.lists \cup api'[q].plan.add
      BY <2>1, <3>2, EmptyLists
    <3>. QED BY <1>1, <3>2, <3>3 DEF Only
  <2>. QED BY <2>2 DEF OwnInv
<1>6. NoListLost' BY <1>1, <1>2 DEF NoListLost, Here, Only
<1>. QED BY <1>3, <1>4, <1>5, <1>6

LEMMA DeleteStep ==
  ASSUME TypeOK, ListInv, NEW q \in Requests, DeleteActions(q)
  PROVE  ListInv'
<1>. USE DEF ListInv
<1>1. /\ api[q].pc = "delete" /\ Only(q)
      /\ api'[q].pc = "load" /\ api'[q].cut = TRUE
      /\ api'[q].op = api[q].op /\ api'[q].auto = api[q].auto /\ api'[q].ent = api[q].ent
      /\ api'[q].plan = api[q].plan
      /\ acts' = [acts EXCEPT ![api[q].auto] = {}]
      /\ UNCHANGED <<autos, removed>>
  BY DeleteIs
<1>2. api[q].auto \in Autos BY <1>1 DEF SaveInv, TypeOK, Request
<1>3. acts'[api[q].auto] = {} /\ \A b \in Autos \ {api[q].auto} : acts'[b] = acts[b]
  BY <1>1, <1>2 DEF TypeOK
<1>4. SaveInv' BY <1>1 DEF SaveInv, Only
<1>5. InsertInv' BY <1>1 DEF InsertInv, Only
<1>6. OwnInv'
  <2>1. ASSUME NEW p \in Requests, api'[p].pc \in {"new", "delete", "load", "write"}
        PROVE  /\ \A a \in Autos : p \notin acts'[a]
               /\ \A r \in Requests \ {p} : p \notin api'[r].ent.lists \cup api'[r].plan.add
    <3>1. api[p].pc \in {"new", "delete", "load", "write"} BY <1>1, <2>1 DEF Only
    <3>2. /\ \A a \in Autos : p \notin acts[a]
          /\ \A r \in Requests \ {p} : p \notin api[r].ent.lists \cup api[r].plan.add
      BY <3>1 DEF OwnInv
    <3>. QED BY <1>1, <1>3, <3>2 DEF Only
  <2>. QED BY <2>1 DEF OwnInv
<1>7. NoListLost'
  <2>1. ASSUME NEW a \in Autos, Here(a)', acts'[a] = {}
        PROVE  a \in removed' \/ \E p \in Requests : api'[p].auto = a /\ api'[p].cut
    <3>1. CASE a = api[q].auto BY <1>1, <3>1
    <3>2. CASE a # api[q].auto
      <4>1. Here(a) /\ acts[a] = {} BY <1>1, <1>3, <2>1, <3>2 DEF Here
      <4>. QED BY <1>1, <3>2, <4>1 DEF NoListLost, Only
    <3>. QED BY <3>1, <3>2
  <2>. QED BY <2>1 DEF NoListLost
<1>. QED BY <1>4, <1>5, <1>6, <1>7

LEMMA LoadStep ==
  ASSUME TypeOK, ListInv, NEW q \in Requests, SaveLoad(q)
  PROVE  ListInv'
<1>. USE DEF ListInv
<1>. DEFINE A == api[q].auto  P == api'[q].plan
<1>1. /\ api[q].pc = "load" /\ Only(q) /\ A \in Autos
      /\ api'[q].pc = "write" /\ P = SavePlan(A, api[q].ent)
      /\ api'[q].op = api[q].op /\ api'[q].auto = A /\ api'[q].ent = api[q].ent
      /\ api'[q].cut = api[q].cut
      /\ UNCHANGED <<autos, acts, removed>>
  BY LoadIs
<1>2. P.insert = ~Here(A) /\ P.add = api[q].ent.lists \ acts[A]
  <2>1. api[q].ent \in Entity BY DEF TypeOK, Request
  <2>. QED BY <1>1, <2>1, PlanIs
<1>. HIDE DEF A, P
<1>3. \A a \in Autos : q \notin acts[a] BY <1>1 DEF OwnInv
<1>4. SaveInv'
  <2>1. api[q].op = "replace" => q \in P.add BY <1>1, <1>2, <1>3 DEF SaveInv
  <2>. QED BY <1>1, <2>1, AutoNamesAssumption DEF SaveInv, Only, P
<1>5. InsertInv'
  <2>1. autos[A].state # "none" BY <1>1, AutoNamesAssumption DEF InsertInv, A
  <2>2. autos[A].state \in {"none", "here", "gone"} BY <1>1 DEF TypeOK, Row
  <2>3. P.insert => A \in removed BY <1>1, <1>2, <2>1, <2>2 DEF InsertInv, Here
  <2>. QED BY <1>1, <2>1, <2>3 DEF InsertInv, Only, P
<1>6. OwnInv'
  <2>1. ASSUME NEW p \in Requests, api'[p].pc \in {"new", "delete", "load", "write"}
        PROVE  /\ \A a \in Autos : p \notin acts'[a]
               /\ \A r \in Requests \ {p} : p \notin api'[r].ent.lists \cup api'[r].plan.add
    <3>1. api[p].pc \in {"new", "delete", "load", "write"} BY <1>1, <2>1 DEF Only
    <3>2. /\ \A a \in Autos : p \notin acts[a]
          /\ \A r \in Requests \ {p} : p \notin api[r].ent.lists \cup api[r].plan.add
      BY <3>1 DEF OwnInv
    <3>3. p # q => p \notin api'[q].ent.lists \cup P.add BY <1>1, <1>2, <3>2
    <3>. QED BY <1>1, <3>2, <3>3 DEF Only, P
  <2>. QED BY <2>1 DEF OwnInv
<1>7. NoListLost' BY <1>1 DEF NoListLost, Here, Only, A
<1>. QED BY <1>4, <1>5, <1>6, <1>7

\* A save that commits left no list orphaned: what it leaves is what was
\* there and what it brought, which is the new list of an update.
LEMMA WriteStep ==
  ASSUME TypeOK, ListInv, NEW q \in Requests, SaveWrite(q)
  PROVE  ListInv'
<1>. USE DEF ListInv
<1>. DEFINE A == api[q].auto  P == api[q].plan  S == Saved(A, api[q].ent, P)
<1>1. /\ api[q].pc = "write" /\ Only(q) /\ A \in Autos
      /\ api'[q].pc = "ok" /\ api'[q].cut = FALSE
      /\ api'[q].op = api[q].op /\ api'[q].auto = A
      /\ api'[q].ent = NoEntity /\ api'[q].plan = NoPlan
      /\ autos' = [autos EXCEPT ![A] = S]
      /\ acts' = [acts EXCEPT ![A] = acts[A] \cup P.add]
      /\ removed' = removed
  BY WriteIs
<1>2. S.state = IF P.insert THEN "here" ELSE autos[A].state
  <2>1. api[q].ent \in Entity BY DEF TypeOK, Request
  <2>. QED BY <1>1, <2>1, SavedIs
<1>3. /\ api[q].op = "replace" => q \in P.add
      /\ api[q].cut => api[q].op = "replace"
  BY <1>1 DEF SaveInv
<1>4. P.insert => A \in removed BY <1>1 DEF InsertInv
<1>. HIDE DEF P, S
<1>5. /\ acts'[A] = acts[A] \cup P.add /\ \A b \in Autos \ {A} : acts'[b] = acts[b]
      /\ autos'[A] = S /\ \A b \in Autos \ {A} : autos'[b] = autos[b]
  BY <1>1 DEF TypeOK
<1>6. SaveInv' BY <1>1 DEF SaveInv, Only
<1>7. InsertInv'
  <2>1. \A p \in Requests : api[p].auto \in Autos \cup {Nil} BY DEF TypeOK, Request
  <2>2. \A a \in Autos : autos'[a].state \in {"here", autos[a].state} BY <1>2, <1>5
  <2>3. \A a \in Autos : autos'[a].state = "gone" => a \in removed' BY <1>1, <2>2 DEF InsertInv
  <2>4. \A p \in Requests : api'[p].auto # Nil => autos'[api'[p].auto].state # "none"
    BY <1>1, <2>1, <2>2 DEF InsertInv, Only
  <2>5. \A p \in Requests : api'[p].pc = "write" /\ api'[p].plan.insert => api'[p].auto \in removed'
    BY <1>1 DEF InsertInv, Only
  <2>. QED BY <2>3, <2>4, <2>5 DEF InsertInv
<1>8. OwnInv'
  <2>1. ASSUME NEW p \in Requests, api'[p].pc \in {"new", "delete", "load", "write"}
        PROVE  /\ \A a \in Autos : p \notin acts'[a]
               /\ \A r \in Requests \ {p} : p \notin api'[r].ent.lists \cup api'[r].plan.add
    <3>1. p # q /\ api[p].pc \in {"new", "delete", "load", "write"} BY <1>1, <2>1 DEF Only
    <3>2. /\ \A a \in Autos : p \notin acts[a]
          /\ \A r \in Requests \ {p} : p \notin api[r].ent.lists \cup api[r].plan.add
      BY <3>1 DEF OwnInv
    <3>3. p \notin P.add BY <3>1, <3>2 DEF P
    <3>. QED BY <1>1, <1>5, <3>2, <3>3, EmptyLists DEF Only
  <2>. QED BY <2>1 DEF OwnInv
<1>9. NoListLost'
  <2>1. ASSUME NEW a \in Autos, Here(a)', acts'[a] = {}
        PROVE  a \in removed' \/ \E p \in Requests : api'[p].auto = a /\ api'[p].cut
    <3>1. CASE a = A
      <4>1. CASE P.insert BY <1>1, <1>4, <3>1, <4>1
      <4>2. CASE ~P.insert
        <5>1. Here(a) BY <1>2, <1>5, <2>1, <3>1, <4>2 DEF Here
        <5>2. acts[a] = {} /\ P.add = {} BY <1>5, <2>1, <3>1
        <5>3. api[q].cut = FALSE BY <1>3, <5>2 DEF TypeOK, Request
        <5>. QED BY <1>1, <5>1, <5>2, <5>3 DEF NoListLost, Only
      <4>. QED BY <4>1, <4>2
    <3>2. CASE a # A
      <4>1. Here(a) /\ acts[a] = {} BY <1>5, <2>1, <3>2 DEF Here
      <4>. QED BY <1>1, <3>2, <4>1 DEF NoListLost, Only
    <3>. QED BY <3>1, <3>2
  <2>. QED BY <2>1 DEF NoListLost
<1>. QED BY <1>6, <1>7, <1>8, <1>9

LEMMA ListStep ==
  ASSUME TypeOK, JobsInv, ListInv, [Next]_vars
  PROVE  ListInv'
<1>1. SaveInv BY DEF ListInv
<1>2. CASE UNCHANGED vars BY <1>2, QuietStep DEF vars, Quiet
<1>3. ASSUME NEW q \in Requests,
             HooksDispatched(q) \/ FindMatching(q) \/ Fails(q)
               \/ \E a \in Autos : EnqueueRun(q, a) \/ TickPassesOver(q, a)
      PROVE  ListInv'
  <2>1. CASE HooksDispatched(q) \/ FindMatching(q)
    <3>1. Quiet(q) /\ Only(q) /\ UNCHANGED <<autos, acts, removed>>
      BY <2>1, FindIs DEF Quiet
    <3>2. \A p \in Requests : Quiet(p) BY <3>1 DEF Only, Quiet
    <3>. QED BY <3>1, <3>2, QuietStep
  <2>2. ASSUME NEW a \in Autos, EnqueueRun(q, a) \/ TickPassesOver(q, a)
        PROVE  ListInv'
    <3>1. Quiet(q) /\ Only(q) /\ UNCHANGED <<autos, acts, removed>>
      BY <2>2, EnqueueIs, PassOverIs DEF Loops, Quiet
    <3>2. \A p \in Requests : Quiet(p) BY <3>1 DEF Only, Quiet
    <3>. QED BY <3>1, <3>2, QuietStep
  <2>3. CASE Fails(q)
    <3>1. (\A p \in Requests : Quiet(p)) /\ UNCHANGED <<autos, acts, removed>>
      BY <2>3, FailsIs DEF Cut, Quiet
    <3>. QED BY <3>1, QuietStep
  <2>. QED BY <1>3, <2>1, <2>2, <2>3
<1>4. CASE Crash
  <2>1. (\A p \in Requests : Quiet(p)) /\ UNCHANGED <<autos, acts, removed>>
    BY <1>4, CrashIs DEF Cut, Quiet
  <2>. QED BY <2>1, QuietStep
<1>5. CASE WorkerStep \/ \E j \in Jobs : Take(j) \/ Promote(j) \/ RecoverStalled(j)
  <2>1. /\ UNCHANGED <<acts, api, removed>>
        /\ \A a \in Autos : autos'[a].state = autos[a].state
    BY <1>5, WorkIs
  <2>2. \A p \in Requests : Quiet(p) BY <2>1 DEF Quiet
  <2>. QED BY <2>1, <2>2, QuietStep
<1>. QED
  BY <1>2, <1>3, <1>4, <1>5, RowStep, BeginStep, DeleteStep, LoadStep, WriteStep
  DEF Next, Edit, Trigger, Begins

-----------------------------------------------------------------------------
(* The loops over enqueueRun.                                               *)

\* The runs of a that request q enqueued: finitely many, as one at a time is.
RunsOf(q, a) == {j \in Jobs : jobs[j].state # "none" /\ info[j] = [auto |-> a, by |-> q]}

FiniteRuns == \A q \in Requests, a \in Autos : IsFiniteSet(RunsOf(q, a))

\* What LoopInv says of one request.
LoopOk(q) ==
  /\ api[q].pc \in {"new", "hooks", "find"} => api[q].want = None
  /\ api[q].pc # "enqueue" => api[q].left = None
  /\ \A a \in Autos :
       LET n == Cardinality(RunsOf(q, a))
       IN  /\ n + api[q].left[a] <= api[q].want[a]
           /\ api[q].op # "tick" /\ api[q].pc # "error" => n + api[q].left[a] = api[q].want[a]

LEMMA LoopInvIs == LoopInv <=> \A q \in Requests : LoopOk(q)
BY DEF LoopInv, LoopOk, RunsOf

LEMMA RunsType ==
  ASSUME TypeOK, FiniteRuns, NEW q \in Requests, NEW a \in Autos
  PROVE  /\ Cardinality(RunsOf(q, a)) \in Nat
         /\ api[q].left[a] \in Nat /\ api[q].want[a] \in Nat /\ None[a] = 0
<1>1. api[q].left \in [Autos -> 0..MaxTargets] /\ api[q].want \in [Autos -> 0..MaxTargets]
  BY DEF TypeOK, Request, Counts
<1>2. MaxTargets \in Nat BY AutoBoundsAssumption
<1>. QED BY <1>1, <1>2, FS_CardinalityType DEF FiniteRuns, None

\* Request q keeps its place, ends in an error, or has the runs to enqueue.
Placed(q) ==
  \/ /\ api'[q].want = api[q].want /\ api'[q].left = api[q].left /\ api'[q].op = api[q].op
     /\ api'[q].pc \in {"new", "hooks", "find"} => api[q].pc \in {"new", "hooks", "find"}
     /\ api'[q].pc # "enqueue" => api'[q].left = None
     /\ api'[q].pc # "error" => api[q].pc # "error"
  \/ api'[q].want = api[q].want /\ api'[q].left = None /\ api'[q].pc = "error"
  \/ /\ api[q].want = None /\ api[q].left = None
     /\ api'[q].want = api'[q].left
     /\ api'[q].pc # "enqueue" => api'[q].left = None

LEMMA PlacedStep ==
  ASSUME TypeOK, FiniteRuns, NEW q \in Requests, LoopOk(q), api' \in [Requests -> Request],
         \A a \in Autos : RunsOf(q, a)' = RunsOf(q, a), Placed(q)
  PROVE  LoopOk(q)'
<1>1. ASSUME NEW a \in Autos
      PROVE  /\ Cardinality(RunsOf(q, a)) \in Nat /\ Cardinality(RunsOf(q, a))' = Cardinality(RunsOf(q, a))
             /\ api[q].left[a] \in Nat /\ api[q].want[a] \in Nat /\ None[a] = 0
             /\ Cardinality(RunsOf(q, a)) + api[q].left[a] <= api[q].want[a]
             /\ api[q].op # "tick" /\ api[q].pc # "error" =>
                  Cardinality(RunsOf(q, a)) + api[q].left[a] = api[q].want[a]
             /\ api'[q].left[a] \in Nat /\ api'[q].want[a] \in Nat
  <2>1. api'[q].left \in [Autos -> 0..MaxTargets] /\ api'[q].want \in [Autos -> 0..MaxTargets]
    BY DEF Request, Counts
  <2>2. api'[q].left[a] \in Nat /\ api'[q].want[a] \in Nat BY <2>1, AutoBoundsAssumption
  <2>. QED BY <2>2, RunsType DEF LoopOk
<1>2. CASE /\ api'[q].want = api[q].want /\ api'[q].left = api[q].left /\ api'[q].op = api[q].op
           /\ api'[q].pc \in {"new", "hooks", "find"} => api[q].pc \in {"new", "hooks", "find"}
           /\ api'[q].pc # "enqueue" => api'[q].left = None
           /\ api'[q].pc # "error" => api[q].pc # "error"
  BY <1>1, <1>2 DEF LoopOk
<1>3. CASE api'[q].want = api[q].want /\ api'[q].left = None /\ api'[q].pc = "error"
  <2>1. \A a \in Autos : Cardinality(RunsOf(q, a))' + api'[q].left[a] <= api'[q].want[a]
    BY <1>1, <1>3
  <2>. QED BY <1>3, <2>1 DEF LoopOk
<1>4. CASE /\ api[q].want = None /\ api[q].left = None
           /\ api'[q].want = api'[q].left
           /\ api'[q].pc # "enqueue" => api'[q].left = None
  <2>1. \A a \in Autos : Cardinality(RunsOf(q, a))' = 0 BY <1>1, <1>4
  <2>2. \A a \in Autos : Cardinality(RunsOf(q, a))' + api'[q].left[a] = api'[q].want[a]
    BY <1>1, <1>4, <2>1
  <2>3. \A a \in Autos : api'[q].want[a] <= api'[q].want[a] BY <1>1
  <2>. QED BY <1>4, <2>2, <2>3 DEF LoopOk
<1>. QED BY <1>2, <1>3, <1>4 DEF Placed

\* The steps that enqueue no run.
LEMMA NoRunStep ==
  ASSUME TypeOK, FiniteRuns, LoopInv, api' \in [Requests -> Request], info' = info,
         \A j \in Jobs : (jobs'[j].state # "none") = (jobs[j].state # "none"),
         \A q \in Requests : Placed(q)
  PROVE  LoopInv' /\ FiniteRuns'
<1>1. \A q \in Requests, a \in Autos : RunsOf(q, a)' = RunsOf(q, a) BY DEF RunsOf
<1>2. FiniteRuns' BY <1>1 DEF FiniteRuns
<1>3. \A q \in Requests : LoopOk(q) BY LoopInvIs
<1>4. \A q \in Requests : LoopOk(q)' BY <1>1, <1>3, PlacedStep
<1>. QED BY <1>2, <1>4 DEF LoopInv, LoopOk, RunsOf

\* A run that is enqueued is the caller's, and one less is left to enqueue.
LEMMA EnqueueStep ==
  ASSUME TypeOK, FiniteRuns, LoopInv, NEW q \in Requests, NEW a \in Autos, EnqueueRun(q, a)
  PROVE  LoopInv' /\ FiniteRuns'
<1>1. PICK j \in Jobs :
        /\ jobs[j] = NoJob
        /\ jobs' = [jobs EXCEPT ![j] = Added(FALSE)]
        /\ info' = [info EXCEPT ![j] = [auto |-> a, by |-> q]]
  BY EnqueueIs
<1>. DEFINE c == OneLess(api[q].left, a)
<1>2. api[q].left[a] > 0 /\ Loops(q, c) BY EnqueueIs
<1>3. /\ api[q].left \in Counts /\ api[q] \in Request BY DEF TypeOK, Request
<1>4. c[a] = api[q].left[a] - 1 /\ \A b \in Autos \ {a} : c[b] = api[q].left[b]
  BY <1>2, <1>3, OneLessIs
<1>. HIDE DEF c
<1>5. jobs[j].state = "none" BY <1>1 DEF NoJob
<1>6. Added(FALSE).state # "none" BY JobAdded, AutoAttemptAssumption
<1>7. /\ \A k \in Jobs \ {j} : jobs'[k] = jobs[k] /\ info'[k] = info[k]
      /\ jobs'[j].state # "none" /\ info'[j] = [auto |-> a, by |-> q]
  BY <1>1, <1>6 DEF TypeOK
<1>8. RunsOf(q, a)' = RunsOf(q, a) \cup {j} /\ j \notin RunsOf(q, a)
  BY <1>5, <1>7 DEF RunsOf
<1>9. ASSUME NEW p \in Requests, NEW b \in Autos, <<p, b>> # <<q, a>>
      PROVE  RunsOf(p, b)' = RunsOf(p, b)
  <2>1. [auto |-> a, by |-> q] # [auto |-> b, by |-> p] BY <1>9
  <2>. QED BY <1>5, <1>7, <2>1 DEF RunsOf
<1>10. /\ IsFiniteSet(RunsOf(q, a)')
       /\ Cardinality(RunsOf(q, a)') = Cardinality(RunsOf(q, a)) + 1
  BY <1>8, FS_AddElement DEF FiniteRuns
<1>11. FiniteRuns'
  <2>1. ASSUME NEW p \in Requests, NEW b \in Autos PROVE IsFiniteSet(RunsOf(p, b)')
    BY <1>9, <1>10 DEF FiniteRuns
  <2>. QED BY <2>1 DEF FiniteRuns
<1>12. \A p \in Requests : LoopOk(p) BY LoopInvIs
<1>13. \A p \in Requests \ {q} : LoopOk(p)'
  <2>1. ASSUME NEW p \in Requests \ {q} PROVE LoopOk(p)'
    <3>1. api'[p] = api[p] BY <1>2 DEF Loops, Only
    <3>2. \A b \in Autos : RunsOf(p, b)' = RunsOf(p, b) BY <1>9
    <3>. QED BY <1>12, <3>1, <3>2 DEF LoopOk
  <2>. QED BY <2>1
<1>14. LoopOk(q)'
  <2>1. /\ api'[q].op = api[q].op /\ api'[q].want = api[q].want /\ api'[q].left = c
        /\ api[q].pc = "enqueue"
        /\ \/ c = None /\ api'[q].pc = "ok"
           \/ api'[q].pc = "enqueue"
    BY <1>2 DEF Loops
  <2>2. ASSUME NEW b \in Autos
        PROVE  /\ Cardinality(RunsOf(q, b))' + c[b] = Cardinality(RunsOf(q, b)) + api[q].left[b]
    <3>1. Cardinality(RunsOf(q, b)) \in Nat /\ api[q].left[b] \in Nat BY RunsType
    <3>2. CASE b = a BY <1>2, <1>4, <1>10, <3>1, <3>2
    <3>3. CASE b # a BY <1>4, <1>9, <3>3
    <3>. QED BY <3>2, <3>3
  <2>3. /\ api'[q].pc \in {"new", "hooks", "find"} => api'[q].want = None
        /\ api'[q].pc # "enqueue" => api'[q].left = None
    BY <2>1
  <2>4. ASSUME NEW b \in Autos
        PROVE  /\ Cardinality(RunsOf(q, b))' + api'[q].left[b] <= api'[q].want[b]
               /\ api'[q].op # "tick" /\ api'[q].pc # "error" =>
                    Cardinality(RunsOf(q, b))' + api'[q].left[b] = api'[q].want[b]
    BY <1>12, <2>1, <2>2 DEF LoopOk
  <2>. QED BY <2>3, <2>4 DEF LoopOk
<1>15. \A p \in Requests : LoopOk(p)' BY <1>13, <1>14
<1>. QED BY <1>11, <1>15 DEF LoopInv, LoopOk, RunsOf

\* The rest of an automation's phones are passed over: a tick may enqueue less.
LEMMA PassOverStep ==
  ASSUME TypeOK, FiniteRuns, LoopInv, NEW q \in Requests, NEW a \in Autos, TickPassesOver(q, a)
  PROVE  LoopInv' /\ FiniteRuns'
<1>. DEFINE c == [api[q].left EXCEPT ![a] = 0]
<1>1. /\ api[q].op = "tick" /\ Loops(q, c) /\ UNCHANGED <<jobs, info>>
  BY PassOverIs
<1>2. \A b \in Autos : c[b] \in {0, api[q].left[b]} BY DEF TypeOK, Request, Counts
<1>. HIDE DEF c
<1>3. \A p \in Requests, b \in Autos : RunsOf(p, b)' = RunsOf(p, b) BY <1>1 DEF RunsOf
<1>4. FiniteRuns' BY <1>3 DEF FiniteRuns
<1>5. \A p \in Requests : LoopOk(p) BY LoopInvIs
<1>6. ASSUME NEW p \in Requests PROVE LoopOk(p)'
  <2>1. CASE p # q BY <1>1, <1>3, <1>5, <2>1 DEF LoopOk, Loops, Only
  <2>2. CASE p = q
    <3>1. /\ api'[q].op = "tick" /\ api'[q].want = api[q].want /\ api'[q].left = c
          /\ \/ c = None /\ api'[q].pc = "ok"
             \/ api'[q].pc = "enqueue"
      BY <1>1 DEF Loops
    <3>2. ASSUME NEW b \in Autos
          PROVE  Cardinality(RunsOf(q, b))' + api'[q].left[b] <= api'[q].want[b]
      <4>1. /\ Cardinality(RunsOf(q, b)) \in Nat /\ api[q].left[b] \in Nat /\ api[q].want[b] \in Nat
            /\ Cardinality(RunsOf(q, b)) + api[q].left[b] <= api[q].want[b]
        BY <1>5, RunsType DEF LoopOk
      <4>. QED BY <1>2, <1>3, <3>1, <4>1
    <3>. QED BY <2>2, <3>1, <3>2 DEF LoopOk
  <2>. QED BY <2>1, <2>2
<1>. QED BY <1>4, <1>6 DEF LoopInv, LoopOk, RunsOf

LEMMA LoopStep ==
  ASSUME TypeOK, JobsInv, SaveInv, FiniteRuns, LoopInv, [Next]_vars
  PROVE  LoopInv' /\ FiniteRuns'
<1>0. api \in [Requests -> Request] /\ \A q \in Requests : LoopOk(q) BY LoopInvIs DEF TypeOK
<1>1. ASSUME UNCHANGED <<jobs, info>>, api' \in [Requests -> Request],
             \A q \in Requests : Placed(q)
      PROVE  LoopInv' /\ FiniteRuns'
  BY <1>1, NoRunStep
<1>2. \A q \in Requests : api'[q] = api[q] => Placed(q) BY <1>0 DEF Placed, LoopOk
<1>3. CASE UNCHANGED vars BY <1>0, <1>1, <1>2, <1>3 DEF vars
<1>4. ASSUME NEW a \in Autos, Create(a) \/ Remove(a) PROVE LoopInv' /\ FiniteRuns'
  <2>1. UNCHANGED <<jobs, info, api>> BY <1>4 DEF Create, Remove
  <2>. QED BY <1>0, <1>1, <1>2, <2>1
<1>5. ASSUME NEW q \in Requests, Begins(q) PROVE LoopInv' /\ FiniteRuns'
  <2>1. /\ api[q] = Unmade /\ Only(q) /\ api' \in [Requests -> Request]
        /\ NewSave(api'[q]) \/ NewReplace(api'[q], q) \/ NewTrigger(api'[q])
        /\ UNCHANGED <<jobs, info>>
    BY <1>5, BeginsIs
  <2>2. Placed(q) BY <2>1, UnmadeIs DEF Placed, NewSave, NewReplace, NewTrigger
  <2>3. \A p \in Requests : Placed(p) BY <1>2, <2>1, <2>2 DEF Only
  <2>. QED BY <1>1, <2>1, <2>3
<1>6. ASSUME NEW q \in Requests, DeleteActions(q) \/ SaveLoad(q) \/ SaveWrite(q)
      PROVE  LoopInv' /\ FiniteRuns'
  <2>1. /\ Only(q) /\ api' \in [Requests -> Request] /\ UNCHANGED <<jobs, info>>
        /\ api[q].pc \in {"delete", "load", "write"} /\ api'[q].pc \in {"load", "write", "ok"}
        /\ api'[q].op = api[q].op /\ api'[q].want = api[q].want
        /\ api'[q].left = api[q].left \/ api'[q].left = None
    BY <1>6, DeleteIs, LoadIs, WriteIs
  <2>2. api[q].left = None BY <1>0, <2>1 DEF LoopOk
  <2>3. Placed(q) BY <2>1, <2>2 DEF Placed
  <2>4. \A p \in Requests : Placed(p) BY <1>2, <2>1, <2>3 DEF Only
  <2>. QED BY <1>1, <2>1, <2>4
<1>7. ASSUME NEW q \in Requests, HooksDispatched(q) \/ FindMatching(q)
      PROVE  LoopInv' /\ FiniteRuns'
  <2>1. /\ api[q].pc \in {"hooks", "find"} /\ Only(q) /\ api' \in [Requests -> Request]
        /\ api'[q].op = api[q].op /\ UNCHANGED <<jobs, info>>
        /\ \/ api'[q].pc = "find" /\ api'[q].want = api[q].want /\ api'[q].left = api[q].left
           \/ /\ api'[q].want = api'[q].left
              /\ \/ api'[q].left = None /\ api'[q].pc = "ok"
                 \/ api'[q].pc = "enqueue"
    BY <1>7, FindIs
  <2>2. api[q].left = None /\ api[q].want = None BY <1>0, <2>1 DEF LoopOk
  <2>3. Placed(q) BY <2>1, <2>2 DEF Placed
  <2>4. \A p \in Requests : Placed(p) BY <1>2, <2>1, <2>3 DEF Only
  <2>. QED BY <1>1, <2>1, <2>4
<1>8. ASSUME api' \in [Requests -> Request], \A q \in Requests : Cut(q), UNCHANGED <<jobs, info>>
      PROVE  LoopInv' /\ FiniteRuns'
  <2>1. \A q \in Requests : Placed(q) BY <1>2, <1>8 DEF Cut, Placed
  <2>. QED BY <1>1, <1>8, <2>1
<1>9. CASE Crash \/ \E q \in Requests : Fails(q) BY <1>8, <1>9, CrashIs, FailsIs
<1>10. CASE WorkerStep \/ \E j \in Jobs : Take(j) \/ Promote(j) \/ RecoverStalled(j)
  <2>1. UNCHANGED <<api, info>> BY <1>10, WorkIs
  <2>2. \A q \in Requests : Placed(q) BY <1>2, <2>1
  <2>3. \A j \in Jobs : (jobs'[j].state # "none") = (jobs[j].state # "none")
    <3>1. CASE Skip \/ Load \/ RunOk \/ RunThrows \/ MarkRun \/ StampRun
      BY <3>1 DEF Skip, Load, RunOk, RunThrows, MarkRun, StampRun
    <3>2. ASSUME NEW j \in Jobs, NEW x, jobs' = [jobs EXCEPT ![j] = x],
                 jobs[j].state # "none", x.state # "none"
          PROVE  \A k \in Jobs : (jobs'[k].state # "none") = (jobs[k].state # "none")
      <4>1. jobs'[j] = x /\ \A k \in Jobs \ {j} : jobs'[k] = jobs[k] BY <3>2 DEF TypeOK
      <4>. QED BY <3>2, <4>1
    <3>3. CASE Return \/ Throw
      <4>1. job \in Jobs /\ jobs[job].state = "active" /\ jobs[job] \in Job(Attempts)
            /\ jobs[job].made < Attempts
        BY <3>3, InfoIs DEF Return, Throw
      <4>2. /\ Completed(jobs[job]).state # "none"
            /\ Rejected(jobs[job], Attempts).state # "none"
        BY <4>1, JobMoves, JobRejected, AutoAttemptAssumption
      <4>. QED BY <3>2, <3>3, <4>1, <4>2 DEF Return, Throw
    <3>4. ASSUME NEW j \in Jobs, Take(j) \/ Promote(j) \/ RecoverStalled(j)
          PROVE  \A k \in Jobs : (jobs'[k].state # "none") = (jobs[k].state # "none")
      <4>1. jobs[j] \in Job(Attempts) BY DEF TypeOK
      <4>2. CASE Take(j) BY <3>2, <4>1, <4>2, JobMoves DEF Take
      <4>3. CASE Promote(j) BY <3>2, <4>1, <4>3, JobMoves DEF Promote
      <4>4. CASE RecoverStalled(j)
        <5>1. jobs[j].state = "active" /\ jobs' = [jobs EXCEPT ![j] = Stalled(jobs[j])]
          BY <4>4 DEF RecoverStalled
        <5>2. Stalled(jobs[j]).state # "none" BY <4>1, <5>1, JobStalled
        <5>. QED BY <3>2, <5>1, <5>2
      <4>. QED BY <3>4, <4>2, <4>3, <4>4
    <3>. QED BY <1>10, <3>1, <3>3, <3>4 DEF WorkerStep
  <2>. QED BY <1>0, <2>1, <2>2, <2>3, NoRunStep
<1>. QED
  BY <1>3, <1>4, <1>5, <1>6, <1>7, <1>9, <1>10, EnqueueStep, PassOverStep
  DEF Next, Edit, Trigger, Begins

-----------------------------------------------------------------------------
(* The invariant holds initially, and the theorems.                         *)

LEMMA InitHolds ==
  ASSUME Init
  PROVE  IInv /\ FiniteRuns
<1>. USE DEF Init
<1>1. NoAuto \in Row /\ NoAuto.state = "none" /\ NoAuto.runs = 0 BY DEF NoAuto, Row
<1>2. NoJob \in Job(Attempts) BY JobAdded, AutoAttemptAssumption
<1>3. NoJob.state = "none" /\ NoJob.made = 0 /\ NoJob.stalls = 0 BY DEF NoJob
<1>4. \A q \in Requests : api[q] = Unmade OBVIOUS
<1>5. TypeOK BY <1>1, <1>2, UnmadeIs, AutoBoundsAssumption DEF TypeOK, Here
<1>6. JobsInv
  <2>1. \A j \in Jobs : jobs[j].state = "none" /\ jobs[j].made = 0 /\ jobs[j].stalls = 0 /\ begun[j] = 0
    BY <1>3
  <2>. QED BY <2>1, AutoNamesAssumption DEF JobsInv, Live
<1>7. CountInv
  <2>1. \A a \in Autos : autos[a].runs = 0 /\ done[a] = 0 /\ Unmarked(a) = 0 BY <1>1 DEF Unmarked
  <2>. QED BY <1>4, <2>1, UnmadeIs DEF CountInv
<1>8. SaveInv BY <1>4, UnmadeIs DEF SaveInv
<1>9. InsertInv BY <1>1, <1>4, UnmadeIs DEF InsertInv
<1>10. OwnInv BY <1>4, UnmadeIs, EmptyLists DEF OwnInv
<1>11. \A q \in Requests, a \in Autos : RunsOf(q, a) = {} BY <1>3 DEF RunsOf
<1>12. FiniteRuns BY <1>11, FS_EmptySet DEF FiniteRuns
<1>13. ASSUME NEW q \in Requests PROVE LoopOk(q)
  <2>1. api[q].want = None /\ api[q].left = None BY <1>4, UnmadeIs
  <2>2. \A a \in Autos : Cardinality(RunsOf(q, a)) = 0 /\ None[a] = 0
    BY <1>11, NoneCounts, FS_EmptySet
  <2>3. \A a \in Autos : Cardinality(RunsOf(q, a)) + None[a] = None[a] /\ None[a] <= None[a]
    BY <2>2
  <2>. QED BY <2>1, <2>3 DEF LoopOk
<1>14. LoopInv BY <1>13, LoopInvIs
<1>15. NoListLost BY <1>1 DEF NoListLost, Here
<1>16. RunsBounded BY AutoAttemptAssumption DEF RunsBounded, MaxStalls
<1>. QED
  BY <1>5, <1>6, <1>7, <1>8, <1>9, <1>10, <1>12, <1>14, <1>15, <1>16 DEF IInv

\* The inductive invariant: shapes, the worker's job, the counts rows and
\* entities hold, the lists that saves bring and leave, the loops of triggers.
THEOREM Inductive == Spec => []IInv
<1>1. Init => IInv /\ FiniteRuns BY InitHolds
<1>2. IInv /\ FiniteRuns /\ [Next]_vars => (IInv /\ FiniteRuns)'
  <2>. SUFFICES ASSUME IInv, FiniteRuns, [Next]_vars PROVE (IInv /\ FiniteRuns)' OBVIOUS
  <2>1. /\ TypeOK /\ JobsInv /\ CountInv /\ SaveInv /\ ListInv /\ LoopInv /\ RunsBounded
    BY DEF IInv, ListInv
  <2>2. TypeOK' BY <2>1, TypeStep
  <2>3. JobsInv' /\ RunsBounded' BY <2>1, JobsStep
  <2>4. CountInv' BY <2>1, CountStep
  <2>5. ListInv' BY <2>1, ListStep
  <2>6. LoopInv' /\ FiniteRuns' BY <2>1, LoopStep
  <2>. QED BY <2>2, <2>3, <2>4, <2>5, <2>6 DEF IInv, ListInv
<1>. QED BY <1>1, <1>2, PTL DEF Spec

\* Updates, activations and removals in any order lose no list of actions but
\* that of an update which was not answered with success, or of an automation
\* that a save brought back (automations.service.ts, update and setActive).
THEOREM ListsKept == Spec => []NoListLost
<1>1. IInv => NoListLost BY DEF IInv
<1>. QED BY <1>1, Inductive, PTL

\* runCount counts no run that was not carried out to the end.
THEOREM CountsHonest == Spec => []CountHonest
<1>1. IInv => CountHonest
  <2>. SUFFICES ASSUME IInv, NEW a \in Autos PROVE autos[a].runs <= done[a] BY DEF CountHonest
  <2>1. autos[a].runs \in Nat /\ done[a] \in Nat /\ Unmarked(a) \in Nat
    BY DEF IInv, TypeOK, Row, Unmarked
  <2>2. autos[a].runs + Unmarked(a) <= done[a] BY DEF IInv, CountInv
  <2>. QED BY <2>1, <2>2
<1>. QED BY <1>1, Inductive, PTL

\* A trigger enqueues each of its runs at most once, and all of them before
\* it answers (automations.service.ts, test, enqueueRun, dispatchIncomingMessage).
THEOREM RunsOnce == Spec => []EachRunOnce
<1>1. Init => IInv /\ FiniteRuns BY InitHolds
<1>2. IInv /\ FiniteRuns /\ [Next]_vars => (IInv /\ FiniteRuns)'
  BY TypeStep, JobsStep, CountStep, ListStep, LoopStep DEF IInv, ListInv
<1>3. IInv /\ FiniteRuns => EachRunOnce
  <2>. SUFFICES ASSUME IInv, FiniteRuns, NEW q \in Requests, NEW a \in Autos
                PROVE  LET n == Cardinality(RunsOf(q, a))
                       IN  /\ n <= api[q].want[a]
                           /\ api[q].pc = "ok" /\ api[q].op # "tick" => n = api[q].want[a]
    BY DEF EachRunOnce, RunsOf
  <2>1. TypeOK /\ LoopOk(q) BY LoopInvIs DEF IInv
  <2>2. /\ Cardinality(RunsOf(q, a)) \in Nat
        /\ api[q].left[a] \in Nat /\ api[q].want[a] \in Nat /\ None[a] = 0
    BY <2>1, RunsType
  <2>. QED BY <2>1, <2>2 DEF LoopOk
<1>. QED BY <1>1, <1>2, <1>3, PTL DEF Spec

\* The actions of a job are begun at most once per attempt, and once more for
\* a process that died (queue.module.ts, attempts; automation.processor.ts).
THEOREM BeginsBounded == Spec => []RunsBounded
<1>1. IInv => RunsBounded BY DEF IInv
<1>. QED BY <1>1, Inductive, PTL
=============================================================================
