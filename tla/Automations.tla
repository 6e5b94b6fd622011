---------------------------- MODULE Automations -----------------------------
(***************************************************************************)
(* The automations of src/src/modules/automations: the registry (create,   *)
(* update, setActive, remove), what makes an automation run (test, a       *)
(* public hook, an inbound message, a tick of the scheduler) and the       *)
(* worker that runs its actions (the run itself is ActionEngine.tla).      *)
(*                                                                         *)
(* update() deletes the actions of an automation, which commits, and then  *)
(* saves the automation with the new ones.  save() goes through the eager, *)
(* cascading relation `actions`: TypeORM SELECTs the row and its actions,  *)
(* INSERTs those of the entity that are not there, and sets the            *)
(* automation_id of those that the entity lacks to NULL, which the column  *)
(* refuses.  The new actions of an update stand here for one list, named   *)
(* after the request that brought it.                                      *)
(***************************************************************************)
EXTENDS FiniteSets, JobQueue

CONSTANTS Autos,        \* bound: automations ever created
          Requests,     \* bound: calls that change or trigger, ever made
          Jobs,         \* bound: runs ever enqueued
          MaxTargets,   \* bound: target phones of a scheduled automation
          Attempts,     \* attempts of queue.module.ts (3)
          MaxCrashes,   \* bound: crashes of the process
          Nil

ASSUME AutoAttemptAssumption == Attempts \in Nat \ {0}
ASSUME AutoBoundsAssumption  == MaxCrashes \in Nat /\ MaxTargets \in Nat \ {0}
ASSUME AutoNamesAssumption   == Nil \notin Jobs /\ Nil \notin Autos /\ "first" \notin Requests

VARIABLES
  autos,      \* the rows of automations
  acts,       \* the action lists stored in automation_actions, per automation
  jobs,       \* the queue wa-automations
  info,       \* per job: its automation, the request that triggered it
  api,        \* the requests in flight
  pc, job,    \* the worker: where process() is, the job it holds
  done,       \* runs carried out to the end, per automation (not in the code)
  begun,      \* runs begun, per job (not in the code)
  removed,    \* automations ever removed (not in the code)
  crashes

vars == <<autos, acts, jobs, info, api, pc, job, done, begun, removed, crashes>>

-----------------------------------------------------------------------------
(* The rows, the entities made from them, and TypeORM's save().            *)

ListIds == {"first"} \cup Requests

Row     == [state : {"none", "here", "gone"}, active : BOOLEAN, runs : Nat]
NoAuto  == [state |-> "none", active |-> FALSE, runs |-> 0]
Removed == [state |-> "gone", active |-> FALSE, runs |-> 0]
Here(a) == autos[a].state = "here"
On(a)   == Here(a) /\ autos[a].active

Entity   == [active : BOOLEAN, runs : Nat, lists : SUBSET ListIds]
Found(a) == [active |-> autos[a].active, runs |-> autos[a].runs, lists |-> acts[a]]
NoEntity == [active |-> FALSE, runs |-> 0, lists |-> {}]

Columns == {"active", "runs"}
Plan    == [insert : BOOLEAN, cols : SUBSET Columns,
            add : SUBSET ListIds, orphan : SUBSET ListIds]
NoPlan  == [insert |-> FALSE, cols |-> {}, add |-> {}, orphan |-> {}]

\* What save(e) decides from the row of a and its actions.
SavePlan(a, e) ==
  [insert |-> ~Here(a),
   cols   |-> IF Here(a) THEN {c \in Columns : autos[a][c] # e[c]} ELSE {},
   add    |-> e.lists \ acts[a],
   orphan |-> acts[a] \ e.lists]

\* Mutant: automation_id may be NULL, and actions left out are set aside.
ConflictsNullable(a, p) ==
  \/ p.insert /\ Here(a)
  \/ ~p.insert /\ ~Here(a) /\ p.add # {}
  \/ p.add \cap acts[a] # {}

\* The transaction of save() fails: the row or an action exists by now, the
\* row is gone, or an action would lose its automation.
SaveConflicts(a, p) ==
  \/ p.insert /\ Here(a)
  \/ ~p.insert /\ ~Here(a) /\ p.add # {}
  \/ p.add \cap acts[a] # {}
  \/ p.orphan \cap acts[a] # {}

\* The row of a after the UPDATE or INSERT that p asks for.
Saved(a, e, p) ==
  IF p.insert THEN [state |-> "here", active |-> e.active, runs |-> e.runs]
  ELSE IF ~Here(a) THEN autos[a]
  ELSE [state  |-> "here",
        active |-> IF "active" \in p.cols THEN e.active ELSE autos[a].active,
        runs   |-> IF "runs"   \in p.cols THEN e.runs   ELSE autos[a].runs]

-----------------------------------------------------------------------------
(* The registry.                                                           *)

Counts  == [Autos -> 0..MaxTargets]
None    == [a \in Autos |-> 0]
Request ==
  [op : {"none", "save", "replace", "call", "tick"},
   pc : {"new", "delete", "load", "write", "hooks", "find", "enqueue", "ok", "error"},
   auto : Autos \cup {Nil}, ent : Entity, plan : Plan,
   want : Counts, left : Counts,   \* runs to enqueue, in all and still
   cut : BOOLEAN]                  \* its actions are deleted and not saved
Unmade  ==
  [op |-> "none", pc |-> "new", auto |-> Nil, ent |-> NoEntity, plan |-> NoPlan,
   want |-> None, left |-> None, cut |-> FALSE]

\* The request is answered; what is kept of it serves the properties.
Answered(r, as) == [r EXCEPT !.pc = as, !.ent = NoEntity, !.plan = NoPlan, !.left = None]

\* isActive is false by default.
Create(a) ==
  /\ autos[a].state = "none"
  /\ autos' = [autos EXCEPT ![a] = [NoAuto EXCEPT !.state = "here"]]
  /\ acts' = [acts EXCEPT ![a] = {"first"}]
  /\ UNCHANGED <<jobs, info, api, pc, job, done, begun, removed, crashes>>

\* The actions go with the row (onDelete CASCADE).
Remove(a) ==
  /\ Here(a)
  /\ autos' = [autos EXCEPT ![a] = Removed]
  /\ acts' = [acts EXCEPT ![a] = {}]
  /\ removed' = removed \cup {a}
  /\ UNCHANGED <<jobs, info, api, pc, job, done, begun, crashes>>

Handling(q, r) ==
  /\ api[q] = Unmade
  /\ api' = [api EXCEPT ![q] = r]
  /\ UNCHANGED <<autos, acts, jobs, info, pc, job, done, begun, removed, crashes>>

SetActive(q, a) ==
  /\ Here(a)
  /\ \E on \in BOOLEAN :
       Handling(q, [Unmade EXCEPT !.op = "save", !.pc = "load", !.auto = a,
                                  !.ent = [Found(a) EXCEPT !.active = on]])

\* update() of other columns, and of the actions.
Update(q, a) ==
  /\ Here(a)
  /\ \/ Handling(q, [Unmade EXCEPT !.op = "save", !.pc = "load", !.auto = a, !.ent = Found(a)])
     \/ Handling(q, [Unmade EXCEPT !.op = "replace", !.pc = "delete", !.auto = a,
                                   !.ent = [Found(a) EXCEPT !.lists = {q}]])

DeleteActions(q) ==
  /\ api[q].pc = "delete"
  /\ acts' = [acts EXCEPT ![api[q].auto] = {}]
  /\ api' = [api EXCEPT ![q] = [@ EXCEPT !.pc = "load", !.cut = TRUE]]
  /\ UNCHANGED <<autos, jobs, info, pc, job, done, begun, removed, crashes>>

SaveLoad(q) ==
  /\ api[q].pc = "load"
  /\ api' = [api EXCEPT ![q] =
       [@ EXCEPT !.pc = "write", !.plan = SavePlan(api[q].auto, api[q].ent)]]
  /\ UNCHANGED <<autos, acts, jobs, info, pc, job, done, begun, removed, crashes>>

SaveWrite(q) ==
  /\ api[q].pc = "write"
  /\ LET a == api[q].auto  p == api[q].plan IN
       /\ ~SaveConflicts(a, p)
       /\ autos' = [autos EXCEPT ![a] = Saved(a, api[q].ent, p)]
       /\ acts' = [acts EXCEPT ![a] = (@ \ p.orphan) \cup p.add]
  /\ api' = [api EXCEPT ![q] = [Answered(api[q], "ok") EXCEPT !.cut = FALSE]]
  /\ UNCHANGED <<jobs, info, pc, job, done, begun, removed, crashes>>

-----------------------------------------------------------------------------
(* What triggers runs: each ends in a loop over enqueueRun().              *)

\* The runs to enqueue are known; with none of them the call is answered.
Enqueueing(r, counts) ==
  [r EXCEPT !.pc = IF counts = None THEN "ok" ELSE "enqueue",
            !.want = counts, !.left = counts]

Once(S) == [a \in Autos |-> IF a \in S THEN 1 ELSE 0]

Triggered(q, op, counts) == Handling(q, Enqueueing([Unmade EXCEPT !.op = op], counts))

\* test(), whether active or not, and a public hook's path, when active.
Test(q, a) == Here(a) /\ Triggered(q, "call", Once({a}))
Hook(q, a) == On(a) /\ Triggered(q, "call", Once({a}))

\* tick(): any of the active ones are due, for their target phones.
Tick(q) ==
  \E S \in SUBSET {a \in Autos : On(a)} : \E n \in [S -> 1..MaxTargets] :
    Triggered(q, "tick", [a \in Autos |-> IF a \in S THEN n[a] ELSE 0])

\* onMessage(): recorded (an error is swallowed) and announced, then
\* dispatched to the webhooks, then to the automations.
Inbound(q) == Handling(q, [Unmade EXCEPT !.op = "call", !.pc = "hooks"])

HooksDispatched(q) ==
  /\ api[q].pc = "hooks"
  /\ api' = [api EXCEPT ![q] = [@ EXCEPT !.pc = "find"]]
  /\ UNCHANGED <<autos, acts, jobs, info, pc, job, done, begun, removed, crashes>>

\* Any of the active ones match the message.
FindMatching(q) ==
  /\ api[q].pc = "find"
  /\ \E S \in SUBSET {a \in Autos : On(a)} :
       api' = [api EXCEPT ![q] = Enqueueing(@, Once(S))]
  /\ UNCHANGED <<autos, acts, jobs, info, pc, job, done, begun, removed, crashes>>

Info == [auto : Autos, by : Requests]

\* Mutant: after a run was enqueued its place in the loop is kept.
OneLessKept(left, a) == left

OneLess(left, a) == [left EXCEPT ![a] = @ - 1]

EnqueueRun(q, a) ==
  /\ api[q].pc = "enqueue" /\ api[q].left[a] > 0
  /\ \E j \in Jobs :
       /\ jobs[j] = NoJob
       /\ jobs' = [jobs EXCEPT ![j] = Added(FALSE)]
       /\ info' = [info EXCEPT ![j] = [auto |-> a, by |-> q]]
  /\ LET left == OneLess(api[q].left, a) IN
       api' = [api EXCEPT ![q] =
         IF left = None THEN Answered(@, "ok") ELSE [@ EXCEPT !.left = left]]
  /\ UNCHANGED <<autos, acts, pc, job, done, begun, removed, crashes>>

\* enqueueRun throws within a tick: caught, and the rest of this
\* automation's phones are passed over.
TickPassesOver(q, a) ==
  /\ api[q].op = "tick" /\ api[q].pc = "enqueue" /\ api[q].left[a] > 0
  /\ LET left == [api[q].left EXCEPT ![a] = 0] IN
       api' = [api EXCEPT ![q] =
         IF left = None THEN Answered(@, "ok") ELSE [@ EXCEPT !.left = left]]
  /\ UNCHANGED <<autos, acts, jobs, info, pc, job, done, begun, removed, crashes>>

\* A query or queue.add rejects, or the save conflicts: the caller gets an
\* error, and what was done stays.
Fails(q) ==
  /\ api[q].pc \in {"delete", "load", "write", "hooks", "find", "enqueue"}
  /\ api[q].op # "tick"
  /\ api' = [api EXCEPT ![q] = Answered(@, "error")]
  /\ UNCHANGED <<autos, acts, jobs, info, pc, job, done, begun, removed, crashes>>

-----------------------------------------------------------------------------
(* The worker.                                                             *)

Take(j) ==
  /\ pc = "idle"
  /\ jobs[j].state = "waiting"
  /\ jobs' = [jobs EXCEPT ![j] = Taken(@)]
  /\ job' = j /\ pc' = "load"
  /\ UNCHANGED <<autos, acts, info, api, done, begun, removed, crashes>>

\* The automation is gone, or neither it nor the context names a session.
Skip ==
  /\ pc = "load"
  /\ pc' = "return"
  /\ UNCHANGED <<autos, acts, jobs, info, api, job, done, begun, removed, crashes>>

\* It is found with its actions, active or not, then its session and the
\* workspace's credentials.
Load ==
  /\ pc = "load" /\ Here(info[job].auto)
  /\ pc' = "run"
  /\ UNCHANGED <<autos, acts, jobs, info, api, job, done, begun, removed, crashes>>

\* ActionEngine.run() resolves.
RunOk ==
  /\ pc = "run"
  /\ done' = [done EXCEPT ![info[job].auto] = @ + 1]
  /\ begun' = [begun EXCEPT ![job] = @ + 1]
  /\ pc' = "mark"
  /\ UNCHANGED <<autos, acts, jobs, info, api, job, removed, crashes>>

\* Mutant: an error of the run is passed over.
RunThrowsIgnored ==
  /\ pc = "run"
  /\ begun' = [begun EXCEPT ![job] = @ + 1]
  /\ pc' = "mark"
  /\ UNCHANGED <<autos, acts, jobs, info, api, job, done, removed, crashes>>

\* It throws at some action, those before it carried out.
RunThrows ==
  /\ pc = "run"
  /\ begun' = [begun EXCEPT ![job] = @ + 1]
  /\ pc' = "thrown"
  /\ UNCHANGED <<autos, acts, jobs, info, api, job, done, removed, crashes>>

\* markRun(): runCount is incremented by the database, lastRunAt set next.
MarkRun ==
  /\ pc = "mark"
  /\ LET a == info[job].auto IN
       autos' = IF Here(a) THEN [autos EXCEPT ![a].runs = @ + 1] ELSE autos
  /\ pc' = "stamp"
  /\ UNCHANGED <<acts, jobs, info, api, job, done, begun, removed, crashes>>

StampRun ==
  /\ pc = "stamp"
  /\ pc' = "return"
  /\ UNCHANGED <<autos, acts, jobs, info, api, job, done, begun, removed, crashes>>

Return ==
  /\ pc = "return"
  /\ jobs' = [jobs EXCEPT ![job] = Completed(@)]
  /\ pc' = "idle" /\ job' = Nil
  /\ UNCHANGED <<autos, acts, info, api, done, begun, removed, crashes>>

\* process() rejects, and the retry begins the run anew.
Throw ==
  /\ pc \in {"load", "thrown", "mark", "stamp"}
  /\ jobs' = [jobs EXCEPT ![job] = Rejected(@, Attempts)]
  /\ pc' = "idle" /\ job' = Nil
  /\ UNCHANGED <<autos, acts, info, api, done, begun, removed, crashes>>

-----------------------------------------------------------------------------
(* The queue's own moves, and a crash of the process.                      *)

Promote(j) ==
  /\ jobs[j].state = "delayed"
  /\ jobs' = [jobs EXCEPT ![j] = Promoted(@)]
  /\ UNCHANGED <<autos, acts, info, api, pc, job, done, begun, removed, crashes>>

RecoverStalled(j) ==
  /\ jobs[j].state = "active" /\ job # j
  /\ jobs' = [jobs EXCEPT ![j] = Stalled(@)]
  /\ UNCHANGED <<autos, acts, info, api, pc, job, done, begun, removed, crashes>>

Crash ==
  /\ crashes < MaxCrashes
  /\ crashes' = crashes + 1
  /\ pc' = "idle" /\ job' = Nil
  /\ api' = [q \in Requests |->
       IF api[q].pc \in {"new", "ok"} THEN api[q] ELSE Answered(api[q], "error")]
  /\ UNCHANGED <<autos, acts, jobs, info, done, begun, removed>>

-----------------------------------------------------------------------------
Init ==
  /\ autos = [a \in Autos |-> NoAuto]
  /\ acts = [a \in Autos |-> {}]
  /\ jobs = [j \in Jobs |-> NoJob]
  /\ info = [j \in Jobs |-> Nil]
  /\ api = [q \in Requests |-> Unmade]
  /\ pc = "idle" /\ job = Nil
  /\ done = [a \in Autos |-> 0]
  /\ begun = [j \in Jobs |-> 0]
  /\ removed = {}
  /\ crashes = 0

Edit(q) ==
  \/ \E a \in Autos : SetActive(q, a) \/ Update(q, a)
  \/ DeleteActions(q) \/ SaveLoad(q) \/ SaveWrite(q)

Trigger(q) ==
  \/ \E a \in Autos : Test(q, a) \/ Hook(q, a) \/ EnqueueRun(q, a) \/ TickPassesOver(q, a)
  \/ Tick(q) \/ Inbound(q) \/ HooksDispatched(q) \/ FindMatching(q)

WorkerStep ==
  \/ Skip \/ Load \/ RunOk \/ RunThrows \/ MarkRun \/ StampRun \/ Return \/ Throw

Next ==
  \/ \E a \in Autos : Create(a) \/ Remove(a)
  \/ \E q \in Requests : Edit(q) \/ Trigger(q) \/ Fails(q)
  \/ WorkerStep
  \/ \E j \in Jobs : Take(j) \/ Promote(j) \/ RecoverStalled(j)
  \/ Crash

Spec == Init /\ [][Next]_vars

-----------------------------------------------------------------------------
(* Properties.                                                             *)

\* Every variable keeps the shape the code gives it, and no action is stored
\* without its automation.
TypeOK ==
  /\ autos \in [Autos -> Row]
  /\ acts \in [Autos -> SUBSET ListIds]
  /\ \A a \in Autos : acts[a] # {} => Here(a)
  /\ jobs \in [Jobs -> Job(Attempts)]
  /\ info \in [Jobs -> Info \cup {Nil}]
  /\ api \in [Requests -> Request]
  /\ pc \in {"idle", "load", "run", "mark", "stamp", "thrown", "return"}
  /\ job \in Jobs \cup {Nil}
  /\ done \in [Autos -> Nat] /\ begun \in [Jobs -> Nat]
  /\ removed \in SUBSET Autos
  /\ crashes \in 0..MaxCrashes

\* An automation is without its actions only while an update replaces them,
\* after one that was not answered with success, or when it was removed and
\* a save brought it back: updates and activations that overlap lose none.
NoListLost ==
  \A a \in Autos :
    Here(a) /\ acts[a] = {} => a \in removed \/ \E q \in Requests : api[q].auto = a /\ api[q].cut

\* runCount never runs ahead of the runs that were carried out to the end;
\* saves of old entities may set it back.
CountHonest == \A a \in Autos : autos[a].runs <= done[a]

\* A trigger enqueues each run it is for at most once, and all of them when
\* its caller gets an answer (a tick of the scheduler has none).
EachRunOnce ==
  \A q \in Requests, a \in Autos :
    LET n == Cardinality({j \in Jobs : jobs[j].state # "none" /\ info[j] = [auto |-> a, by |-> q]})
    IN  /\ n <= api[q].want[a]
        /\ api[q].pc = "ok" /\ api[q].op # "tick" => n = api[q].want[a]

\* The actions of one job are begun at most once per attempt, and once more
\* for a process that died.
RunsBounded == \A j \in Jobs : begun[j] <= Attempts + MaxStalls

-----------------------------------------------------------------------------
(* The inductive invariant behind the safety properties.                   *)

\* The worker's job is active and its automation known; an enqueued job has
\* attempts left, and begins its actions once per attempt.
JobsInv ==
  /\ pc # "idle" => job \in Jobs /\ jobs[job].state = "active"
  /\ pc = "idle" => job = Nil
  /\ \A j \in Jobs :
       /\ jobs[j].state # "none" => info[j] \in Info
       /\ Live(jobs[j]) => jobs[j].made < Attempts
       /\ begun[j] <= jobs[j].made + jobs[j].stalls +
            (IF \/ jobs[j].state \in {"active", "completed"}
                \/ jobs[j].state = "failed" /\ jobs[j].stalls = MaxStalls
             THEN 1 ELSE 0)
       /\ job = j /\ pc \in {"load", "run"} => begun[j] <= jobs[j].made + jobs[j].stalls

\* The run of a that is about to be marked.
Unmarked(a) == IF pc = "mark" /\ info[job].auto = a THEN 1 ELSE 0

\* The counts that rows and entities hold were earned, before the run that is
\* being marked.
CountInv ==
  /\ \A a \in Autos : autos[a].runs + Unmarked(a) <= done[a]
  /\ \A q \in Requests : LET a == api[q].auto IN
       a # Nil => api[q].ent.runs + Unmarked(a) <= done[a]

\* What a save works on, and what an update brings.
SaveInv ==
  \A q \in Requests :
    /\ api[q].pc \in {"delete", "load", "write"} => api[q].auto # Nil
    /\ api[q].pc = "delete" => api[q].op = "replace"
    /\ api[q].op = "replace" /\ api[q].pc \in {"delete", "load", "write"} =>
         api[q].ent.lists = {q} /\ (api[q].pc = "delete" \/ api[q].cut)
    /\ api[q].cut => api[q].op = "replace"
    /\ api[q].op = "replace" /\ api[q].pc = "write" => q \in api[q].plan.add

\* A save INSERTs only what was removed.
InsertInv ==
  /\ \A a \in Autos : autos[a].state = "gone" => a \in removed
  /\ \A q \in Requests :
       /\ api[q].auto # Nil => autos[api[q].auto].state # "none"
       /\ api[q].pc = "write" /\ api[q].plan.insert => api[q].auto \in removed

\* Until a request has saved, the list it brings is nowhere else.
OwnInv ==
  \A q \in Requests : api[q].pc \in {"new", "delete", "load", "write"} =>
    /\ \A a \in Autos : q \notin acts[a]
    /\ \A p \in Requests \ {q} : q \notin api[p].ent.lists \cup api[p].plan.add

\* What a request has enqueued and has still to enqueue is what it is for; a
\* tick may pass some over, and an error may cut it short.
LoopInv ==
  \A q \in Requests :
    /\ api[q].pc \in {"new", "hooks", "find"} => api[q].want = None
    /\ api[q].pc # "enqueue" => api[q].left = None
    /\ \A a \in Autos :
         LET n == Cardinality({j \in Jobs : jobs[j].state # "none" /\ info[j] = [auto |-> a, by |-> q]})
         IN  /\ n + api[q].left[a] <= api[q].want[a]
             /\ api[q].op # "tick" /\ api[q].pc # "error" => n + api[q].left[a] = api[q].want[a]

IInv ==
  /\ TypeOK /\ JobsInv /\ CountInv /\ SaveInv /\ InsertInv /\ OwnInv /\ LoopInv
  /\ NoListLost /\ RunsBounded
=============================================================================
