----------------------------- MODULE Scheduler ------------------------------
(***************************************************************************)
(* The automation scheduler of                                             *)
(* src/src/modules/automations/automation.scheduler.ts: a cron timer calls *)
(* tick() once a minute, tick() looks which cron expressions name a time   *)
(* in the minute before now, and enqueues a run per target phone.          *)
(*                                                                         *)
(* Time is counted in units of which Period make a minute.  The timer of   *)
(* @nestjs/schedule is set for a full minute and comes late by as much as  *)
(* the event loop is busy; then it is set for the next full minute to      *)
(* come.  tick() reads the clock first and the automations afterwards, so  *)
(* one call may still be at work when the next begins.                     *)
(***************************************************************************)
EXTENDS Integers, FiniteSets

CONSTANTS Autos,     \* the scheduled automations
          Phones,    \* their target phones
          Period,    \* a minute, in units of the clock
          MaxTime,   \* bound: when the clock stops
          Crons,     \* the expressions in use, each as the times it names
          Down

Times   == 0..MaxTime
Minutes == {t \in Times : t % Period = 0}

ASSUME PeriodAssumption == Period \in Nat \ {0} /\ MaxTime \in Nat
ASSUME CronsAssumption  == Crons \subseteq SUBSET Times
ASSUME DownAssumption   == Down \notin Nat

VARIABLES
  now,       \* the clock
  timer,     \* the minute the timer is set for, Down when the process is
  cron,      \* the times the expression of an active automation names
  ticks,     \* the calls of tick() under way
  fired,     \* runs enqueued, per automation, time and phone
  since,     \* when an automation was last edited (not in the code)
  excused    \* runs that something went wrong with (not in the code)

vars == <<now, timer, cron, ticks, fired, since, excused>>

-----------------------------------------------------------------------------
(* What a call of tick() looks for.                                        *)

\* The run that an automation's due time asks for, for one of its phones.
Run == [auto : Autos, time : Times, phone : Phones]

\* A call: the clock as it read it, and the runs it still has to enqueue.
Call == [at : Times, pc : {"read", "loop"}, left : SUBSET Run, cur : SUBSET Autos]

\* Mutant: windowStart itself counts.
WindowClosed(at) == {t \in Times : t >= at - Period /\ t <= at}

\* next > windowStart && next <= now
Window(at) == {t \in Times : t > at - Period /\ t <= at}

\* interval.next(): the first time of the expression in the window, if any.
Due(a, at) ==
  {t \in cron[a] \cap Window(at) : \A u \in cron[a] \cap Window(at) : t <= u}

NextMinute(t) == Period * (t \div Period + 1)

\* The runs for the times of T, whatever the automation and phone.
RunsAt(T) == {r \in Run : r.time \in T}

-----------------------------------------------------------------------------
(* tick().                                                                 *)

\* The timer fires, on time or late.
Tick ==
  /\ timer # Down /\ now >= timer
  /\ ticks' = ticks \cup {[at |-> now, pc |-> "read", left |-> {}, cur |-> {}]}
  /\ timer' = NextMinute(now)
  /\ excused' = excused \cup RunsAt({m \in Minutes : m >= timer /\ m <= now - Period})
  /\ UNCHANGED <<now, cron, fired, since>>

\* Mutant: a call takes the clock when the automations are there.
ReadLate(k) ==
  /\ k \in ticks /\ k.pc = "read"
  /\ ticks' = (ticks \ {k}) \cup
       {[at |-> now, pc |-> "loop", cur |-> {},
         left |-> {r \in Run : r.time \in Due(r.auto, now)}]}
  /\ UNCHANGED <<now, timer, cron, fired, since, excused>>

\* The active automations are found and their expressions evaluated.
Read(k) ==
  /\ k \in ticks /\ k.pc = "read"
  /\ ticks' = (ticks \ {k}) \cup
       {[k EXCEPT !.pc = "loop", !.left = {r \in Run : r.time \in Due(r.auto, k.at)}]}
  /\ UNCHANGED <<now, timer, cron, fired, since, excused>>

\* The runs of one automation are enqueued before those of another.
Turn(k, a) == (\E r \in k.left : r.auto \in k.cur) => a \in k.cur

Enqueue(k, r) ==
  /\ k \in ticks /\ r \in k.left /\ Turn(k, r.auto)
  /\ fired' = [fired EXCEPT ![r] = @ + 1]
  /\ ticks' = (ticks \ {k}) \cup {[k EXCEPT !.left = @ \ {r}, !.cur = {r.auto}]}
  /\ UNCHANGED <<now, timer, cron, since, excused>>

\* Mutant: the try block is around the loop over the automations.
FailureEndsTick(k, r) ==
  /\ k \in ticks /\ r \in k.left /\ Turn(k, r.auto)
  /\ ticks' = (ticks \ {k}) \cup {[k EXCEPT !.left = {}]}
  /\ excused' = excused \cup {s \in k.left : s.auto = r.auto}
  /\ UNCHANGED <<now, timer, cron, fired, since>>

\* enqueueRun throws: caught and logged as an invalid cron, and the rest of
\* this automation's phones are passed over.
EnqueueFails(k, r) ==
  /\ k \in ticks /\ r \in k.left /\ Turn(k, r.auto)
  /\ ticks' = (ticks \ {k}) \cup {[k EXCEPT !.left = {s \in @ : s.auto # r.auto}]}
  /\ excused' = excused \cup {s \in k.left : s.auto = r.auto}
  /\ UNCHANGED <<now, timer, cron, fired, since>>

Return(k) ==
  /\ k \in ticks /\ k.pc = "loop" /\ k.left = {}
  /\ ticks' = ticks \ {k}
  /\ UNCHANGED <<now, timer, cron, fired, since, excused>>

\* automations.find rejects, and the call with it.
ReadFails(k) ==
  /\ k \in ticks /\ k.pc = "read"
  /\ ticks' = ticks \ {k}
  /\ excused' = excused \cup RunsAt(Window(k.at))
  /\ UNCHANGED <<now, timer, cron, fired, since>>

-----------------------------------------------------------------------------
(* The clock, the users, and the process.                                  *)

Pass ==
  /\ now < MaxTime
  /\ now' = now + 1
  /\ excused' = IF timer = Down THEN excused \cup RunsAt({now + 1}) ELSE excused
  /\ UNCHANGED <<timer, cron, ticks, fired, since>>

\* create, update, setActive and remove change what tick() finds.
Edit(a) ==
  /\ \E S \in Crons \cup {{}} : cron' = [cron EXCEPT ![a] = S]
  /\ since' = [since EXCEPT ![a] = now]
  /\ UNCHANGED <<now, timer, ticks, fired, excused>>

\* The timer and the calls under way are gone with the process.
Stop ==
  /\ timer # Down
  /\ timer' = Down /\ ticks' = {}
  /\ excused' = excused \cup RunsAt({m \in Minutes : m >= timer /\ m <= now})
                        \cup UNION {RunsAt(Window(k.at)) : k \in ticks}
  /\ UNCHANGED <<now, cron, fired, since>>

Start ==
  /\ timer = Down
  /\ timer' = NextMinute(now)
  /\ UNCHANGED <<now, cron, ticks, fired, since, excused>>

-----------------------------------------------------------------------------
Init ==
  /\ now = 0 /\ timer = Down
  /\ cron = [a \in Autos |-> {}]
  /\ ticks = {}
  /\ fired = [r \in Run |-> 0]
  /\ since = [a \in Autos |-> 0]
  /\ excused = RunsAt({0})

Next ==
  \/ Pass \/ Tick \/ Stop \/ Start
  \/ \E a \in Autos : Edit(a)
  \/ \E k \in ticks : Read(k) \/ ReadFails(k) \/ Return(k)
  \/ \E k \in ticks : \E r \in k.left : Enqueue(k, r) \/ EnqueueFails(k, r)

Spec == Init /\ [][Next]_vars

-----------------------------------------------------------------------------
(* Properties.                                                             *)

\* Every variable keeps the shape the code gives it.
TypeOK ==
  /\ now \in Times
  /\ timer \in Nat \cup {Down}
  /\ cron \in [Autos -> Crons \cup {{}}]
  /\ ticks \in SUBSET Call
  /\ fired \in [Run -> Nat]
  /\ since \in [Autos -> Times]
  /\ excused \in SUBSET Run

\* A full minute, the grain of a five-field expression, is fired at most once
\* for a phone, however late the timer comes, calls overlap or the process
\* restarts.  (A time within the minute, of a six-field expression, is in the
\* windows of two calls when the first one comes late.)
NeverTwice == \A r \in Run : r.time \in Minutes => fired[r] <= 1

\* The run of a phone for a minute of an expression that is past, and that the
\* timer has come by, with nothing against it: the process was up, the tick not
\* more than a minute late, the database did not fail, nor the queue at an
\* earlier run of this automation, and the automation was not edited since.
Owed(r) ==
  /\ r.time \in cron[r.auto] \cap Minutes /\ cron[r.auto] \subseteq Minutes
  /\ since[r.auto] < r.time /\ r.time <= now
  /\ timer # Down => r.time < timer
  /\ r \notin excused

\* When no call is under way, each minute that was owed to a phone was fired
\* for it: a tick that is late by less than a minute, or that overlaps the
\* one before, loses none, and a failure at one automation loses none of the
\* others.
EachMinuteServed == ticks = {} => \A r \in Run : Owed(r) => fired[r] = 1

-----------------------------------------------------------------------------
(* The inductive invariant behind both.                                    *)

\* A full minute lies between two calls, so that no minute is in both windows.
Apart(k, l) == \E m \in Minutes : (k.at < m /\ m <= l.at) \/ (l.at < m /\ m <= k.at)

\* The timer is set for a full minute, ahead of every call and no later than
\* the next; a full minute lies between two calls.
CallsInv ==
  /\ timer = Down => ticks = {}
  /\ timer # Down =>
       /\ timer % Period = 0
       /\ \A m \in Minutes : m > now => m >= timer
       /\ \A k \in ticks : k.at < timer
  /\ \A k \in ticks : k.at <= now
  /\ \A k, l \in ticks : k # l => Apart(k, l)

\* A call that has r in its window has still to find it, or to enqueue it.
Ahead(k, r) == r.time \in Window(k.at) /\ (k.pc = "read" \/ r \in k.left)

\* A call enqueues what its window holds, one time per automation; a minute
\* that it has still to enqueue was not fired.
LeftInv ==
  \A k \in ticks :
    /\ k.pc = "read" => k.left = {}
    /\ \A r \in k.left : r.time \in Window(k.at)
    /\ \A r, s \in k.left : r.auto = s.auto => r.time = s.time
    /\ \A r \in Run : r.time \in Minutes /\ Ahead(k, r) => fired[r] = 0

\* What was fired is past, and once the timer is set, before it.
FiredInv ==
  \A r \in Run :
    fired[r] > 0 => r.time <= now /\ (timer # Down => r.time < timer)

\* What is owed was fired, or some call has it ahead.
ServedInv == \A r \in Run : Owed(r) => fired[r] = 1 \/ \E k \in ticks : Ahead(k, r)

IInv == TypeOK /\ CallsInv /\ LeftInv /\ FiredInv /\ NeverTwice /\ ServedInv
=============================================================================
