-------------------------- MODULE SchedulerProofs ---------------------------
(* Machine-checked proofs about Scheduler.tla, for every number of          *)
(* automations and phones, every length of a minute, every set of           *)
(* expressions and every time at which the clock stops.                     *)
EXTENDS Scheduler, TLAPS

-----------------------------------------------------------------------------
(* Facts about full minutes.                                                *)

\* The minute that the timer is set for is the first one after the clock.
LEMMA NextMinuteIs ==
  ASSUME NEW t \in Nat
  PROVE  /\ NextMinute(t) \in Nat /\ NextMinute(t) > t
         /\ NextMinute(t) % Period = 0
         /\ \A m \in Minutes : m > t => m >= NextMinute(t)
<1>. DEFINE q == t \div Period
<1>1. Period \in Nat \ {0} BY PeriodAssumption
<1>2. q \in Nat BY <1>1
<1>3. t = Period * q + (t % Period) /\ t % Period \in 0..(Period - 1) BY <1>1
<1>4. Period * (q + 1) = Period * q + Period BY <1>1, <1>2
<1>5. Period * (q + 1) \in Nat /\ Period * (q + 1) > t BY <1>1, <1>2, <1>3, <1>4
<1>6. (Period * (q + 1)) % Period = 0
  <2>. DEFINE n == Period * (q + 1)
  <2>1. n = Period * (n \div Period) + (n % Period) /\ n % Period \in 0..(Period - 1)
    BY <1>1, <1>5
  <2>. QED BY <1>1, <1>2, <2>1
<1>7. ASSUME NEW m \in Minutes, m > t
      PROVE  m >= Period * (q + 1)
  <2>1. m \in Nat /\ m % Period = 0 BY PeriodAssumption DEF Minutes, Times
  <2>2. m = Period * (m \div Period) /\ m \div Period \in Nat BY <1>1, <2>1
  <2>3. Period * (m \div Period) > Period * q BY <1>1, <1>2, <1>3, <1>7, <2>2
  <2>4. m \div Period > q BY <1>1, <1>2, <2>2, <2>3
  <2>. QED BY <1>1, <1>2, <2>2, <2>4
<1>. QED BY <1>5, <1>6, <1>7 DEF NextMinute

\* Two different minutes are a minute apart.
LEMMA MinutesApart ==
  ASSUME NEW m \in Minutes, NEW n \in Minutes, m < n
  PROVE  n - m >= Period
<1>. DEFINE a == m \div Period
            b == n \div Period
<1>1. Period \in Nat \ {0} BY PeriodAssumption
<1>2. m \in Nat /\ m % Period = 0 /\ n \in Nat /\ n % Period = 0
  BY PeriodAssumption DEF Minutes, Times
<1>3. m = Period * a /\ n = Period * b BY <1>1, <1>2
<1>4. a \in Nat /\ b \in Nat BY <1>1, <1>2
<1>5. a < b BY <1>1, <1>3, <1>4
<1>6. Period * (b - a) >= Period BY <1>1, <1>4, <1>5
<1>7. Period * (b - a) = Period * b - Period * a BY <1>1, <1>4
<1>. QED BY <1>3, <1>6, <1>7

\* A window holds one full minute, so two calls that are apart share none.
LEMMA OneMinute ==
  ASSUME NEW t \in Times, NEW m \in Minutes \cap Window(t), NEW n \in Minutes \cap Window(t)
  PROVE  m = n
<1>1. /\ m \in Int /\ n \in Int /\ t \in Int /\ Period \in Int
      /\ m > t - Period /\ m <= t /\ n > t - Period /\ n <= t
  BY PeriodAssumption DEF Window, Times
<1>2. ~(m < n) BY <1>1, MinutesApart
<1>3. ~(n < m) BY <1>1, MinutesApart
<1>. QED BY <1>1, <1>2, <1>3

LEMMA NoneShared ==
  ASSUME NEW k \in Call, NEW l \in Call, Apart(k, l), NEW m \in Minutes,
         m \in Window(k.at)
  PROVE  m \notin Window(l.at)
<1>1. k.at \in Times /\ l.at \in Times BY DEF Call
<1>2. PICK n \in Minutes : (k.at < n /\ n <= l.at) \/ (l.at < n /\ n <= k.at)
  BY DEF Apart
<1>3. m \in Int /\ n \in Int /\ k.at \in Int /\ l.at \in Int /\ Period \in Int
  BY <1>1, PeriodAssumption DEF Minutes, Times
<1>4. m > k.at - Period /\ m <= k.at BY DEF Window
<1>5. m < n => n - m >= Period BY MinutesApart
<1>6. n < m => m - n >= Period BY MinutesApart
<1>7. SUFFICES ASSUME m > l.at - Period, m <= l.at PROVE FALSE BY DEF Window
<1>. QED BY <1>2, <1>3, <1>4, <1>5, <1>6, <1>7

-----------------------------------------------------------------------------
(* The shape of the state, and the calls.                                   *)

\* Every step keeps the shape of the variables.
LEMMA TypeStep ==
  ASSUME TypeOK, Next
  PROVE  TypeOK'
<1>. USE DEF TypeOK
<1>1. CASE Pass
  <2>1. now + 1 \in Times BY <1>1, PeriodAssumption DEF Pass, Times
  <2>. QED BY <1>1, <2>1 DEF Pass, RunsAt
<1>2. CASE Tick
  <2>1. now \in Nat BY DEF Times
  <2>2. NextMinute(now) \in Nat BY <2>1, NextMinuteIs
  <2>3. [at |-> now, pc |-> "read", left |-> {}, cur |-> {}] \in Call BY DEF Call
  <2>. QED BY <1>2, <2>2, <2>3 DEF Tick, RunsAt
<1>3. CASE Stop
  <2>1. UNION {RunsAt(Window(k.at)) : k \in ticks} \subseteq Run BY DEF RunsAt
  <2>2. RunsAt({m \in Minutes : m >= timer /\ m <= now}) \subseteq Run BY DEF RunsAt
  <2>. QED BY <1>3, <2>1, <2>2 DEF Stop
<1>4. CASE Start
  <2>1. now \in Nat BY DEF Times
  <2>. QED BY <1>4, <2>1, NextMinuteIs DEF Start
<1>5. ASSUME NEW a \in Autos, Edit(a)
      PROVE  TypeOK'
  BY <1>5 DEF Edit
<1>6. ASSUME NEW k \in ticks, Read(k) \/ ReadFails(k) \/ Return(k)
      PROVE  TypeOK'
  <2>1. k \in Call OBVIOUS
  <2>2. CASE Read(k)
    <3>1. [k EXCEPT !.pc = "loop", !.left = {r \in Run : r.time \in Due(r.auto, k.at)}] \in Call
      BY <2>1 DEF Call
    <3>. QED BY <2>2, <3>1 DEF Read
  <2>3. CASE ReadFails(k) BY <2>3 DEF ReadFails, RunsAt
  <2>4. CASE Return(k) BY <2>4 DEF Return
  <2>. QED BY <1>6, <2>2, <2>3, <2>4
<1>7. ASSUME NEW k \in ticks, NEW r \in k.left, Enqueue(k, r) \/ EnqueueFails(k, r)
      PROVE  TypeOK'
  <2>1. k \in Call /\ r \in Run BY DEF Call
  <2>2. r.auto \in Autos /\ r.time \in Times BY <2>1 DEF Run
  <2>3. CASE Enqueue(k, r)
    <3>1. [k EXCEPT !.left = @ \ {r}, !.cur = {r.auto}] \in Call BY <2>1, <2>2 DEF Call
    <3>2. [fired EXCEPT ![r] = @ + 1] \in [Run -> Nat] BY <2>1
    <3>. QED BY <2>3, <3>1, <3>2 DEF Enqueue
  <2>4. CASE EnqueueFails(k, r)
    <3>1. [k EXCEPT !.left = {s \in @ : s.auto # r.auto}] \in Call BY <2>1 DEF Call
    <3>2. k.left \subseteq Run BY <2>1 DEF Call
    <3>. QED BY <2>2, <2>4, <3>1, <3>2 DEF EnqueueFails
  <2>. QED BY <1>7, <2>3, <2>4
<1>. QED BY <1>1, <1>2, <1>3, <1>4, <1>5, <1>6, <1>7 DEF Next

\* A call under way.
CallStep(k) ==
  \/ Read(k) \/ ReadFails(k) \/ Return(k)
  \/ \E r \in k.left : Enqueue(k, r) \/ EnqueueFails(k, r)

\* Its step takes it away, or leaves in its place one that read the same clock.
LEMMA CallMoves ==
  ASSUME NEW k \in ticks, TypeOK, CallStep(k)
  PROVE  /\ \E n : n.at = k.at /\ ticks' \subseteq (ticks \ {k}) \cup {n}
         /\ UNCHANGED <<now, timer, cron, since>>
<1>1. k \in Call BY DEF TypeOK
<1>2. CASE Read(k)
  <2>. DEFINE n == [k EXCEPT !.pc = "loop", !.left = {r \in Run : r.time \in Due(r.auto, k.at)}]
  <2>1. n.at = k.at BY <1>1 DEF Call
  <2>2. ticks' = (ticks \ {k}) \cup {n} BY <1>2 DEF Read
  <2>. QED BY <1>2, <2>1, <2>2 DEF Read
<1>3. CASE ReadFails(k) \/ Return(k)
  <2>1. ticks' \subseteq (ticks \ {k}) \cup {k} BY <1>3 DEF ReadFails, Return
  <2>. QED BY <1>3, <2>1 DEF ReadFails, Return
<1>4. ASSUME NEW r \in k.left, Enqueue(k, r)
      PROVE  /\ \E n : n.at = k.at /\ ticks' \subseteq (ticks \ {k}) \cup {n}
             /\ UNCHANGED <<now, timer, cron, since>>
  <2>. DEFINE n == [k EXCEPT !.left = @ \ {r}, !.cur = {r.auto}]
  <2>1. n.at = k.at BY <1>1 DEF Call
  <2>2. ticks' = (ticks \ {k}) \cup {n} BY <1>4 DEF Enqueue
  <2>. QED BY <1>4, <2>1, <2>2 DEF Enqueue
<1>5. ASSUME NEW r \in k.left, EnqueueFails(k, r)
      PROVE  /\ \E n : n.at = k.at /\ ticks' \subseteq (ticks \ {k}) \cup {n}
             /\ UNCHANGED <<now, timer, cron, since>>
  <2>. DEFINE n == [k EXCEPT !.left = {s \in @ : s.auto # r.auto}]
  <2>1. n.at = k.at BY <1>1 DEF Call
  <2>2. ticks' = (ticks \ {k}) \cup {n} BY <1>5 DEF EnqueueFails
  <2>. QED BY <1>5, <2>1, <2>2 DEF EnqueueFails
<1>. QED BY <1>2, <1>3, <1>4, <1>5 DEF CallStep

\* The steps of Next, with those of calls under way taken together.
LEMMA StepCases ==
  ASSUME Next
  PROVE  \/ Pass \/ Tick \/ Stop \/ Start
         \/ \E a \in Autos : Edit(a)
         \/ \E k \in ticks : CallStep(k)
BY DEF Next, CallStep

\* The timer stays ahead of the calls, and the calls apart.
LEMMA CallsStep ==
  ASSUME TypeOK, CallsInv, Next
  PROVE  CallsInv'
<1>. USE DEF CallsInv
<1>1. now \in Nat BY DEF TypeOK, Times
<1>2. \A k \in ticks : k.at \in Nat BY DEF TypeOK, Call, Times
<1>3. CASE Pass
  <2>1. now' = now + 1 /\ UNCHANGED <<timer, ticks>> BY <1>3 DEF Pass
  <2>2. \A m \in Minutes : m > now' => m > now BY <1>1, <2>1 DEF Minutes, Times
  <2>3. \A k \in ticks : k.at <= now' BY <1>1, <1>2, <2>1
  <2>4. \A k, l \in ticks' : k # l => Apart(k, l)' BY <2>1 DEF Apart
  <2>. QED BY <2>1, <2>2, <2>3, <2>4
<1>4. CASE Tick
  <2>. DEFINE n == [at |-> now, pc |-> "read", left |-> {}, cur |-> {}]
  <2>1. /\ timer # Down /\ now >= timer /\ now' = now
        /\ timer' = NextMinute(now) /\ ticks' = ticks \cup {n}
    BY <1>4 DEF Tick
  <2>2. timer \in Nat BY <2>1 DEF TypeOK
  <2>3. timer \in Minutes
    <3>1. now <= MaxTime BY DEF TypeOK, Times
    <3>2. timer \in Times BY <1>1, <2>1, <2>2, <3>1, PeriodAssumption DEF Times
    <3>3. timer % Period = 0 BY <2>1
    <3>. QED BY <3>2, <3>3 DEF Minutes
  <2>4. n.at = now OBVIOUS
  <2>. HIDE DEF n
  <2>5. /\ timer' \in Nat /\ timer' > now /\ timer' % Period = 0
        /\ \A m \in Minutes : m > now => m >= timer'
    BY <1>1, <2>1, NextMinuteIs
  <2>6. timer' # Down BY <2>5, DownAssumption
  <2>7. \A k \in ticks' : k.at <= now /\ k.at < timer'
    BY <1>1, <1>2, <2>1, <2>2, <2>4, <2>5
  <2>8. ASSUME NEW k \in ticks', NEW l \in ticks', k # l
        PROVE  Apart(k, l)
    <3>1. \A x \in ticks : x.at < timer /\ timer <= n.at BY <2>1, <2>4
    <3>2. \A x \in ticks : Apart(x, n) /\ Apart(n, x) BY <2>3, <3>1 DEF Apart
    <3>. QED BY <2>1, <2>8, <3>2
  <2>9. \A k, l \in ticks' : k # l => Apart(k, l)' BY <2>8 DEF Apart
  <2>. QED BY <2>1, <2>5, <2>6, <2>7, <2>9
<1>5. CASE Stop BY <1>5 DEF Stop
<1>6. CASE Start
  <2>1. timer = Down /\ timer' = NextMinute(now) /\ UNCHANGED <<now, ticks>>
    BY <1>6 DEF Start
  <2>2. ticks' = {} BY <2>1
  <2>3. timer' \in Nat /\ timer' % Period = 0 /\ \A m \in Minutes : m > now => m >= timer'
    BY <1>1, <2>1, NextMinuteIs
  <2>. QED BY <2>1, <2>2, <2>3, DownAssumption
<1>7. ASSUME NEW a \in Autos, Edit(a)
      PROVE  CallsInv'
  BY <1>7 DEF Edit, Apart
<1>8. ASSUME NEW k \in ticks, CallStep(k)
      PROVE  CallsInv'
  <2>1. PICK n : n.at = k.at /\ ticks' \subseteq (ticks \ {k}) \cup {n} BY <1>8, CallMoves
  <2>2. UNCHANGED <<now, timer>> BY <1>8, CallMoves
  <2>3. timer # Down BY <1>8
  <2>4. \A x \in ticks' : x.at <= now' /\ x.at < timer' BY <2>1, <2>2, <2>3
  <2>5. ASSUME NEW x \in ticks', NEW y \in ticks', x # y
        PROVE  Apart(x, y)
    <3>1. \A z \in ticks \ {k} : Apart(n, z) /\ Apart(z, n) BY <2>1 DEF Apart
    <3>. QED BY <2>1, <2>5, <3>1
  <2>6. \A x, y \in ticks' : x # y => Apart(x, y)' BY <2>5 DEF Apart
  <2>. QED BY <2>2, <2>3, <2>4, <2>6
<1>. QED BY <1>3, <1>4, <1>5, <1>6, <1>7, <1>8, StepCases

-----------------------------------------------------------------------------
(* What is left to enqueue, and what was fired.                             *)

\* A call that has found the automations has the due runs left.
LEMMA ReadMakes ==
  ASSUME NEW k \in ticks, TypeOK, Read(k)
  PROVE  \E n : /\ n.at = k.at /\ n.pc = "loop"
                /\ n.left = {r \in Run : r.time \in Due(r.auto, k.at)}
                /\ ticks' = (ticks \ {k}) \cup {n}
<1>. DEFINE n == [k EXCEPT !.pc = "loop", !.left = {r \in Run : r.time \in Due(r.auto, k.at)}]
<1>1. k \in Call BY DEF TypeOK
<1>2. /\ n.at = k.at /\ n.pc = "loop"
      /\ n.left = {r \in Run : r.time \in Due(r.auto, k.at)}
  BY <1>1 DEF Call
<1>3. ticks' = (ticks \ {k}) \cup {n} BY DEF Read
<1>. QED BY <1>2, <1>3

\* One that has enqueued a run, or failed to, has less left.
LEMMA EnqueueMakes ==
  ASSUME NEW k \in ticks, NEW r \in k.left, TypeOK, Enqueue(k, r)
  PROVE  \E n : /\ n.at = k.at /\ n.pc = k.pc /\ n.left = k.left \ {r}
                /\ ticks' = (ticks \ {k}) \cup {n}
<1>. DEFINE n == [k EXCEPT !.left = @ \ {r}, !.cur = {r.auto}]
<1>1. k \in Call BY DEF TypeOK
<1>2. n.at = k.at /\ n.pc = k.pc /\ n.left = k.left \ {r} BY <1>1 DEF Call
<1>3. ticks' = (ticks \ {k}) \cup {n} BY DEF Enqueue
<1>. QED BY <1>2, <1>3

LEMMA FailureMakes ==
  ASSUME NEW k \in ticks, NEW r \in k.left, TypeOK, EnqueueFails(k, r)
  PROVE  \E n : /\ n.at = k.at /\ n.pc = k.pc /\ n.left = {s \in k.left : s.auto # r.auto}
                /\ ticks' = (ticks \ {k}) \cup {n}
<1>. DEFINE n == [k EXCEPT !.left = {s \in @ : s.auto # r.auto}]
<1>1. k \in Call BY DEF TypeOK
<1>2. n.at = k.at /\ n.pc = k.pc /\ n.left = {s \in k.left : s.auto # r.auto}
  BY <1>1 DEF Call
<1>3. ticks' = (ticks \ {k}) \cup {n} BY DEF EnqueueFails
<1>. QED BY <1>2, <1>3

\* The part of LeftInv that is about one call.
LeftOf(k) ==
  /\ k.pc = "read" => k.left = {}
  /\ \A r \in k.left : r.time \in Window(k.at)
  /\ \A r, s \in k.left : r.auto = s.auto => r.time = s.time
  /\ \A r \in Run : r.time \in Minutes /\ Ahead(k, r) => fired[r] = 0

LEMMA LeftOfAll == LeftInv <=> \A k \in ticks : LeftOf(k)
BY DEF LeftInv, LeftOf

LEMMA LeftOfKept ==
  ASSUME NEW k, LeftOf(k), \A r \in Run : Ahead(k, r) => fired'[r] = fired[r]
  PROVE  LeftOf(k)'
BY DEF LeftOf, Ahead

\* A minute in the window of a late tick was not fired: it is not before
\* the minute that the timer was set for.
LEMMA WindowUnfired ==
  ASSUME TypeOK, CallsInv, FiredInv, Tick, NEW r \in Run,
         r.time \in Minutes, r.time \in Window(now)
  PROVE  fired[r] = 0
<1>1. timer # Down /\ now >= timer BY DEF Tick
<1>2. timer \in Nat /\ now \in Nat /\ now <= MaxTime /\ timer % Period = 0
  BY <1>1 DEF TypeOK, CallsInv, Times
<1>3. timer \in Times BY <1>1, <1>2, PeriodAssumption DEF Times
<1>4. timer \in Minutes BY <1>2, <1>3 DEF Minutes
<1>5. r.time < timer => timer - r.time >= Period BY <1>4, MinutesApart
<1>6. r.time \in Int /\ r.time > now - Period BY DEF Window, Minutes, Times
<1>7. ~(r.time < timer) BY <1>1, <1>2, <1>5, <1>6, PeriodAssumption
<1>8. ~(fired[r] > 0) BY <1>1, <1>7 DEF FiredInv
<1>. QED BY <1>8 DEF TypeOK

LEMMA LeftStep ==
  ASSUME TypeOK, CallsInv, LeftInv, FiredInv, Next
  PROVE  LeftInv'
<1>0. SUFFICES \A k \in ticks' : LeftOf(k)' BY DEF LeftInv, LeftOf
<1>1. \A k \in ticks : LeftOf(k) BY LeftOfAll
<1>2. CASE UNCHANGED fired /\ ticks' \subseteq ticks BY <1>1, <1>2, LeftOfKept
<1>3. CASE Tick
  <2>. DEFINE n == [at |-> now, pc |-> "read", left |-> {}, cur |-> {}]
  <2>1. ticks' = ticks \cup {n} /\ UNCHANGED fired BY <1>3 DEF Tick
  <2>2. n.at = now /\ n.pc = "read" /\ n.left = {} OBVIOUS
  <2>. HIDE DEF n
  <2>3. \A r \in Run : r.time \in Minutes /\ Ahead(n, r) => fired[r] = 0
    BY <1>3, <2>2, WindowUnfired DEF Ahead
  <2>4. LeftOf(n) BY <2>2, <2>3 DEF LeftOf
  <2>. QED BY <1>1, <2>1, <2>4, LeftOfKept
<1>4. ASSUME NEW k \in ticks, Read(k)
      PROVE  \A l \in ticks' : LeftOf(l)'
  <2>1. PICK n : /\ n.at = k.at /\ n.pc = "loop"
                 /\ n.left = {r \in Run : r.time \in Due(r.auto, k.at)}
                 /\ ticks' = (ticks \ {k}) \cup {n}
    BY <1>4, ReadMakes
  <2>2. UNCHANGED fired /\ k.pc = "read" BY <1>4 DEF Read
  <2>3. ASSUME NEW r \in n.left
        PROVE  r \in Run /\ r.time \in Due(r.auto, k.at) /\ r.time \in Window(k.at)
    BY <2>1 DEF Due
  <2>4. ASSUME NEW r \in n.left, NEW s \in n.left, r.auto = s.auto
        PROVE  r.time = s.time
    <3>1. r.time \in Due(r.auto, k.at) /\ s.time \in Due(r.auto, k.at) BY <2>3, <2>4
    <3>2. r.time <= s.time /\ s.time <= r.time BY <3>1 DEF Due
    <3>3. r.time \in Int /\ s.time \in Int BY <2>3 DEF Run, Times
    <3>. QED BY <3>2, <3>3
  <2>5. \A r \in Run : Ahead(n, r) => Ahead(k, r) BY <2>1, <2>2, <2>3 DEF Ahead
  <2>6. LeftOf(n) BY <1>1, <2>1, <2>3, <2>4, <2>5 DEF LeftOf
  <2>. QED BY <1>1, <2>1, <2>2, <2>6, LeftOfKept
<1>5. ASSUME NEW k \in ticks, NEW r \in k.left, EnqueueFails(k, r)
      PROVE  \A l \in ticks' : LeftOf(l)'
  <2>1. PICK n : /\ n.at = k.at /\ n.pc = k.pc
                 /\ n.left = {s \in k.left : s.auto # r.auto}
                 /\ ticks' = (ticks \ {k}) \cup {n}
    BY <1>5, FailureMakes
  <2>2. UNCHANGED fired BY <1>5 DEF EnqueueFails
  <2>3. LeftOf(n) BY <1>1, <2>1 DEF LeftOf, Ahead
  <2>. QED BY <1>1, <2>1, <2>2, <2>3, LeftOfKept
<1>6. ASSUME NEW k \in ticks, NEW r \in k.left, Enqueue(k, r)
      PROVE  \A l \in ticks' : LeftOf(l)'
  <2>1. PICK n : /\ n.at = k.at /\ n.pc = k.pc /\ n.left = k.left \ {r}
                 /\ ticks' = (ticks \ {k}) \cup {n}
    BY <1>6, EnqueueMakes
  <2>2. fired' = [fired EXCEPT ![r] = @ + 1] BY <1>6 DEF Enqueue
  <2>3. \A s \in Run \ {r} : fired'[s] = fired[s] BY <2>2 DEF TypeOK
  <2>4. k.pc # "read" /\ r.time \in Window(k.at) BY <1>1 DEF LeftOf
  <2>5. LeftOf(n) BY <1>1, <2>1, <2>4 DEF LeftOf, Ahead
  <2>6. ~Ahead(n, r) BY <2>1, <2>4 DEF Ahead
  <2>7. LeftOf(n)' BY <2>3, <2>5, <2>6, LeftOfKept
  <2>8. ASSUME NEW l \in ticks \ {k}
        PROVE  LeftOf(l)'
    <3>1. CASE r.time \in Minutes
      <4>1. k \in Call /\ l \in Call /\ Apart(k, l) BY DEF TypeOK, CallsInv
      <4>2. r.time \notin Window(l.at) BY <2>4, <3>1, <4>1, NoneShared
      <4>. QED BY <1>1, <2>3, <4>2, LeftOfKept DEF Ahead
    <3>2. CASE r.time \notin Minutes
      <4>1. \A s \in Run : s.time \in Minutes => fired'[s] = fired[s] BY <2>3, <3>2
      <4>. QED BY <1>1, <4>1 DEF LeftOf, Ahead
    <3>. QED BY <3>1, <3>2
  <2>. QED BY <2>1, <2>7, <2>8
<1>7. ASSUME NEW k \in ticks, ReadFails(k) \/ Return(k)
      PROVE  UNCHANGED fired /\ ticks' \subseteq ticks
  BY <1>7 DEF ReadFails, Return
<1>8. CASE Pass \/ Stop \/ Start \/ \E a \in Autos : Edit(a)
  <2>1. UNCHANGED fired /\ ticks' \subseteq ticks BY <1>8 DEF Pass, Stop, Start, Edit
  <2>. QED BY <1>2, <2>1
<1>. QED BY <1>2, <1>3, <1>4, <1>5, <1>6, <1>7, <1>8 DEF Next

\* Only a call enqueues, and it looked no further than the clock.
LEMMA FiredStep ==
  ASSUME TypeOK, CallsInv, LeftInv, FiredInv, NeverTwice, Next
  PROVE  FiredInv' /\ NeverTwice'
<1>. USE DEF FiredInv, NeverTwice
<1>1. now \in Nat /\ fired \in [Run -> Nat] BY DEF TypeOK, Times
<1>2. \A r \in Run : r.time \in Nat BY DEF Run, Times
<1>3. CASE UNCHANGED fired
  <2>1. \/ now' = now + 1 /\ timer' = timer
        \/ now' = now /\ (timer' = timer \/ timer' = Down \/ timer' = NextMinute(now))
    <3>1. CASE Pass \/ Tick \/ Stop \/ Start BY <3>1 DEF Pass, Tick, Stop, Start
    <3>2. CASE \E a \in Autos : Edit(a) BY <3>2 DEF Edit
    <3>3. CASE \E k \in ticks : CallStep(k) BY <3>3, CallMoves
    <3>. QED BY <3>1, <3>2, <3>3, StepCases
  <2>3. NextMinute(now) \in Nat /\ NextMinute(now) > now BY <1>1, NextMinuteIs
  <2>4. \A r \in Run : fired[r] > 0 => r.time <= now' BY <1>1, <1>2, <2>1
  <2>5. \A r \in Run : fired[r] > 0 /\ timer' # Down => r.time < timer'
    BY <1>1, <1>2, <2>1, <2>3
  <2>. QED BY <1>3, <2>4, <2>5
<1>4. ASSUME NEW k \in ticks, NEW r \in k.left, Enqueue(k, r)
      PROVE  FiredInv' /\ NeverTwice'
  <2>1. /\ r \in Run /\ k.at \in Nat /\ k.at <= now
        /\ timer # Down => timer \in Nat /\ k.at < timer
    BY DEF TypeOK, Call, CallsInv, Times
  <2>2. r.time \in Window(k.at) BY DEF LeftInv
  <2>3. r.time <= k.at BY <2>2 DEF Window
  <2>4. /\ fired' = [fired EXCEPT ![r] = @ + 1] /\ UNCHANGED <<now, timer>>
    BY <1>4 DEF Enqueue
  <2>5. fired'[r] = fired[r] + 1 /\ \A s \in Run \ {r} : fired'[s] = fired[s]
    BY <1>1, <2>1, <2>4
  <2>6. r.time \in Minutes => fired[r] = 0 BY <2>1, <2>2 DEF LeftInv, Ahead
  <2>7. r.time <= now /\ (timer # Down => r.time < timer) BY <1>1, <1>2, <2>1, <2>3
  <2>8. FiredInv' BY <2>4, <2>5, <2>7
  <2>9. NeverTwice' BY <2>5, <2>6
  <2>. QED BY <2>8, <2>9
<1>5. UNCHANGED fired \/ \E k \in ticks : \E r \in k.left : Enqueue(k, r)
  BY DEF Next, Pass, Tick, Stop, Start, Edit, Read, ReadFails, Return, EnqueueFails
<1>. QED BY <1>3, <1>4, <1>5

\* A step of a call leaves what is owed fired, or ahead of a call.
LEMMA ServedByCall ==
  ASSUME TypeOK, CallsInv, LeftInv, ServedInv, NEW k \in ticks, CallStep(k),
         NEW r \in Run, Owed(r)'
  PROVE  fired'[r] = 1 \/ \E l \in ticks' : Ahead(l, r)
<1>1. excused \subseteq excused' /\ ticks \ {k} \subseteq ticks'
  BY DEF CallStep, Read, ReadFails, Return, Enqueue, EnqueueFails
<1>2. UNCHANGED <<now, timer, cron, since>> BY CallMoves
<1>3. Owed(r) BY <1>1, <1>2 DEF Owed
<1>4. r.time \in Minutes /\ fired \in [Run -> Nat] BY <1>3 DEF Owed, TypeOK
<1>5. CASE fired[r] = 1
  <2>1. CASE UNCHANGED fired BY <1>5, <2>1
  <2>2. ASSUME NEW s \in k.left, Enqueue(k, s)
        PROVE  fired'[r] = 1
    <3>1. s \in Run /\ fired' = [fired EXCEPT ![s] = @ + 1] BY <2>2 DEF Enqueue, TypeOK, Call
    <3>2. Ahead(k, s) BY DEF LeftInv, Ahead
    <3>3. s # r BY <1>4, <1>5, <3>2 DEF LeftInv
    <3>. QED BY <1>4, <1>5, <3>1, <3>3
  <2>. QED BY <2>1, <2>2 DEF CallStep, Read, ReadFails, Return, EnqueueFails
<1>6. ASSUME NEW l \in ticks, Ahead(l, r), l # k
      PROVE  \E m \in ticks' : Ahead(m, r)
  BY <1>1, <1>6
<1>7. CASE Ahead(k, r)
  <2>1. k.at \in Times /\ r.time \in Window(k.at) /\ fired[r] = 0
    BY <1>4, <1>7 DEF Ahead, LeftInv, TypeOK, Call
  <2>2. CASE Read(k)
    <3>1. PICK n : /\ n.at = k.at /\ n.pc = "loop"
                   /\ n.left = {s \in Run : s.time \in Due(s.auto, k.at)}
                   /\ ticks' = (ticks \ {k}) \cup {n}
      BY <2>2, ReadMakes
    <3>2. \A u \in cron[r.auto] \cap Window(k.at) : u = r.time
      BY <1>3, <1>4, <2>1, OneMinute DEF Owed
    <3>3. r.time \in Int BY DEF Run, Times
    <3>4. r.time \in cron[r.auto] \cap Window(k.at) BY <1>3, <2>1 DEF Owed
    <3>5. r.time \in Due(r.auto, k.at) BY <3>2, <3>3, <3>4 DEF Due
    <3>6. Ahead(n, r) BY <2>1, <3>1, <3>5 DEF Ahead
    <3>. QED BY <3>1, <3>6
  <2>3. ASSUME NEW s \in k.left, Enqueue(k, s)
        PROVE  fired'[r] = 1 \/ \E l \in ticks' : Ahead(l, r)
    <3>1. PICK n : /\ n.at = k.at /\ n.pc = k.pc /\ n.left = k.left \ {s}
                   /\ ticks' = (ticks \ {k}) \cup {n}
      BY <2>3, EnqueueMakes
    <3>2. fired' = [fired EXCEPT ![s] = @ + 1] BY <2>3 DEF Enqueue
    <3>3. CASE r = s BY <1>4, <2>1, <3>2, <3>3
    <3>4. CASE r # s
      <4>1. Ahead(n, r) BY <1>7, <3>1, <3>4 DEF Ahead
      <4>. QED BY <3>1, <4>1
    <3>. QED BY <3>3, <3>4
  <2>4. ASSUME NEW s \in k.left, EnqueueFails(k, s)
        PROVE  \E l \in ticks' : Ahead(l, r)
    <3>1. PICK n : /\ n.at = k.at /\ n.pc = k.pc
                   /\ n.left = {t \in k.left : t.auto # s.auto}
                   /\ ticks' = (ticks \ {k}) \cup {n}
      BY <2>4, FailureMakes
    <3>2. {t \in k.left : t.auto = s.auto} \subseteq excused' BY <2>4 DEF EnqueueFails
    <3>3. r \notin excused' BY DEF Owed
    <3>4. k.pc # "read" /\ r \in k.left BY <1>7 DEF LeftInv, Ahead
    <3>5. r.auto # s.auto BY <3>2, <3>3, <3>4
    <3>6. Ahead(n, r) BY <2>1, <3>1, <3>4, <3>5 DEF Ahead
    <3>. QED BY <3>1, <3>6
  <2>5. ~ReadFails(k) BY <2>1 DEF ReadFails, Owed, RunsAt
  <2>6. ~Return(k) BY <1>7 DEF Return, Ahead
  <2>. QED BY <2>2, <2>3, <2>4, <2>5, <2>6 DEF CallStep
<1>. QED BY <1>3, <1>5, <1>6, <1>7 DEF ServedInv

LEMMA ServedStep ==
  ASSUME TypeOK, CallsInv, LeftInv, ServedInv, Next
  PROVE  ServedInv'
<1>. SUFFICES ASSUME NEW r \in Run, Owed(r)'
              PROVE  fired'[r] = 1 \/ \E k \in ticks' : Ahead(k, r)
  BY DEF ServedInv, Ahead
<1>1. now \in Nat /\ r.time \in Nat BY DEF TypeOK, Times, Run
<1>2. Owed(r) => fired[r] = 1 \/ \E k \in ticks : Ahead(k, r) BY DEF ServedInv
<1>3. CASE Pass
  <2>1. /\ now' = now + 1 /\ UNCHANGED <<timer, cron, ticks, fired, since>>
        /\ timer = Down => RunsAt({now + 1}) \subseteq excused'
        /\ excused \subseteq excused'
    BY <1>3 DEF Pass
  <2>2. r.time # now + 1
    <3>1. CASE timer = Down BY <2>1, <3>1 DEF Owed, RunsAt
    <3>2. CASE timer # Down
      <4>1. timer \in Nat /\ r.time < timer /\ r.time \in Minutes
        BY <2>1, <3>2 DEF Owed, TypeOK
      <4>2. r.time > now => r.time >= timer BY <3>2, <4>1 DEF CallsInv
      <4>. QED BY <1>1, <4>1, <4>2
    <3>. QED BY <3>1, <3>2
  <2>3. r.time <= now BY <1>1, <2>1, <2>2 DEF Owed
  <2>4. Owed(r) BY <2>1, <2>3 DEF Owed
  <2>. QED BY <1>2, <2>1, <2>4
<1>4. CASE Tick
  <2>. DEFINE n == [at |-> now, pc |-> "read", left |-> {}, cur |-> {}]
  <2>1. /\ timer # Down /\ ticks' = ticks \cup {n}
        /\ excused' = excused \cup RunsAt({m \in Minutes : m >= timer /\ m <= now - Period})
        /\ UNCHANGED <<now, cron, fired, since>>
    BY <1>4 DEF Tick
  <2>2. timer \in Nat /\ Period \in Nat BY <2>1, PeriodAssumption DEF TypeOK
  <2>3. CASE r.time < timer
    <3>1. Owed(r) BY <2>1, <2>3 DEF Owed
    <3>. QED BY <1>2, <2>1, <3>1
  <2>4. CASE r.time >= timer
    <3>1. r.time \in Minutes /\ r.time <= now BY <2>1 DEF Owed
    <3>2. ~(r.time <= now - Period) BY <2>1, <2>4, <3>1 DEF Owed, RunsAt
    <3>3. r.time \in Window(now) BY <1>1, <2>2, <3>1, <3>2 DEF Window, Minutes
    <3>4. Ahead(n, r) BY <3>3 DEF Ahead
    <3>. QED BY <2>1, <3>4
  <2>. QED BY <1>1, <2>2, <2>3, <2>4
<1>5. CASE Stop
  <2>1. /\ timer # Down /\ UNCHANGED <<now, cron, fired, since>>
        /\ excused' = excused \cup RunsAt({m \in Minutes : m >= timer /\ m <= now})
                              \cup UNION {RunsAt(Window(k.at)) : k \in ticks}
    BY <1>5 DEF Stop
  <2>2. timer \in Nat BY <2>1 DEF TypeOK
  <2>3. r.time \in Minutes /\ r.time <= now /\ r \notin excused' BY <2>1 DEF Owed
  <2>4. r.time < timer BY <1>1, <2>1, <2>2, <2>3 DEF RunsAt
  <2>5. Owed(r) BY <2>1, <2>4 DEF Owed
  <2>6. \A k \in ticks : r.time \notin Window(k.at) BY <2>1, <2>3 DEF RunsAt
  <2>. QED BY <1>2, <2>1, <2>5, <2>6 DEF Ahead
<1>6. CASE Start
  <2>1. timer = Down /\ UNCHANGED <<now, cron, ticks, fired, since, excused>>
    BY <1>6 DEF Start
  <2>2. Owed(r) BY <2>1 DEF Owed
  <2>. QED BY <1>2, <2>1, <2>2
<1>7. ASSUME NEW a \in Autos, Edit(a)
      PROVE  fired'[r] = 1 \/ \E k \in ticks' : Ahead(k, r)
  <2>1. /\ since' = [since EXCEPT ![a] = now] /\ UNCHANGED <<now, timer, ticks, fired, excused>>
        /\ \E S \in Crons \cup {{}} : cron' = [cron EXCEPT ![a] = S]
    BY <1>7 DEF Edit
  <2>2. r.auto \in Autos /\ since \in [Autos -> Times] /\ cron \in [Autos -> Crons \cup {{}}]
    BY DEF TypeOK, Run
  <2>3. r.auto # a
    <3>1. SUFFICES ASSUME r.auto = a PROVE FALSE OBVIOUS
    <3>2. since'[r.auto] = now BY <2>1, <2>2, <3>1
    <3>3. since'[r.auto] < r.time /\ r.time <= now BY <2>1 DEF Owed
    <3>. QED BY <1>1, <3>2, <3>3
  <2>4. since'[r.auto] = since[r.auto] /\ cron'[r.auto] = cron[r.auto] BY <2>1, <2>2, <2>3
  <2>5. Owed(r) BY <2>1, <2>4 DEF Owed
  <2>. QED BY <1>2, <2>1, <2>5
<1>8. ASSUME NEW k \in ticks, CallStep(k)
      PROVE  fired'[r] = 1 \/ \E l \in ticks' : Ahead(l, r)
  BY <1>8, ServedByCall
<1>. QED BY <1>3, <1>4, <1>5, <1>6, <1>7, <1>8, StepCases

-----------------------------------------------------------------------------
(* The theorems.                                                            *)

LEMMA InitInv == Init => IInv
<1>. SUFFICES ASSUME Init PROVE IInv OBVIOUS
<1>. USE DEF Init
<1>1. TypeOK BY PeriodAssumption DEF TypeOK, Times, RunsAt
<1>2. CallsInv BY DEF CallsInv
<1>3. LeftInv BY DEF LeftInv
<1>4. FiredInv /\ NeverTwice BY DEF FiredInv, NeverTwice
<1>5. ServedInv
  <2>1. ASSUME NEW r \in Run PROVE ~Owed(r)
    <3>1. cron[r.auto] = {} BY DEF Run
    <3>. QED BY <3>1 DEF Owed
  <2>. QED BY <2>1 DEF ServedInv
<1>. QED BY <1>1, <1>2, <1>3, <1>4, <1>5 DEF IInv

\* A step that changes nothing keeps the invariant.
LEMMA Stutter ==
  ASSUME IInv, UNCHANGED vars
  PROVE  IInv'
BY DEF IInv, vars, TypeOK, CallsInv, Apart, LeftInv, FiredInv, NeverTwice, ServedInv, Owed, Ahead

LEMMA NextInv ==
  ASSUME IInv, Next
  PROVE  IInv'
<1>. USE DEF IInv
<1>1. TypeOK' BY TypeStep
<1>2. CallsInv' BY CallsStep
<1>3. LeftInv' BY LeftStep
<1>4. FiredInv' /\ NeverTwice' BY FiredStep
<1>5. ServedInv' BY ServedStep
<1>. QED BY <1>1, <1>2, <1>3, <1>4, <1>5

\* The invariant holds of every state of the scheduler.
THEOREM Inductive == Spec => []IInv
<1>1. IInv /\ [Next]_vars => IInv' BY NextInv, Stutter
<1>. QED BY <1>1, InitInv, PTL DEF Spec

\* The variables of tick() and its timer keep their shape.
THEOREM TypeCorrect == Spec => []TypeOK
<1>1. IInv => TypeOK BY DEF IInv
<1>. QED BY <1>1, Inductive, PTL

\* However late the timer comes, calls of tick() overlap or the process
\* restarts, a minute is enqueued at most once per automation and phone.
THEOREM FiredOnce == Spec => []NeverTwice
<1>1. IInv => NeverTwice BY DEF IInv
<1>. QED BY <1>1, Inductive, PTL

\* The windows of tick() leave no minute out: what was owed is enqueued once
\* the calls under way have returned.
THEOREM NoneMissed == Spec => []EachMinuteServed
<1>1. IInv => EachMinuteServed BY DEF IInv, ServedInv, EachMinuteServed
<1>. QED BY <1>1, Inductive, PTL
=============================================================================
