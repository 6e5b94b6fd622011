-------------------------- MODULE ActionEngineProofs --------------------------
(* Machine-checked proofs about ActionEngine.tla, for every set of action   *)
(* lists: lists of any length, with any orders and any jumps.               *)
EXTENDS ActionEngine, FiniteSetTheorems, WellFoundedInduction, TLAPS

-----------------------------------------------------------------------------
(* Sorting.                                                                 *)

\* l[i] comes before l[k], or is it, after a stable sort.
Before(l, i, k) ==
  l[i].order < l[k].order \/ (l[i].order = l[k].order /\ i <= k)

\* Every order of an action is an integer.
LEMMA OrderType ==
  ASSUME NEW l \in Seq(Action), NEW i \in 1..Len(l)
  PROVE  l[i].order \in Int
<1>1. l[i] \in Action OBVIOUS
<1>. QED BY <1>1, OrdersAssumption DEF Action

\* A rank is a place in the list.
LEMMA RankType ==
  ASSUME NEW l \in Seq(Action), NEW i \in 1..Len(l)
  PROVE  Rank(l, i) \in 1..Len(l)
<1>. DEFINE B == {k \in 1..Len(l) : Before(l, k, i)}
<1>1. Rank(l, i) = Cardinality(B) BY DEF Rank, Before
<1>2. IsFiniteSet(1..Len(l)) /\ Cardinality(1..Len(l)) = Len(l)
  <2>1. Len(l) \in Nat /\ 1 \in Int OBVIOUS
  <2>. HIDE DEF B
  <2>2. Cardinality(1..Len(l)) = IF 1 > Len(l) THEN 0 ELSE Len(l) - 1 + 1
    BY <2>1, FS_Interval
  <2>. QED BY <2>1, <2>2, FS_Interval, SMTT(30)
<1>3. IsFiniteSet(B) /\ Cardinality(B) <= Len(l) BY <1>2, FS_Subset
<1>4. i \in B BY OrderType DEF Before
<1>5. Cardinality(B) \in Nat /\ Cardinality(B) # 0
  BY <1>3, <1>4, FS_CardinalityType, FS_EmptySet
<1>. QED BY <1>1, <1>3, <1>5

\* Of two actions, the one that comes before the other has the lower rank.
LEMMA RankStrict ==
  ASSUME NEW l \in Seq(Action), NEW i \in 1..Len(l), NEW k \in 1..Len(l),
         Before(l, i, k), i # k
  PROVE  Rank(l, i) < Rank(l, k)
<1>. DEFINE B(x) == {m \in 1..Len(l) : Before(l, m, x)}
<1>1. Rank(l, i) = Cardinality(B(i)) /\ Rank(l, k) = Cardinality(B(k))
  BY DEF Rank, Before
<1>2. IsFiniteSet(1..Len(l)) BY FS_Interval
<1>3. IsFiniteSet(B(k)) BY <1>2, FS_Subset
<1>4. ASSUME NEW m \in B(i) PROVE m \in B(k)
  <2>1. l[m].order \in Int /\ l[i].order \in Int /\ l[k].order \in Int BY OrderType
  <2>. QED BY <1>4, <2>1 DEF Before
<1>5. k \in B(k) /\ k \notin B(i)
  <2>1. l[i].order \in Int /\ l[k].order \in Int BY OrderType
  <2>. QED BY <2>1 DEF Before
<1>6. B(i) \in SUBSET B(k) /\ B(i) # B(k) BY <1>4, <1>5
<1>7. Cardinality(B(i)) <= Cardinality(B(k)) /\ Cardinality(B(i)) # Cardinality(B(k))
  BY <1>3, <1>6, FS_Subset
<1>8. Rank(l, i) \in 1..Len(l) /\ Rank(l, k) \in 1..Len(l) BY RankType
<1>. QED BY <1>1, <1>7, <1>8

\* Every place of the sorted list is the rank of some action.
LEMMA RankOnto ==
  ASSUME NEW l \in Seq(Action), NEW r \in 1..Len(l)
  PROVE  \E i \in 1..Len(l) : Rank(l, i) = r
<1>. DEFINE D == 1..Len(l)
            f == [i \in D |-> Rank(l, i)]
<1>1. f \in [D -> D] BY RankType
<1>2. ASSUME NEW i \in D, NEW k \in D, f[i] = f[k] PROVE i = k
  <2>1. l[i].order \in Int /\ l[k].order \in Int BY OrderType
  <2>2. Before(l, i, k) \/ Before(l, k, i) BY <2>1 DEF Before
  <2>3. Rank(l, i) \in Int /\ Rank(l, k) \in Int BY RankType
  <2>. QED BY <1>2, <2>2, <2>3, RankStrict
<1>3. f \in Injection(D, D) BY <1>1, <1>2 DEF Injection, IsInjective
<1>4. IsFiniteSet(D) BY FS_Interval
<1>5. f \in Surjection(D, D) BY <1>3, <1>4, FS_Injection
<1>. QED BY <1>5 DEF Surjection

\* Sorting keeps the length and yields actions, by ascending order.
LEMMA SortedType ==
  ASSUME NEW l \in Seq(Action)
  PROVE  /\ Sorted(l) \in Seq(Action)
         /\ Len(Sorted(l)) = Len(l)
         /\ \A r \in 1..Len(l), s \in 1..Len(l) :
              r < s => Sorted(l)[r].order <= Sorted(l)[s].order
<1>. DEFINE at(r) == CHOOSE i \in 1..Len(l) : Rank(l, i) = r
<1>1. \A r \in 1..Len(l) : at(r) \in 1..Len(l) /\ Rank(l, at(r)) = r BY RankOnto
<1>2. Sorted(l) = [r \in 1..Len(l) |-> l[at(r)]] BY DEF Sorted
<1>. HIDE DEF at
<1>3. \A r \in 1..Len(l) : l[at(r)] \in Action BY <1>1
<1>4. Sorted(l) \in Seq(Action) /\ Len(Sorted(l)) = Len(l) BY <1>2, <1>3
<1>5. ASSUME NEW r \in 1..Len(l), NEW s \in 1..Len(l), r < s
      PROVE  Sorted(l)[r].order <= Sorted(l)[s].order
  <2>1. at(r) \in 1..Len(l) /\ at(s) \in 1..Len(l) BY <1>1
  <2>2. l[at(r)].order \in Int /\ l[at(s)].order \in Int BY <2>1, OrderType
  <2>3. ~(Before(l, at(s), at(r)) /\ at(s) # at(r))
    BY <1>1, <1>5, <2>1, RankStrict, SMTT(30)
  <2>4. at(s) # at(r) BY <1>1, <1>5
  <2>. QED BY <1>2, <2>1, <2>2, <2>3, <2>4 DEF Before
<1>. QED BY <1>4, <1>5

-----------------------------------------------------------------------------
(* Jumping.                                                                 *)

\* A set of naturals has a least element.
LEMMA Least ==
  ASSUME NEW T \in SUBSET Nat, T # {}
  PROVE  \E x \in T : \A y \in T : x <= y
<1>. DEFINE R == OpToRel(<, Nat)
<1>1. \E x \in T : \A y \in T : <<y, x>> \notin R
  <2>. HIDE DEF R
  <2>1. IsWellFoundedOn(R, Nat) BY NatLessThanWellFounded DEF R
  <2>. QED BY <2>1, WFMin
<1>2. \A x, y \in Nat : <<y, x>> \notin R => x <= y BY DEF OpToRel
<1>. QED BY <1>1, <1>2

\* A jump leads into the list, or just behind it.
LEMMA IndexType ==
  ASSUME NEW s \in Seq(Action), NEW o
  PROVE  IndexOf(s, o) \in 1..(Len(s) + 1)
<1>. DEFINE at == {i \in 1..Len(s) : s[i].order = o}
<1>1. CASE at = {} BY <1>1 DEF IndexOf
<1>2. CASE at # {}
  <2>1. at \in SUBSET Nat OBVIOUS
  <2>2. \E i \in at : \A k \in at : i <= k BY <1>2, <2>1, Least
  <2>3. IndexOf(s, o) = CHOOSE i \in at : \A k \in at : i <= k BY <1>2 DEF IndexOf
  <2>4. IndexOf(s, o) \in at BY <2>2, <2>3
  <2>. QED BY <2>4
<1>. QED BY <1>1, <1>2

LEMMA AfterType ==
  ASSUME TypeOK, NEW i \in 1..Len(sorted)
  PROVE  After(i) \in 1..(Len(sorted) + 1)
<1>1. sorted \in Seq(Action) BY DEF TypeOK
<1>. QED BY <1>1, IndexType DEF After

-----------------------------------------------------------------------------
(* The inductive invariant.                                                 *)

LEMMA InitInv == Init => IInv
<1>. SUFFICES ASSUME Init PROVE IInv OBVIOUS
<1>. USE DEF Init
<1>1. TypeOK BY DEF TypeOK
<1>2. StepsInv BY DEF StepsInv, MaxSteps
<1>3. ChainInv /\ PeriodInv /\ EndInv BY DEF ChainInv, PeriodInv, EndInv
<1>. QED BY <1>1, <1>2, <1>3 DEF IInv

\* A run that starts: nothing executed yet.
LEMMA StartInv == IInv /\ Start => IInv'
<1>. SUFFICES ASSUME IInv, Start PROVE IInv' OBVIOUS
<1>1. PICK l \in Lists :
        /\ list' = l /\ sorted' = Sorted(l)
        /\ truth' \in [1..Len(l) -> BOOLEAN]
        /\ asked' = [i \in 1..Len(l) |-> 0] /\ answered' = [i \in 1..Len(l) |-> 0]
        /\ logged' = [i \in 1..Len(l) |-> 0]
  BY DEF Start
<1>2. index' = 1 /\ steps' = 0 /\ trace' = <<>> /\ pc' = "loop" BY DEF Start
<1>3. l \in Seq(Action) BY ListsAssumption
<1>4. sorted' \in Seq(Action) /\ Len(sorted') = Len(l) BY <1>1, <1>3, SortedType
<1>5. TypeOK'
  <2>1. Len(l) \in Nat BY <1>3
  <2>. QED BY <1>1, <1>2, <1>3, <1>4, <2>1 DEF TypeOK
<1>6. StepsInv' BY <1>1, <1>2, <1>3, <1>4 DEF StepsInv, MaxSteps
<1>7. ChainInv' /\ PeriodInv' /\ EndInv' BY <1>2 DEF ChainInv, PeriodInv, EndInv
<1>. QED BY <1>5, <1>6, <1>7 DEF IInv

\* An action is begun: what it adds to the trace goes on the chain, and with
\* it the period of a run that repeats.
LEMMA BeginsInv ==
  ASSUME IInv, Begins(Kinds),
         \/ index' = After(index) /\ pc' = "loop"
         \/ index' = index /\ pc' \in {"log", "thrown"},
         asked' \in [1..Len(sorted) -> Nat], answered' \in [1..Len(sorted) -> Nat],
         UNCHANGED logged
  PROVE  IInv'
<1>. DEFINE n == Len(sorted)
            m == Len(trace)
<1>1. /\ TypeOK /\ StepsInv /\ ChainInv /\ PeriodInv
      /\ pc = "loop" /\ index \in 1..n /\ steps < MaxSteps(sorted)
      /\ steps' = steps + 1 /\ trace' = Append(trace, index)
      /\ UNCHANGED <<list, truth, sorted>>
  BY DEF IInv, Begins, Goes, TypeOK
<1>2. trace \in Seq(1..n) /\ n \in Nat /\ m \in Nat /\ steps \in Nat
  BY <1>1 DEF TypeOK
<1>3. /\ trace' \in Seq(1..n) /\ Len(trace') = m + 1
      /\ trace'[m + 1] = index
      /\ \A k \in 1..m : trace'[k] = trace[k]
  BY <1>1, <1>2
<1>4. \A k \in 1..(m + 1) :
        After(trace[k])' = IF k = m + 1 THEN After(index) ELSE After(trace[k])
  BY <1>1, <1>2, <1>3 DEF After, Jump
<1>5. TypeOK'
  <2>1. After(index) \in 1..(n + 1) BY <1>1, AfterType
  <2>2. index' \in 1..(n + 1) BY <1>1, <2>1
  <2>. QED BY <1>1, <1>2, <1>3, <2>2 DEF TypeOK
<1>6. StepsInv'
  <2>1. MaxSteps(sorted) \in Nat /\ MaxSteps(sorted)' = MaxSteps(sorted)
    BY <1>1, <1>2 DEF MaxSteps
  <2>. QED BY <1>1, <1>2, <1>3, <2>1 DEF StepsInv
<1>7. m > 0 => index = After(trace[m]) BY <1>1, <1>2 DEF ChainInv
<1>8. ChainInv'
  <2>1. ASSUME NEW k \in 1..(m + 1), k < m + 1
        PROVE  (trace[k + 1] = After(trace[k]))'
    <3>1. k \in 1..m BY <1>2, <2>1
    <3>2. CASE k = m BY <1>3, <1>4, <1>7, <3>1, <3>2
    <3>3. CASE k < m
      <4>1. trace[k + 1] = After(trace[k]) BY <1>1, <3>1, <3>3 DEF ChainInv
      <4>2. k + 1 \in 1..m BY <1>2, <3>1, <3>3
      <4>. QED BY <1>3, <1>4, <3>1, <4>1, <4>2
    <3>4. k = m \/ k < m BY <1>2, <3>1
    <3>. QED BY <3>2, <3>3, <3>4
  <2>2. trace' # <<>> /\ trace'[Len(trace')] = index BY <1>2, <1>3
  <2>3. After(trace[Len(trace)])' = After(index) BY <1>1, <2>2 DEF After, Jump
  <2>. QED BY <1>3, <2>1, <2>2, <2>3 DEF ChainInv
<1>9. PeriodInv'
  <2>1. ASSUME NEW a \in 1..(m + 1), NEW b \in 1..(m + 1), a < b, trace'[a] = trace'[b]
        PROVE  trace'[(m + 1) - (b - a)] = trace'[m + 1]
    <3>1. a \in 1..m BY <1>2, <2>1
    <3>2. CASE b = m + 1
      <4>1. (m + 1) - (b - a) = a BY <1>2, <3>1, <3>2
      <4>. QED BY <2>1, <3>2, <4>1
    <3>3. CASE b \in 1..m
      <4>. DEFINE p == m - (b - a)
      <4>1. trace[a] = trace[b] BY <1>3, <2>1, <3>1, <3>3
      <4>2. trace[p] = trace[m] BY <1>1, <2>1, <3>1, <3>3, <4>1 DEF PeriodInv
      <4>3. p \in 1..m /\ p < m /\ p + 1 = (m + 1) - (b - a)
        BY <1>2, <2>1, <3>1, <3>3
      <4>. HIDE DEF p
      <4>4. trace[p + 1] = After(trace[p]) BY <1>1, <4>3 DEF ChainInv
      <4>5. p + 1 \in 1..m /\ m > 0 BY <1>2, <4>3
      <4>. QED BY <1>3, <1>7, <4>2, <4>3, <4>4, <4>5
    <3>4. b = m + 1 \/ b \in 1..m BY <1>2
    <3>. QED BY <3>2, <3>3, <3>4
  <2>. QED BY <1>3, <2>1 DEF PeriodInv
<1>10. EndInv' BY DEF EndInv
<1>. QED BY <1>5, <1>6, <1>8, <1>9, <1>10 DEF IInv

\* What leaves the list, the trace and the steps alone.
LEMMA FrameInv ==
  ASSUME IInv, UNCHANGED <<list, truth, sorted, steps, trace>>,
         logged' \in [1..Len(sorted) -> Nat], UNCHANGED <<asked, answered>>,
         \/ pc = "log" /\ pc' = "loop" /\ index' = After(index)
         \/ pc = "loop" /\ pc' = "ended" /\ index' = index /\ ~Goes
         \/ pc' = pc /\ index' = index
  PROVE  IInv'
<1>1. TypeOK /\ StepsInv /\ ChainInv /\ PeriodInv /\ EndInv BY DEF IInv
<1>2. \A i \in 1..Len(sorted) : After(i)' = After(i) BY DEF After, Jump
<1>3. trace \in Seq(1..Len(sorted)) /\ Len(sorted) \in Nat BY <1>1 DEF TypeOK
<1>4. pc = "log" => trace # <<>> /\ index = trace[Len(trace)] BY <1>1 DEF ChainInv
<1>5. pc = "log" => index \in 1..Len(sorted) BY <1>3, <1>4
<1>6. pc = "log" => After(index) \in 1..(Len(sorted) + 1) BY <1>1, <1>5, AfterType
<1>7. TypeOK' BY <1>1, <1>6 DEF TypeOK
<1>8. StepsInv' BY <1>1 DEF StepsInv, MaxSteps
<1>9. \A k \in 1..Len(trace) : After(trace[k])' = After(trace[k]) BY <1>2, <1>3
<1>10. trace # <<>> => Len(trace) \in 1..Len(trace) BY <1>3
<1>11. ChainInv' BY <1>1, <1>2, <1>4, <1>5, <1>9, <1>10 DEF ChainInv
<1>12. PeriodInv' BY <1>1 DEF PeriodInv
<1>13. EndInv' BY <1>1 DEF EndInv, Goes, MaxSteps
<1>. QED BY <1>7, <1>8, <1>11, <1>12, <1>13 DEF IInv

LEMMA NextInv == IInv /\ [Next]_vars => IInv'
<1>. SUFFICES ASSUME IInv, [Next]_vars PROVE IInv' OBVIOUS
<1>. DEFINE N == [1..Len(sorted) -> Nat]
<1>1. asked \in N /\ answered \in N /\ logged \in N BY DEF IInv, TypeOK
<1>2. \A f \in N, i \in 1..Len(sorted) : [f EXCEPT ![i] = @ + 1] \in N OBVIOUS
<1>3. ASSUME NEW K \in SUBSET Kinds, Begins(K)
      PROVE  /\ Begins(Kinds)
             /\ pc = "loop" /\ index \in 1..Len(sorted)
  BY <1>3 DEF Begins, Goes, IInv, TypeOK
<1>4. CASE Start BY <1>4, StartInv
<1>5. CASE Branch
  <2>1. Begins(Kinds) /\ pc = "loop" BY <1>3, <1>5 DEF Branch, Kinds
  <2>. QED BY <1>1, <1>5, <2>1, BeginsInv DEF Branch
<1>6. CASE Delay
  <2>1. Begins(Kinds) /\ pc = "loop" BY <1>3, <1>6 DEF Delay, Kinds
  <2>. QED BY <1>1, <1>6, <2>1, BeginsInv DEF Delay
<1>7. CASE Send
  <2>1. Begins(Kinds) /\ pc = "loop" /\ index \in 1..Len(sorted)
    BY <1>3, <1>7 DEF Send, Kinds, Messages
  <2>2. asked' \in N /\ answered' \in N BY <1>1, <1>2, <1>7, <2>1 DEF Send
  <2>. QED BY <1>7, <2>1, <2>2, BeginsInv DEF Send
<1>8. CASE Log
  <2>1. index \in 1..Len(sorted)
    <3>1. trace \in Seq(1..Len(sorted)) /\ trace # <<>> /\ index = trace[Len(trace)]
      BY <1>8 DEF Log, IInv, TypeOK, ChainInv
    <3>. QED BY <3>1
  <2>2. logged' \in N BY <1>1, <1>2, <1>8, <2>1 DEF Log
  <2>. QED BY <1>8, <2>2, FrameInv DEF Log
<1>9. CASE Throws
  <2>1. Begins(Kinds) /\ index \in 1..Len(sorted)
    BY <1>3, <1>9 DEF Throws, Kinds, Messages
  <2>2. asked' \in N /\ answered' \in N BY <1>1, <1>2, <1>9, <2>1 DEF Throws
  <2>. QED BY <1>9, <2>1, <2>2, BeginsInv DEF Throws
<1>10. CASE End BY <1>1, <1>10, FrameInv DEF End
<1>11. CASE UNCHANGED vars BY <1>1, <1>11, FrameInv DEF vars
<1>. QED BY <1>4, <1>5, <1>6, <1>7, <1>8, <1>9, <1>10, <1>11 DEF Next, Step

\* IInv is an invariant of every run.
THEOREM Inductive == Spec => []IInv
BY InitInv, NextInv, PTL DEF Spec

\* Every variable keeps its shape: in particular the index stays within the
\* list or just behind it, wherever conditions jump.
THEOREM TypeCorrect == Spec => []TypeOK
<1>1. IInv => TypeOK BY DEF IInv
<1>. QED BY <1>1, Inductive, PTL

\* "Guard against infinite loops": no run of any list executes more than four
\* times as many actions as the list has, and ten.
THEOREM StepsBounded == Spec => []StepBound
<1>1. IInv => StepBound BY DEF IInv, StepsInv, StepBound, MaxSteps
<1>. QED BY <1>1, Inductive, PTL

-----------------------------------------------------------------------------
(* The budget cuts off loops, and nothing else.                             *)

\* A run that executed an action twice does not get out of the list.
LEMMA LoopedStays ==
  ASSUME IInv, pc = "ended", Looped
  PROVE  index <= Len(sorted)
<1>. DEFINE m == Len(trace)
<1>1. trace \in Seq(1..Len(sorted)) /\ m \in Nat /\ Len(sorted) \in Nat
  BY DEF IInv, TypeOK
<1>2. PICK a \in 1..m, b \in 1..m : a < b /\ trace[a] = trace[b] BY DEF Looped
<1>. DEFINE p == m - (b - a)
<1>3. trace[p] = trace[m] BY <1>2 DEF IInv, PeriodInv
<1>4. p \in 1..m /\ p < m BY <1>1, <1>2
<1>. HIDE DEF p
<1>5. trace[p + 1] = After(trace[p]) BY <1>4 DEF IInv, ChainInv
<1>6. index = After(trace[m])
  <2>1. trace # <<>> BY <1>1, <1>2
  <2>. QED BY <2>1 DEF IInv, ChainInv
<1>7. p + 1 \in 1..m BY <1>1, <1>4
<1>8. index = trace[p + 1] BY <1>3, <1>5, <1>6
<1>. QED BY <1>1, <1>7, <1>8

\* A run that is cut executed some action twice: it executed more actions
\* than the list has.
LEMMA CutLooped ==
  ASSUME IInv, pc = "ended", index <= Len(sorted)
  PROVE  Looped
<1>. DEFINE m == Len(trace)
            n == Len(sorted)
<1>1. trace \in [1..m -> 1..n] /\ m \in Nat /\ n \in Nat BY DEF IInv, TypeOK
<1>2. m >= 4 * n + 10 BY <1>1 DEF IInv, EndInv, Goes, StepsInv, MaxSteps
<1>. HIDE DEF m, n
<1>3. IsFiniteSet(1..m) /\ IsFiniteSet(1..n) BY <1>1, FS_Interval
<1>4. Cardinality(1..m) = m /\ Cardinality(1..n) = n
  <2>1. Cardinality(1..m) = IF 1 > m THEN 0 ELSE m - 1 + 1 BY <1>1, FS_Interval
  <2>2. Cardinality(1..n) = IF 1 > n THEN 0 ELSE n - 1 + 1 BY <1>1, FS_Interval
  <2>. QED BY <1>1, <2>1, <2>2
<1>5. n < m BY <1>1, <1>2
<1>6. \E x, y \in 1..m : x # y /\ trace[x] = trace[y]
  BY <1>1, <1>3, <1>4, <1>5, FS_PigeonHole
<1>. QED BY <1>1, <1>6 DEF Looped, m

\* The budget of run() cuts off exactly the runs that came back to an action:
\* no other run is cut short, and one that gets to the end repeated nothing.
THEOREM LoopsCut == Spec => []CutIffLoop
<1>1. IInv => CutIffLoop BY LoopedStays, CutLooped DEF CutIffLoop
<1>. QED BY <1>1, Inductive, PTL

-----------------------------------------------------------------------------
(* What was asked, answered and logged.                                     *)

\* As long as no error ended the run, OpenWA answered for a message each time
\* its action was executed; the one just answered is not logged yet.
MatchInv ==
  /\ pc = "log" => logged[index] < answered[index]
  /\ \A i \in 1..Len(sorted) :
       /\ logged[i] <= answered[i] /\ answered[i] <= asked[i] /\ asked[i] <= Times(i)
       /\ pc # "thrown" /\ sorted[i].kind \in Messages => answered[i] = Times(i)

\* Executing the action at the index adds one to its count, and to no other.
LEMMA TimesStep ==
  ASSUME TypeOK, index \in 1..Len(sorted), trace' = Append(trace, index),
         NEW i \in 1..Len(sorted)
  PROVE  Times(i) \in Nat /\ Times(i)' = IF i = index THEN Times(i) + 1 ELSE Times(i)
<1>. DEFINE S == {k \in 1..Len(trace) : trace[k] = i}
            n == Len(trace) + 1
            T == {k \in 1..n : trace'[k] = i}
<1>1. trace \in Seq(1..Len(sorted)) /\ Len(trace) \in Nat BY DEF TypeOK
<1>2. /\ Len(trace') = n /\ trace'[n] = index
      /\ \A k \in 1..Len(trace) : trace'[k] = trace[k]
  BY <1>1
<1>3. IsFiniteSet(S) /\ n \notin S /\ Cardinality(S) \in Nat
  <2>1. IsFiniteSet(1..Len(trace)) BY <1>1, FS_Interval
  <2>2. IsFiniteSet(S) BY <2>1, FS_Subset
  <2>3. n \notin S BY <1>1
  <2>. QED BY <2>2, <2>3, FS_CardinalityType
<1>4. 1..n = 1..Len(trace) \cup {n} BY <1>1
<1>5. Times(i)' = Cardinality(T) BY <1>2 DEF Times
<1>6. Times(i) = Cardinality(S) BY DEF Times
<1>. HIDE DEF n
<1>7. CASE i = index
  <2>1. T = S \cup {n} BY <1>2, <1>4, <1>7
  <2>. QED BY <1>3, <1>5, <1>6, <1>7, <2>1, FS_AddElement
<1>8. CASE i # index
  <2>1. T = S BY <1>2, <1>4, <1>8
  <2>. QED BY <1>3, <1>5, <1>6, <1>8, <2>1
<1>. QED BY <1>7, <1>8

LEMMA MatchStep ==
  ASSUME IInv, MatchInv, [Next]_vars
  PROVE  MatchInv'
<1>1. /\ index \in 1..(Len(sorted) + 1) /\ Len(sorted) \in Nat
      /\ \A i \in 1..Len(sorted) : asked[i] \in Nat /\ answered[i] \in Nat /\ logged[i] \in Nat
      /\ DOMAIN asked = 1..Len(sorted) /\ DOMAIN answered = 1..Len(sorted)
      /\ DOMAIN logged = 1..Len(sorted)
  <2>1. /\ sorted \in Seq(Action) /\ index \in 1..(Len(sorted) + 1)
        /\ asked \in [1..Len(sorted) -> Nat] /\ answered \in [1..Len(sorted) -> Nat]
        /\ logged \in [1..Len(sorted) -> Nat]
    BY DEF IInv, TypeOK
  <2>2. Len(sorted) \in Nat BY <2>1
  <2>. QED BY <2>1, <2>2
<1>2. CASE Start
  <2>1. PICK l \in Lists :
          /\ asked' = [i \in 1..Len(l) |-> 0] /\ answered' = [i \in 1..Len(l) |-> 0]
          /\ logged' = [i \in 1..Len(l) |-> 0]
          /\ sorted' = Sorted(l) /\ trace' = <<>> /\ pc' = "loop"
    BY <1>2 DEF Start
  <2>2. Len(sorted') = Len(l) BY <2>1, SortedType, ListsAssumption
  <2>3. \A i \in 1..Len(l) : Times(i)' = 0
    <3>1. TAKE i \in 1..Len(l)
    <3>2. {k \in 1..Len(trace') : trace'[k] = i} = {} BY <2>1
    <3>. QED BY <3>2, FS_EmptySet DEF Times
  <2>. QED BY <2>1, <2>2, <2>3 DEF MatchInv
<1>3. ASSUME NEW kinds, Begins(kinds)
      PROVE  /\ index \in 1..Len(sorted) /\ sorted[index].kind \in kinds
             /\ pc = "loop" /\ sorted' = sorted
             /\ \A i \in 1..Len(sorted) :
                  /\ Times(i) \in Nat
                  /\ Times(i)' = IF i = index THEN Times(i) + 1 ELSE Times(i)
  <2>1. index \in 1..Len(sorted) BY <1>1, <1>3 DEF Begins, Goes
  <2>2. TypeOK /\ trace' = Append(trace, index) BY <1>3 DEF IInv, Begins
  <2>. QED BY <1>3, <2>1, <2>2, TimesStep DEF Begins
<1>4. CASE Branch \/ Delay
  <2>1. /\ UNCHANGED <<asked, answered, logged, pc>>
        /\ Begins({"condition"}) \/ Begins({"delay"})
    BY <1>4 DEF Branch, Delay
  <2>2. \A k \in {"condition", "delay"} : k \notin Messages BY DEF Messages
  <2>3. /\ pc = "loop" /\ sorted' = sorted /\ sorted[index].kind \notin Messages
        /\ \A i \in 1..Len(sorted) :
             /\ Times(i) \in Nat
             /\ Times(i)' = IF i = index THEN Times(i) + 1 ELSE Times(i)
    BY <1>3, <2>1, <2>2
  <2>. QED BY <1>1, <2>1, <2>3 DEF MatchInv
<1>5. CASE Send \/ Throws
  <2>1. /\ index \in 1..Len(sorted) /\ pc = "loop" /\ sorted' = sorted
        /\ \A i \in 1..Len(sorted) :
             /\ Times(i) \in Nat
             /\ Times(i)' = IF i = index THEN Times(i) + 1 ELSE Times(i)
    BY <1>3, <1>5 DEF Send, Throws
  <2>2. /\ logged' = logged
        /\ \A i \in 1..Len(sorted) \ {index} : asked'[i] = asked[i] /\ answered'[i] = answered[i]
        /\ asked'[index] \in {asked[index], asked[index] + 1}
    <3>1. logged' = logged BY <1>5 DEF Send, Throws
    <3>2. asked' = asked \/ asked' = [asked EXCEPT ![index] = asked[index] + 1]
      BY <1>5 DEF Send, Throws
    <3>3. answered' = answered \/ answered' = [answered EXCEPT ![index] = answered[index] + 1]
      BY <1>5 DEF Send, Throws
    <3>. QED BY <1>1, <2>1, <3>1, <3>2, <3>3
  <2>3. CASE Send
    <3>1. /\ asked'[index] = asked[index] + 1 /\ answered'[index] = answered[index] + 1
          /\ pc' \in {"log", "loop"} /\ (pc' = "log" => index' = index)
          /\ sorted[index].kind \in Messages
      BY <1>1, <2>1, <1>3, <2>3 DEF Send
    <3>2. /\ answered[index] = Times(index) /\ asked[index] = Times(index)
          /\ logged[index] <= answered[index]
      <4>1. /\ answered[index] = Times(index) /\ answered[index] <= asked[index]
            /\ asked[index] <= Times(index) /\ logged[index] <= answered[index]
        BY <2>1, <3>1 DEF MatchInv
      <4>. QED BY <1>1, <2>1, <4>1
    <3>3. logged[index] < answered[index] + 1 BY <1>1, <2>1, <3>2
    <3>4. ASSUME NEW i \in 1..Len(sorted)
          PROVE  /\ logged'[i] <= answered'[i] /\ answered'[i] <= asked'[i]
                 /\ asked'[i] <= Times(i)'
                 /\ sorted[i].kind \in Messages => answered'[i] = Times(i)'
      <4>1. CASE i = index BY <1>1, <2>1, <2>2, <3>1, <3>2, <4>1
      <4>2. CASE i # index BY <2>1, <2>2, <4>2 DEF MatchInv
      <4>. QED BY <4>1, <4>2
    <3>5. pc' = "log" => logged'[index'] < answered'[index'] BY <2>2, <3>1, <3>3
    <3>. QED BY <2>1, <3>4, <3>5 DEF MatchInv
  <2>4. CASE Throws
    <3>1. pc' = "thrown" /\ answered' = answered BY <2>4 DEF Throws
    <3>2. /\ asked[index] <= Times(index) /\ answered[index] <= asked[index]
          /\ logged[index] <= answered[index]
      BY <2>1 DEF MatchInv
    <3>3. asked'[index] <= Times(index) + 1 /\ answered[index] <= asked'[index]
      BY <1>1, <2>1, <2>2, <3>2
    <3>. QED BY <1>1, <2>1, <2>2, <3>1, <3>2, <3>3 DEF MatchInv
  <2>. QED BY <1>5, <2>3, <2>4
<1>6. CASE Log
  <2>1. /\ pc = "log" /\ pc' = "loop" /\ UNCHANGED <<sorted, trace, asked, answered>>
        /\ logged' \in {logged, [logged EXCEPT ![index] = @ + 1]}
    BY <1>6 DEF Log
  <2>2. \A i : Times(i)' = Times(i) BY <2>1 DEF Times
  <2>3. logged[index] < answered[index] BY <2>1 DEF MatchInv
  <2>4. \A i \in 1..Len(sorted) : logged'[i] <= answered[i]
    <3>1. TAKE i \in 1..Len(sorted)
    <3>2. logged[i] <= answered[i] BY DEF MatchInv
    <3>3. logged'[i] = logged[i] \/ (i = index /\ logged'[i] = logged[i] + 1) BY <1>1, <2>1
    <3>. QED BY <1>1, <2>3, <3>2, <3>3
  <2>. QED BY <2>1, <2>2, <2>4 DEF MatchInv
<1>7. CASE End
  <2>1. /\ pc = "loop" /\ pc' = "ended" /\ UNCHANGED <<sorted, trace, asked, answered, logged>>
    BY <1>7 DEF End
  <2>. QED BY <2>1 DEF MatchInv, Times
<1>8. CASE UNCHANGED vars BY <1>8 DEF MatchInv, Times, vars
<1>. QED BY <1>2, <1>4, <1>5, <1>6, <1>7, <1>8 DEF Next, Step

\* log() shows no message that OpenWA did not answer for, none is asked for more
\* often than its action is executed, and a run that ends without an error had
\* an answer for each time it executed one.
THEOREM MessagesLogged == Spec => []MessagesMatch
<1>1. Init => MatchInv BY DEF Init, MatchInv
<1>2. IInv /\ MatchInv /\ [Next]_vars => MatchInv' BY MatchStep
<1>3. MatchInv => MessagesMatch BY DEF MatchInv, MessagesMatch
<1>. QED BY <1>1, <1>2, <1>3, Inductive, PTL DEF Spec

-----------------------------------------------------------------------------
(* The order of a run without jumps.                                        *)

\* sort() is stable: each action is found at its rank.
LEMMA SortIsStable ==
  ASSUME NEW l \in Seq(Action)
  PROVE  StablySorted(l, Sorted(l))
<1>. DEFINE n == Len(l)
            place == [i \in 1..n |-> Rank(l, i)]
<1>1. place \in [1..n -> 1..n] BY RankType
<1>2. ASSUME NEW i \in 1..n, NEW k \in 1..n, Rank(l, i) = Rank(l, k)
      PROVE  i = k
  <2>1. l[i].order \in Int /\ l[k].order \in Int BY OrderType
  <2>2. Before(l, i, k) \/ Before(l, k, i) BY <2>1 DEF Before
  <2>3. Rank(l, i) \in Int /\ Rank(l, k) \in Int BY RankType
  <2>. QED BY <1>2, <2>2, <2>3, RankStrict
<1>3. ASSUME NEW i \in 1..n PROVE Sorted(l)[place[i]] = l[i]
  <2>. DEFINE r == Rank(l, i)  at == CHOOSE k \in 1..n : Rank(l, k) = r
  <2>1. r \in 1..n BY RankType
  <2>2. at \in 1..n /\ Rank(l, at) = r OBVIOUS
  <2>3. at = i BY <1>2, <2>2
  <2>4. Sorted(l)[r] = l[at] BY <2>1 DEF Sorted
  <2>. QED BY <2>3, <2>4
<1>4. ASSUME NEW i \in 1..n, NEW k \in 1..n, i < k
      PROVE  IF l[i].order <= l[k].order THEN place[i] < place[k] ELSE place[k] < place[i]
  <2>1. l[i].order \in Int /\ l[k].order \in Int BY OrderType
  <2>2. CASE l[i].order <= l[k].order
    <3>1. Before(l, i, k) /\ i # k BY <1>4, <2>1, <2>2 DEF Before
    <3>. QED BY <2>2, <3>1, RankStrict
  <2>3. CASE ~(l[i].order <= l[k].order)
    <3>1. Before(l, k, i) /\ i # k BY <1>4, <2>1, <2>3 DEF Before
    <3>. QED BY <2>3, <3>1, RankStrict
  <2>. QED BY <2>2, <2>3
<1>. QED BY <1>1, <1>3, <1>4 DEF StablySorted

\* Without jumps a run has executed the first actions, and goes on with the
\* next one.
OrderInv ==
  /\ StablySorted(list, sorted)
  /\ (\A i \in 1..Len(sorted) : Jump(i) = NoJump) =>
       /\ trace = [k \in 1..steps |-> k]
       /\ index = IF pc \in {"log", "thrown"} THEN steps ELSE steps + 1

\* The step that executes the action at the index.
LEMMA OrderBegins ==
  ASSUME IInv, OrderInv, Begins(Kinds),
         \/ index' = After(index) /\ pc' = "loop"
         \/ index' = index /\ pc' \in {"log", "thrown"}
  PROVE  OrderInv'
<1>1. /\ pc = "loop" /\ index \in 1..Len(sorted) /\ steps \in Nat
      /\ trace \in Seq(1..Len(sorted)) /\ steps = Len(trace)
      /\ steps' = steps + 1 /\ trace' = Append(trace, index)
      /\ UNCHANGED <<list, truth, sorted>>
  BY DEF Begins, Goes, IInv, TypeOK, StepsInv
<1>2. \A i : Jump(i)' = Jump(i) BY <1>1 DEF Jump
<1>3. StablySorted(list, sorted)' BY <1>1 DEF OrderInv, StablySorted
<1>4. ASSUME \A i \in 1..Len(sorted) : Jump(i) = NoJump
      PROVE  /\ trace' = [k \in 1..steps' |-> k]
             /\ index' = IF pc' \in {"log", "thrown"} THEN steps' ELSE steps' + 1
  <2>1. trace = [k \in 1..steps |-> k] /\ index = steps + 1 BY <1>1, <1>4 DEF OrderInv
  <2>2. After(index) = index + 1 BY <1>1, <1>4 DEF After
  <2>3. trace' = [k \in 1..(steps + 1) |-> k] BY <1>1, <2>1
  <2>. QED BY <1>1, <2>1, <2>2, <2>3
<1>. QED BY <1>1, <1>2, <1>3, <1>4 DEF OrderInv

LEMMA OrderStep ==
  ASSUME IInv, OrderInv, [Next]_vars
  PROVE  OrderInv'
<1>1. CASE Start
  <2>1. PICK l \in Lists : list' = l /\ sorted' = Sorted(l) BY <1>1 DEF Start
  <2>2. index' = 1 /\ steps' = 0 /\ trace' = <<>> /\ pc' = "loop" BY <1>1 DEF Start
  <2>3. StablySorted(list, sorted)' BY <2>1, ListsAssumption, SortIsStable DEF StablySorted
  <2>4. trace' = [k \in 1..steps' |-> k] /\ index' = steps' + 1 BY <2>2
  <2>. QED BY <2>2, <2>3, <2>4 DEF OrderInv
<1>2. ASSUME NEW K \in SUBSET Kinds, Begins(K) PROVE Begins(Kinds)
  BY <1>2 DEF Begins
<1>3. CASE Branch \/ Delay \/ Send \/ Throws
  <2>1. Begins(Kinds) BY <1>2, <1>3 DEF Branch, Delay, Send, Throws, Kinds, Messages
  <2>2. pc = "loop" BY <2>1 DEF Begins
  <2>. QED BY <1>3, <2>1, <2>2, OrderBegins DEF Branch, Delay, Send, Throws
<1>4. CASE Log
  <2>1. /\ pc = "log" /\ pc' = "loop" /\ index' = After(index)
        /\ UNCHANGED <<list, truth, sorted, steps, trace>>
    BY <1>4 DEF Log
  <2>2. \A i : Jump(i)' = Jump(i) BY <2>1 DEF Jump
  <2>3. StablySorted(list, sorted)' BY <2>1 DEF OrderInv, StablySorted
  <2>4. ASSUME \A i \in 1..Len(sorted) : Jump(i) = NoJump
        PROVE  trace' = [k \in 1..steps' |-> k] /\ index' = steps' + 1
    <3>1. trace = [k \in 1..steps |-> k] /\ index = steps BY <2>1, <2>4 DEF OrderInv
    <3>2. index \in 1..Len(sorted)
      <4>1. trace \in Seq(1..Len(sorted)) /\ trace # <<>> /\ index = trace[Len(trace)]
        BY <2>1 DEF IInv, TypeOK, ChainInv
      <4>. QED BY <4>1
    <3>3. After(index) = index + 1 BY <2>4, <3>2 DEF After
    <3>. QED BY <2>1, <3>1, <3>3
  <2>. QED BY <2>1, <2>2, <2>3, <2>4 DEF OrderInv
<1>5. CASE End \/ UNCHANGED vars
  <2>1. /\ UNCHANGED <<list, truth, sorted, index, steps, trace>>
        /\ pc' = pc \/ (pc = "loop" /\ pc' = "ended")
    BY <1>5 DEF End, vars
  <2>. QED BY <2>1 DEF OrderInv, StablySorted, Jump
<1>. QED BY <1>1, <1>3, <1>4, <1>5 DEF Next, Step

\* Where no condition jumps, a run that ends executed every action once, by
\* ascending order, those of one order as they were listed (run() of
\* action.engine.ts).
THEOREM OrderKept == Spec => []RunsInOrder
<1>1. Init => OrderInv
  <2>. SUFFICES ASSUME Init PROVE OrderInv OBVIOUS
  <2>1. StablySorted(list, sorted)
    <3>. DEFINE place == [i \in 1..Len(list) |-> i]
    <3>1. 1..Len(list) = {} BY DEF Init
    <3>2. place \in [1..Len(list) -> 1..Len(list)] OBVIOUS
    <3>3. \A i \in 1..Len(list) : sorted[place[i]] = list[i] BY <3>1
    <3>4. \A i, k \in 1..Len(list) : i < k =>
            IF list[i].order <= list[k].order THEN place[i] < place[k] ELSE place[k] < place[i]
      BY <3>1
    <3>. HIDE DEF place
    <3>. QED BY <3>2, <3>3, <3>4 DEF StablySorted
  <2>2. trace = [k \in 1..steps |-> k] /\ index = steps + 1 /\ pc = "idle" BY DEF Init
  <2>. QED BY <2>1, <2>2 DEF OrderInv
<1>2. IInv /\ OrderInv /\ [Next]_vars => OrderInv' BY OrderStep
<1>3. IInv /\ OrderInv => RunsInOrder
  <2>. SUFFICES ASSUME IInv, OrderInv, pc = "ended",
                       \A i \in 1..Len(sorted) : Jump(i) = NoJump
                PROVE  /\ trace = [i \in 1..Len(list) |-> i]
                       /\ Len(sorted) = Len(list) /\ StablySorted(list, sorted)
    BY DEF RunsInOrder
  <2>1. /\ index \in 1..(Len(sorted) + 1) /\ Len(sorted) \in Nat /\ Len(sorted) = Len(list)
        /\ ~Goes
    BY DEF IInv, TypeOK, StepsInv, EndInv
  <2>2. trace = [k \in 1..steps |-> k] /\ index = steps + 1 BY DEF OrderInv
  <2>3. steps \in Nat BY DEF IInv, TypeOK
  <2>4. steps = Len(list) BY <2>1, <2>2, <2>3 DEF Goes, MaxSteps
  <2>. QED BY <2>1, <2>2, <2>4 DEF OrderInv
<1>. QED BY <1>1, <1>2, <1>3, Inductive, PTL DEF Spec
=============================================================================
