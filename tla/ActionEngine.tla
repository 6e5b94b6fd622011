---------------------------- MODULE ActionEngine ----------------------------
(***************************************************************************)
(* One run of the action list of an automation, by ActionEngine.run() of   *)
(* src/src/modules/automations/engine/action.engine.ts: the actions sorted *)
(* by their order, executed one after the other, with jumps at conditions  *)
(* and a budget of steps against jumps that never end.                     *)
(*                                                                         *)
(* An action is its order and what the control flow sees of its type:      *)
(*   "send"       send_text, send_image, send_file: sent, then logged      *)
(*   "forward"    forward: sent, not logged                                *)
(*   "delay"      delay, or a type the switch does not know                *)
(*   "condition"  condition, with the orders it jumps to                   *)
(* What a condition evaluates to depends on the variables of the run only, *)
(* which no action changes: truth fixes it for the whole run.              *)
(***************************************************************************)
EXTENDS Integers, FiniteSets, Sequences

CONSTANTS Orders,   \* the orders in use, by actions and as jump targets
          Lists,    \* the action lists in use
          NoJump    \* if_true/if_false_action_order that is not a number

Kinds    == {"send", "forward", "delay", "condition"}
Messages == {"send", "forward"}
Action   == [order : Orders, kind : Kinds,
             yes : Orders \cup {NoJump}, no : Orders \cup {NoJump}]

ASSUME OrdersAssumption == Orders \subseteq Int /\ NoJump \notin Orders
ASSUME ListsAssumption  == \A l \in Lists : l \in Seq(Action)

VARIABLES
  list,     \* the actions as they were loaded (kept to state properties)
  truth,    \* what the condition at each index evaluates to
  sorted,   \* the actions by ascending order
  index,    \* of the action to execute (from 1)
  steps,    \* actions begun
  pc,       \* where run() is
  trace,    \* the indices executed so far (not in the code)
  asked,    \* per index: sends asked of OpenWA, carried out or not (not in the code)
  answered, \* per index: those it answered with a 2xx (not in the code)
  logged    \* per index: rows added to message_logs with status "sent"

vars == <<list, truth, sorted, index, steps, pc, trace, asked, answered, logged>>

-----------------------------------------------------------------------------
(* The list, sorted, and where a run goes in it.                           *)

\* Mutant: equal orders come out reversed (an unstable sort).
RankReversed(l, i) ==
  Cardinality({k \in 1..Len(l) : \/ l[k].order < l[i].order
                                 \/ l[k].order = l[i].order /\ k >= i})

\* The place of l[i] after a stable sort.
Rank(l, i) ==
  Cardinality({k \in 1..Len(l) : \/ l[k].order < l[i].order
                                 \/ l[k].order = l[i].order /\ k <= i})

\* [...actions].sort((a, b) => a.order - b.order)
Sorted(l) ==
  [r \in 1..Len(l) |-> l[CHOOSE i \in 1..Len(l) : Rank(l, i) = r]]

\* Mutant: a budget of one step less than the list has actions.
MaxStepsShort(s) == Len(s) - 1

MaxSteps(s) == Len(s) * 4 + 10

\* Mutant: findIndex's -1 is not told apart.
IndexOfRaw(s, o) ==
  LET at == {i \in 1..Len(s) : s[i].order = o}
  IN  IF at = {} THEN 0 ELSE CHOOSE i \in at : \A k \in at : i <= k

\* findIndex: the first action of that order; the run ends where there is none.
IndexOf(s, o) ==
  LET at == {i \in 1..Len(s) : s[i].order = o}
  IN  IF at = {} THEN Len(s) + 1 ELSE CHOOSE i \in at : \A k \in at : i <= k

\* The order the action at i jumps to, if any.
Jump(i) ==
  IF sorted[i].kind # "condition" THEN NoJump
  ELSE IF truth[i] THEN sorted[i].yes ELSE sorted[i].no

\* The index after the action at i.
After(i) == IF Jump(i) = NoJump THEN i + 1 ELSE IndexOf(sorted, Jump(i))

-----------------------------------------------------------------------------
(* The run.                                                                *)

Start ==
  /\ pc = "idle"
  /\ \E l \in Lists :
       /\ list' = l /\ sorted' = Sorted(l)
       /\ truth' \in [1..Len(l) -> BOOLEAN]
       /\ asked' = [i \in 1..Len(l) |-> 0] /\ answered' = [i \in 1..Len(l) |-> 0]
       /\ logged' = [i \in 1..Len(l) |-> 0]
  /\ index' = 1 /\ steps' = 0 /\ trace' = <<>>
  /\ pc' = "loop"

\* while (index < sorted.length && steps < maxSteps)
Goes == index <= Len(sorted) /\ steps < MaxSteps(sorted)

\* The loop's body begins an action of one of those kinds.
Begins(kinds) ==
  /\ pc = "loop" /\ Goes
  /\ sorted[index].kind \in kinds
  /\ steps' = steps + 1
  /\ trace' = Append(trace, index)
  /\ UNCHANGED <<list, truth, sorted>>

\* Mutant: a jump back does not count as a step.
BranchUncounted ==
  /\ pc = "loop" /\ Goes /\ sorted[index].kind = "condition"
  /\ trace' = Append(trace, index) /\ index' = After(index)
  /\ UNCHANGED <<list, truth, sorted, steps, pc, asked, answered, logged>>

\* condition: evaluate, and jump or go on.
Branch ==
  /\ Begins({"condition"})
  /\ index' = After(index)
  /\ UNCHANGED <<pc, asked, answered, logged>>

\* delay, and the default of the switch.
Delay ==
  /\ Begins({"delay"})
  /\ index' = After(index)
  /\ UNCHANGED <<pc, asked, answered, logged>>

\* OpenWA answers a send with a 2xx, which need not mean that the message went
\* out (its body may say success: false); forward does not log it.
Send ==
  /\ Begins(Messages)
  /\ asked' = [asked EXCEPT ![index] = @ + 1]
  /\ answered' = [answered EXCEPT ![index] = @ + 1]
  /\ IF sorted[index].kind = "send"
       THEN pc' = "log" /\ UNCHANGED index
       ELSE index' = After(index) /\ UNCHANGED pc
  /\ UNCHANGED logged

\* log(): a failure of record() is swallowed.
Log ==
  /\ pc = "log"
  /\ logged' \in {logged, [logged EXCEPT ![index] = @ + 1]}
  /\ index' = After(index)
  /\ pc' = "loop"
  /\ UNCHANGED <<list, truth, sorted, steps, trace, asked, answered>>

\* Mutant: a message that fails is passed over.
ThrowsPassedOver ==
  /\ Begins(Messages \cup {"condition"})
  /\ index' = After(index)
  /\ UNCHANGED <<pc, asked, answered, logged>>

\* OpenWA answers with an error status, or too late; a template or the field of
\* a condition that is no string throws before anything is asked of it.
Throws ==
  /\ Begins(Messages \cup {"condition"})
  /\ \/ UNCHANGED asked
     \/ sorted[index].kind \in Messages /\ asked' = [asked EXCEPT ![index] = @ + 1]
  /\ pc' = "thrown"
  /\ UNCHANGED <<index, answered, logged>>

\* Mutant: the loop is left at the end of the list only.
EndOfList ==
  /\ pc = "loop" /\ index > Len(sorted)
  /\ pc' = "ended"
  /\ UNCHANGED <<list, truth, sorted, index, steps, trace, asked, answered, logged>>

\* The loop is left: run() resolves, whichever condition ended it.
End ==
  /\ pc = "loop" /\ ~Goes
  /\ pc' = "ended"
  /\ UNCHANGED <<list, truth, sorted, index, steps, trace, asked, answered, logged>>

-----------------------------------------------------------------------------
Init ==
  /\ list = <<>> /\ sorted = <<>> /\ truth = <<>>
  /\ index = 1 /\ steps = 0 /\ pc = "idle"
  /\ trace = <<>> /\ asked = <<>> /\ answered = <<>> /\ logged = <<>>

Step == Branch \/ Delay \/ Send \/ Log \/ Throws \/ End

Next == Start \/ Step

\* The event loop resumes a run that has begun: its timers fire and its calls
\* are answered or time out.
Spec     == Init /\ [][Next]_vars
FairSpec == Spec /\ WF_vars(Step)

-----------------------------------------------------------------------------
(* Properties.                                                             *)

\* Every variable keeps the shape the code gives it.
TypeOK ==
  /\ list \in Seq(Action) /\ sorted \in Seq(Action)
  /\ truth \in [1..Len(sorted) -> BOOLEAN]
  /\ index \in 1..(Len(sorted) + 1)
  /\ steps \in Nat
  /\ pc \in {"idle", "loop", "log", "ended", "thrown"}
  /\ trace \in Seq(1..Len(sorted))
  /\ asked \in [1..Len(sorted) -> Nat] /\ answered \in [1..Len(sorted) -> Nat]
  /\ logged \in [1..Len(sorted) -> Nat]

\* "Guard against infinite loops": whatever the jumps, a run executes no more
\* than four times as many actions as the list has, and ten.
StepBound == Len(trace) <= 4 * Len(list) + 10

\* Some action was executed twice.
Looped == \E a, b \in 1..Len(trace) : a < b /\ trace[a] = trace[b]

\* The budget cuts off exactly the runs that came back to an action: they
\* would never have ended, and no other run is cut short.  A run that gets to
\* the end of the list, or to a jump that leads nowhere, executed no action
\* twice: the recipient got none of its messages twice.
CutIffLoop == pc = "ended" => (index <= Len(sorted) <=> Looped)

\* s is l, sorted by order, with actions of one order as they were listed.
StablySorted(l, s) ==
  \E place \in [1..Len(l) -> 1..Len(l)] :
    /\ \A i \in 1..Len(l) : s[place[i]] = l[i]
    /\ \A i, k \in 1..Len(l) : i < k =>
         IF l[i].order <= l[k].order THEN place[i] < place[k] ELSE place[k] < place[i]

\* "Runs the action list in order": where no condition jumps, every action is
\* executed, once, by ascending order, those of one order as they were listed.
RunsInOrder ==
  pc = "ended" /\ (\A i \in 1..Len(sorted) : Jump(i) = NoJump) =>
    /\ trace = [i \in 1..Len(list) |-> i]
    /\ Len(sorted) = Len(list) /\ StablySorted(list, sorted)

Times(i) == Cardinality({k \in 1..Len(trace) : trace[k] = i})

\* The log shows no message that OpenWA did not answer for, no message is asked
\* for more often than its action is executed, and a run that ends without an
\* error had an answer for each time it executed one.
MessagesMatch ==
  \A i \in 1..Len(sorted) :
    /\ logged[i] <= answered[i] /\ answered[i] <= asked[i] /\ asked[i] <= Times(i)
    /\ pc = "ended" /\ sorted[i].kind \in Messages => answered[i] = Times(i)

\* Every run that starts ends, by itself or by an error.
RunEnds == pc \in {"loop", "log"} ~> pc \in {"ended", "thrown"}

-----------------------------------------------------------------------------
(* The inductive invariant behind StepBound and CutIffLoop.                *)

\* The steps counted are the actions executed, and within the budget.
StepsInv ==
  /\ Len(sorted) = Len(list)
  /\ steps = Len(trace) /\ steps <= MaxSteps(sorted)

\* Each action executed leads to the next one, the last to the index.
ChainInv ==
  /\ \A k \in 1..Len(trace) : k < Len(trace) => trace[k + 1] = After(trace[k])
  /\ pc \in {"loop", "ended"} /\ trace # <<>> => index = After(trace[Len(trace)])
  /\ pc \in {"log", "thrown"} => trace # <<>> /\ index = trace[Len(trace)]

\* Once an action was executed twice, the run repeats: what comes next
\* depends on the action alone.
PeriodInv ==
  \A a, b \in 1..Len(trace) :
    a < b /\ trace[a] = trace[b] => trace[Len(trace) - (b - a)] = trace[Len(trace)]

EndInv == pc = "ended" => ~Goes

IInv == TypeOK /\ StepsInv /\ ChainInv /\ PeriodInv /\ EndInv
=============================================================================
