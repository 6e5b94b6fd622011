--------------------------- MODULE JobQueueProofs ---------------------------
(* What the moves of JobQueue.tla make of a job, for every number of        *)
(* attempts A that a queue is configured with.                              *)
EXTENDS JobQueue, TLAPS

\* The moves that count nothing.
LEMMA JobMoves ==
  ASSUME NEW A, NEW x \in Job(A)
  PROVE  /\ Promoted(x) \in Job(A)
         /\ Promoted(x).state = "waiting" /\ Promoted(x).made = x.made /\ Promoted(x).stalls = x.stalls
         /\ Taken(x) \in Job(A)
         /\ Taken(x).state = "active" /\ Taken(x).made = x.made /\ Taken(x).stalls = x.stalls
         /\ Completed(x) \in Job(A)
         /\ Completed(x).state = "completed" /\ Completed(x).made = x.made
         /\ Completed(x).stalls = x.stalls
BY DEF Job, JobStates, Promoted, Taken, Completed

LEMMA JobAdded ==
  ASSUME NEW A \in Nat, NEW d \in BOOLEAN
  PROVE  /\ Added(d) \in Job(A) /\ NoJob \in Job(A)
         /\ Added(d).state \in {"waiting", "delayed"}
         /\ Added(d).made = 0 /\ Added(d).stalls = 0
BY DEF Job, JobStates, Added, NoJob, MaxStalls

\* A rejection counts an attempt; the last one fails the job.
LEMMA JobRejected ==
  ASSUME NEW A \in Nat, NEW x \in Job(A), x.made < A
  PROVE  /\ Rejected(x, A) \in Job(A)
         /\ Rejected(x, A).made = x.made + 1
         /\ Rejected(x, A).stalls = x.stalls
         /\ \/ Rejected(x, A).state = "delayed" /\ x.made + 1 < A
            \/ Rejected(x, A).state = "failed"
<1>1. x.made + 1 \in 0..A BY DEF Job
<1>. QED BY <1>1 DEF Job, JobStates, Rejected

\* A stall counts no attempt; the last one fails the job.
LEMMA JobStalled ==
  ASSUME NEW A, NEW x \in Job(A), x.state = "active"
  PROVE  /\ Stalled(x) \in Job(A)
         /\ Stalled(x).made = x.made
         /\ \/ Stalled(x).state = "waiting" /\ Stalled(x).stalls = x.stalls + 1
            \/ Stalled(x).state = "failed" /\ Stalled(x).stalls = x.stalls /\ x.stalls = MaxStalls
<1>1. CASE x.stalls < MaxStalls
  <2>1. x.stalls + 1 \in 0..MaxStalls BY <1>1 DEF Job, MaxStalls
  <2>. QED BY <1>1, <2>1 DEF Job, JobStates, Stalled
<1>2. CASE ~(x.stalls < MaxStalls)
  <2>1. x.stalls = MaxStalls BY <1>2 DEF Job, MaxStalls
  <2>. QED BY <1>2, <2>1 DEF Job, JobStates, Stalled
<1>. QED BY <1>1, <1>2

\* What the state of a job says of the counts.
LEMMA JobCounts ==
  ASSUME NEW A \in Nat, NEW x \in Job(A)
  PROVE  x.made \in 0..A /\ x.made \in Nat /\ x.stalls \in 0..1 /\ x.stalls \in Nat /\ MaxStalls = 1
BY DEF Job, MaxStalls
=============================================================================
