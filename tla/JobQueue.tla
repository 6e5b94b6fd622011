------------------------------ MODULE JobQueue ------------------------------
(***************************************************************************)
(* The life of one BullMQ job, as the workers of src/src/queue and         *)
(* src/src/modules/*/*.processor.ts rely on it.  BullMQ itself is an       *)
(* external library: what is stated here is what queue.module.ts           *)
(* configures (attempts, backoff) and what the processors assume (a        *)
(* rejected process() is retried, a job whose process died is found        *)
(* stalled and handed out again).  The module has no state: a component    *)
(* keeps its jobs in a function from job identifiers to records and uses   *)
(* these operators to move them.                                           *)
(*                                                                         *)
(*   none --add--> delayed/waiting --take--> active --> completed          *)
(*                    ^                        |                           *)
(*                    +---- retry, stall ------+------> failed             *)
(***************************************************************************)
EXTENDS Naturals

\* BullMQ's maxStalledCount: a job is handed out again after one stall, the
\* second one fails it.  No worker of the repository overrides it.
MaxStalls == 1

JobStates == {"none", "delayed", "waiting", "active", "completed", "failed"}

Job(Attempts) ==
  [state : JobStates, made : 0..Attempts, stalls : 0..MaxStalls]

NoJob == [state |-> "none", made |-> 0, stalls |-> 0]

\* queue.add(name, data, {delay}): a delayed job waits for its timer.
Added(delayed) ==
  [state |-> IF delayed THEN "delayed" ELSE "waiting", made |-> 0, stalls |-> 0]

Live(job)    == job.state \in {"delayed", "waiting", "active"}
Settled(job) == job.state \in {"completed", "failed"}

Promoted(job)  == [job EXCEPT !.state = "waiting"]
Taken(job)     == [job EXCEPT !.state = "active"]
Completed(job) == [job EXCEPT !.state = "completed"]

\* Mutant: the attempts are not counted down.
RejectedAgain(job, Attempts) ==
  [job EXCEPT !.made = @ + 1, !.state = "delayed"]

\* process() rejected: another attempt after the backoff, or failed for good.
Rejected(job, Attempts) ==
  [job EXCEPT !.made  = @ + 1,
              !.state = IF job.made + 1 < Attempts THEN "delayed" ELSE "failed"]

\* Mutant: nothing looks for stalled jobs.
StalledIgnored(job) == job

\* The process that ran the job is gone and its lock has expired.
Stalled(job) ==
  IF job.stalls < MaxStalls
    THEN [job EXCEPT !.stalls = @ + 1, !.state = "waiting"]
    ELSE [job EXCEPT !.state = "failed"]
=============================================================================
