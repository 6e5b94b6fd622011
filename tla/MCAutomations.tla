--------------------------- MODULE MCAutomations ----------------------------
(* Automations.tla on small sets, for TLC. *)
EXTENDS Automations, TLC

\* Requests and jobs are interchangeable.
Symmetry ==
  Permutations(Requests) \cup Permutations(Jobs)

\* Bound: attempts fail and stalls happen at one of the jobs only.
OneInTrouble == Cardinality({j \in Jobs : jobs[j].made + jobs[j].stalls > 0}) <= 1
=============================================================================
