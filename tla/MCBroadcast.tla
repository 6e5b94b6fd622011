----------------------------- MODULE MCBroadcast -----------------------------
(* Broadcast.tla on small sets, for TLC. *)
EXTENDS Broadcast, TLC

\* Recipients, requests and jobs are interchangeable (for the runs without
\* liveness).
Symmetry ==
  Permutations(Recipients) \cup Permutations(Requests) \cup Permutations(Jobs)
=============================================================================
