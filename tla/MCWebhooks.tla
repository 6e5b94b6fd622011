----------------------------- MODULE MCWebhooks -----------------------------
(* Webhooks.tla on small sets, for TLC. *)
EXTENDS Webhooks, TLC

\* Webhooks, requests and deliveries are interchangeable (for the runs
\* without liveness).
Symmetry ==
  Permutations(Hooks) \cup Permutations(Requests) \cup Permutations(Jobs)
=============================================================================
