----------------------------- MODULE MCMessages -----------------------------
(* Messages.tla on small sets, for TLC. *)
EXTENDS Messages, TLC

CONSTANTS c1, c2

\* One recipient, and two with the second one of a long id.
MCLists == {<<c1>>, <<c1, c2>>}

\* Calls and jobs are interchangeable.
Symmetry == Permutations(Requests) \cup Permutations(Jobs)
=============================================================================
