---------------------------- MODULE MCScheduler -----------------------------
(* Scheduler.tla on small sets, for TLC. *)
EXTENDS Scheduler, TLC

\* Every minute; a minute and a time within the next.
MCCrons == {Minutes, {2, 3}}

\* Automations, and phones, are interchangeable.
Symmetry == Permutations(Autos) \cup Permutations(Phones)

\* Only one automation is edited once the clock runs.
OneEdited == Cardinality({a \in Autos : since[a] > 0}) <= 1
=============================================================================
