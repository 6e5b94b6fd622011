----------------------------- MODULE MCTenancy ------------------------------
(* Tenancy.tla on small sets, for TLC. *)
EXTENDS Tenancy, TLC

\* Calls, users, contacts and phones are interchangeable.
Symmetry ==
  Permutations(Requests) \cup Permutations(Users) \cup Permutations(Contacts)
    \cup Permutations(Phones)

\* What a call is about, if that is of no concern to calls of other sorts.
Concern(r) ==
  CASE r.op = "broadcast" -> "broadcast"
    [] r.op \in {"login", "refresh", "logout"} -> "token"
    [] r.op = "import" \/ r.id \in Contacts -> "contact"
    [] r.id \in Sessions -> "session"
    [] r.id \in Keys -> "key"
    [] r.id \in Groups -> "group"
    [] r.op \notin {"register", "remove", "removeUser"} -> "member"
    [] OTHER -> "all"

\* Calls about unrelated rows are not in flight together: their awaits commute,
\* so one of them could as well have come after the other.  Users and
\* memberships are read by calls about other rows only at their start.  The
\* draw of a broadcast writes to none of these tables, and of what it reads the
\* properties speak of contacts.
Related ==
  \A p, q \in Requests : p # q /\ InFlight(p) /\ InFlight(q) =>
    LET both == {Concern(api[p]), Concern(api[q])} IN
      IF "broadcast" \in both THEN "contact" \in both
                              ELSE "all" \in both \/ Cardinality(both) = 1
=============================================================================
