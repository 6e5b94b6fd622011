------------------------------- MODULE Tenancy ------------------------------
(***************************************************************************)
(* Accounts, workspaces, API keys, sessions and contacts together: any mix *)
(* of their calls in flight at once on one database, one cache and one     *)
(* OpenWA server, and crashes of the process, which end the calls in       *)
(* flight and empty the cache.                                             *)
(***************************************************************************)
EXTENDS Accounts, Sessions, Contacts

CONSTANT MaxInFlight    \* bound: calls in flight at once

ASSUME MaxInFlightAssumption == MaxInFlight \in Nat \ {0}

vars == <<tables, api, tokens, remote>>

\* Either nothing is there yet, or the users have registered, u last, who made
\* a workspace with a running session, a contact and a key.
Furnished(u, w, s, c, k, p) ==
  [id \in Ids |->
     CASE id \in Users -> Bare
       [] id = w       -> [owner |-> u]
       [] id = <<w, u>> -> [role |-> "owner"]
       [] id = s       -> [ws |-> w, status |-> "connected"]
       [] id = c       -> [ws |-> w, phone |-> p, blocked |-> FALSE]
       [] id = k       -> [ws |-> w]
       [] OTHER        -> Nil]

Init ==
  /\ \/ /\ db = [id \in Ids |-> Nil]
        /\ cache = [u \in Users |-> Nil] /\ issued = [u \in Users |-> {}]
        /\ running = {}
     \/ \E u \in Users, w \in Workspaces, s \in Sessions, c \in Contacts, k \in Keys, p \in Phones :
          /\ db = Furnished(u, w, s, c, k, p)
          /\ cache = [x \in Users |-> IF x = u THEN 1 ELSE Nil]
          /\ issued = [x \in Users |-> IF x = u THEN {1} ELSE {}]
          /\ running = {s}
  /\ dead = [u \in Users |-> {}]
  /\ removed = {} /\ sealed = {} /\ firm = {}
  /\ excused = {}
  /\ api = [q \in Requests |-> Unmade]

\* create() of a broadcast for a session of the workspace.
NewBroadcast(q) ==
  \E u \in Users, w \in Workspaces, s \in Sessions : Valid(u) /\ CreateBroadcast(q, u, w, s)

NewCall(q) ==
  /\ Cardinality({p \in Requests : InFlight(p)}) < MaxInFlight
  /\ \/ AccountCalls(q) \/ WorkspaceCalls(q) \/ SessionCalls(q)
     \/ ContactCalls(q) \/ NewBroadcast(q)
  /\ UNCHANGED <<tables, tokens, remote>>

DbStep(q) ==
  /\ \/ Check(q) \/ Find(q) \/ SaveLoad(q) \/ SaveWrite(q) \/ Insert(q) \/ Delete(q)
     \/ ContactSteps(q) \/ Fails(q)
  /\ UNCHANGED <<tokens, remote>>

Crash ==
  /\ \E q \in Requests : InFlight(q)
  /\ api' = [q \in Requests |-> IF InFlight(q) THEN Ended ELSE api[q]]
  /\ cache' = [u \in Users |-> Nil]
  /\ UNCHANGED <<tables, issued, dead, remote>>

Next ==
  \/ \E q \in Requests :
       \/ NewCall(q) \/ DbStep(q)
       \/ TokenSteps(q) /\ UNCHANGED <<tables, remote>>
       \/ RemoteSteps(q) /\ UNCHANGED tokens
  \/ Crash

Spec == Init /\ [][Next]_vars

-----------------------------------------------------------------------------
(* Properties.                                                             *)

Steps == {"find", "load", "write", "insert", "delete", "sign", "store", "forget", "member", "admin",
          "owner", "invitee", "absent", "creds", "terminate", "launch", "ask", "lookup", "resolve",
          "publish"}

\* Every variable keeps the shape the code gives it, an entity fits the table
\* it is saved to, and the database keeps its constraints.
TypeOK ==
  /\ DOMAIN db = Ids /\ \A id \in Ids : Here(id) => db[id] \in Rows(id)
  /\ Permitted(db)
  /\ removed \in SUBSET Ids /\ sealed \in SUBSET removed /\ firm \in SUBSET Contacts
  /\ \A q \in Requests : InFlight(q) =>
       /\ \A i \in DOMAIN api[q].todo : api[q].todo[i] \in Steps
       /\ api[q].id # Nil => api[q].id \in Ids
       /\ api[q].ent # Nil => api[q].ent \in Rows(api[q].id)
       /\ Head(api[q].todo) \in {"load", "write", "insert"} => api[q].ent # Nil
  /\ TokensOK /\ RemoteOK

\* A row that was removed while no other call held its entity does not come
\* back: a key stays revoked, an account, a contact or a session stays
\* deleted.  (A membership may be granted anew.)
RemovedStays == \A id \in sealed \ Members : ~Here(id)
=============================================================================
