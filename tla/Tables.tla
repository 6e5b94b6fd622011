------------------------------- MODULE Tables -------------------------------
(***************************************************************************)
(* The rows behind users, workspaces, members, API keys, sessions,         *)
(* contacts and contact groups, and the calls that work on them.  A call   *)
(* in flight is the list of the awaits its handler still has before it;    *)
(* every await is one step, taken in any order with those of other calls.  *)
(* The handlers are in Accounts, Workspaces, Sessions and Contacts, which  *)
(* Tenancy composes.                                                       *)
(*                                                                         *)
(* TypeORM's save() of an entity that has its key SELECTs the row and      *)
(* decides what to write (step "load"), then UPDATEs the columns that      *)
(* differ or INSERTs the whole entity (step "write").                      *)
(***************************************************************************)
EXTENDS Naturals, Sequences, FiniteSets

CONSTANTS Users,        \* the accounts of as many email addresses
          Workspaces, Keys, Sessions, Contacts, Groups, Phones,
          Requests,     \* bound: calls ever made
          Nil

VARIABLES
  db,        \* the rows, by key
  removed,   \* the keys whose row was ever removed (not in the code)
  sealed,    \* those removed while no other call held them (not in the code)
  firm,      \* contacts blacklisted while no other call held them (not in the code)
  api        \* the calls

tables == <<db, removed, sealed, firm>>

-----------------------------------------------------------------------------
(* The schema: what the columns that matter may hold, per table.           *)

Roles    == {"owner", "admin", "member", "other"}   \* "other": any other string
Statuses == {"idle", "connecting", "connected", "disconnected", "error"}
Members  == Workspaces \X Users

Bare       == <<>>                       \* a row of which only its presence matters
Workspace  == [owner : Users]
Membership == [role : Roles]
Owned      == [ws : Workspaces]          \* api_keys, contact_groups
Session    == [ws : Workspaces, status : Statuses]
Contact    == [ws : Workspaces, phone : Phones, blocked : BOOLEAN]

Ids == Users \cup Workspaces \cup Members \cup Keys \cup Sessions \cup Contacts \cup Groups

Rows(id) ==
  CASE id \in Users         -> {Bare}
    [] id \in Workspaces    -> Workspace
    [] id \in Members       -> Membership
    [] id \in Keys \cup Groups -> Owned
    [] id \in Sessions      -> Session
    [] id \in Contacts      -> Contact

\* The tables have no key in common, and no row is Nil.
ASSUME IdsAssumption ==
  /\ Nil \notin Ids \cup Roles \cup Statuses \cup Nat
  /\ \A id \in Ids : Nil \notin Rows(id)
  /\ Users \cap (Workspaces \cup Members \cup Keys \cup Sessions \cup Contacts \cup Groups) = {}
  /\ Workspaces \cap (Members \cup Keys \cup Sessions \cup Contacts \cup Groups) = {}
  /\ Members \cap (Keys \cup Sessions \cup Contacts \cup Groups) = {}
  /\ (Keys \cup Groups) \cap (Sessions \cup Contacts) = {} /\ Sessions \cap Contacts = {}

Here(id) == db[id] # Nil

\* The JWT guard lets a call of user u through: its row is there.
Valid(u) == Here(u)

\* What Postgres refuses to commit: a member of no workspace or no user, and
\* two contacts of a workspace with one phone.
Permitted(d) ==
  /\ \A m \in Members : d[m] # Nil => d[m[1]] # Nil /\ d[m[2]] # Nil
  /\ \A c, e \in Contacts :
       c # e /\ d[c] # Nil /\ d[e] # Nil /\ d[c].phone = d[e].phone => d[c].ws # d[e].ws

\* The columns of row that set names take its values.
Assigned(row, set) ==
  [c \in DOMAIN row |-> IF c \in DOMAIN set THEN set[c] ELSE row[c]]

-----------------------------------------------------------------------------
(* Calls.                                                                  *)

Unmade == [op |-> "none", todo |-> <<>>]
Ended  == [op |-> "ended", todo |-> <<>>]

NoPlan == [insert |-> FALSE, cols |-> {}]

\* A call of op by user u, in workspace w, on row id: the awaits ahead of it,
\* the columns it will set, the entity it holds, what save() decided.
Call(op, todo, u, w, id, set, ent, arg) ==
  [op |-> op, todo |-> todo, by |-> u, ws |-> w, id |-> id, set |-> set,
   ent |-> ent, plan |-> NoPlan, arg |-> arg]

Begin(q, call) ==
  /\ api[q] = Unmade
  /\ api' = [api EXCEPT ![q] = call]

At(q, step) == api[q].todo # <<>> /\ Head(api[q].todo) = step

InFlight(q) == api[q].todo # <<>>

\* The call as it is once its first await is over; with no other it is answered.
Past(r) == IF Len(r.todo) = 1 THEN Ended ELSE [r EXCEPT !.todo = Tail(@)]

\* Another call holds an entity of id.
HeldByOther(q, id) == \E p \in Requests \ {q} : InFlight(p) /\ api[p].id = id /\ api[p].ent # Nil

\* A key that no row had, has, or is about to be given: a new uuid.
Fresh(id) ==
  /\ ~Here(id) /\ id \notin removed
  /\ \A p \in Requests : InFlight(p) => api[p].id # id

-----------------------------------------------------------------------------
(* The awaits on the database.                                             *)

\* findOne() by id and workspace, and Object.assign(); the owner's membership
\* is not for removeMember().
Find(q) ==
  /\ At(q, "find")
  /\ LET r == api[q] IN
       /\ Here(r.id)
       /\ "ws" \in DOMAIN db[r.id] => db[r.id].ws = r.ws
       /\ r.op = "removeMember" => db[r.id].role # "owner"
       /\ api' = [api EXCEPT ![q] = Past([r EXCEPT !.ent = Assigned(db[r.id], r.set)])]
  /\ UNCHANGED tables

SaveLoad(q) ==
  /\ At(q, "load")
  /\ LET r == api[q]
         p == [insert |-> ~Here(r.id),
               cols |-> IF Here(r.id) THEN {c \in DOMAIN r.ent : db[r.id][c] # r.ent[c]} ELSE {}]
     IN  api' = [api EXCEPT ![q] = Past([r EXCEPT !.plan = p])]
  /\ UNCHANGED tables

\* The row of id after save() wrote entity e as plan p says; an UPDATE finds
\* no row that is gone by now.
Saved(id, e, p) ==
  IF p.insert THEN e
  ELSE IF ~Here(id) THEN Nil
  ELSE [c \in DOMAIN e |-> IF c \in p.cols THEN e[c] ELSE db[id][c]]

\* The contacts firmly blacklisted after q wrote d.
FirmAfter(q, d) ==
  LET c == api[q].id  r == api[q]
      lifted  == "blocked" \in DOMAIN r.set /\ ~r.set.blocked
      settled == d[c] # Nil /\ d[c].blocked /\ ~HeldByOther(q, c)
  IN  IF c \notin Contacts THEN firm
      ELSE IF lifted THEN firm \ {c}
      ELSE IF settled THEN firm \cup {c} ELSE firm

SaveWrite(q) ==
  /\ At(q, "write")
  /\ LET r == api[q]  d == [db EXCEPT ![r.id] = Saved(r.id, r.ent, r.plan)] IN
       /\ ~(r.plan.insert /\ Here(r.id))
       /\ Permitted(d)
       /\ db' = d
       /\ firm' = FirmAfter(q, d)
       /\ api' = [api EXCEPT ![q] = Past([r EXCEPT !.ent = Nil, !.plan = NoPlan])]
  /\ UNCHANGED <<removed, sealed>>

\* save() of an entity without a key: an INSERT.  A new workspace is followed
\* by save() of its owner's membership.
Insert(q) ==
  /\ At(q, "insert")
  /\ LET r == api[q]  d == [db EXCEPT ![r.id] = r.ent] IN
       /\ ~Here(r.id)
       /\ Permitted(d)
       /\ db' = d
       /\ firm' = FirmAfter(q, d)
       /\ api' = [api EXCEPT ![q] = Past(
            IF r.op = "createWorkspace"
            THEN [r EXCEPT !.id = <<r.id, r.by>>, !.ent = [role |-> "owner"]]
            ELSE [r EXCEPT !.ent = Nil])]
  /\ UNCHANGED <<removed, sealed>>

\* Mutant: the members stay when their workspace or user goes.
DeletedAlone(id) == {id}

\* The rows that go with that of id (onDelete CASCADE).
Deleted(id) == {id} \cup {m \in Members : id \in {m[1], m[2]} /\ Here(m)}

\* Mutant: the removed entity is saved once more.
DeleteThenSave(q) ==
  /\ At(q, "delete")
  /\ LET id == api[q].id  gone == Deleted(id) IN
       /\ db' = [i \in Ids |-> IF i \in gone THEN Nil ELSE db[i]]
       /\ removed' = removed \cup gone
       /\ sealed' = IF HeldByOther(q, id) THEN sealed ELSE sealed \cup {id}
       /\ firm' = firm \ gone
  /\ api' = [api EXCEPT ![q] = [@ EXCEPT !.todo = <<"load", "write">>]]

\* remove() of an entity.
Delete(q) ==
  /\ At(q, "delete")
  /\ LET id == api[q].id  gone == Deleted(id) IN
       /\ db' = [i \in Ids |-> IF i \in gone THEN Nil ELSE db[i]]
       /\ removed' = removed \cup gone
       /\ sealed' = IF HeldByOther(q, id) THEN sealed ELSE sealed \cup {id}
       /\ firm' = firm \ gone
  /\ api' = [api EXCEPT ![q] = Past(@)]

\* The call is answered with an error: not found, forbidden, in conflict with
\* a constraint, or a query that rejects.  What it did stays.
Fails(q) ==
  /\ InFlight(q)
  /\ api' = [api EXCEPT ![q] = Ended]
  /\ UNCHANGED tables
=============================================================================
