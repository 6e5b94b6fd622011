---------------------------- MODULE TenancyProofs ---------------------------
(***************************************************************************)
(* Proofs about Tenancy.tla.  What every handler keeps is Base: the calls  *)
(* in flight, whose awaits ascend in one order, the rows and their         *)
(* constraints.  On it stands one inductive invariant for each property:   *)
(* SealInv, FirmInv, TokenInv and OwnerInv, and RemovalInv and SessionInv  *)
(* for the sessions that can be stopped.                                   *)
(***************************************************************************)
EXTENDS Tenancy, TLAPS

-----------------------------------------------------------------------------
(* Calls: every handler makes its awaits in one order, and some of them    *)
(* only on rows of one table.                                              *)

Rank(s) ==
  CASE s = "owner" -> 1     [] s = "admin" -> 2    [] s = "member" -> 3
    [] s = "invitee" -> 4   [] s = "absent" -> 5   [] s = "find" -> 6
    [] s = "creds" -> 7     [] s = "ask" -> 8      [] s = "terminate" -> 9
    [] s = "insert" -> 10   [] s = "load" -> 11    [] s = "write" -> 12
    [] s = "launch" -> 13   [] s = "lookup" -> 14  [] s = "sign" -> 15
    [] s = "store" -> 16    [] s = "forget" -> 17  [] s = "resolve" -> 18
    [] s = "publish" -> 19  [] OTHER -> 20

\* The awaits still ahead of a call whose list is t.
Ahead(t) == {t[i] : i \in 1..Len(t)}

\* Only the lookup of an import is made more than once.
Ascends(t) ==
  \A i, k \in 1..Len(t) : i < k =>
    Rank(t[i]) < Rank(t[k]) \/ (t[i] = "lookup" /\ t[k] = "lookup")

\* The awaits that work on the entity the call holds.
Uses == {"ask", "insert", "load", "write"}

SetOK(r) ==
  \/ r.set = <<>>
  \/ r.id \in Sessions /\ \E st \in Statuses : r.set = [status |-> st]
  \/ r.id \in Contacts /\ r.set \in [{"phone"} -> Phones] \cup [{"blocked"} -> BOOLEAN]
                                   \cup [phone : Phones, blocked : BOOLEAN]

Drawing == [listed : BOOLEAN, chosen : SUBSET Contacts,
            drawn : SUBSET Phones, barred : SUBSET Phones]

\* An import has a phone for every lookup ahead.
PhonesLeft(t, phones) ==
  /\ phones \in Seq(Phones)
  /\ \A i \in 1..Len(t) : t[i] = "lookup" => Len(t) - i < Len(phones)

\* Which rows the awaits ahead of call r are about.
TodoOK(r) ==
  LET T == Ahead(r.todo) IN
    /\ r.todo \in Seq(Steps) /\ Ascends(r.todo)
    /\ T \cap {"sign", "store", "forget"} # {} => r.id \in Users
    /\ T \cap {"ask", "terminate", "launch"} # {} => r.id \in Sessions
    /\ T \cap {"resolve", "publish"} # {} => r.id \in Sessions /\ r.arg \in Drawing
    /\ "lookup" \in T => /\ r.id \in Contacts \cup {Nil} /\ r.set = <<>> /\ r.op = "import"
                         /\ T \subseteq {"member", "insert", "load", "write", "lookup"}
                         /\ r.ws \in Workspaces /\ PhonesLeft(r.todo, r.arg)
    /\ r.id = Nil => T \subseteq {"member", "lookup"}
    /\ "insert" \in T => /\ r.id \notin Members
                         /\ T \cap {"load", "write"} # {} => r.op = "createWorkspace"
                         /\ r.id \in Workspaces => r.op = "createWorkspace"
    /\ "delete" \in T => /\ r.id \in Sessions => r.op = "removeSession"
                         /\ r.id \in Members => r.op = "removeMember"
    /\ "absent" \in T \/ "invitee" \in T => r.op = "invite"

\* What the operation says of the row and of what is ahead.
OpOK(r) ==
  LET T == Ahead(r.todo) IN
    /\ r.op = "createWorkspace" =>
         /\ r.by \in Users /\ r.set = <<>> /\ T \subseteq {"insert", "load", "write"}
         /\ \/ /\ r.id \in Workspaces /\ "insert" \in T
               /\ r.ent # Nil => r.ent.owner = r.by
            \/ r.id \in Members /\ "insert" \notin T /\ (r.ent # Nil => r.ent.role = "owner")
    /\ r.op = "removeMember" => T \subseteq {"admin", "find", "delete"}
    /\ r.op \in {"invite", "removeMember"} =>
         r.id \in Members /\ r.id[1] = r.ws /\ r.by \in Users /\ r.set = <<>>
    /\ r.id \in Members => r.op \in {"invite", "removeMember", "createWorkspace"}

EntOK(r) ==
  /\ r.ent # Nil => r.id \in Ids /\ r.ent \in Rows(r.id)
  /\ r.ent = Nil /\ Ahead(r.todo) \cap Uses # {} => "find" \in Ahead(r.todo)

CallOK(r) ==
  /\ r = [op |-> r.op, todo |-> r.todo, by |-> r.by, ws |-> r.ws, id |-> r.id, set |-> r.set,
          ent |-> r.ent, plan |-> r.plan, arg |-> r.arg]
  /\ r.todo # <<>> /\ r.id \in Ids \cup {Nil}
  /\ r.plan = [insert |-> r.plan.insert, cols |-> r.plan.cols] /\ r.plan.insert \in BOOLEAN
  /\ SetOK(r) /\ TodoOK(r) /\ OpOK(r) /\ EntOK(r)

CallsInv == \A q \in Requests : api[q] \in {Unmade, Ended} \/ CallOK(api[q])

\* The tables: rows of their schema that keep the constraints.
DbOK ==
  /\ db = [id \in Ids |-> db[id]] /\ \A id \in Ids : Here(id) => db[id] \in Rows(id)
  /\ Permitted(db)
  /\ removed \in SUBSET Ids /\ sealed \in SUBSET removed
  /\ firm \in SUBSET Contacts /\ \A c \in firm : Here(c)

Base ==
  /\ DbOK /\ api = [q \in Requests |-> api[q]] /\ CallsInv /\ RemoteOK

-----------------------------------------------------------------------------
(* What entities and rows have to do with each other.                      *)

Holds(q, id) == InFlight(q) /\ api[q].id = id /\ api[q].ent # Nil

\* An entity whose row is gone for good is held by no call.
SealInv == \A id \in sealed \ Members : ~Here(id) /\ \A q \in Requests : ~Holds(q, id)

\* A call that holds a firmly blacklisted contact saves it as such, or is told not to.
FirmInv ==
  /\ \A q \in Requests, c \in firm :
       Holds(q, c) =>
         api[q].ent.blocked \/ ("blocked" \in DOMAIN api[q].set /\ ~api[q].set.blocked)
  /\ \A q \in Requests :
       InFlight(q) /\ "publish" \in Ahead(api[q].todo) /\ "resolve" \notin Ahead(api[q].todo) =>
         api[q].arg.drawn \cap api[q].arg.barred = {}
  /\ \A c \in firm : db[c].blocked

\* A call stores the token it signed next, and nothing superseded that one.
TokenInv ==
  /\ TokensOK /\ SupersededStaysDead
  /\ \A q \in Requests :
       InFlight(q) /\ "store" \in Ahead(api[q].todo) /\ "sign" \notin Ahead(api[q].todo) =>
         /\ At(q, "store") /\ api[q].id \in Users
         /\ api[q].arg \in Token \ dead[api[q].id]

\* A session that runs has its row, or is excused.
Rowed == \A s \in running : Here(s) \/ s \in excused

\* A session whose removal got past OpenWA does not run, or is excused.
RemovalInv ==
  /\ Rowed
  /\ \A q \in Requests :
       /\ InFlight(q) /\ api[q].op = "removeSession"
       /\ "delete" \in Ahead(api[q].todo) /\ "terminate" \notin Ahead(api[q].todo)
       /\ api[q].id \in running
       => api[q].id \in excused

\* v does not own w, or else w or v was removed.
NotOwner(w, v) ==
  \/ w \in removed
  \/ Here(w) /\ (db[w].owner \in removed \/ db[w].owner # v)

OwnerInv ==
  /\ \A m \in Members : Here(m) => HasOwner(m[1])
  /\ \A q \in Requests : InFlight(q) =>
       LET r == api[q]  T == Ahead(r.todo) IN
         /\ r.op = "invite" /\ "admin" \notin T => HasOwner(r.ws)
         /\ r.op = "invite" /\ "absent" \notin T => NotOwner(r.id[1], r.id[2])
         /\ r.op = "removeMember" /\ "find" \notin T => NotOwner(r.id[1], r.id[2])
         /\ r.op = "createWorkspace" /\ "insert" \notin T =>
              r.id[1] \in removed \/ (Here(r.id[1]) /\ db[r.id[1]].owner = r.id[2])
         /\ r.id \in Workspaces /\ r.ent # Nil =>
              r.id \in removed \/ IF Here(r.id) THEN r.ent.owner = db[r.id].owner
                                 ELSE "insert" \in T
  /\ \A p, q \in Requests, w \in Workspaces :
       p # q /\ Holds(p, w) /\ Holds(q, w) => Here(w) \/ w \in removed

\* What call r holds is of a workspace that has its owner, as it found out
\* when it got past "admin".
Belongs(r) ==
  /\ "admin" \notin Ahead(r.todo) => HasOwner(r.ent.ws)
  /\ "admin" \in Ahead(r.todo) => r.ent.ws = r.ws /\ r.by \in Users /\ r.ws \in Workspaces

\* A session is of a workspace that has its owner.
SessionInv ==
  /\ \A s \in Sessions : Here(s) => HasOwner(db[s].ws)
  /\ \A q \in Requests : InFlight(q) /\ api[q].id \in Sessions /\ api[q].ent # Nil =>
       Belongs(api[q])

-----------------------------------------------------------------------------
(* The columns of rows and entities.                                       *)

\* The rows of each table.
LEMMA RowsOf ==
  ASSUME NEW id
  PROVE  /\ id \in Users => Rows(id) = {Bare}
         /\ id \in Workspaces => Rows(id) = Workspace
         /\ id \in Members => Rows(id) = Membership
         /\ id \in Keys \cup Groups => Rows(id) = Owned
         /\ id \in Sessions => Rows(id) = Session
         /\ id \in Contacts => Rows(id) = Contact
BY IdsAssumption DEF Rows

\* A row is the function of its columns.
LEMMA RowColumns ==
  ASSUME NEW id \in Ids, NEW row \in Rows(id)
  PROVE  row = [c \in DOMAIN row |-> row[c]]
<1>1. CASE id \in Users
  <2>1. row = <<>> BY <1>1, RowsOf DEF Bare
  <2>2. <<>> \in Seq({}) OBVIOUS
  <2>. QED BY <2>1, <2>2
<1>2. CASE id \in Workspaces
  <2>1. row \in [owner : Users] BY <1>2, RowsOf DEF Workspace
  <2>. QED BY <2>1
<1>3. CASE id \in Members
  <2>1. row \in [role : Roles] BY <1>3, RowsOf DEF Membership
  <2>. QED BY <2>1
<1>4. CASE id \in Keys \cup Groups
  <2>1. row \in [ws : Workspaces] BY <1>4, RowsOf DEF Owned
  <2>. QED BY <2>1
<1>5. CASE id \in Sessions
  <2>1. row \in [ws : Workspaces, status : Statuses] BY <1>5, RowsOf DEF Session
  <2>. QED BY <2>1
<1>6. CASE id \in Contacts
  <2>1. row \in [ws : Workspaces, phone : Phones, blocked : BOOLEAN] BY <1>6, RowsOf DEF Contact
  <2>. QED BY <2>1
<1>. QED BY <1>1, <1>2, <1>3, <1>4, <1>5, <1>6 DEF Ids

\* An entity that took the columns of an update is one of its table.
LEMMA AssignedOK ==
  ASSUME NEW id \in Ids, NEW row \in Rows(id), NEW r, r.id = id, SetOK(r)
  PROVE  Assigned(row, r.set) \in Rows(id)
<1>1. CASE r.set = <<>>
  <2>1. DOMAIN r.set = {} BY <1>1
  <2>2. Assigned(row, r.set) = [c \in DOMAIN row |-> row[c]] BY <2>1 DEF Assigned
  <2>. QED BY <2>2, RowColumns
<1>2. CASE id \in Sessions /\ \E st \in Statuses : r.set = [status |-> st]
  <2>1. PICK st \in Statuses : r.set = [status |-> st] BY <1>2
  <2>2. DOMAIN r.set = {"status"} /\ r.set["status"] = st BY <2>1
  <2>3. row \in [ws : Workspaces, status : Statuses] BY <1>2, RowsOf DEF Session
  <2>4. DOMAIN row = {"ws", "status"} BY <2>3
  <2>5. Assigned(row, r.set) = [c \in {"ws", "status"} |-> IF c = "ws" THEN row.ws ELSE st]
    BY <2>2, <2>4 DEF Assigned
  <2>6. Assigned(row, r.set) = [ws |-> row.ws, status |-> st] BY <2>5
  <2>7. row.ws \in Workspaces BY <2>3
  <2>8. Assigned(row, r.set) \in [ws : Workspaces, status : Statuses] BY <2>6, <2>7
  <2>. QED BY <1>2, <2>8, RowsOf DEF Session
<1>3. CASE id \in Contacts /\ r.set \in [{"phone"} -> Phones]
  <2>1. row \in [ws : Workspaces, phone : Phones, blocked : BOOLEAN] BY <1>3, RowsOf DEF Contact
  <2>2. DOMAIN row = {"ws", "phone", "blocked"} BY <2>1
  <2>3. DOMAIN r.set = {"phone"} BY <1>3
  <2>4. Assigned(row, r.set) =
          [c \in {"ws", "phone", "blocked"} |-> IF c = "phone" THEN r.set["phone"] ELSE row[c]]
    BY <2>2, <2>3 DEF Assigned
  <2>5. Assigned(row, r.set) = [ws |-> row.ws, phone |-> r.set["phone"], blocked |-> row.blocked]
    BY <2>4
  <2>6. r.set["phone"] \in Phones BY <1>3
  <2>7. row.ws \in Workspaces /\ row.blocked \in BOOLEAN BY <2>1
  <2>8. Assigned(row, r.set) \in [ws : Workspaces, phone : Phones, blocked : BOOLEAN]
    BY <2>5, <2>6, <2>7
  <2>. QED BY <1>3, <2>8, RowsOf DEF Contact
<1>4. CASE id \in Contacts /\ r.set \in [{"blocked"} -> BOOLEAN]
  <2>1. row \in [ws : Workspaces, phone : Phones, blocked : BOOLEAN] BY <1>4, RowsOf DEF Contact
  <2>2. DOMAIN row = {"ws", "phone", "blocked"} BY <2>1
  <2>3. DOMAIN r.set = {"blocked"} BY <1>4
  <2>4. Assigned(row, r.set) =
          [c \in {"ws", "phone", "blocked"} |-> IF c = "blocked" THEN r.set["blocked"] ELSE row[c]]
    BY <2>2, <2>3 DEF Assigned
  <2>5. Assigned(row, r.set) = [ws |-> row.ws, phone |-> row.phone, blocked |-> r.set["blocked"]]
    BY <2>4
  <2>6. r.set["blocked"] \in BOOLEAN BY <1>4
  <2>7. row.ws \in Workspaces /\ row.phone \in Phones BY <2>1
  <2>8. Assigned(row, r.set) \in [ws : Workspaces, phone : Phones, blocked : BOOLEAN]
    BY <2>5, <2>6, <2>7
  <2>. QED BY <1>4, <2>8, RowsOf DEF Contact
<1>5. CASE id \in Contacts /\ r.set \in [phone : Phones, blocked : BOOLEAN]
  <2>1. row \in [ws : Workspaces, phone : Phones, blocked : BOOLEAN] BY <1>5, RowsOf DEF Contact
  <2>2. DOMAIN row = {"ws", "phone", "blocked"} BY <2>1
  <2>3. DOMAIN r.set = {"phone", "blocked"} BY <1>5
  <2>4. Assigned(row, r.set) =
          [c \in {"ws", "phone", "blocked"} |->
             IF c \in {"phone", "blocked"} THEN r.set[c] ELSE row[c]]
    BY <2>2, <2>3 DEF Assigned
  <2>5. Assigned(row, r.set) =
          [ws |-> row.ws, phone |-> r.set["phone"], blocked |-> r.set["blocked"]]
    BY <2>4
  <2>6. r.set["phone"] \in Phones /\ r.set["blocked"] \in BOOLEAN BY <1>5
  <2>7. row.ws \in Workspaces BY <2>1
  <2>8. Assigned(row, r.set) \in [ws : Workspaces, phone : Phones, blocked : BOOLEAN]
    BY <2>5, <2>6, <2>7
  <2>. QED BY <1>5, <2>8, RowsOf DEF Contact
<1>. QED BY <1>1, <1>2, <1>3, <1>4, <1>5 DEF SetOK

\* What save() leaves in a row is a row of its table, or none.
LEMMA SavedOK ==
  ASSUME NEW id \in Ids, db[id] = Nil \/ db[id] \in Rows(id), NEW e \in Rows(id), NEW p
  PROVE  IF Here(id) \/ p.insert THEN Saved(id, e, p) \in Rows(id) ELSE Saved(id, e, p) = Nil
<1>1. CASE Here(id) /\ ~p.insert
  <2>. DEFINE row == db[id]  s == [c \in DOMAIN e |-> IF c \in p.cols THEN e[c] ELSE row[c]]
  <2>1. Saved(id, e, p) = s BY <1>1 DEF Saved
  <2>2. row \in Rows(id) BY <1>1 DEF Here
  <2>. HIDE DEF row
  <2>3. CASE id \in Users BY <1>1, <2>1, <2>2, <2>3, RowsOf DEF Bare
  <2>4. CASE id \in Workspaces
    <3>1. e \in [owner : Users] /\ row \in [owner : Users] BY <2>2, <2>4, RowsOf DEF Workspace
    <3>2. DOMAIN e = {"owner"} BY <3>1
    <3>3. s = [owner |-> s.owner] /\ s.owner \in {e.owner, row.owner} BY <3>2
    <3>. QED BY <1>1, <2>1, <2>4, <3>1, <3>3, RowsOf DEF Workspace
  <2>5. CASE id \in Members
    <3>1. e \in [role : Roles] /\ row \in [role : Roles] BY <2>2, <2>5, RowsOf DEF Membership
    <3>2. DOMAIN e = {"role"} BY <3>1
    <3>3. s = [role |-> s.role] /\ s.role \in {e.role, row.role} BY <3>2
    <3>. QED BY <1>1, <2>1, <2>5, <3>1, <3>3, RowsOf DEF Membership
  <2>6. CASE id \in Keys \cup Groups
    <3>1. e \in [ws : Workspaces] /\ row \in [ws : Workspaces] BY <2>2, <2>6, RowsOf DEF Owned
    <3>2. DOMAIN e = {"ws"} BY <3>1
    <3>3. s = [ws |-> s.ws] /\ s.ws \in {e.ws, row.ws} BY <3>2
    <3>. QED BY <1>1, <2>1, <2>6, <3>1, <3>3, RowsOf DEF Owned
  <2>7. CASE id \in Sessions
    <3>1. e \in [ws : Workspaces, status : Statuses] /\ row \in [ws : Workspaces, status : Statuses]
      BY <2>2, <2>7, RowsOf DEF Session
    <3>2. DOMAIN e = {"ws", "status"} BY <3>1
    <3>3. s = [ws |-> s.ws, status |-> s.status] BY <3>2
    <3>4. s.ws \in {e.ws, row.ws} /\ s.status \in {e.status, row.status} BY <3>2
    <3>5. s.ws \in Workspaces /\ s.status \in Statuses BY <3>1, <3>4
    <3>. QED BY <1>1, <2>1, <2>7, <3>3, <3>5, RowsOf DEF Session
  <2>8. CASE id \in Contacts
    <3>1. /\ e \in [ws : Workspaces, phone : Phones, blocked : BOOLEAN]
          /\ row \in [ws : Workspaces, phone : Phones, blocked : BOOLEAN]
      BY <2>2, <2>8, RowsOf DEF Contact
    <3>2. DOMAIN e = {"ws", "phone", "blocked"} BY <3>1
    <3>3. s = [ws |-> s.ws, phone |-> s.phone, blocked |-> s.blocked] BY <3>2
    <3>4. s.ws \in {e.ws, row.ws} /\ s.phone \in {e.phone, row.phone} BY <3>2
    <3>5. s.blocked = IF "blocked" \in p.cols THEN e.blocked ELSE row.blocked BY <3>2
    <3>6. s.ws \in Workspaces /\ s.phone \in Phones BY <3>1, <3>4
    <3>7. s.blocked \in BOOLEAN BY <3>1, <3>5
    <3>. QED BY <1>1, <2>1, <2>8, <3>3, <3>6, <3>7, RowsOf DEF Contact
  <2>. QED BY <2>3, <2>4, <2>5, <2>6, <2>7, <2>8 DEF Ids
<1>. QED BY <1>1 DEF Saved

-----------------------------------------------------------------------------
(* The lists of awaits.                                                    *)

\* A step's number.
LEMMA RankNat == \A s : Rank(s) \in Nat
BY DEF Rank

\* The order of the awaits.
LEMMA Ranks ==
  /\ Rank("owner") = 1 /\ Rank("admin") = 2 /\ Rank("member") = 3 /\ Rank("invitee") = 4
  /\ Rank("absent") = 5 /\ Rank("find") = 6 /\ Rank("creds") = 7 /\ Rank("ask") = 8
  /\ Rank("terminate") = 9 /\ Rank("insert") = 10 /\ Rank("load") = 11 /\ Rank("write") = 12
  /\ Rank("launch") = 13 /\ Rank("lookup") = 14 /\ Rank("sign") = 15 /\ Rank("store") = 16
  /\ Rank("forget") = 17 /\ Rank("resolve") = 18 /\ Rank("publish") = 19 /\ Rank("delete") = 20
BY DEF Rank

\* The awaits by name.
LEMMA Awaits ==
  /\ "owner" \in Steps /\ "admin" \in Steps /\ "member" \in Steps /\ "invitee" \in Steps
  /\ "absent" \in Steps /\ "find" \in Steps /\ "creds" \in Steps /\ "ask" \in Steps
  /\ "terminate" \in Steps /\ "insert" \in Steps /\ "load" \in Steps /\ "write" \in Steps
  /\ "launch" \in Steps /\ "lookup" \in Steps /\ "sign" \in Steps /\ "store" \in Steps
  /\ "forget" \in Steps /\ "resolve" \in Steps /\ "publish" \in Steps /\ "delete" \in Steps
BY DEF Steps

\* What the first await of a list leaves ahead comes after it.
LEMMA TailOf ==
  ASSUME NEW t \in Seq(Steps), t # <<>>, Ascends(t)
  PROVE  /\ Tail(t) \in Seq(Steps) /\ Ascends(Tail(t)) /\ Head(t) \in Steps
         /\ Ahead(t) = {Head(t)} \cup Ahead(Tail(t))
         /\ \A s \in Ahead(Tail(t)) :
              Rank(Head(t)) < Rank(s) \/ (Head(t) = "lookup" /\ s = "lookup")
         /\ Len(t) = 1 <=> Ahead(Tail(t)) = {}
         /\ Len(t) # 1 => Tail(t) # <<>>
<1>. DEFINE u == Tail(t)
<1>1. /\ Len(t) \in Nat \ {0} /\ u \in Seq(Steps) /\ Len(u) = Len(t) - 1
      /\ Head(t) = t[1] /\ \A i \in 1..Len(u) : u[i] = t[i + 1] /\ i + 1 \in 1..Len(t)
  OBVIOUS
<1>. HIDE DEF u
<1>2. \A i \in 1..Len(t) : t[i] \in Steps OBVIOUS
<1>3. Ascends(u)
  <2>. SUFFICES ASSUME NEW i \in 1..Len(u), NEW k \in 1..Len(u), i < k
                PROVE  Rank(u[i]) < Rank(u[k]) \/ (u[i] = "lookup" /\ u[k] = "lookup")
    BY DEF Ascends
  <2>1. i + 1 < k + 1 OBVIOUS
  <2>. QED BY <1>1, <2>1 DEF Ascends
<1>4. Ahead(t) = {Head(t)} \cup Ahead(u)
  <2>1. ASSUME NEW s \in Ahead(t) PROVE s \in {Head(t)} \cup Ahead(u)
    <3>1. PICK i \in 1..Len(t) : s = t[i] BY DEF Ahead
    <3>2. CASE i = 1 BY <1>1, <3>1, <3>2
    <3>3. CASE i # 1
      <4>1. i - 1 \in 1..Len(u) /\ (i - 1) + 1 = i BY <1>1, <3>3
      <4>2. s = u[i - 1] BY <1>1, <3>1, <4>1
      <4>. QED BY <4>1, <4>2 DEF Ahead
    <3>. QED BY <3>2, <3>3
  <2>2. Head(t) \in Ahead(t) BY <1>1 DEF Ahead
  <2>3. Ahead(u) \subseteq Ahead(t) BY <1>1 DEF Ahead
  <2>. QED BY <2>1, <2>2, <2>3
<1>5. ASSUME NEW s \in Ahead(u)
      PROVE  Rank(Head(t)) < Rank(s) \/ (Head(t) = "lookup" /\ s = "lookup")
  <2>1. PICK i \in 1..Len(u) : s = u[i] BY DEF Ahead
  <2>2. 1 \in 1..Len(t) /\ i + 1 \in 1..Len(t) /\ 1 < i + 1 /\ s = t[i + 1] BY <1>1, <2>1
  <2>. QED BY <1>1, <2>2 DEF Ascends
<1>6. Len(t) = 1 <=> Ahead(u) = {}
  <2>1. CASE Len(t) = 1 BY <1>1, <2>1 DEF Ahead
  <2>2. CASE Len(t) # 1
    <3>1. 1 \in 1..Len(u) BY <1>1, <2>2
    <3>. QED BY <2>2, <3>1 DEF Ahead
  <2>. QED BY <2>1, <2>2
<1>7. Len(t) # 1 => u # <<>> BY <1>1
<1>. QED BY <1>1, <1>2, <1>3, <1>4, <1>5, <1>6, <1>7 DEF u

\* A list of one await.
LEMMA Todo1 ==
  ASSUME NEW a \in Steps
  PROVE  <<a>> \in Seq(Steps) /\ Ascends(<<a>>) /\ Ahead(<<a>>) = {a} /\ <<a>> # <<>>
BY DEF Ascends, Ahead

\* A list with one more await before it.
LEMMA Longer ==
  ASSUME NEW a \in Steps, NEW t \in Seq(Steps), Ascends(t), \A s \in Ahead(t) : Rank(a) < Rank(s),
         NEW u \in Seq(Steps), Len(u) = Len(t) + 1, u[1] = a,
         \A i \in 1..Len(t) : u[i + 1] = t[i]
  PROVE  Ascends(u) /\ u # <<>> /\ Ahead(u) = {a} \cup Ahead(t)
<1>1. /\ Len(t) \in Nat
      /\ \A i \in 1..Len(t) : i + 1 \in 1..Len(u)
      /\ \A i \in 1..Len(u) : i # 1 => i - 1 \in 1..Len(t) /\ u[i] = t[i - 1]
  <2>1. Len(t) \in Nat OBVIOUS
  <2>2. ASSUME NEW i \in 1..Len(u), i # 1 PROVE i - 1 \in 1..Len(t) /\ u[i] = t[i - 1]
    <3>1. i - 1 \in 1..Len(t) /\ (i - 1) + 1 = i BY <2>1, <2>2
    <3>. QED BY <3>1
  <2>. QED BY <2>1, <2>2
<1>2. \A i \in 1..Len(t) : t[i] \in Ahead(t) BY DEF Ahead
<1>3. Ascends(u)
  <2>. SUFFICES ASSUME NEW i \in 1..Len(u), NEW k \in 1..Len(u), i < k
                PROVE  Rank(u[i]) < Rank(u[k]) \/ (u[i] = "lookup" /\ u[k] = "lookup")
    BY DEF Ascends
  <2>1. k # 1 /\ k - 1 \in 1..Len(t) /\ u[k] = t[k - 1] BY <1>1
  <2>2. CASE i = 1 BY <1>1, <1>2, <2>1, <2>2
  <2>3. CASE i # 1
    <3>1. i - 1 \in 1..Len(t) /\ u[i] = t[i - 1] /\ i - 1 < k - 1 BY <1>1, <2>3
    <3>. QED BY <2>1, <3>1 DEF Ascends
  <2>. QED BY <2>2, <2>3
<1>4. Ahead(u) = {a} \cup Ahead(t)
  <2>1. ASSUME NEW s \in Ahead(u) PROVE s \in {a} \cup Ahead(t)
    <3>1. PICK i \in 1..Len(u) : s = u[i] BY DEF Ahead
    <3>. QED BY <1>1, <1>2, <3>1
  <2>2. a \in Ahead(u)
    <3>1. 1 \in 1..Len(u) BY <1>1
    <3>. QED BY <1>1, <3>1 DEF Ahead
  <2>3. ASSUME NEW s \in Ahead(t) PROVE s \in Ahead(u)
    <3>1. PICK i \in 1..Len(t) : s = t[i] BY DEF Ahead
    <3>. QED BY <1>1, <3>1 DEF Ahead
  <2>. QED BY <2>1, <2>2, <2>3
<1>5. u # <<>> BY <1>1
<1>. QED BY <1>3, <1>4, <1>5

\* Lists of two awaits and more.
LEMMA Todo2 ==
  ASSUME NEW a \in Steps, NEW b \in Steps,
         Rank(a) < Rank(b)
  PROVE  /\ <<a, b>> \in Seq(Steps) /\ Ascends(<<a, b>>)
         /\ <<a, b>> # <<>> /\ Ahead(<<a, b>>) = {a, b}
<1>. DEFINE u == <<a, b>>  t == <<b>>
<1>1. u \in Seq(Steps) /\ t \in Seq(Steps) OBVIOUS
<1>2. Len(u) = Len(t) + 1 /\ u[1] = a OBVIOUS
<1>3. \A i \in 1..Len(t) : u[i + 1] = t[i] OBVIOUS
<1>4. Ascends(t) /\ Ahead(t) = {b} BY Todo1
<1>. HIDE DEF u, t
<1>5. \A s \in Ahead(t) : Rank(a) < Rank(s) BY <1>4, RankNat
<1>6. Ascends(u) /\ u # <<>> /\ Ahead(u) = {a} \cup Ahead(t)
  BY <1>1, <1>2, <1>3, <1>4, <1>5, Longer
<1>7. Ahead(u) = {a, b} BY <1>4, <1>6
<1>. QED BY <1>1, <1>6, <1>7 DEF u

\* A list of three awaits.
LEMMA Todo3 ==
  ASSUME NEW a \in Steps, NEW b \in Steps, NEW c \in Steps,
         Rank(a) < Rank(b), Rank(b) < Rank(c)
  PROVE  /\ <<a, b, c>> \in Seq(Steps) /\ Ascends(<<a, b, c>>)
         /\ <<a, b, c>> # <<>> /\ Ahead(<<a, b, c>>) = {a, b, c}
<1>. DEFINE u == <<a, b, c>>  t == <<b, c>>
<1>1. u \in Seq(Steps) /\ t \in Seq(Steps) OBVIOUS
<1>2. Len(u) = Len(t) + 1 /\ u[1] = a OBVIOUS
<1>3. \A i \in 1..Len(t) : u[i + 1] = t[i] OBVIOUS
<1>4. Ascends(t) /\ Ahead(t) = {b, c} BY Todo2
<1>. HIDE DEF u, t
<1>5. \A s \in Ahead(t) : Rank(a) < Rank(s) BY <1>4, RankNat
<1>6. Ascends(u) /\ u # <<>> /\ Ahead(u) = {a} \cup Ahead(t)
  BY <1>1, <1>2, <1>3, <1>4, <1>5, Longer
<1>7. Ahead(u) = {a, b, c} BY <1>4, <1>6
<1>. QED BY <1>1, <1>6, <1>7 DEF u

\* A list of four awaits.
LEMMA Todo4 ==
  ASSUME NEW a \in Steps, NEW b \in Steps, NEW c \in Steps, NEW d \in Steps,
         Rank(a) < Rank(b), Rank(b) < Rank(c), Rank(c) < Rank(d)
  PROVE  /\ <<a, b, c, d>> \in Seq(Steps) /\ Ascends(<<a, b, c, d>>)
         /\ <<a, b, c, d>> # <<>> /\ Ahead(<<a, b, c, d>>) = {a, b, c, d}
<1>. DEFINE u == <<a, b, c, d>>  t == <<b, c, d>>
<1>1. u \in Seq(Steps) /\ t \in Seq(Steps) OBVIOUS
<1>2. Len(u) = Len(t) + 1 /\ u[1] = a OBVIOUS
<1>3. \A i \in 1..Len(t) : u[i + 1] = t[i] OBVIOUS
<1>4. Ascends(t) /\ Ahead(t) = {b, c, d} BY Todo3
<1>. HIDE DEF u, t
<1>5. \A s \in Ahead(t) : Rank(a) < Rank(s) BY <1>4, RankNat
<1>6. Ascends(u) /\ u # <<>> /\ Ahead(u) = {a} \cup Ahead(t)
  BY <1>1, <1>2, <1>3, <1>4, <1>5, Longer
<1>7. Ahead(u) = {a, b, c, d} BY <1>4, <1>6
<1>. QED BY <1>1, <1>6, <1>7 DEF u

\* A list of five awaits.
LEMMA Todo5 ==
  ASSUME NEW a \in Steps, NEW b \in Steps, NEW c \in Steps, NEW d \in Steps,
         NEW e \in Steps,
         Rank(a) < Rank(b), Rank(b) < Rank(c), Rank(c) < Rank(d), Rank(d) < Rank(e)
  PROVE  /\ <<a, b, c, d, e>> \in Seq(Steps) /\ Ascends(<<a, b, c, d, e>>)
         /\ <<a, b, c, d, e>> # <<>> /\ Ahead(<<a, b, c, d, e>>) = {a, b, c, d, e}
<1>. DEFINE u == <<a, b, c, d, e>>  t == <<b, c, d, e>>
<1>1. u \in Seq(Steps) /\ t \in Seq(Steps) OBVIOUS
<1>2. Len(u) = Len(t) + 1 /\ u[1] = a OBVIOUS
<1>3. \A i \in 1..Len(t) : u[i + 1] = t[i] OBVIOUS
<1>4. Ascends(t) /\ Ahead(t) = {b, c, d, e} BY Todo4
<1>. HIDE DEF u, t
<1>5. \A s \in Ahead(t) : Rank(a) < Rank(s) BY <1>4, RankNat
<1>6. Ascends(u) /\ u # <<>> /\ Ahead(u) = {a} \cup Ahead(t)
  BY <1>1, <1>2, <1>3, <1>4, <1>5, Longer
<1>7. Ahead(u) = {a, b, c, d, e} BY <1>4, <1>6
<1>. QED BY <1>1, <1>6, <1>7 DEF u

\* A list of six awaits.
LEMMA Todo6 ==
  ASSUME NEW a \in Steps, NEW b \in Steps, NEW c \in Steps, NEW d \in Steps,
         NEW e \in Steps, NEW f \in Steps,
         Rank(a) < Rank(b), Rank(b) < Rank(c), Rank(c) < Rank(d), Rank(d) < Rank(e), Rank(e) < Rank(f)
  PROVE  /\ <<a, b, c, d, e, f>> \in Seq(Steps) /\ Ascends(<<a, b, c, d, e, f>>)
         /\ <<a, b, c, d, e, f>> # <<>> /\ Ahead(<<a, b, c, d, e, f>>) = {a, b, c, d, e, f}
<1>. DEFINE u == <<a, b, c, d, e, f>>  t == <<b, c, d, e, f>>
<1>1. u \in Seq(Steps) /\ t \in Seq(Steps) OBVIOUS
<1>2. Len(u) = Len(t) + 1 /\ u[1] = a OBVIOUS
<1>3. \A i \in 1..Len(t) : u[i + 1] = t[i] OBVIOUS
<1>4. Ascends(t) /\ Ahead(t) = {b, c, d, e, f} BY Todo5
<1>. HIDE DEF u, t
<1>5. \A s \in Ahead(t) : Rank(a) < Rank(s) BY <1>4, RankNat
<1>6. Ascends(u) /\ u # <<>> /\ Ahead(u) = {a} \cup Ahead(t)
  BY <1>1, <1>2, <1>3, <1>4, <1>5, Longer
<1>7. Ahead(u) = {a, b, c, d, e, f} BY <1>4, <1>6
<1>. QED BY <1>1, <1>6, <1>7 DEF u

\* The lists of an import: lookups to the end.
LEMMA Lookups ==
  ASSUME NEW t \in Seq(Steps), Ahead(t) \subseteq {"lookup"}
  PROVE  Ascends(t)
BY DEF Ascends, Ahead

-----------------------------------------------------------------------------
(* A call that gets past its first await.                                  *)

\* Call r past its first await, with entity e, plan p and argument a.
Moved(r, e, p, a) ==
  [op |-> r.op, todo |-> Tail(r.todo), by |-> r.by, ws |-> r.ws, id |-> r.id, set |-> r.set,
   ent |-> e, plan |-> p, arg |-> a]

Onward(r, n) == IF Len(r.todo) = 1 THEN Ended ELSE n

\* The fields of a call that is past its first await.
LEMMA PastOf ==
  ASSUME NEW x, NEW o, NEW t, NEW b, NEW w, NEW i, NEW s, NEW e, NEW p, NEW a, NEW u,
         x = [op |-> o, todo |-> t, by |-> b, ws |-> w, id |-> i, set |-> s,
              ent |-> e, plan |-> p, arg |-> a]
  PROVE  u = Tail(t) =>
           Past(x) = IF Len(t) = 1 THEN Ended
                     ELSE [op |-> o, todo |-> u, by |-> b, ws |-> w, id |-> i, set |-> s,
                           ent |-> e, plan |-> p, arg |-> a]
<1>. DEFINE y == [op |-> o, todo |-> u, by |-> b, ws |-> w, id |-> i, set |-> s,
                  ent |-> e, plan |-> p, arg |-> a]
<1>1. x.todo = t /\ [x EXCEPT !.todo = u] = y OBVIOUS
<1>. HIDE DEF y
<1>2. ASSUME u = Tail(t) PROVE Past(x) = IF Len(t) = 1 THEN Ended ELSE y
  <2>1. [x EXCEPT !.todo = Tail(@)] = [x EXCEPT !.todo = u] BY <1>1, <1>2
  <2>. QED BY <1>1, <2>1 DEF Past
<1>. QED BY <1>2 DEF y

\* A call that is past its first await, with another entity, plan or argument.
LEMMA PastIs ==
  ASSUME NEW r, CallOK(r), NEW e, NEW p, NEW a
  PROVE  /\ Past(r) = Onward(r, Moved(r, r.ent, r.plan, r.arg))
         /\ Past([r EXCEPT !.ent = e]) = Onward(r, Moved(r, e, r.plan, r.arg))
         /\ Past([r EXCEPT !.plan = p]) = Onward(r, Moved(r, r.ent, p, r.arg))
         /\ Past([r EXCEPT !.ent = e, !.plan = p]) = Onward(r, Moved(r, e, p, r.arg))
         /\ Past([r EXCEPT !.arg = a]) = Onward(r, Moved(r, r.ent, r.plan, a))
<1>. DEFINE Rec(d, q, c) == [op |-> r.op, todo |-> r.todo, by |-> r.by, ws |-> r.ws, id |-> r.id,
                             set |-> r.set, ent |-> d, plan |-> q, arg |-> c]
<1>1. r = Rec(r.ent, r.plan, r.arg) BY DEF CallOK
<1>2. [r EXCEPT !.ent = e] = Rec(e, r.plan, r.arg) BY <1>1
<1>3. [r EXCEPT !.plan = p] = Rec(r.ent, p, r.arg) BY <1>1
<1>4. [r EXCEPT !.ent = e, !.plan = p] = Rec(e, p, r.arg)
  <2>. DEFINE y == [r EXCEPT !.ent = e]
  <2>1. [r EXCEPT !.ent = e, !.plan = p] = [y EXCEPT !.plan = p] OBVIOUS
  <2>2. y = Rec(e, r.plan, r.arg) BY <1>2
  <2>. HIDE DEF y
  <2>3. [y EXCEPT !.plan = p] = Rec(e, p, r.arg) BY <2>2
  <2>. QED BY <2>1, <2>3
<1>5. [r EXCEPT !.arg = a] = Rec(r.ent, r.plan, a) BY <1>1
<1>6. ASSUME NEW d, NEW q, NEW c PROVE Past(Rec(d, q, c)) = Onward(r, Moved(r, d, q, c))
  <2>. DEFINE x == Rec(d, q, c)  u == Tail(r.todo)
  <2>1. x = [op |-> r.op, todo |-> r.todo, by |-> r.by, ws |-> r.ws, id |-> r.id, set |-> r.set,
             ent |-> d, plan |-> q, arg |-> c]
    OBVIOUS
  <2>2. u = Tail(r.todo) OBVIOUS
  <2>. HIDE DEF x, u
  <2>3. Past(x) = IF Len(r.todo) = 1 THEN Ended
                  ELSE [op |-> r.op, todo |-> u, by |-> r.by, ws |-> r.ws, id |-> r.id,
                        set |-> r.set, ent |-> d, plan |-> q, arg |-> c]
    BY <2>1, <2>2, PastOf
  <2>4. Moved(r, d, q, c) = [op |-> r.op, todo |-> u, by |-> r.by, ws |-> r.ws, id |-> r.id,
                             set |-> r.set, ent |-> d, plan |-> q, arg |-> c]
    BY <2>2 DEF Moved
  <2>. QED BY <2>3, <2>4 DEF Onward, x
<1>. HIDE DEF Rec
<1>. QED BY <1>1, <1>2, <1>3, <1>4, <1>5, <1>6

\* The awaits left of an import have their phones.
LEMMA PhonesOfTail ==
  ASSUME NEW t \in Seq(Steps), t # <<>>, NEW phones, PhonesLeft(t, phones)
  PROVE  PhonesLeft(Tail(t), phones)
<1>1. /\ Len(t) \in Nat \ {0} /\ Len(Tail(t)) = Len(t) - 1
      /\ \A i \in 1..Len(Tail(t)) : Tail(t)[i] = t[i + 1] /\ i + 1 \in 1..Len(t)
  OBVIOUS
<1>. DEFINE u == Tail(t)
<1>2. phones \in Seq(Phones) /\ Len(phones) \in Nat BY DEF PhonesLeft
<1>3. ASSUME NEW i \in 1..Len(u), u[i] = "lookup" PROVE Len(u) - i < Len(phones)
  <2>1. Len(t) - (i + 1) < Len(phones) BY <1>1, <1>3 DEF PhonesLeft
  <2>. QED BY <1>1, <1>2, <2>1
<1>. QED BY <1>2, <1>3 DEF PhonesLeft

\* A call that is past its first await is as a call must be.
LEMMA MovedOK ==
  ASSUME NEW r, CallOK(r), Len(r.todo) # 1, NEW e, NEW p, NEW a,
         e = Nil \/ (r.id \in Ids /\ e \in Rows(r.id)),
         e = Nil /\ Head(r.todo) = "find" => FALSE,
         e = Nil /\ r.ent # Nil => Head(r.todo) \in {"insert", "write"},
         p = [insert |-> p.insert, cols |-> p.cols], p.insert \in BOOLEAN,
         r.op = "createWorkspace" => Head(r.todo) # "insert" /\ e \in {r.ent, Nil},
         Ahead(Tail(r.todo)) \cap {"resolve", "publish"} # {} => a \in Drawing,
         "lookup" \in Ahead(Tail(r.todo)) => a = r.arg
  PROVE  CallOK(Moved(r, e, p, a))
<1>. DEFINE n == Moved(r, e, p, a)  h == Head(r.todo)  T == Ahead(r.todo)  U == Ahead(Tail(r.todo))
<1>1. /\ n.op = r.op /\ n.by = r.by /\ n.ws = r.ws /\ n.id = r.id /\ n.set = r.set
      /\ n.ent = e /\ n.plan = p /\ n.arg = a /\ n.todo = Tail(r.todo)
  BY DEF Moved
<1>2. n = [op |-> n.op, todo |-> n.todo, by |-> n.by, ws |-> n.ws, id |-> n.id, set |-> n.set,
           ent |-> n.ent, plan |-> n.plan, arg |-> n.arg]
  BY DEF Moved
<1>3. /\ n.todo \in Seq(Steps) /\ Ascends(n.todo) /\ n.todo # <<>> /\ h \in Steps
      /\ T = {h} \cup U /\ \A s \in U : Rank(h) < Rank(s) \/ (h = "lookup" /\ s = "lookup")
  BY <1>1, TailOf DEF CallOK, TodoOK
<1>. HIDE DEF n, h, T, U
<1>4. Ahead(n.todo) = U BY <1>1 DEF U
<1>5. SetOK(n) BY <1>1 DEF SetOK, CallOK
<1>6. TodoOK(n)
  <2>. USE <1>1, <1>3, <1>4 DEF CallOK, TodoOK, T, U
  <2>1. U \cap {"sign", "store", "forget"} # {} => n.id \in Users OBVIOUS
  <2>2. U \cap {"ask", "terminate", "launch"} # {} => n.id \in Sessions OBVIOUS
  <2>3. U \cap {"resolve", "publish"} # {} => n.id \in Sessions /\ n.arg \in Drawing OBVIOUS
  <2>4. "lookup" \in U => /\ n.id \in Contacts \cup {Nil} /\ n.set = <<>> /\ n.op = "import"
                          /\ U \subseteq {"member", "insert", "load", "write", "lookup"}
                          /\ n.ws \in Workspaces /\ PhonesLeft(n.todo, n.arg)
    BY PhonesOfTail
  <2>5. n.id = Nil => U \subseteq {"member", "lookup"} OBVIOUS
  <2>6. "insert" \in U => /\ n.id \notin Members
                          /\ U \cap {"load", "write"} # {} => n.op = "createWorkspace"
                          /\ n.id \in Workspaces => n.op = "createWorkspace"
    OBVIOUS
  <2>7. "delete" \in U => /\ n.id \in Sessions => n.op = "removeSession"
                          /\ n.id \in Members => n.op = "removeMember"
    OBVIOUS
  <2>8. "absent" \in U \/ "invitee" \in U => n.op = "invite" OBVIOUS
  <2>. QED BY <2>1, <2>2, <2>3, <2>4, <2>5, <2>6, <2>7, <2>8
<1>7. OpOK(n)
  <2>. USE <1>1, <1>3, <1>4 DEF CallOK, OpOK, T, U
  <2>1. n.op = "createWorkspace" =>
         /\ n.by \in Users /\ n.set = <<>> /\ U \subseteq {"insert", "load", "write"}
         /\ \/ /\ n.id \in Workspaces /\ "insert" \in U
               /\ n.ent # Nil => n.ent.owner = n.by
            \/ n.id \in Members /\ "insert" \notin U /\ (n.ent # Nil => n.ent.role = "owner")
    BY DEF h
  <2>2. n.op = "removeMember" => U \subseteq {"admin", "find", "delete"} OBVIOUS
  <2>3. n.op \in {"invite", "removeMember"} =>
          n.id \in Members /\ n.id[1] = n.ws /\ n.by \in Users /\ n.set = <<>>
    OBVIOUS
  <2>4. n.id \in Members => n.op \in {"invite", "removeMember", "createWorkspace"} OBVIOUS
  <2>. QED BY <2>1, <2>2, <2>3, <2>4
<1>8. EntOK(n)
  <2>1. ASSUME e = Nil, U \cap Uses # {} PROVE "find" \in U
    <3>1. CASE r.ent = Nil BY <1>3, <2>1, <3>1 DEF CallOK, EntOK, T, h
    <3>2. CASE r.ent # Nil
      <4>1. h \in {"insert", "write"} BY <2>1, <3>2 DEF h
      <4>2. CASE h = "write" BY <1>3, <2>1, <4>2 DEF Uses, Rank
      <4>3. CASE h = "insert"
        <5>1. "ask" \notin U BY <1>3, <4>3 DEF Rank
        <5>2. "insert" \notin U BY <1>3, <4>3 DEF Rank
        <5>3. U \cap {"load", "write"} = {}
          BY <1>3, <4>3 DEF CallOK, TodoOK, T, h
        <5>. QED BY <2>1, <5>1, <5>2, <5>3 DEF Uses
      <4>. QED BY <4>1, <4>2, <4>3
    <3>. QED BY <3>1, <3>2
  <2>. QED BY <1>1, <1>4, <2>1 DEF EntOK
<1>. QED BY <1>1, <1>2, <1>3, <1>5, <1>6, <1>7, <1>8 DEF CallOK, n

\* Or it is answered.
LEMMA OnwardOK ==
  ASSUME NEW r, CallOK(r), NEW e, NEW p, NEW a,
         e = Nil \/ (r.id \in Ids /\ e \in Rows(r.id)),
         e = Nil /\ Head(r.todo) = "find" => FALSE,
         e = Nil /\ r.ent # Nil => Head(r.todo) \in {"insert", "write"},
         p = [insert |-> p.insert, cols |-> p.cols], p.insert \in BOOLEAN,
         r.op = "createWorkspace" => Head(r.todo) # "insert" /\ e \in {r.ent, Nil},
         Ahead(Tail(r.todo)) \cap {"resolve", "publish"} # {} => a \in Drawing,
         "lookup" \in Ahead(Tail(r.todo)) => a = r.arg
  PROVE  LET n == Onward(r, Moved(r, e, p, a)) IN n = Ended \/ CallOK(n)
<1>1. CASE Len(r.todo) = 1 BY <1>1 DEF Onward
<1>2. CASE Len(r.todo) # 1
  <2>1. CallOK(Moved(r, e, p, a)) BY <1>2, MovedOK
  <2>. QED BY <1>2, <2>1 DEF Onward
<1>. QED BY <1>1, <1>2

-----------------------------------------------------------------------------
(* New calls.                                                              *)

\* What a new call holds is a row that is there, one nobody had, or a
\* membership; and it has everything it must check ahead of it.
Opens(n) ==
  LET T == Ahead(n.todo) IN
    /\ n.ent # Nil =>
         \/ Here(n.id) /\ n.id \in Keys
         \/ n.id \in Members
         \/ /\ ~Here(n.id) /\ n.id \notin removed /\ "insert" \in T
            /\ n.id \in Users \/ \A p \in Requests : InFlight(p) => api[p].id # n.id
    /\ n.ent # Nil /\ n.id \in Sessions =>
         /\ "admin" \in T /\ n.ent.ws = n.ws /\ n.by \in Users /\ n.ws \in Workspaces
    /\ "store" \in T => "sign" \in T
    /\ "publish" \in T => "resolve" \in T
    /\ n.op = "removeSession" => "terminate" \in T
    /\ n.op = "invite" => {"admin", "absent"} \subseteq T
    /\ n.op = "removeMember" => "find" \in T
    /\ n.op = "createWorkspace" => "insert" \in T

Begun(q) == \E n : api[q] = Unmade /\ api' = [api EXCEPT ![q] = n] /\ CallOK(n) /\ Opens(n)

\* The fields of a new call.
LEMMA CallIs ==
  ASSUME NEW op, NEW todo, NEW u, NEW w, NEW id, NEW set, NEW ent, NEW arg, NEW n,
         n = Call(op, todo, u, w, id, set, ent, arg)
  PROVE  /\ n.op = op /\ n.todo = todo /\ n.by = u /\ n.ws = w /\ n.id = id /\ n.set = set
         /\ n.ent = ent /\ n.arg = arg
         /\ n.plan = [insert |-> n.plan.insert, cols |-> n.plan.cols] /\ n.plan.insert \in BOOLEAN
         /\ n = [op |-> n.op, todo |-> n.todo, by |-> n.by, ws |-> n.ws, id |-> n.id,
                 set |-> n.set, ent |-> n.ent, plan |-> n.plan, arg |-> n.arg]
BY DEF Call, NoPlan

\* The list todo is one of awaits T, in their order.
Lists(todo, T) == todo \in Seq(Steps) /\ Ascends(todo) /\ todo # <<>> /\ Ahead(todo) = T

\* A key is of one table.
LEMMA IdsApart ==
  ASSUME NEW id
  PROVE  /\ id \in Users =>
              /\ id \in Ids
              /\ id \notin Workspaces \cup Members \cup Keys \cup Sessions \cup Contacts \cup Groups
         /\ id \in Workspaces =>
              /\ id \in Ids
              /\ id \notin Users \cup Members \cup Keys \cup Sessions \cup Contacts \cup Groups
         /\ id \in Members =>
              /\ id \in Ids
              /\ id \notin Users \cup Workspaces \cup Keys \cup Sessions \cup Contacts \cup Groups
         /\ id \in Keys \cup Groups =>
              /\ id \in Ids
              /\ id \notin Users \cup Workspaces \cup Members \cup Sessions \cup Contacts
         /\ id \in Sessions =>
              /\ id \in Ids
              /\ id \notin Users \cup Workspaces \cup Members \cup Keys \cup Contacts \cup Groups
         /\ id \in Contacts =>
              /\ id \in Ids
              /\ id \notin Users \cup Workspaces \cup Members \cup Keys \cup Sessions \cup Groups
         /\ id \in Ids => id # Nil /\ Nil \notin Rows(id)
BY IdsAssumption DEF Ids

\* update(), remove() and the like: they find the row first.
LEMMA EditBegins ==
  ASSUME NEW q \in Requests, NEW op, NEW todo, NEW T, NEW u, NEW w, NEW id \in Ids \ Members, NEW set,
         NEW n, n = Call(op, todo, u, w, id, set, Nil, Nil), Begin(q, n), SetOK(n), Lists(todo, T),
         op \notin {"createWorkspace", "removeMember", "invite"}, "find" \in T,
         T \cap {"sign", "store", "forget", "lookup", "insert", "absent", "invitee",
                 "resolve", "publish"} = {},
         T \cap {"ask", "terminate", "launch"} # {} => id \in Sessions,
         "delete" \in T /\ id \in Sessions => op = "removeSession",
         op = "removeSession" => "terminate" \in T
  PROVE  Begun(q)
<1>1. /\ n.op = op /\ n.todo = todo /\ n.by = u /\ n.ws = w /\ n.id = id /\ n.set = set
      /\ n.ent = Nil /\ n.arg = Nil
      /\ n.plan = [insert |-> n.plan.insert, cols |-> n.plan.cols] /\ n.plan.insert \in BOOLEAN
      /\ n = [op |-> n.op, todo |-> n.todo, by |-> n.by, ws |-> n.ws, id |-> n.id,
              set |-> n.set, ent |-> n.ent, plan |-> n.plan, arg |-> n.arg]
  BY CallIs
<1>2. Ahead(n.todo) = T /\ n.todo \in Seq(Steps) /\ Ascends(n.todo) /\ n.todo # <<>>
  BY <1>1 DEF Lists
<1>3. id # Nil BY IdsAssumption
<1>4. TodoOK(n) BY <1>1, <1>2, <1>3 DEF TodoOK
<1>5. OpOK(n) BY <1>1, <1>2 DEF OpOK
<1>6. EntOK(n) BY <1>1, <1>2 DEF EntOK
<1>7. CallOK(n) BY <1>1, <1>2, <1>4, <1>5, <1>6 DEF CallOK
<1>8. Opens(n) BY <1>1, <1>2 DEF Opens
<1>. QED BY <1>7, <1>8 DEF Begin, Begun

\* create(): a new row, INSERTed.
LEMMA CreateBegins ==
  ASSUME NEW q \in Requests, NEW todo, NEW check \in {"admin", "member"}, NEW u, NEW w,
         NEW id \in Keys \cup Sessions \cup Contacts \cup Groups, NEW ent \in Rows(id), Fresh(id),
         NEW n, n = Call("create", todo, u, w, id, <<>>, ent, Nil), Begin(q, n),
         Lists(todo, {check, "insert"}),
         id \in Sessions =>
           check = "admin" /\ ent.ws = w /\ u \in Users /\ w \in Workspaces
  PROVE  Begun(q)
<1>1. /\ n.op = "create" /\ n.todo = todo /\ n.by = u /\ n.ws = w /\ n.id = id /\ n.set = <<>>
      /\ n.ent = ent /\ n.arg = Nil
      /\ n.plan = [insert |-> n.plan.insert, cols |-> n.plan.cols] /\ n.plan.insert \in BOOLEAN
      /\ n = [op |-> n.op, todo |-> n.todo, by |-> n.by, ws |-> n.ws, id |-> n.id,
              set |-> n.set, ent |-> n.ent, plan |-> n.plan, arg |-> n.arg]
  BY CallIs
<1>2. /\ Ahead(n.todo) = {check, "insert"} /\ n.todo \in Seq(Steps) /\ Ascends(n.todo)
      /\ n.todo # <<>>
  BY <1>1 DEF Lists
<1>3. id \in Ids /\ id # Nil /\ id \notin Members /\ id \notin Workspaces /\ ent # Nil
  BY IdsAssumption DEF Ids
<1>4. TodoOK(n) BY <1>1, <1>2, <1>3 DEF TodoOK
<1>5. OpOK(n) BY <1>1, <1>2, <1>3 DEF OpOK
<1>6. EntOK(n) BY <1>1, <1>2, <1>3 DEF EntOK
<1>7. CallOK(n) BY <1>1, <1>2, <1>3, <1>4, <1>5, <1>6 DEF CallOK, SetOK
<1>8. Opens(n) BY <1>1, <1>2 DEF Opens, Fresh
<1>. QED BY <1>7, <1>8 DEF Begin, Begun

\* A call on the user's own account.
LEMMA AccountBegins ==
  ASSUME NEW q \in Requests, NEW op, NEW todo, NEW T, NEW u \in Users, NEW ent,
         NEW n, n = Call(op, todo, u, Nil, u, <<>>, ent, Nil), Begin(q, n), Lists(todo, T),
         op \notin {"createWorkspace", "removeMember", "invite", "removeSession"},
         \/ ent = Bare /\ T = {"insert", "sign", "store"} /\ ~Here(u) /\ u \notin removed
         \/ ent = Nil /\ T \in {{"sign", "store"}, {"forget"}}
  PROVE  Begun(q)
<1>1. /\ n.op = op /\ n.todo = todo /\ n.by = u /\ n.ws = Nil /\ n.id = u /\ n.set = <<>>
      /\ n.ent = ent /\ n.arg = Nil
      /\ n.plan = [insert |-> n.plan.insert, cols |-> n.plan.cols] /\ n.plan.insert \in BOOLEAN
      /\ n = [op |-> n.op, todo |-> n.todo, by |-> n.by, ws |-> n.ws, id |-> n.id,
              set |-> n.set, ent |-> n.ent, plan |-> n.plan, arg |-> n.arg]
  BY CallIs
<1>2. Ahead(n.todo) = T /\ n.todo \in Seq(Steps) /\ Ascends(n.todo) /\ n.todo # <<>>
  BY <1>1 DEF Lists
<1>3. u \in Ids /\ u \notin Members /\ u \notin Workspaces /\ u \notin Sessions /\ u # Nil
  BY IdsAssumption DEF Ids
<1>4. TodoOK(n) BY <1>1, <1>2, <1>3 DEF TodoOK
<1>5. OpOK(n) BY <1>1, <1>2, <1>3 DEF OpOK
<1>6. EntOK(n) BY <1>1, <1>2, <1>3, RowsOf, IdsAssumption DEF EntOK, Uses
<1>7. CallOK(n) BY <1>1, <1>2, <1>3, <1>4, <1>5, <1>6 DEF CallOK, SetOK
<1>8. Opens(n) BY <1>1, <1>2, <1>3 DEF Opens
<1>. QED BY <1>7, <1>8 DEF Begin, Begun

\* The lists of four awaits and more.
LEMMA LongLists ==
  /\ Lists(<<"admin", "find", "load", "write">>, {"admin", "find", "load", "write"})
  /\ Lists(<<"member", "find", "load", "write">>, {"member", "find", "load", "write"})
  /\ Lists(<<"admin", "invitee", "absent", "load", "write">>,
           {"admin", "invitee", "absent", "load", "write"})
  /\ Lists(<<"admin", "member", "find", "resolve", "publish">>,
           {"admin", "member", "find", "resolve", "publish"})
  /\ Lists(<<"admin", "member", "find", "creds", "terminate", "delete">>,
           {"admin", "member", "find", "creds", "terminate", "delete"})
  /\ Lists(<<"member", "find", "creds", "load", "write", "launch">>,
           {"member", "find", "creds", "load", "write", "launch"})
  /\ Lists(<<"member", "find", "creds", "terminate", "load", "write">>,
           {"member", "find", "creds", "terminate", "load", "write"})
  /\ Lists(<<"member", "find", "creds", "ask", "load", "write">>,
           {"member", "find", "creds", "ask", "load", "write"})
<1>1. Lists(<<"admin", "find", "load", "write">>, {"admin", "find", "load", "write"})
  <2>1. /\ "admin" \in Steps /\ "find" \in Steps /\ "load" \in Steps /\ "write" \in Steps
    BY DEF Steps
  <2>2. /\ Rank("admin") < Rank("find") /\ Rank("find") < Rank("load") /\ Rank("load") < Rank("write")
    BY Ranks
  <2>. QED BY <2>1, <2>2, Todo4 DEF Lists
<1>2. Lists(<<"member", "find", "load", "write">>, {"member", "find", "load", "write"})
  <2>1. /\ "member" \in Steps /\ "find" \in Steps /\ "load" \in Steps /\ "write" \in Steps
    BY DEF Steps
  <2>2. /\ Rank("member") < Rank("find") /\ Rank("find") < Rank("load") /\ Rank("load") < Rank("write")
    BY Ranks
  <2>. QED BY <2>1, <2>2, Todo4 DEF Lists
<1>3. Lists(<<"admin", "invitee", "absent", "load", "write">>,
            {"admin", "invitee", "absent", "load", "write"})
  <2>1. /\ "admin" \in Steps /\ "invitee" \in Steps /\ "absent" \in Steps /\ "load" \in Steps
        /\ "write" \in Steps
    BY DEF Steps
  <2>2. /\ Rank("admin") < Rank("invitee") /\ Rank("invitee") < Rank("absent")
        /\ Rank("absent") < Rank("load") /\ Rank("load") < Rank("write")
    BY Ranks
  <2>. QED BY <2>1, <2>2, Todo5 DEF Lists
<1>4. Lists(<<"admin", "member", "find", "resolve", "publish">>,
            {"admin", "member", "find", "resolve", "publish"})
  <2>1. /\ "admin" \in Steps /\ "member" \in Steps /\ "find" \in Steps /\ "resolve" \in Steps
        /\ "publish" \in Steps
    BY DEF Steps
  <2>2. /\ Rank("admin") < Rank("member") /\ Rank("member") < Rank("find")
        /\ Rank("find") < Rank("resolve") /\ Rank("resolve") < Rank("publish")
    BY Ranks
  <2>. QED BY <2>1, <2>2, Todo5 DEF Lists
<1>5. Lists(<<"admin", "member", "find", "creds", "terminate", "delete">>,
            {"admin", "member", "find", "creds", "terminate", "delete"})
  <2>1. /\ "admin" \in Steps /\ "member" \in Steps /\ "find" \in Steps /\ "creds" \in Steps
        /\ "terminate" \in Steps /\ "delete" \in Steps
    BY DEF Steps
  <2>2. /\ Rank("admin") < Rank("member") /\ Rank("member") < Rank("find")
        /\ Rank("find") < Rank("creds") /\ Rank("creds") < Rank("terminate")
        /\ Rank("terminate") < Rank("delete")
    BY Ranks
  <2>. QED BY <2>1, <2>2, Todo6 DEF Lists
<1>6. Lists(<<"member", "find", "creds", "load", "write", "launch">>,
            {"member", "find", "creds", "load", "write", "launch"})
  <2>1. /\ "member" \in Steps /\ "find" \in Steps /\ "creds" \in Steps /\ "load" \in Steps
        /\ "write" \in Steps /\ "launch" \in Steps
    BY DEF Steps
  <2>2. /\ Rank("member") < Rank("find") /\ Rank("find") < Rank("creds") /\ Rank("creds") < Rank("load")
        /\ Rank("load") < Rank("write") /\ Rank("write") < Rank("launch")
    BY Ranks
  <2>. QED BY <2>1, <2>2, Todo6 DEF Lists
<1>7. Lists(<<"member", "find", "creds", "terminate", "load", "write">>,
            {"member", "find", "creds", "terminate", "load", "write"})
  <2>1. /\ "member" \in Steps /\ "find" \in Steps /\ "creds" \in Steps /\ "terminate" \in Steps
        /\ "load" \in Steps /\ "write" \in Steps
    BY DEF Steps
  <2>2. /\ Rank("member") < Rank("find") /\ Rank("find") < Rank("creds")
        /\ Rank("creds") < Rank("terminate")
        /\ Rank("terminate") < Rank("load") /\ Rank("load") < Rank("write")
    BY Ranks
  <2>. QED BY <2>1, <2>2, Todo6 DEF Lists
<1>8. Lists(<<"member", "find", "creds", "ask", "load", "write">>,
            {"member", "find", "creds", "ask", "load", "write"})
  <2>1. /\ "member" \in Steps /\ "find" \in Steps /\ "creds" \in Steps /\ "ask" \in Steps
        /\ "load" \in Steps /\ "write" \in Steps
    BY DEF Steps
  <2>2. /\ Rank("member") < Rank("find") /\ Rank("find") < Rank("creds") /\ Rank("creds") < Rank("ask")
        /\ Rank("ask") < Rank("load") /\ Rank("load") < Rank("write")
    BY Ranks
  <2>. QED BY <2>1, <2>2, Todo6 DEF Lists
<1>. QED BY <1>1, <1>2, <1>3, <1>4, <1>5, <1>6, <1>7, <1>8

\* register(), login(), refreshToken(), logout(), update() and remove() of a user.
LEMMA AccountCallsBegin ==
  ASSUME NEW q \in Requests, AccountCalls(q)
  PROVE  Begun(q)
<1>. PICK u \in Users : \/ Register(q, u) \/ Login(q, u) \/ Refresh(q, u) \/ Logout(q, u)
                        \/ UpdateUser(q, u) \/ RemoveUser(q, u)
  BY DEF AccountCalls
<1>1. ASSUME Register(q, u) PROVE Begun(q)
  <2>. DEFINE n == Call("register", <<"insert", "sign", "store">>, u, Nil, u, <<>>, Bare, Nil)
  <2>1. Begin(q, n) /\ ~Here(u) /\ u \notin removed BY <1>1 DEF Register, Account
  <2>2. Lists(<<"insert", "sign", "store">>, {"insert", "sign", "store"})
    BY Awaits, Ranks, Todo3 DEF Lists
  <2>. HIDE DEF n
  <2>. QED BY <2>1, <2>2, AccountBegins DEF n
<1>2. ASSUME Login(q, u) PROVE Begun(q)
  <2>. DEFINE n == Call("login", <<"sign", "store">>, u, Nil, u, <<>>, Nil, Nil)
  <2>1. Begin(q, n) BY <1>2 DEF Login, Account
  <2>2. Lists(<<"sign", "store">>, {"sign", "store"}) BY Awaits, Ranks, Todo2 DEF Lists
  <2>. HIDE DEF n
  <2>. QED BY <2>1, <2>2, AccountBegins DEF n
<1>3. ASSUME Refresh(q, u) PROVE Begun(q)
  <2>. DEFINE n == Call("refresh", <<"sign", "store">>, u, Nil, u, <<>>, Nil, Nil)
  <2>1. Begin(q, n) BY <1>3 DEF Refresh, Account
  <2>2. Lists(<<"sign", "store">>, {"sign", "store"}) BY Awaits, Ranks, Todo2 DEF Lists
  <2>. HIDE DEF n
  <2>. QED BY <2>1, <2>2, AccountBegins DEF n
<1>4. ASSUME Logout(q, u) PROVE Begun(q)
  <2>. DEFINE n == Call("logout", <<"forget">>, u, Nil, u, <<>>, Nil, Nil)
  <2>1. Begin(q, n) BY <1>4 DEF Logout, Account
  <2>2. Lists(<<"forget">>, {"forget"}) BY Awaits, Ranks, Todo1 DEF Lists
  <2>. HIDE DEF n
  <2>. QED BY <2>1, <2>2, AccountBegins DEF n
<1>5. ASSUME UpdateUser(q, u) PROVE Begun(q)
  <2>. DEFINE n == Call("updateUser", <<"find", "load", "write">>, u, Nil, u, <<>>, Nil, Nil)
  <2>1. Begin(q, n) BY <1>5 DEF UpdateUser, Account
  <2>2. SetOK(n) BY DEF SetOK, Call
  <2>3. Lists(<<"find", "load", "write">>, {"find", "load", "write"})
    BY Awaits, Ranks, Todo3 DEF Lists
  <2>4. u \in Ids \ Members BY IdsApart
  <2>. HIDE DEF n
  <2>. QED BY <2>1, <2>2, <2>3, <2>4, EditBegins, IdsApart DEF n
<1>6. ASSUME RemoveUser(q, u) PROVE Begun(q)
  <2>. DEFINE n == Call("removeUser", <<"find", "delete">>, u, Nil, u, <<>>, Nil, Nil)
  <2>1. Begin(q, n) BY <1>6 DEF RemoveUser, Account
  <2>2. SetOK(n) BY DEF SetOK, Call
  <2>3. Lists(<<"find", "delete">>, {"find", "delete"}) BY Awaits, Ranks, Todo2 DEF Lists
  <2>4. u \in Ids \ Members BY IdsApart
  <2>. HIDE DEF n
  <2>. QED BY <2>1, <2>2, <2>3, <2>4, EditBegins, IdsApart DEF n
<1>. QED BY <1>1, <1>2, <1>3, <1>4, <1>5, <1>6

\* The calls that find a row and save or remove it.
LEMMA EditsBegin ==
  ASSUME NEW q \in Requests, NEW u \in Users, NEW w \in Workspaces
  PROVE  /\ UpdateWorkspace(q, u, w) => Begun(q)
         /\ RemoveWorkspace(q, u, w) => Begun(q)
         /\ \A k \in Keys : RemoveKey(q, u, w, k) => Begun(q)
         /\ \A c \in Contacts : UpdateContact(q, u, w, c) \/ Blacklist(q, u, w, c) => Begun(q)
         /\ \A g \in Groups : UpdateGroup(q, u, w, g) => Begun(q)
         /\ \A id \in Contacts \cup Groups : RemoveRow(q, u, w, id) => Begun(q)
<1>1. ASSUME UpdateWorkspace(q, u, w) PROVE Begun(q)
  <2>. DEFINE n == Call("update", <<"admin", "find", "load", "write">>, u, w, w, <<>>, Nil, Nil)
  <2>1. Begin(q, n) BY <1>1 DEF UpdateWorkspace, InWorkspace
  <2>2. SetOK(n) BY DEF SetOK, Call
  <2>3. Lists(<<"admin", "find", "load", "write">>, {"admin", "find", "load", "write"})
    BY LongLists
  <2>4. w \in Ids \ Members BY IdsApart
  <2>. HIDE DEF n
  <2>. QED BY <2>1, <2>2, <2>3, <2>4, EditBegins, IdsApart DEF n
<1>2. ASSUME RemoveWorkspace(q, u, w) PROVE Begun(q)
  <2>. DEFINE n == Call("remove", <<"owner", "find", "delete">>, u, w, w, <<>>, Nil, Nil)
  <2>1. Begin(q, n) BY <1>2 DEF RemoveWorkspace, InWorkspace
  <2>2. SetOK(n) BY DEF SetOK, Call
  <2>3. Lists(<<"owner", "find", "delete">>, {"owner", "find", "delete"})
    BY Awaits, Ranks, Todo3 DEF Lists
  <2>4. w \in Ids \ Members BY IdsApart
  <2>. HIDE DEF n
  <2>. QED BY <2>1, <2>2, <2>3, <2>4, EditBegins, IdsApart DEF n
<1>3. ASSUME NEW k \in Keys, RemoveKey(q, u, w, k) PROVE Begun(q)
  <2>. DEFINE n == Call("remove", <<"admin", "find", "delete">>, u, w, k, <<>>, Nil, Nil)
  <2>1. Begin(q, n) BY <1>3 DEF RemoveKey, InWorkspace
  <2>2. SetOK(n) BY DEF SetOK, Call
  <2>3. Lists(<<"admin", "find", "delete">>, {"admin", "find", "delete"})
    BY Awaits, Ranks, Todo3 DEF Lists
  <2>4. k \in Ids \ Members BY IdsApart
  <2>. HIDE DEF n
  <2>. QED BY <2>1, <2>2, <2>3, <2>4, EditBegins, IdsApart DEF n
<1>4. ASSUME NEW c \in Contacts, UpdateContact(q, u, w, c) \/ Blacklist(q, u, w, c) PROVE Begun(q)
  <2>1. PICK set \in Patches :
          Begin(q, Call("update", <<"member", "find", "load", "write">>, u, w, c, set, Nil, Nil))
    <3>1. ASSUME NEW S, NEW b \in S PROVE [blocked |-> b] \in [{"blocked"} -> S] OBVIOUS
    <3>2. [blocked |-> TRUE] \in [{"blocked"} -> BOOLEAN] BY Zenon, <3>1
    <3>3. [blocked |-> TRUE] \in Patches BY <3>2 DEF Patches
    <3>. QED BY <1>4, <3>3 DEF UpdateContact, Blacklist, InWorkspace
  <2>. DEFINE n == Call("update", <<"member", "find", "load", "write">>, u, w, c, set, Nil, Nil)
  <2>2. Begin(q, n) BY <2>1
  <2>3. SetOK(n) BY DEF SetOK, Call, Patches
  <2>4. Lists(<<"member", "find", "load", "write">>, {"member", "find", "load", "write"})
    BY LongLists
  <2>5. c \in Ids \ Members BY IdsApart
  <2>. HIDE DEF n
  <2>. QED BY <2>2, <2>3, <2>4, <2>5, EditBegins DEF n
<1>5. ASSUME NEW g \in Groups, UpdateGroup(q, u, w, g) PROVE Begun(q)
  <2>. DEFINE n == Call("update", <<"member", "find", "load", "write">>,
                        u, w, g, <<>>, Nil, Nil)
  <2>1. Begin(q, n) BY <1>5 DEF UpdateGroup, InWorkspace
  <2>2. SetOK(n) BY DEF SetOK, Call
  <2>3. Lists(<<"member", "find", "load", "write">>, {"member", "find", "load", "write"})
    BY LongLists
  <2>4. g \in Ids \ Members BY IdsApart
  <2>. HIDE DEF n
  <2>. QED BY <2>1, <2>2, <2>3, <2>4, EditBegins, IdsApart DEF n
<1>6. ASSUME NEW id \in Contacts \cup Groups, RemoveRow(q, u, w, id) PROVE Begun(q)
  <2>. DEFINE n == Call("remove", <<"member", "find", "delete">>, u, w, id, <<>>, Nil, Nil)
  <2>1. Begin(q, n) BY <1>6 DEF RemoveRow, InWorkspace
  <2>2. SetOK(n) BY DEF SetOK, Call
  <2>3. Lists(<<"member", "find", "delete">>, {"member", "find", "delete"})
    BY Awaits, Ranks, Todo3 DEF Lists
  <2>4. id \in Ids \ Members BY IdsApart
  <2>. HIDE DEF n
  <2>. QED BY <2>1, <2>2, <2>3, <2>4, EditBegins, IdsApart DEF n
<1>. QED BY <1>1, <1>2, <1>3, <1>4, <1>5, <1>6

\* The calls that INSERT a row.
LEMMA CreatesBegin ==
  ASSUME NEW q \in Requests, NEW u \in Users, NEW w \in Workspaces
  PROVE  /\ \A k \in Keys : CreateKey(q, u, w, k) => Begun(q)
         /\ \A s \in Sessions : CreateSession(q, u, w, s) => Begun(q)
         /\ \A c \in Contacts : CreateContact(q, u, w, c) => Begun(q)
         /\ \A g \in Groups : CreateGroup(q, u, w, g) => Begun(q)
<1>1. ASSUME NEW k \in Keys, CreateKey(q, u, w, k) PROVE Begun(q)
  <2>. DEFINE n == Call("create", <<"admin", "insert">>, u, w, k, <<>>, [ws |-> w], Nil)
  <2>1. Begin(q, n) /\ Fresh(k) BY <1>1 DEF CreateKey, InWorkspace
  <2>2. Lists(<<"admin", "insert">>, {"admin", "insert"}) BY Awaits, Ranks, Todo2 DEF Lists
  <2>3. [ws |-> w] \in Rows(k) BY RowsOf DEF Owned, Session, Contact, Statuses
  <2>4. k \notin Sessions BY IdsApart
  <2>. HIDE DEF n
  <2>. QED BY <2>1, <2>2, <2>3, <2>4, CreateBegins DEF n
<1>2. ASSUME NEW s \in Sessions, CreateSession(q, u, w, s) PROVE Begun(q)
  <2>. DEFINE n == Call("create", <<"admin", "insert">>,
                        u, w, s, <<>>, [ws |-> w, status |-> "idle"], Nil)
  <2>1. Begin(q, n) /\ Fresh(s) BY <1>2 DEF CreateSession, InWorkspace
  <2>2. Lists(<<"admin", "insert">>, {"admin", "insert"}) BY Awaits, Ranks, Todo2 DEF Lists
  <2>3. [ws |-> w, status |-> "idle"] \in Rows(s)
    BY RowsOf DEF Owned, Session, Contact, Statuses
  <2>4. [ws |-> w, status |-> "idle"].ws = w OBVIOUS
  <2>. HIDE DEF n
  <2>. QED BY <2>1, <2>2, <2>3, <2>4, CreateBegins DEF n
<1>3. ASSUME NEW c \in Contacts, CreateContact(q, u, w, c) PROVE Begun(q)
  <2>. PICK p \in Phones, b \in BOOLEAN :
         Begin(q, InWorkspace("create", <<"member", "insert">>, u, w, c, <<>>,
                              [ws |-> w, phone |-> p, blocked |-> b]))
    BY <1>3 DEF CreateContact
  <2>. DEFINE n == Call("create", <<"member", "insert">>,
                        u, w, c, <<>>, [ws |-> w, phone |-> p, blocked |-> b], Nil)
  <2>1. Begin(q, n) /\ Fresh(c) BY <1>3 DEF CreateContact, InWorkspace
  <2>2. Lists(<<"member", "insert">>, {"member", "insert"}) BY Awaits, Ranks, Todo2 DEF Lists
  <2>3. [ws |-> w, phone |-> p, blocked |-> b] \in Rows(c)
    BY RowsOf DEF Owned, Session, Contact, Statuses
  <2>4. c \notin Sessions BY IdsApart
  <2>. HIDE DEF n
  <2>. QED BY <2>1, <2>2, <2>3, <2>4, CreateBegins DEF n
<1>4. ASSUME NEW g \in Groups, CreateGroup(q, u, w, g) PROVE Begun(q)
  <2>. DEFINE n == Call("create", <<"member", "insert">>, u, w, g, <<>>, [ws |-> w], Nil)
  <2>1. Begin(q, n) /\ Fresh(g) BY <1>4 DEF CreateGroup, InWorkspace
  <2>2. Lists(<<"member", "insert">>, {"member", "insert"}) BY Awaits, Ranks, Todo2 DEF Lists
  <2>3. [ws |-> w] \in Rows(g) BY RowsOf DEF Owned, Session, Contact, Statuses
  <2>4. g \notin Sessions BY IdsApart
  <2>. HIDE DEF n
  <2>. QED BY <2>1, <2>2, <2>3, <2>4, CreateBegins DEF n
<1>. QED BY <1>1, <1>2, <1>3, <1>4

\* The calls on sessions.
LEMMA SessionCallsBegin ==
  ASSUME NEW q \in Requests, SessionCalls(q)
  PROVE  Begun(q)
<1>. PICK u \in Users, w \in Workspaces, s \in Sessions :
       \/ CreateSession(q, u, w, s) \/ UpdateSession(q, u, w, s) \/ RemoveSession(q, u, w, s)
       \/ Start(q, u, w, s) \/ Stop(q, u, w, s) \/ GetStatus(q, u, w, s)
  BY DEF SessionCalls
<1>1. ASSUME UpdateSession(q, u, w, s) PROVE Begun(q)
  <2>. DEFINE n == Call("update", <<"member", "find", "load", "write">>,
                        u, w, s, <<>>, Nil, Nil)
  <2>1. Begin(q, n) BY <1>1 DEF UpdateSession, InWorkspace
  <2>2. SetOK(n) BY DEF SetOK, Call
  <2>3. Lists(<<"member", "find", "load", "write">>, {"member", "find", "load", "write"})
    BY LongLists
  <2>4. s \in Ids \ Members BY IdsApart
  <2>. HIDE DEF n
  <2>. QED BY <2>1, <2>2, <2>3, <2>4, EditBegins, IdsApart DEF n
<1>2. ASSUME RemoveSession(q, u, w, s) PROVE Begun(q)
  <2>. DEFINE n == Call("removeSession", <<"admin", "member", "find", "creds", "terminate", "delete">>,
                        u, w, s, <<>>, Nil, Nil)
  <2>1. Begin(q, n) BY <1>2 DEF RemoveSession, InWorkspace
  <2>2. SetOK(n) BY DEF SetOK, Call
  <2>3. Lists(<<"admin", "member", "find", "creds", "terminate", "delete">>,
              {"admin", "member", "find", "creds", "terminate", "delete"})
    BY LongLists
  <2>4. s \in Ids \ Members BY IdsApart
  <2>. HIDE DEF n
  <2>. QED BY <2>1, <2>2, <2>3, <2>4, EditBegins, IdsApart DEF n
<1>3. ASSUME Start(q, u, w, s) PROVE Begun(q)
  <2>. DEFINE n == Call("start", <<"member", "find", "creds", "load", "write", "launch">>,
                        u, w, s, [status |-> "connecting"], Nil, Nil)
  <2>1. Begin(q, n) BY <1>3 DEF Start, InWorkspace
  <2>2. SetOK(n) BY DEF SetOK, Call, Statuses
  <2>3. Lists(<<"member", "find", "creds", "load", "write", "launch">>,
              {"member", "find", "creds", "load", "write", "launch"})
    BY LongLists
  <2>4. s \in Ids \ Members BY IdsApart
  <2>. HIDE DEF n
  <2>. QED BY <2>1, <2>2, <2>3, <2>4, EditBegins, IdsApart DEF n
<1>4. ASSUME Stop(q, u, w, s) PROVE Begun(q)
  <2>. DEFINE n == Call("stop", <<"member", "find", "creds", "terminate", "load", "write">>,
                        u, w, s, [status |-> "disconnected"], Nil, Nil)
  <2>1. Begin(q, n) BY <1>4 DEF Stop, InWorkspace
  <2>2. SetOK(n) BY DEF SetOK, Call, Statuses
  <2>3. Lists(<<"member", "find", "creds", "terminate", "load", "write">>,
              {"member", "find", "creds", "terminate", "load", "write"})
    BY LongLists
  <2>4. s \in Ids \ Members BY IdsApart
  <2>. HIDE DEF n
  <2>. QED BY <2>1, <2>2, <2>3, <2>4, EditBegins, IdsApart DEF n
<1>5. ASSUME GetStatus(q, u, w, s) PROVE Begun(q)
  <2>. DEFINE n == Call("getStatus", <<"member", "find", "creds", "ask", "load", "write">>,
                        u, w, s, <<>>, Nil, Nil)
  <2>1. Begin(q, n) BY <1>5 DEF GetStatus, InWorkspace
  <2>2. SetOK(n) BY DEF SetOK, Call
  <2>3. Lists(<<"member", "find", "creds", "ask", "load", "write">>,
              {"member", "find", "creds", "ask", "load", "write"})
    BY LongLists
  <2>4. s \in Ids \ Members BY IdsApart
  <2>. HIDE DEF n
  <2>. QED BY <2>1, <2>2, <2>3, <2>4, EditBegins, IdsApart DEF n
<1>. QED BY <1>1, <1>2, <1>3, <1>4, <1>5, CreatesBegin

\* create() of a workspace.
LEMMA CreateWorkspaceBegins ==
  ASSUME NEW q \in Requests, NEW u \in Users, NEW w \in Workspaces, CreateWorkspace(q, u, w)
  PROVE  Begun(q)
<1>. DEFINE todo == <<"insert", "load", "write">>
            n == Call("createWorkspace", todo, u, w, w, <<>>, [owner |-> u], Nil)
<1>1. Begin(q, n) /\ Fresh(w) BY DEF CreateWorkspace, InWorkspace
<1>2. Lists(todo, {"insert", "load", "write"}) BY Awaits, Ranks, Todo3 DEF Lists
<1>3. [owner |-> u] \in Rows(w) /\ [owner |-> u].owner = u BY RowsOf DEF Workspace
<1>. DEFINE ent == [owner |-> u]
<1>4. n = Call("createWorkspace", todo, u, w, w, <<>>, ent, Nil) OBVIOUS
<1>5. ent \in Rows(w) /\ ent.owner = u BY <1>3
<1>. HIDE DEF todo, n, ent
<1>6. /\ n.op = "createWorkspace" /\ n.todo = todo /\ n.by = u /\ n.ws = w /\ n.id = w
      /\ n.set = <<>> /\ n.ent = ent /\ n.arg = Nil
      /\ n.plan = [insert |-> n.plan.insert, cols |-> n.plan.cols] /\ n.plan.insert \in BOOLEAN
      /\ n = [op |-> n.op, todo |-> n.todo, by |-> n.by, ws |-> n.ws, id |-> n.id,
              set |-> n.set, ent |-> n.ent, plan |-> n.plan, arg |-> n.arg]
  BY <1>4, CallIs
<1>7. /\ Ahead(n.todo) = {"insert", "load", "write"} /\ n.todo \in Seq(Steps)
      /\ Ascends(n.todo) /\ n.todo # <<>>
  BY <1>2, <1>6 DEF Lists
<1>8. w \in Ids /\ w \notin Members /\ w \notin Sessions /\ w # Nil /\ ent # Nil BY <1>5, IdsApart
<1>9. TodoOK(n) BY <1>6, <1>7, <1>8 DEF TodoOK
<1>10. OpOK(n) BY <1>5, <1>6, <1>7, <1>8 DEF OpOK
<1>11. EntOK(n) BY <1>5, <1>6, <1>7, <1>8 DEF EntOK
<1>12. CallOK(n) BY <1>6, <1>7, <1>8, <1>9, <1>10, <1>11 DEF CallOK, SetOK
<1>13. Opens(n) BY <1>1, <1>6, <1>7, <1>8 DEF Opens, Fresh
<1>. QED BY <1>1, <1>12, <1>13 DEF Begin, Begun

\* Calls on the membership <<w, v>>.
LEMMA MemberBegins ==
  ASSUME NEW q \in Requests, NEW op, NEW todo, NEW T, NEW u \in Users, NEW w \in Workspaces,
         NEW v \in Users, NEW ent, NEW n, n = Call(op, todo, u, w, <<w, v>>, <<>>, ent, Nil),
         Begin(q, n),
         Lists(todo, T),
         \/ /\ op = "invite" /\ ent \in Rows(<<w, v>>)
            /\ T = {"admin", "invitee", "absent", "load", "write"}
         \/ op = "removeMember" /\ ent = Nil /\ T = {"admin", "find", "delete"}
  PROVE  Begun(q)
<1>1. PICK id : id = <<w, v>> OBVIOUS
<1>2. id \in Members /\ id[1] = w BY <1>1 DEF Members
<1>3. /\ n.op = op /\ n.todo = todo /\ n.by = u /\ n.ws = w /\ n.id = id
      /\ n.set = <<>> /\ n.ent = ent /\ n.arg = Nil
      /\ n.plan = [insert |-> n.plan.insert, cols |-> n.plan.cols] /\ n.plan.insert \in BOOLEAN
      /\ n = [op |-> n.op, todo |-> n.todo, by |-> n.by, ws |-> n.ws, id |-> n.id,
              set |-> n.set, ent |-> n.ent, plan |-> n.plan, arg |-> n.arg]
  BY <1>1, CallIs
<1>4. Ahead(n.todo) = T /\ n.todo \in Seq(Steps) /\ Ascends(n.todo) /\ n.todo # <<>>
  BY <1>3 DEF Lists
<1>5. /\ id \in Ids
              /\ id \notin Sessions /\ id \notin Workspaces /\ id # Nil /\ Nil \notin Rows(id)
  BY <1>2, IdsApart
<1>6. TodoOK(n) BY <1>3, <1>4, <1>5 DEF TodoOK
<1>7. OpOK(n) BY <1>2, <1>3, <1>4 DEF OpOK
<1>8. EntOK(n) BY <1>1, <1>3, <1>4, <1>5 DEF EntOK, Uses
<1>9. CallOK(n) BY <1>3, <1>4, <1>5, <1>6, <1>7, <1>8 DEF CallOK, SetOK
<1>10. Opens(n) BY <1>2, <1>3, <1>4, <1>5 DEF Opens
<1>. QED BY <1>9, <1>10 DEF Begin, Begun

\* invite() of a user.
LEMMA InviteBegins ==
  ASSUME NEW q \in Requests, NEW u \in Users, NEW w \in Workspaces, NEW v \in Users,
         Invite(q, u, w, v)
  PROVE  Begun(q)
<1>. DEFINE todo == <<"admin", "invitee", "absent", "load", "write">>
<1>1. PICK role \in Roles : Begin(q, Call("invite", todo, u, w, <<w, v>>, <<>>, [role |-> role], Nil))
  BY DEF Invite, InWorkspace
<1>2. Lists(todo, {"admin", "invitee", "absent", "load", "write"}) BY LongLists
<1>3. [role |-> role] \in Rows(<<w, v>>)
  <2>1. <<w, v>> \in Members BY DEF Members
  <2>2. [role |-> role] \in Membership BY DEF Membership
  <2>. QED BY <2>1, <2>2, RowsOf
<1>. HIDE DEF todo
<1>. QED BY <1>1, <1>2, <1>3, MemberBegins

\* removeMember().
LEMMA RemoveMemberBegins ==
  ASSUME NEW q \in Requests, NEW u \in Users, NEW w \in Workspaces, NEW v \in Users,
         RemoveMember(q, u, w, v)
  PROVE  Begun(q)
<1>. DEFINE todo == <<"admin", "find", "delete">>
<1>1. Begin(q, Call("removeMember", todo, u, w, <<w, v>>, <<>>, Nil, Nil))
  BY DEF RemoveMember, InWorkspace
<1>2. Lists(todo, {"admin", "find", "delete"}) BY Awaits, Ranks, Todo3 DEF Lists
<1>. HIDE DEF todo
<1>. QED BY <1>1, <1>2, MemberBegins

\* validate() of a key.
LEMMA ValidateBegins ==
  ASSUME DbOK, NEW q \in Requests, NEW k \in Keys, Validate(q, k)
  PROVE  Begun(q)
<1>. DEFINE todo == <<"load", "write">>
            n == Call("validate", todo, Nil, db[k].ws, k, <<>>, db[k], Nil)
<1>1. Begin(q, n) /\ Here(k) BY DEF Validate, InWorkspace
<1>2. Lists(todo, {"load", "write"}) BY Awaits, Ranks, Todo2 DEF Lists
<1>. HIDE DEF todo
<1>3. /\ n.op = "validate" /\ n.todo = todo /\ n.by = Nil /\ n.id = k
      /\ n.set = <<>> /\ n.ent = db[k] /\ n.arg = Nil
      /\ n.plan = [insert |-> n.plan.insert, cols |-> n.plan.cols] /\ n.plan.insert \in BOOLEAN
      /\ n = [op |-> n.op, todo |-> n.todo, by |-> n.by, ws |-> n.ws, id |-> n.id,
              set |-> n.set, ent |-> n.ent, plan |-> n.plan, arg |-> n.arg]
  BY CallIs
<1>. HIDE DEF n
<1>4. Ahead(n.todo) = {"load", "write"} /\ n.todo \in Seq(Steps) /\ Ascends(n.todo) /\ n.todo # <<>>
  BY <1>2, <1>3 DEF Lists
<1>5. k \in Ids /\ k \notin Sessions /\ k \notin Workspaces /\ k \notin Members /\ k # Nil
  BY IdsApart
<1>6. db[k] \in Rows(k) /\ db[k] # Nil BY <1>1, <1>5 DEF DbOK, Here
<1>7. TodoOK(n) BY <1>3, <1>4, <1>5 DEF TodoOK
<1>8. OpOK(n) BY <1>3, <1>4, <1>5 DEF OpOK
<1>9. EntOK(n) BY <1>3, <1>4, <1>5, <1>6 DEF EntOK
<1>10. CallOK(n) BY <1>3, <1>4, <1>5, <1>7, <1>8, <1>9 DEF CallOK, SetOK
<1>11. Opens(n) BY <1>1, <1>3, <1>4, <1>5 DEF Opens
<1>. QED BY <1>1, <1>10, <1>11 DEF Begin, Begun

\* The import of contacts: a lookup for every phone.
LEMMA ImportBegins ==
  ASSUME NEW q \in Requests, NEW u \in Users, NEW w \in Workspaces, Import(q, u, w)
  PROVE  Begun(q)
<1>1. PICK k \in 1..MaxRows : \E phones \in [1..k -> Phones] :
        Begin(q, Call("import", <<"member">> \o [i \in 1..k |-> "lookup"], u, w, Nil, <<>>, Nil,
                      phones))
  BY DEF Import
<1>2. PICK phones \in [1..k -> Phones] :
        Begin(q, Call("import", <<"member">> \o [i \in 1..k |-> "lookup"], u, w, Nil, <<>>, Nil,
                      phones))
  BY <1>1
<1>3. k \in Nat BY MaxRowsAssumption
<1>4. phones \in Seq(Phones) BY <1>3
<1>. DEFINE rest == [i \in 1..k |-> "lookup"]  todo == <<"member">> \o rest
            n == Call("import", todo, u, w, Nil, <<>>, Nil, phones)
<1>5. /\ Lists(todo, Ahead(todo)) /\ Ahead(todo) \subseteq {"member", "lookup"}
      /\ PhonesLeft(todo, phones)
  <2>1. rest \in Seq(Steps) /\ Len(rest) = k BY <1>3 DEF Steps
  <2>2. \A i \in 1..k : rest[i] = "lookup" OBVIOUS
  <2>3. "member" \in Steps BY DEF Steps
  <2>4. /\ todo \in Seq(Steps) /\ Len(todo) = Len(rest) + 1 /\ todo[1] = "member"
        /\ \A i \in 1..Len(rest) : todo[i + 1] = rest[i]
    BY <2>1, <2>3
  <2>. HIDE DEF rest
  <2>5. Ahead(rest) \subseteq {"lookup"} BY <2>1, <2>2 DEF Ahead
  <2>6. Ascends(rest) BY <2>1, <2>5, Lookups
  <2>. HIDE DEF todo
  <2>7. Ascends(todo) /\ todo # <<>> /\ Ahead(todo) = {"member"} \cup Ahead(rest)
    <3>1. \A s \in Ahead(rest) : Rank("member") < Rank(s) BY <2>5 DEF Rank
    <3>. QED BY <2>1, <2>3, <2>4, <2>6, <3>1, Longer
  <2>8. Len(phones) = k BY <1>3
  <2>9. PhonesLeft(todo, phones)
    <3>1. "member" # "lookup" OBVIOUS
    <3>. QED BY <1>3, <1>4, <2>1, <2>4, <2>8, <3>1 DEF PhonesLeft
  <2>. QED BY <2>4, <2>5, <2>7, <2>9 DEF Lists
<1>6. Begin(q, n) BY <1>2
<1>. HIDE DEF todo, rest
<1>7. /\ n.op = "import" /\ n.todo = todo /\ n.by = u /\ n.ws = w /\ n.id = Nil
      /\ n.set = <<>> /\ n.ent = Nil /\ n.arg = phones
      /\ n.plan = [insert |-> n.plan.insert, cols |-> n.plan.cols] /\ n.plan.insert \in BOOLEAN
      /\ n = [op |-> n.op, todo |-> n.todo, by |-> n.by, ws |-> n.ws, id |-> n.id,
              set |-> n.set, ent |-> n.ent, plan |-> n.plan, arg |-> n.arg]
  BY CallIs
<1>. HIDE DEF n
<1>8. /\ Ahead(n.todo) \subseteq {"member", "lookup"} /\ n.todo \in Seq(Steps)
      /\ Ascends(n.todo) /\ n.todo # <<>>
  BY <1>5, <1>7 DEF Lists
<1>9. Nil \notin Ids /\ Nil \notin Members BY IdsAssumption DEF Ids
<1>10. TodoOK(n) BY <1>5, <1>7, <1>8, <1>9 DEF TodoOK
<1>11. OpOK(n) BY <1>7, <1>8, <1>9 DEF OpOK
<1>12. EntOK(n) BY <1>7, <1>8 DEF EntOK, Uses
<1>13. CallOK(n) BY <1>7, <1>8, <1>10, <1>11, <1>12 DEF CallOK, SetOK
<1>14. Opens(n) BY <1>7, <1>8 DEF Opens
<1>. QED BY <1>6, <1>13, <1>14 DEF Begin, Begun

\* create() of a broadcast.
LEMMA BroadcastBegins ==
  ASSUME NEW q \in Requests, NEW u \in Users, NEW w \in Workspaces, NEW s \in Sessions,
         CreateBroadcast(q, u, w, s)
  PROVE  Begun(q)
<1>. DEFINE todo == <<"admin", "member", "find", "resolve", "publish">>
            T == {"admin", "member", "find", "resolve", "publish"}
<1>1. PICK listed \in BOOLEAN, chosen \in SUBSET Contacts :
        Begin(q, Call("broadcast", todo, u, w, s, <<>>, Nil,
                      [listed |-> listed, chosen |-> chosen, drawn |-> {}, barred |-> {}]))
  BY DEF CreateBroadcast
<1>. DEFINE arg == [listed |-> listed, chosen |-> chosen, drawn |-> {}, barred |-> {}]
            n == Call("broadcast", todo, u, w, s, <<>>, Nil, arg)
<1>2. arg \in Drawing BY DEF Drawing
<1>3. Begin(q, n) BY <1>1
<1>4. Lists(todo, T) BY LongLists
<1>. HIDE DEF todo, arg
<1>5. /\ n.op = "broadcast" /\ n.todo = todo /\ n.by = u /\ n.ws = w /\ n.id = s
      /\ n.set = <<>> /\ n.ent = Nil /\ n.arg = arg
      /\ n.plan = [insert |-> n.plan.insert, cols |-> n.plan.cols] /\ n.plan.insert \in BOOLEAN
      /\ n = [op |-> n.op, todo |-> n.todo, by |-> n.by, ws |-> n.ws, id |-> n.id,
              set |-> n.set, ent |-> n.ent, plan |-> n.plan, arg |-> n.arg]
  BY CallIs
<1>. HIDE DEF n
<1>6. Ahead(n.todo) = T /\ n.todo \in Seq(Steps) /\ Ascends(n.todo) /\ n.todo # <<>>
  BY <1>4, <1>5 DEF Lists
<1>7. s \in Ids /\ s \notin Workspaces /\ s \notin Members /\ s # Nil BY IdsApart
<1>8. TodoOK(n) BY <1>2, <1>5, <1>6, <1>7 DEF TodoOK
<1>9. OpOK(n) BY <1>5, <1>6, <1>7 DEF OpOK
<1>10. EntOK(n) BY <1>5, <1>6, <1>7 DEF EntOK
<1>11. CallOK(n) BY <1>5, <1>6, <1>7, <1>8, <1>9, <1>10 DEF CallOK, SetOK
<1>12. Opens(n) BY <1>5, <1>6 DEF Opens
<1>. QED BY <1>3, <1>11, <1>12 DEF Begin, Begun

\* Whoever calls, a call begins as it must.
LEMMA NewCallBegins ==
  ASSUME DbOK, NEW q \in Requests, NewCall(q)
  PROVE  Begun(q)
<1>1. ASSUME WorkspaceCalls(q) PROVE Begun(q)
  <2>1. ASSUME NEW u \in Users, NEW w \in Workspaces,
               \/ CreateWorkspace(q, u, w) \/ UpdateWorkspace(q, u, w) \/ RemoveWorkspace(q, u, w)
               \/ \E v \in Users : Invite(q, u, w, v) \/ RemoveMember(q, u, w, v)
               \/ \E k \in Keys : CreateKey(q, u, w, k) \/ RemoveKey(q, u, w, k)
        PROVE  Begun(q)
    BY <2>1, CreateWorkspaceBegins, InviteBegins, RemoveMemberBegins, EditsBegin, CreatesBegin
  <2>. QED BY <1>1, <2>1, ValidateBegins DEF WorkspaceCalls
<1>2. ASSUME ContactCalls(q) PROVE Begun(q)
  BY <1>2, ImportBegins, EditsBegin, CreatesBegin DEF ContactCalls
<1>3. ASSUME NewBroadcast(q) PROVE Begun(q)
  BY <1>3, BroadcastBegins DEF NewBroadcast
<1>. QED BY <1>1, <1>2, <1>3, AccountCallsBegin, SessionCallsBegin DEF NewCall

-----------------------------------------------------------------------------
(* The awaits.                                                             *)

\* Call q is answered, or gets past its first await with entity e and argument a.
Goes(q, e, a) ==
  \E n :
    /\ api' = [api EXCEPT ![q] = n]
    /\ \/ n = Ended
       \/ LET r == api[q] IN
            /\ CallOK(n)
            /\ n.op = r.op /\ n.by = r.by /\ n.ws = r.ws /\ n.id = r.id /\ n.set = r.set
            /\ n.ent = e /\ n.arg = a
            /\ Ahead(n.todo) = Ahead(r.todo) \ {Head(r.todo)}

\* A call in flight is as a call may be.
LEMMA FlightOK ==
  ASSUME CallsInv, NEW q \in Requests, InFlight(q)
  PROVE  CallOK(api[q])
BY DEF CallsInv, InFlight, Unmade, Ended

\* What is ahead of a call in flight: the first await, and those after it.
LEMMA FirstStep ==
  ASSUME CallsInv, NEW q \in Requests, InFlight(q)
  PROVE  LET r == api[q]  h == Head(r.todo)  U == Ahead(Tail(r.todo)) IN
           /\ CallOK(r) /\ h \in Steps /\ Ahead(r.todo) = {h} \cup U
           /\ \A s \in U : Rank(h) < Rank(s) \/ (h = "lookup" /\ s = "lookup")
           /\ h \in Uses => r.ent # Nil
           /\ r.ent # Nil => r.id \in Ids /\ r.ent \in Rows(r.id)
<1>. DEFINE r == api[q]  h == Head(r.todo)  U == Ahead(Tail(r.todo))
<1>1. CallOK(r) BY FlightOK
<1>2. /\ h \in Steps /\ Ahead(r.todo) = {h} \cup U
      /\ \A s \in U : Rank(h) < Rank(s) \/ (h = "lookup" /\ s = "lookup")
  BY <1>1, TailOf DEF CallOK, TodoOK
<1>. HIDE DEF h, U
<1>3. ASSUME h \in Uses, r.ent = Nil PROVE FALSE
  <2>1. "find" \in Ahead(r.todo) BY <1>1, <1>2, <1>3 DEF CallOK, EntOK
  <2>2. "find" \in U BY <1>2, <1>3, <2>1 DEF Uses
  <2>. QED BY <1>2, <1>3, <2>2 DEF Uses, Rank
<1>. QED BY <1>1, <1>2, <1>3 DEF CallOK, EntOK, h, U

\* A call that went on got past its first await.
LEMMA OnwardGoes ==
  ASSUME CallsInv, NEW q \in Requests, InFlight(q), Head(api[q].todo) # "lookup",
         NEW e, NEW p, NEW a, NEW n,
         n = Onward(api[q], Moved(api[q], e, p, a)), api' = [api EXCEPT ![q] = n],
         n = Ended \/ CallOK(n)
  PROVE  Goes(q, e, a)
<1>. DEFINE r == api[q]  h == Head(r.todo)  U == Ahead(Tail(r.todo))
<1>1. /\ CallOK(r) /\ Ahead(r.todo) = {h} \cup U
      /\ \A s \in U : Rank(h) < Rank(s) \/ (h = "lookup" /\ s = "lookup")
  BY FirstStep
<1>2. h \notin U BY <1>1, RankNat
<1>3. CASE Len(r.todo) = 1 BY <1>3 DEF Onward, Goes
<1>4. CASE Len(r.todo) # 1
  <2>. DEFINE m == Moved(r, e, p, a)
  <2>1. /\ m.op = r.op /\ m.by = r.by /\ m.ws = r.ws /\ m.id = r.id /\ m.set = r.set
        /\ m.ent = e /\ m.arg = a /\ m.todo = Tail(r.todo)
    BY DEF Moved
  <2>. HIDE DEF m
  <2>2. /\ n.op = r.op /\ n.by = r.by /\ n.ws = r.ws /\ n.id = r.id /\ n.set = r.set
        /\ n.ent = e /\ n.arg = a /\ n.todo = Tail(r.todo)
    <3>1. n = m BY <1>4 DEF Onward, m
    <3>. QED BY <2>1, <3>1
  <2>3. Ahead(n.todo) = Ahead(r.todo) \ {h} BY <1>1, <1>2, <2>2
  <2>. HIDE DEF h, U
  <2>. QED BY <2>2, <2>3 DEF Goes, h
<1>. QED BY <1>3, <1>4

\* An await that leaves the call's fields alone.
LEMMA PlainGoes ==
  ASSUME CallsInv, NEW q \in Requests, InFlight(q),
         Head(api[q].todo) \notin {"find", "insert", "lookup"},
         api' = [api EXCEPT ![q] = Past(api[q])]
  PROVE  Goes(q, api[q].ent, api[q].arg)
<1>. DEFINE r == api[q]  h == Head(r.todo)  U == Ahead(Tail(r.todo))  n == Past(r)
<1>1. CallOK(r) /\ Ahead(r.todo) = {h} \cup U BY FirstStep
<1>2. n = Onward(r, Moved(r, r.ent, r.plan, r.arg)) BY <1>1, PastIs
<1>3. /\ r.ent = Nil \/ (r.id \in Ids /\ r.ent \in Rows(r.id))
      /\ r.plan = [insert |-> r.plan.insert, cols |-> r.plan.cols] /\ r.plan.insert \in BOOLEAN
      /\ U \cap {"resolve", "publish"} # {} => r.arg \in Drawing
  BY <1>1 DEF CallOK, EntOK, TodoOK
<1>4. n = Ended \/ CallOK(n) BY <1>1, <1>2, <1>3, OnwardOK
<1>. HIDE DEF n
<1>. QED BY <1>2, <1>4, OnwardGoes DEF n

\* The row is found; the call holds it with the new columns.
LEMMA FindGoes ==
  ASSUME DbOK, CallsInv, NEW q \in Requests, Find(q)
  PROVE  Goes(q, Assigned(db[api[q].id], api[q].set), api[q].arg)
<1>. DEFINE r == api[q]  e == Assigned(db[r.id], r.set)  n == Past([r EXCEPT !.ent = e])
            U == Ahead(Tail(r.todo))
<1>1. InFlight(q) /\ Head(r.todo) = "find" /\ Here(r.id) /\ api' = [api EXCEPT ![q] = n]
  BY DEF Find, At, InFlight
<1>2. CallOK(r) /\ Ahead(r.todo) = {"find"} \cup U BY <1>1, FirstStep
<1>3. r.id \in Ids
  <2>1. "find" \in Ahead(r.todo) BY <1>2
  <2>. QED BY <1>2, <2>1 DEF CallOK, TodoOK
<1>4. db[r.id] \in Rows(r.id) BY <1>1, <1>3 DEF DbOK
<1>5. e \in Rows(r.id) BY <1>2, <1>3, <1>4, AssignedOK DEF CallOK
<1>. HIDE DEF e
<1>6. n = Onward(r, Moved(r, e, r.plan, r.arg)) BY <1>2, PastIs
<1>7. e # Nil BY <1>3, <1>5, IdsApart
<1>8. /\ r.plan = [insert |-> r.plan.insert, cols |-> r.plan.cols] /\ r.plan.insert \in BOOLEAN
      /\ U \cap {"resolve", "publish"} # {} => r.arg \in Drawing
      /\ r.op # "createWorkspace"
  <2>1. "find" \in Ahead(r.todo) /\ U \subseteq Ahead(r.todo) BY <1>2
  <2>2. r.op # "createWorkspace" BY <1>2, <2>1 DEF CallOK, OpOK
  <2>. QED BY <1>2, <2>1, <2>2 DEF CallOK, TodoOK
<1>. HIDE DEF U, n
<1>9. n = Ended \/ CallOK(n) BY <1>2, <1>3, <1>5, <1>6, <1>7, <1>8, OnwardOK DEF U
<1>. QED BY <1>1, <1>6, <1>9, OnwardGoes DEF e

\* save() looked at the row and made its plan.
LEMMA LoadGoes ==
  ASSUME CallsInv, NEW q \in Requests, SaveLoad(q)
  PROVE  Goes(q, api[q].ent, api[q].arg)
<1>. DEFINE r == api[q]  U == Ahead(Tail(r.todo))
            p == [insert |-> ~Here(r.id),
                  cols |-> IF Here(r.id) THEN {c \in DOMAIN r.ent : db[r.id][c] # r.ent[c]} ELSE {}]
            n == Past([r EXCEPT !.plan = p])
<1>1. InFlight(q) /\ Head(r.todo) = "load" /\ api' = [api EXCEPT ![q] = n]
  BY DEF SaveLoad, At, InFlight
<1>2. /\ CallOK(r) /\ Ahead(r.todo) = {"load"} \cup U /\ r.ent # Nil /\ r.id \in Ids
      /\ r.ent \in Rows(r.id)
  BY <1>1, FirstStep DEF Uses
<1>3. p = [insert |-> p.insert, cols |-> p.cols] /\ p.insert \in BOOLEAN OBVIOUS
<1>. HIDE DEF p
<1>4. n = Onward(r, Moved(r, r.ent, p, r.arg)) BY <1>2, PastIs
<1>5. U \cap {"resolve", "publish"} # {} => r.arg \in Drawing BY <1>2 DEF CallOK, TodoOK
<1>. HIDE DEF U, n
<1>6. n = Ended \/ CallOK(n) BY <1>1, <1>2, <1>3, <1>4, <1>5, OnwardOK DEF U
<1>. QED BY <1>1, <1>4, <1>6, OnwardGoes

\* The entity is written; what is left of the call holds none.
LEMMA WriteGoes ==
  ASSUME CallsInv, NEW q \in Requests, SaveWrite(q)
  PROVE  Goes(q, Nil, api[q].arg)
<1>. DEFINE r == api[q]  U == Ahead(Tail(r.todo))
            n == Past([r EXCEPT !.ent = Nil, !.plan = NoPlan])
<1>1. InFlight(q) /\ Head(r.todo) = "write" /\ api' = [api EXCEPT ![q] = n]
  BY DEF SaveWrite, At, InFlight
<1>2. CallOK(r) /\ Ahead(r.todo) = {"write"} \cup U BY <1>1, FirstStep
<1>3. NoPlan = [insert |-> NoPlan.insert, cols |-> NoPlan.cols] /\ NoPlan.insert \in BOOLEAN
  BY DEF NoPlan
<1>4. n = Onward(r, Moved(r, Nil, NoPlan, r.arg)) BY <1>2, PastIs
<1>5. U \cap {"resolve", "publish"} # {} => r.arg \in Drawing BY <1>2 DEF CallOK, TodoOK
<1>. HIDE DEF U, n
<1>6. n = Ended \/ CallOK(n) BY <1>1, <1>2, <1>3, <1>4, <1>5, OnwardOK DEF U
<1>. QED BY <1>1, <1>4, <1>6, OnwardGoes

\* The recipients are drawn.
LEMMA ResolveGoes ==
  ASSUME CallsInv, NEW q \in Requests, Resolve(q),
         \A c \in Contacts : Here(c) => db[c] \in Contact, firm \subseteq Contacts,
         \A c \in firm : Here(c)
  PROVE  LET r == api[q]
             drawn == {db[c].phone : c \in Resolved(r.ws, r.arg.chosen)}
             barred == {db[c].phone : c \in {c \in firm : db[c].ws = r.ws}}
             a == [r.arg EXCEPT !.drawn = drawn, !.barred = barred]
         IN  Goes(q, r.ent, a) /\ r.arg \in Drawing
<1>. DEFINE r == api[q]  U == Ahead(Tail(r.todo))
            drawn == {db[c].phone : c \in Resolved(r.ws, r.arg.chosen)}
            barred == {db[c].phone : c \in {c \in firm : db[c].ws = r.ws}}
            a == [r.arg EXCEPT !.drawn = drawn, !.barred = barred]
            n == Past([r EXCEPT !.arg = a])
<1>1. InFlight(q) /\ Head(r.todo) = "resolve" /\ api' = [api EXCEPT ![q] = n]
  BY DEF Resolve, At, InFlight
<1>2. CallOK(r) /\ Ahead(r.todo) = {"resolve"} \cup U BY <1>1, FirstStep
<1>. HIDE DEF U, n, a, drawn, barred
<1>3. r.arg \in Drawing /\ "lookup" \notin U /\ r.op # "createWorkspace"
  <2>1. "resolve" \in Ahead(r.todo) BY <1>2
  <2>2. r.arg \in Drawing BY <1>2, <2>1 DEF CallOK, TodoOK
  <2>3. "lookup" \notin Ahead(r.todo) BY <1>2, <2>1 DEF CallOK, TodoOK
  <2>4. r.op # "createWorkspace" BY <1>2, <2>1 DEF CallOK, OpOK
  <2>. QED BY <1>2, <2>2, <2>3, <2>4
<1>4. drawn \in SUBSET Phones BY <1>3 DEF Drawing, Resolved, Contact, drawn
<1>5. barred \in SUBSET Phones BY DEF Contact, barred
<1>6. a \in Drawing BY <1>3, <1>4, <1>5 DEF Drawing, a
<1>7. n = Onward(r, Moved(r, r.ent, r.plan, a)) BY <1>2, PastIs DEF n
<1>8. /\ r.ent = Nil \/ (r.id \in Ids /\ r.ent \in Rows(r.id))
      /\ r.plan = [insert |-> r.plan.insert, cols |-> r.plan.cols] /\ r.plan.insert \in BOOLEAN
  BY <1>2 DEF CallOK, EntOK
<1>9. n = Ended \/ CallOK(n) BY <1>1, <1>2, <1>3, <1>6, <1>7, <1>8, OnwardOK DEF U
<1>10. Goes(q, r.ent, a) BY <1>1, <1>7, <1>9, OnwardGoes
<1>. QED BY <1>3, <1>10 DEF a, drawn, barred

\* A token is signed; the call keeps it.
LEMMA SignGoes ==
  ASSUME CallsInv, NEW q \in Requests, At(q, "sign"), NEW t,
         api' = [api EXCEPT ![q] = Past([api[q] EXCEPT !.arg = t])]
  PROVE  Goes(q, api[q].ent, t)
<1>. DEFINE r == api[q]  U == Ahead(Tail(r.todo))
<1>1. InFlight(q) /\ Head(r.todo) = "sign" BY DEF At, InFlight
<1>. DEFINE n == Past([r EXCEPT !.arg = t])
<1>3. CallOK(r) /\ Ahead(r.todo) = {"sign"} \cup U BY <1>1, FirstStep
<1>4. "lookup" \notin U /\ U \cap {"resolve", "publish"} = {}
  <2>1. r.id \in Users BY <1>3 DEF CallOK, TodoOK
  <2>. QED BY <1>3, <2>1, IdsAssumption DEF CallOK, TodoOK, Ids
<1>5. n = Onward(r, Moved(r, r.ent, r.plan, t)) BY <1>3, PastIs
<1>6. /\ r.ent = Nil \/ (r.id \in Ids /\ r.ent \in Rows(r.id))
      /\ r.plan = [insert |-> r.plan.insert, cols |-> r.plan.cols] /\ r.plan.insert \in BOOLEAN
  BY <1>3 DEF CallOK, EntOK
<1>. HIDE DEF U, n
<1>7. n = Ended \/ CallOK(n) BY <1>1, <1>3, <1>4, <1>5, <1>6, OnwardOK DEF U
<1>. QED BY <1>1, <1>5, <1>7, OnwardGoes DEF n

\* OpenWA answered with a status, which the entity takes, or failed.
LEMMA AskGoes ==
  ASSUME CallsInv, NEW q \in Requests, Ask(q)
  PROVE  \E e : /\ Goes(q, e, api[q].arg) /\ e # Nil /\ e.ws = api[q].ent.ws
                /\ api[q].ent # Nil /\ api[q].id \in Sessions
<1>. DEFINE r == api[q]  U == Ahead(Tail(r.todo))
<1>1. InFlight(q) /\ Head(r.todo) = "ask" BY DEF Ask, At, InFlight
<1>2. /\ CallOK(r) /\ Ahead(r.todo) = {"ask"} \cup U /\ r.ent # Nil /\ r.id \in Ids
      /\ r.ent \in Rows(r.id)
  BY <1>1, FirstStep DEF Uses
<1>3. r.id \in Sessions BY <1>2 DEF CallOK, TodoOK
<1>4. CASE api' = [api EXCEPT ![q] = Ended] BY <1>2, <1>3, <1>4 DEF Goes
<1>5. ASSUME NEW s \in Answers(r.id), api' = [api EXCEPT ![q] = Past([r EXCEPT !.ent.status = s])]
      PROVE  \E e : Goes(q, e, r.arg) /\ e # Nil /\ e.ws = r.ent.ws
  <2>. DEFINE e == [r.ent EXCEPT !.status = s]  n == Past([r EXCEPT !.ent = e])
  <2>1. [r EXCEPT !.ent.status = s] = [r EXCEPT !.ent = e] OBVIOUS
  <2>2. e \in Rows(r.id)
    <3>1. s \in Statuses BY DEF Answers, Statuses
    <3>2. r.ent \in Session BY <1>2, <1>3, RowsOf
    <3>3. e \in Session BY <3>1, <3>2 DEF Session
    <3>. QED BY <1>3, <3>3, RowsOf
  <2>3. api' = [api EXCEPT ![q] = n] BY <1>5, <2>1
  <2>9. e.ws = r.ent.ws
    <3>1. r.ent \in [ws : Workspaces, status : Statuses] BY <1>2, <1>3, RowsOf DEF Session
    <3>. QED BY <3>1
  <2>. HIDE DEF e
  <2>4. n = Onward(r, Moved(r, e, r.plan, r.arg)) BY <1>2, PastIs
  <2>5. e # Nil BY <1>2, <2>2, IdsApart
  <2>6. /\ r.plan = [insert |-> r.plan.insert, cols |-> r.plan.cols] /\ r.plan.insert \in BOOLEAN
        /\ U \cap {"resolve", "publish"} # {} => r.arg \in Drawing
        /\ r.op # "createWorkspace"
    <3>1. "ask" \in Ahead(r.todo) /\ U \subseteq Ahead(r.todo) BY <1>2
    <3>2. r.op # "createWorkspace" BY <1>2, <3>1 DEF CallOK, OpOK
    <3>. QED BY <1>2, <3>1, <3>2 DEF CallOK, TodoOK
  <2>. HIDE DEF U, n
  <2>7. n = Ended \/ CallOK(n) BY <1>1, <1>2, <2>2, <2>4, <2>5, <2>6, OnwardOK DEF U
  <2>8. Goes(q, e, r.arg) BY <1>1, <2>3, <2>4, <2>7, OnwardGoes
  <2>. QED BY <2>5, <2>8, <2>9
<1>. QED BY <1>1, <1>2, <1>3, <1>4, <1>5 DEF Ask

\* Call q has made its workspace: what is left is to save the owner's membership.
Founds(q) ==
  \E n :
    /\ api' = [api EXCEPT ![q] = n]
    /\ \/ n = Ended
       \/ LET r == api[q] IN
            /\ CallOK(n)
            /\ n.op = r.op /\ n.by = r.by /\ n.ws = r.ws /\ n.set = r.set
            /\ n.id = <<r.id, r.by>> /\ r.id \in Workspaces /\ r.by \in Users
            /\ n.ent = [role |-> "owner"] /\ n.ent # Nil
            /\ Ahead(n.todo) = Ahead(r.todo) \ {"insert"}

\* The INSERT; that of a workspace is followed by its owner's membership.
LEMMA InsertGoes ==
  ASSUME CallsInv, NEW q \in Requests, Insert(q)
  PROVE  /\ api[q].op # "createWorkspace" => Goes(q, Nil, api[q].arg)
         /\ api[q].op = "createWorkspace" => Founds(q)
<1>. DEFINE r == api[q]  U == Ahead(Tail(r.todo))
<1>1. /\ InFlight(q) /\ Head(r.todo) = "insert"
      /\ api' = [api EXCEPT ![q] = Past(IF r.op = "createWorkspace"
                                        THEN [r EXCEPT !.id = <<r.id, r.by>>, !.ent = [role |-> "owner"]]
                                        ELSE [r EXCEPT !.ent = Nil])]
  BY DEF Insert, At, InFlight
<1>2. CallOK(r) /\ Ahead(r.todo) = {"insert"} \cup U BY <1>1, FirstStep
<1>3. /\ r.plan = [insert |-> r.plan.insert, cols |-> r.plan.cols] /\ r.plan.insert \in BOOLEAN
      /\ U \cap {"resolve", "publish"} # {} => r.arg \in Drawing
  BY <1>2 DEF CallOK, TodoOK
<1>4. CASE r.op # "createWorkspace"
  <2>. DEFINE n == Past([r EXCEPT !.ent = Nil])
  <2>1. n = Onward(r, Moved(r, Nil, r.plan, r.arg)) BY <1>2, PastIs
  <2>2. api' = [api EXCEPT ![q] = n] BY <1>1, <1>4
  <2>. HIDE DEF n, U
  <2>3. n = Ended \/ CallOK(n) BY <1>1, <1>2, <1>3, <1>4, <2>1, OnwardOK DEF U
  <2>4. Goes(q, Nil, r.arg) BY <1>1, <2>1, <2>2, <2>3, OnwardGoes
  <2>. QED BY <1>4, <2>4
<1>5. CASE r.op = "createWorkspace"
  <2>. DEFINE m == <<r.id, r.by>>  e == [role |-> "owner"]
              x == [r EXCEPT !.id = m, !.ent = e]  n == Past(x)  u == Tail(r.todo)
              y == [op |-> r.op, todo |-> u, by |-> r.by, ws |-> r.ws, id |-> m, set |-> r.set,
                    ent |-> e, plan |-> r.plan, arg |-> r.arg]
  <2>1. /\ m \in Members /\ m \in Ids /\ e \in Rows(m) /\ e.role = "owner"
        /\ r.id \in Workspaces /\ r.by \in Users
    <3>1. "insert" \in Ahead(r.todo) BY <1>2
    <3>2. r.id \in Workspaces /\ r.by \in Users BY <1>2, <1>5, <3>1 DEF CallOK, OpOK
    <3>3. m \in Members BY <3>2 DEF Members
    <3>4. e \in Membership BY DEF Membership, Roles
    <3>. QED BY <3>2, <3>3, <3>4, RowsOf, IdsApart
  <2>2. api' = [api EXCEPT ![q] = n] BY <1>1, <1>5
  <2>. HIDE DEF m, e, u
  <2>3. x = [op |-> r.op, todo |-> r.todo, by |-> r.by, ws |-> r.ws, id |-> m, set |-> r.set,
             ent |-> e, plan |-> r.plan, arg |-> r.arg]
    <3>. DEFINE z == [r EXCEPT !.id = m]
    <3>1. x = [z EXCEPT !.ent = e] OBVIOUS
    <3>2. z = [op |-> r.op, todo |-> r.todo, by |-> r.by, ws |-> r.ws, id |-> m, set |-> r.set,
               ent |-> r.ent, plan |-> r.plan, arg |-> r.arg]
      BY <1>2 DEF CallOK
    <3>. HIDE DEF z
    <3>. QED BY <3>1, <3>2
  <2>. HIDE DEF x
  <2>4. u = Tail(r.todo) => n = IF Len(r.todo) = 1 THEN Ended ELSE y BY <2>3, PastOf
  <2>5. /\ y.op = "createWorkspace" /\ y.todo = u /\ y.by = r.by /\ y.id = m /\ y.set = <<>>
        /\ y.ent = e /\ y.plan = r.plan /\ y.arg = r.arg
        /\ y = [op |-> y.op, todo |-> y.todo, by |-> y.by, ws |-> y.ws, id |-> y.id,
                set |-> y.set, ent |-> y.ent, plan |-> y.plan, arg |-> y.arg]
    BY <1>2, <1>5 DEF CallOK, OpOK
  <2>. HIDE DEF n, y
  <2>6. CASE Len(r.todo) = 1 BY <1>5, <2>2, <2>4, <2>6 DEF Founds, u
  <2>7. CASE Len(r.todo) # 1
    <3>1. u \in Seq(Steps) /\ Ascends(u) /\ u # <<>>
      BY <1>2, <2>7, TailOf DEF CallOK, TodoOK, u
    <3>2. Ahead(u) = U /\ U \subseteq {"load", "write"} /\ U = Ahead(r.todo) \ {"insert"}
      <4>1. \A s \in U : Rank("insert") < Rank(s)
        BY <1>1, FirstStep
      <4>2. U \subseteq {"insert", "load", "write"} BY <1>2, <1>5 DEF CallOK, OpOK
      <4>. HIDE DEF U
      <4>3. "insert" \notin U BY <4>1 DEF Rank
      <4>. QED BY <1>2, <4>2, <4>3 DEF U, u
    <3>. HIDE DEF U
    <3>3. m \notin Sessions /\ m \notin Workspaces /\ m # Nil /\ e # Nil BY <2>1, IdsApart
    <3>4. TodoOK(y) BY <2>5, <3>1, <3>2, <3>3 DEF TodoOK
    <3>5. OpOK(y)
      <4>1. r.by \in Users BY <1>2, <1>5 DEF CallOK, OpOK
      <4>. QED BY <2>1, <2>5, <3>2, <3>3, <4>1 DEF OpOK
    <3>6. EntOK(y) BY <2>1, <2>5, <3>3 DEF EntOK
    <3>7. CallOK(y) BY <1>3, <2>1, <2>5, <3>1, <3>4, <3>5, <3>6 DEF CallOK, SetOK
    <3>8. /\ n = y /\ y.op = r.op /\ y.ws = r.ws /\ y.set = r.set
          /\ Ahead(y.todo) = Ahead(r.todo) \ {"insert"}
      BY <1>5, <2>4, <2>5, <2>7, <3>2 DEF u, y
    <3>9. y.id = <<r.id, r.by>> /\ y.ent = [role |-> "owner"] /\ y.ent # Nil
      BY <2>5, <3>3 DEF m, e
    <3>10. api' = [api EXCEPT ![q] = y] BY <2>2, <3>8
    <3>. HIDE DEF U
    <3>. QED BY <1>5, <2>1, <2>5, <3>7, <3>8, <3>9, <3>10 DEF Founds
  <2>. QED BY <2>6, <2>7
<1>. QED BY <1>4, <1>5

\* An import that turns to its next row.
LEMMA LookupTurns ==
  ASSUME NEW r, CallOK(r), Head(r.todo) = "lookup", NEW c \in Contacts, NEW e \in Contact,
         NEW first, first \in {<<"load", "write">>, <<"insert">>},
         NEW n, n = [r EXCEPT !.todo = first \o Tail(r.todo), !.arg = Tail(@), !.id = c, !.ent = e]
  PROVE  CallOK(n)
<1>. DEFINE rest == Tail(r.todo)  todo == first \o rest  arg == Tail(r.arg)
<1>1. /\ rest \in Seq(Steps) /\ Ahead(r.todo) = {"lookup"} \cup Ahead(rest)
      /\ \A s \in Ahead(rest) : Rank("lookup") < Rank(s) \/ s = "lookup"
      /\ r.todo \in Seq(Steps) /\ r.todo # <<>>
  BY TailOf DEF CallOK, TodoOK
<1>2. Ahead(rest) \subseteq {"lookup"}
  <2>1. "lookup" \in Ahead(r.todo) BY <1>1
  <2>2. Ahead(rest) \subseteq {"member", "insert", "load", "write", "lookup"}
    BY <1>1, <2>1 DEF CallOK, TodoOK
  <2>. QED BY <1>1, <2>2 DEF Rank
<1>3. r.set = <<>> /\ r.op = "import" /\ r.ws \in Workspaces /\ PhonesLeft(r.todo, r.arg)
  BY <1>1 DEF CallOK, TodoOK
<1>4. /\ todo \in Seq(Steps) /\ Ascends(todo) /\ todo # <<>>
      /\ \/ Ahead(todo) = {"load", "write"} \cup Ahead(rest)
         \/ Ahead(todo) = {"insert"} \cup Ahead(rest)
  <2>1. Ascends(rest) BY <1>1, <1>2, Lookups
  <2>2. {"insert", "load", "write"} \subseteq Steps BY DEF Steps
  <2>3. CASE first = <<"insert">>
    <3>1. /\ todo \in Seq(Steps) /\ Len(todo) = Len(rest) + 1 /\ todo[1] = "insert"
          /\ \A i \in 1..Len(rest) : todo[i + 1] = rest[i]
      BY <1>1, <2>2, <2>3
    <3>2. rest \in Seq(Steps) /\ "insert" \in Steps BY <1>1, <2>2
    <3>3. \A s \in Ahead(rest) : Rank("insert") < Rank(s) BY <1>2 DEF Rank
    <3>. HIDE DEF todo, rest
    <3>4. Ascends(todo) /\ todo # <<>> /\ Ahead(todo) = {"insert"} \cup Ahead(rest)
      BY <2>1, <3>1, <3>2, <3>3, Longer
    <3>. QED BY <3>1, <3>4
  <2>4. CASE first = <<"load", "write">>
    <3>. DEFINE mid == <<"write">> \o rest
    <3>1. /\ mid \in Seq(Steps) /\ Len(mid) = Len(rest) + 1 /\ mid[1] = "write"
          /\ \A i \in 1..Len(rest) : mid[i + 1] = rest[i]
      <4>1. rest \in Seq(Steps) /\ "write" \in Steps BY <1>1, <2>2
      <4>. HIDE DEF rest
      <4>. QED BY <4>1
    <3>2. /\ todo \in Seq(Steps) /\ Len(todo) = Len(mid) + 1 /\ todo[1] = "load"
          /\ \A i \in 1..Len(mid) : todo[i + 1] = mid[i]
      BY <1>1, <2>2, <2>4
    <3>. HIDE DEF todo, rest, mid
    <3>3. \A s \in Ahead(rest) : Rank("write") < Rank(s) BY <1>2 DEF Rank
    <3>4. Ascends(mid) /\ Ahead(mid) = {"write"} \cup Ahead(rest)
      BY <1>1, <2>1, <2>2, <3>1, <3>3, Longer
    <3>5. \A s \in Ahead(mid) : Rank("load") < Rank(s) BY <1>2, <3>4 DEF Rank
    <3>6. "load" \in Steps BY <2>2
    <3>7. Ascends(todo) /\ todo # <<>> /\ Ahead(todo) = {"load"} \cup Ahead(mid)
      BY <3>1, <3>2, <3>4, <3>5, <3>6, Longer
    <3>8. Ahead(todo) = {"load", "write"} \cup Ahead(rest) BY <3>4, <3>7
    <3>. QED BY <3>2, <3>7, <3>8
  <2>. QED BY <2>3, <2>4
<1>5. PhonesLeft(todo, arg)
  <2>1. /\ r.arg \in Seq(Phones) /\ Len(r.todo) \in Nat \ {0} /\ r.todo[1] = "lookup"
        /\ Len(r.arg) \in Nat /\ Len(r.todo) - 1 < Len(r.arg)
    <3>1. r.arg \in Seq(Phones) BY <1>3 DEF PhonesLeft
    <3>2. Len(r.todo) \in Nat \ {0} /\ r.todo[1] = "lookup" BY <1>1
    <3>. QED BY <1>3, <3>1, <3>2 DEF PhonesLeft
  <2>2. arg \in Seq(Phones) /\ Len(arg) = Len(r.arg) - 1 BY <2>1
  <2>3. Len(rest) = Len(r.todo) - 1 /\ \A k \in 1..Len(rest) : rest[k] = r.todo[k + 1] BY <1>1
  <2>. DEFINE d == Len(first)
  <2>4. d \in {1, 2} /\ Len(todo) = d + Len(rest) BY <1>1, <2>1
  <2>5. ASSUME NEW i \in 1..Len(todo), todo[i] = "lookup"
        PROVE  i - d \in 1..Len(rest) /\ rest[i - d] = "lookup"
    <3>1. CASE first = <<"insert">> BY <1>1, <2>4, <2>5, <3>1
    <3>2. CASE first = <<"load", "write">>
      <4>1. todo[1] = "load" /\ todo[2] = "write" /\ d = 2 BY <1>1, <3>2
      <4>2. i \notin {1, 2} BY <2>5, <4>1
      <4>. QED BY <1>1, <2>4, <2>5, <3>2, <4>1, <4>2
    <3>. QED BY <3>1, <3>2
  <2>. HIDE DEF todo, rest, arg, d
  <2>6. ASSUME NEW i \in 1..Len(todo), todo[i] = "lookup" PROVE Len(todo) - i < Len(arg)
    <3>1. PICK k \in 1..Len(rest) : k = i - d /\ rest[k] = "lookup" BY <2>5, <2>6
    <3>2. k \in Nat /\ k >= 1 /\ i \in Nat /\ Len(rest) \in Nat BY <2>1, <2>3, <2>4
    <3>3. Len(todo) - i = Len(rest) - k BY <2>4, <3>1, <3>2
    <3>4. Len(rest) < Len(r.arg) BY <2>1, <2>3
    <3>. QED BY <2>1, <2>2, <3>2, <3>3, <3>4
  <2>. QED BY <2>2, <2>6 DEF PhonesLeft
<1>6. /\ n.op = "import" /\ n.todo = todo /\ n.ws = r.ws /\ n.id = c /\ n.set = <<>>
      /\ n.ent = e /\ n.plan = r.plan /\ n.arg = arg
      /\ n = [op |-> n.op, todo |-> n.todo, by |-> n.by, ws |-> n.ws, id |-> n.id,
              set |-> n.set, ent |-> n.ent, plan |-> n.plan, arg |-> n.arg]
  BY <1>3 DEF CallOK
<1>. HIDE DEF todo, rest, arg
<1>7. c \in Ids /\ c \notin Sessions \cup Workspaces \cup Members \cup Users /\ c # Nil BY IdsApart
<1>8. e \in Rows(c) /\ e # Nil BY <1>7, RowsOf, IdsApart
<1>9. TodoOK(n)
  <2>. DEFINE T == Ahead(n.todo)
  <2>1. /\ T \subseteq {"insert", "load", "write", "lookup"}
        /\ "insert" \in T => T \cap {"load", "write"} = {}
    <3>. DEFINE R == Ahead(rest)
    <3>1. n.todo = todo /\ R \subseteq {"lookup"} BY <1>2, <1>6
    <3>2. Ahead(todo) = {"load", "write"} \cup R \/ Ahead(todo) = {"insert"} \cup R BY <1>4
    <3>. HIDE DEF R
    <3>3. CASE Ahead(todo) = {"load", "write"} \cup R
      <4>1. T = {"load", "write"} \cup R BY <3>1, <3>3
      <4>. QED BY <3>1, <4>1
    <3>4. CASE Ahead(todo) = {"insert"} \cup R
      <4>1. T = {"insert"} \cup R BY <3>1, <3>4
      <4>. QED BY <3>1, <4>1
    <3>. QED BY <3>2, <3>3, <3>4
  <2>2. n.todo \in Seq(Steps) /\ Ascends(n.todo) /\ PhonesLeft(n.todo, n.arg)
    BY <1>4, <1>5, <1>6
  <2>. HIDE DEF T
  <2>3. /\ T \cap {"sign", "store", "forget"} = {} /\ T \cap {"ask", "terminate", "launch"} = {}
        /\ T \cap {"resolve", "publish"} = {}
        /\ "delete" \notin T /\ "absent" \notin T /\ "invitee" \notin T
        /\ T \subseteq {"member", "insert", "load", "write", "lookup"}
    BY <2>1
  <2>4. n.id \in Contacts /\ n.id # Nil /\ n.id \notin Members \cup Workspaces
        /\ n.set = <<>> /\ n.op = "import" /\ n.ws \in Workspaces
    BY <1>3, <1>6, <1>7
  <2>. QED BY <2>1, <2>2, <2>3, <2>4 DEF TodoOK, T
<1>10. OpOK(n) BY <1>6, <1>7 DEF OpOK
<1>11. EntOK(n) BY <1>6, <1>7, <1>8 DEF EntOK
<1>. QED BY <1>4, <1>6, <1>7, <1>9, <1>10, <1>11 DEF CallOK, SetOK

\* Call q holds the contact of its next row: that of the table, or a new one.
Turns(q) ==
  \E n :
    /\ api' = [api EXCEPT ![q] = n] /\ CallOK(n)
    /\ n.op = "import" /\ n.ws = api[q].ws /\ n.set = <<>> /\ n.id \in Contacts
    /\ Ahead(n.todo) \subseteq {"insert", "load", "write", "lookup"}
    /\ (Here(n.id) /\ n.ent = db[n.id]) \/ Fresh(n.id)

\* A lookup turns the import to its next row.
LEMMA LookupGoes ==
  ASSUME DbOK, CallsInv, NEW q \in Requests, Lookup(q)
  PROVE  Turns(q)
<1>. DEFINE r == api[q]  rest == Tail(r.todo)
            New(first, c, e) == [r EXCEPT !.todo = first \o rest, !.arg = Tail(@), !.id = c, !.ent = e]
<1>1. CallOK(r) /\ Head(r.todo) = "lookup" /\ "lookup" \in Ahead(r.todo)
  <2>1. InFlight(q) /\ Head(r.todo) = "lookup" BY DEF Lookup, At, InFlight
  <2>. QED BY <2>1, FirstStep
<1>2. /\ r.op = "import" /\ r.ws \in Workspaces /\ r.set = <<>>
      /\ Ahead(r.todo) \subseteq {"member", "insert", "load", "write", "lookup"}
      /\ Head(r.arg) \in Phones
  <2>1. PhonesLeft(r.todo, r.arg) /\ r.todo # <<>> /\ r.todo \in Seq(Steps)
    BY <1>1 DEF CallOK, TodoOK
  <2>2. 1 \in 1..Len(r.todo) /\ r.todo[1] = "lookup" BY <1>1, <2>1
  <2>3. Len(r.todo) - 1 < Len(r.arg) /\ r.arg \in Seq(Phones) BY <2>1, <2>2 DEF PhonesLeft
  <2>4. Head(r.arg) \in Phones BY <2>1, <2>3
  <2>. QED BY <1>1, <2>4 DEF CallOK, TodoOK
<1>3. ASSUME NEW c \in Contacts, NEW e \in Contact,
             NEW first, first \in {<<"load", "write">>, <<"insert">>},
             (Here(c) /\ e = db[c]) \/ Fresh(c),
             api' = [api EXCEPT ![q] = New(first, c, e)]
      PROVE  Turns(q)
  <2>. DEFINE n == New(first, c, e)
  <2>1. CallOK(n) BY <1>1, <1>3, LookupTurns
  <2>2. /\ n.op = r.op /\ n.ws = r.ws /\ n.set = r.set /\ n.id = c /\ n.ent = e
        /\ n.todo = first \o rest
    <3>. DEFINE t == first \o rest  a == Tail(r.arg)
    <3>1. n = [r EXCEPT !.todo = t, !.arg = a, !.id = c, !.ent = e] OBVIOUS
    <3>. HIDE DEF t, a, n
    <3>2. n = [op |-> r.op, todo |-> t, by |-> r.by, ws |-> r.ws, id |-> c, set |-> r.set,
               ent |-> e, plan |-> r.plan, arg |-> a]
      BY <1>1, <3>1 DEF CallOK
    <3>. QED BY <3>2 DEF t
  <2>. HIDE DEF n
  <2>3. Ahead(n.todo) \subseteq {"insert", "load", "write", "lookup"}
    <3>1. /\ rest \in Seq(Steps) /\ Ahead(r.todo) = {"lookup"} \cup Ahead(rest)
          /\ \A s \in Ahead(rest) : Rank("lookup") < Rank(s) \/ s = "lookup"
      BY <1>1, TailOf DEF CallOK, TodoOK
    <3>2. Ahead(rest) \subseteq {"lookup"} BY <1>2, <3>1 DEF Rank
    <3>. HIDE DEF rest
    <3>3. CASE first = <<"insert">>
      <4>1. /\ Len(n.todo) = Len(rest) + 1 /\ n.todo[1] = "insert"
            /\ \A i \in 2..Len(n.todo) : n.todo[i] = rest[i - 1]
        BY <2>2, <3>1, <3>3 DEF Steps
      <4>2. ASSUME NEW i \in 1..Len(n.todo) PROVE n.todo[i] \in {"insert", "lookup"}
        <5>1. Len(rest) \in Nat BY <3>1
        <5>2. i = 1 \/ (i \in 2..Len(n.todo) /\ i - 1 \in 1..Len(rest)) BY <4>1, <5>1
        <5>3. \A k \in 1..Len(rest) : rest[k] = "lookup" BY <3>2 DEF Ahead
        <5>. QED BY <4>1, <5>2, <5>3
      <4>. QED BY <4>2 DEF Ahead
    <3>4. CASE first = <<"load", "write">>
      <4>1. /\ Len(n.todo) = Len(rest) + 2 /\ n.todo[1] = "load" /\ n.todo[2] = "write"
            /\ \A i \in 3..Len(n.todo) : n.todo[i] = rest[i - 2]
        BY <2>2, <3>1, <3>4 DEF Steps
      <4>2. ASSUME NEW i \in 1..Len(n.todo) PROVE n.todo[i] \in {"load", "write", "lookup"}
        <5>1. Len(rest) \in Nat BY <3>1
        <5>2. i \in {1, 2} \/ i - 2 \in 1..Len(rest) BY <4>1, <5>1
        <5>3. \A k \in 1..Len(rest) : rest[k] = "lookup" BY <3>2 DEF Ahead
        <5>. QED BY <4>1, <5>1, <5>2, <5>3
      <4>. QED BY <4>2 DEF Ahead
    <3>. QED BY <1>3, <3>3, <3>4
  <2>4. n.op = "import" /\ n.ws = r.ws /\ n.set = <<>> /\ n.id \in Contacts
    BY <1>2, <1>3, <2>2
  <2>5. (Here(n.id) /\ n.ent = db[n.id]) \/ Fresh(n.id) BY <1>3, <2>2
  <2>6. api' = [api EXCEPT ![q] = n] BY <1>3 DEF n
  <2>. QED BY <2>1, <2>3, <2>4, <2>5, <2>6 DEF Turns
<1>. HIDE DEF New
<1>4. CASE \E c \in Owning(r.ws, Head(r.arg)) :
             api' = [api EXCEPT ![q] = New(<<"load", "write">>, c, db[c])]
  <2>1. PICK c \in Owning(r.ws, Head(r.arg)) :
          api' = [api EXCEPT ![q] = New(<<"load", "write">>, c, db[c])]
    BY <1>4
  <2>2. c \in Contacts /\ Here(c) BY DEF Owning
  <2>3. db[c] \in Contact BY <2>2, RowsOf, IdsApart DEF DbOK
  <2>. QED BY <1>3, <2>1, <2>2, <2>3
<1>5. CASE \E c \in Contacts : Fresh(c)
             /\ api' = [api EXCEPT ![q] =
                          New(<<"insert">>, c, [ws |-> r.ws, phone |-> Head(r.arg), blocked |-> FALSE])]
  <2>. DEFINE e == [ws |-> r.ws, phone |-> Head(r.arg), blocked |-> FALSE]
  <2>1. e \in Contact BY <1>2 DEF Contact
  <2>. HIDE DEF e
  <2>. QED BY <1>3, <1>5, <2>1 DEF e
<1>6. \/ \E c \in Owning(r.ws, Head(r.arg)) :
           api' = [api EXCEPT ![q] = New(<<"load", "write">>, c, db[c])]
      \/ \E c \in Contacts : Fresh(c)
           /\ api' = [api EXCEPT ![q] =
                        New(<<"insert">>, c, [ws |-> r.ws, phone |-> Head(r.arg), blocked |-> FALSE])]
  BY DEF Lookup, New
<1>. QED BY <1>4, <1>5, <1>6

\* The awaits that leave the entity and the argument of the call alone.
PlainStep(q) ==
  \/ Check(q) \/ SaveLoad(q) \/ Delete(q) \/ Publish(q) \/ Fails(q) \/ Store(q) \/ Forget(q)
  \/ Terminate(q) \/ TerminateFails(q) \/ Launch(q)

\* Such an await ends the call, or leaves it with the same entity and argument.
LEMMA PlainStepGoes ==
  ASSUME CallsInv, NEW q \in Requests, PlainStep(q)
  PROVE  /\ InFlight(q) /\ Goes(q, api[q].ent, api[q].arg)
         /\ \/ api' = [api EXCEPT ![q] = Ended]
            \/ Head(api[q].todo) \notin {"find", "insert", "lookup", "sign", "ask", "resolve"}
<1>. DEFINE r == api[q]
<1>1. CASE api' = [api EXCEPT ![q] = Ended] /\ InFlight(q) BY <1>1 DEF Goes
<1>2. CASE /\ InFlight(q)
           /\ Head(r.todo) \notin {"find", "insert", "lookup", "sign", "ask", "resolve"}
           /\ api' = [api EXCEPT ![q] = Past(r)]
  BY <1>2, PlainGoes
<1>3. CASE SaveLoad(q) BY <1>3, LoadGoes DEF SaveLoad, At, InFlight
<1>4. CASE Check(q)
  <2>1. Head(r.todo) \notin {"find", "insert", "lookup", "sign", "ask", "resolve"}
    BY <1>4 DEF Check, Granted
  <2>2. InFlight(q) /\ api' = [api EXCEPT ![q] = Past(r)] BY <1>4 DEF Check
  <2>. QED BY <1>2, <2>1, <2>2
<1>5. CASE Delete(q) BY <1>2, <1>5 DEF Delete, At, InFlight
<1>6. CASE Publish(q) BY <1>2, <1>6 DEF Publish, At, InFlight
<1>7. CASE Fails(q) BY <1>1, <1>7 DEF Fails
<1>8. CASE Store(q) BY <1>2, <1>8 DEF Store, At, InFlight
<1>9. CASE Forget(q) BY <1>2, <1>9 DEF Forget, At, InFlight
<1>10. CASE Terminate(q) BY <1>2, <1>10 DEF Terminate, At, InFlight
<1>11. CASE TerminateFails(q) BY <1>1, <1>2, <1>11 DEF TerminateFails, At, InFlight
<1>12. CASE Launch(q) BY <1>2, <1>12 DEF Launch, At, InFlight
<1>. QED BY <1>3, <1>4, <1>5, <1>6, <1>7, <1>8, <1>9, <1>10, <1>11, <1>12 DEF PlainStep

\* What happens to a call in one await: Goes for most, with the entity it finds.
LEMMA FindStep ==
  ASSUME DbOK, CallsInv, NEW q \in Requests, Find(q)
  PROVE  /\ InFlight(q) /\ Goes(q, Assigned(db[api[q].id], api[q].set), api[q].arg)
         /\ api[q].id \in Ids /\ Here(api[q].id) /\ UNCHANGED tables
         /\ "find" = Head(api[q].todo)
<1>1. InFlight(q) /\ Head(api[q].todo) = "find" BY DEF Find, At, InFlight
<1>2. CallOK(api[q]) /\ "find" \in Ahead(api[q].todo) BY <1>1, FirstStep
<1>3. api[q].id \in Ids BY <1>2 DEF CallOK, TodoOK
<1>. QED BY <1>1, <1>3, FindGoes DEF Find

\* Where a call that signs a token stands, and what it does to the tokens.
LEMMA SignStep ==
  ASSUME CallsInv, NEW q \in Requests, Sign(q)
  PROVE  /\ InFlight(q) /\ api[q].id \in Users /\ Head(api[q].todo) = "sign"
         /\ \E t \in Token :
              /\ Goes(q, api[q].ent, t)
              /\ issued' = [issued EXCEPT ![api[q].id] = @ \cup {t}]
              /\ dead' = [dead EXCEPT ![api[q].id] = @ \ {t}]
         /\ UNCHANGED cache
<1>. DEFINE u == api[q].id
<1>1. At(q, "sign") /\ InFlight(q) /\ Head(api[q].todo) = "sign" BY DEF Sign, At, InFlight
<1>2. CallOK(api[q]) /\ "sign" \in Ahead(api[q].todo) BY <1>1, FirstStep
<1>3. u \in Users BY <1>2 DEF CallOK, TodoOK
<1>4. PICK t \in Token :
        /\ issued' = [issued EXCEPT ![u] = @ \cup {t}]
        /\ dead' = [dead EXCEPT ![u] = @ \ {t}]
        /\ api' = [api EXCEPT ![q] = Past([api[q] EXCEPT !.arg = t])]
  BY DEF Sign
<1>5. Goes(q, api[q].ent, t) BY <1>1, <1>4, SignGoes
<1>. QED BY <1>1, <1>3, <1>4, <1>5 DEF Sign

-----------------------------------------------------------------------------
(* Every call stays as a call must be.                                     *)

\* A step of one call keeps what calls are.
LEMMA CallsStay ==
  ASSUME api = [p \in Requests |-> api[p]], CallsInv, NEW q \in Requests, NEW n,
         api' = [api EXCEPT ![q] = n], n = Ended \/ CallOK(n)
  PROVE  (api = [p \in Requests |-> api[p]])' /\ CallsInv'
<1>1. \A p \in Requests : api'[p] = IF p = q THEN n ELSE api[p] OBVIOUS
<1>2. api' = [p \in Requests |-> api'[p]] OBVIOUS
<1>3. \A p \in Requests : api'[p] \in {Unmade, Ended} \/ CallOK(api'[p]) BY <1>1 DEF CallsInv
<1>. QED BY <1>2, <1>3 DEF CallsInv

\* Every step keeps what calls are.
LEMMA CallsKept ==
  ASSUME Base, [Next]_vars
  PROVE  (api = [p \in Requests |-> api[p]])' /\ CallsInv'
<1>. USE DEF Base
<1>1. ASSUME NEW q \in Requests, NewCall(q)
      PROVE  (api = [p \in Requests |-> api[p]])' /\ CallsInv'
  BY <1>1, NewCallBegins, CallsStay DEF Begun
<1>2. ASSUME NEW q \in Requests, NEW e, NEW a, Goes(q, e, a)
      PROVE  (api = [p \in Requests |-> api[p]])' /\ CallsInv'
  BY <1>2, CallsStay DEF Goes
<1>3. ASSUME NEW q \in Requests, Turns(q) \/ Founds(q)
      PROVE  (api = [p \in Requests |-> api[p]])' /\ CallsInv'
  BY <1>3, CallsStay DEF Turns, Founds
<1>4. ASSUME NEW q \in Requests, DbStep(q)
      PROVE  (api = [p \in Requests |-> api[p]])' /\ CallsInv'
  <2>1. CASE PlainStep(q) BY <1>2, <2>1, PlainStepGoes
  <2>2. CASE Find(q) BY <1>2, <2>2, FindStep
  <2>3. CASE SaveWrite(q) BY <1>2, <2>3, WriteGoes
  <2>4. CASE Insert(q) BY <1>2, <1>3, <2>4, InsertGoes
  <2>5. CASE Lookup(q) BY <1>3, <2>5, LookupGoes
  <2>6. CASE Resolve(q)
    <3>1. \A c \in Contacts : Here(c) => db[c] \in Contact BY RowsOf, IdsApart DEF DbOK
    <3>. QED BY <1>2, <2>6, <3>1, ResolveGoes DEF DbOK
  <2>. QED BY <1>4, <2>1, <2>2, <2>3, <2>4, <2>5, <2>6 DEF DbStep, ContactSteps, PlainStep
<1>5. ASSUME NEW q \in Requests, TokenSteps(q)
      PROVE  (api = [p \in Requests |-> api[p]])' /\ CallsInv'
  <2>1. CASE PlainStep(q) BY <1>2, <2>1, PlainStepGoes
  <2>2. CASE Sign(q) BY <1>2, <2>2, SignStep
  <2>. QED BY <1>5, <2>1, <2>2 DEF TokenSteps, PlainStep
<1>6. ASSUME NEW q \in Requests, RemoteSteps(q)
      PROVE  (api = [p \in Requests |-> api[p]])' /\ CallsInv'
  <2>1. CASE PlainStep(q) BY <1>2, <2>1, PlainStepGoes
  <2>2. CASE Ask(q) BY <1>2, <2>2, AskGoes
  <2>. QED BY <1>6, <2>1, <2>2 DEF RemoteSteps, PlainStep
<1>7. CASE Crash
  <2>1. \A p \in Requests : api'[p] = IF InFlight(p) THEN Ended ELSE api[p] BY <1>7 DEF Crash
  <2>2. \A p \in Requests : api'[p] \in {Unmade, Ended} \/ CallOK(api'[p]) BY <2>1 DEF CallsInv
  <2>3. api' = [p \in Requests |-> api'[p]] BY <1>7 DEF Crash
  <2>. QED BY <2>2, <2>3 DEF CallsInv
<1>8. CASE UNCHANGED vars BY <1>8 DEF vars, CallsInv
<1>. QED BY <1>1, <1>4, <1>5, <1>6, <1>7, <1>8 DEF Next

-----------------------------------------------------------------------------
(* The tables keep their schema and constraints.                           *)

\* The tables are as they were.
LEMMA DbStays ==
  ASSUME DbOK, UNCHANGED tables
  PROVE  DbOK'
BY DEF DbOK, Here, tables

\* Where a call that saves an entity stands.
LEMMA SaveStep ==
  ASSUME CallsInv, NEW q \in Requests, SaveWrite(q) \/ Insert(q)
  PROVE  LET r == api[q] IN
           /\ InFlight(q) /\ CallOK(r) /\ r.id \in Ids /\ r.ent \in Rows(r.id) /\ r.ent # Nil
           /\ Head(r.todo) \in {"insert", "write"} /\ Head(r.todo) \in Ahead(r.todo)
<1>. DEFINE r == api[q]
<1>1. InFlight(q) /\ Head(r.todo) \in {"insert", "write"} BY DEF SaveWrite, Insert, At, InFlight
<1>2. CallOK(r) /\ Head(r.todo) \in Ahead(r.todo) /\ r.ent # Nil BY <1>1, FirstStep DEF Uses
<1>. QED BY <1>1, <1>2 DEF CallOK, EntOK

\* The row that a call writes, and those it leaves.
LEMMA WrittenOK ==
  ASSUME DbOK, CallsInv, NEW q \in Requests, SaveWrite(q) \/ Insert(q)
  PROVE  LET r == api[q] IN
           /\ db' = [id \in Ids |-> db'[id]] /\ \A id \in Ids \ {r.id} : db'[id] = db[id]
           /\ db'[r.id] \in Rows(r.id) \cup {Nil}
           /\ Here(r.id) => db'[r.id] # Nil
           /\ Permitted(db')
           /\ UNCHANGED <<removed, sealed>>
           /\ firm' \subseteq firm \cup {r.id} /\ firm' \subseteq Contacts
           /\ r.id \in firm' => r.id \in firm \/ db'[r.id] # Nil
<1>. DEFINE r == api[q]
<1>1. r.id \in Ids /\ r.ent \in Rows(r.id) /\ r.ent # Nil BY SaveStep
<1>2. ASSUME NEW x \in Rows(r.id) \cup {Nil}, NEW d, d = [db EXCEPT ![r.id] = x],
             Here(r.id) => x # Nil, Permitted(d), db' = d, firm' = FirmAfter(q, d),
             UNCHANGED <<removed, sealed>>
      PROVE  /\ db' = [id \in Ids |-> db'[id]] /\ \A id \in Ids \ {r.id} : db'[id] = db[id]
             /\ db'[r.id] \in Rows(r.id) \cup {Nil}
             /\ Here(r.id) => db'[r.id] # Nil
             /\ Permitted(db')
             /\ UNCHANGED <<removed, sealed>>
             /\ firm' \subseteq firm \cup {r.id} /\ firm' \subseteq Contacts
             /\ r.id \in firm' => r.id \in firm \/ db'[r.id] # Nil
  <2>1. db = [id \in Ids |-> db[id]] BY DEF DbOK
  <2>2. d = [id \in Ids |-> IF id = r.id THEN x ELSE db[id]] BY <1>1, <1>2, <2>1
  <2>3. /\ firm' \subseteq firm \cup {r.id} /\ firm' \subseteq Contacts
        /\ r.id \in firm' => r.id \in firm \/ db'[r.id] # Nil
    BY <1>2 DEF FirmAfter, DbOK
  <2>. QED BY <1>1, <1>2, <2>2, <2>3
<1>3. CASE Insert(q) BY <1>1, <1>2, <1>3 DEF Insert
<1>4. CASE SaveWrite(q)
  <2>. DEFINE x == Saved(r.id, r.ent, r.plan)
  <2>1. x \in Rows(r.id) \cup {Nil} BY <1>1, SavedOK DEF DbOK, Here
  <2>2. Here(r.id) => x # Nil
    <3>1. Nil \notin Rows(r.id) BY <1>1, IdsApart
    <3>. QED BY <1>1, <3>1, SavedOK DEF DbOK, Here
  <2>3. PICK d : d = [db EXCEPT ![r.id] = x] /\ Permitted(d) /\ db' = d /\ firm' = FirmAfter(q, d)
                 /\ UNCHANGED <<removed, sealed>>
    BY <1>4 DEF SaveWrite
  <2>. HIDE DEF x
  <2>. QED BY <1>2, <2>1, <2>2, <2>3
<1>. QED BY <1>3, <1>4

\* The rows that a call removes, and those it leaves.
LEMMA DeletedOK ==
  ASSUME DbOK, CallsInv, NEW q \in Requests, Delete(q)
  PROVE  LET id == api[q].id IN
           /\ InFlight(q) /\ Head(api[q].todo) = "delete" /\ CallOK(api[q])
           /\ "delete" \in Ahead(api[q].todo) /\ id \in Ids
           /\ Deleted(id) \subseteq {id} \cup Members
           /\ db' = [i \in Ids |-> IF i \in Deleted(id) THEN Nil ELSE db[i]]
           /\ removed' = removed \cup Deleted(id) /\ id \in Deleted(id)
           /\ sealed' \subseteq sealed \cup {id} /\ firm' = firm \ Deleted(id)
           /\ id \in sealed' => id \in sealed \/ ~HeldByOther(q, id)
           /\ sealed \subseteq sealed'
<1>. DEFINE r == api[q]
<1>1. InFlight(q) /\ Head(r.todo) = "delete" BY DEF Delete, At, InFlight
<1>2. CallOK(r) /\ "delete" \in Ahead(r.todo) BY <1>1, FirstStep
<1>3. r.id \in Ids BY <1>2 DEF CallOK, TodoOK
<1>4. Deleted(r.id) \subseteq {r.id} \cup Members /\ r.id \in Deleted(r.id) BY DEF Deleted
<1>. QED BY <1>1, <1>2, <1>3, <1>4 DEF Delete

\* Every step keeps the tables' rows and constraints.
LEMMA DbKept ==
  ASSUME Base, [Next]_vars
  PROVE  DbOK'
<1>. USE DEF Base
<1>1. CASE UNCHANGED tables BY <1>1, DbStays
<1>2. ASSUME NEW q \in Requests, SaveWrite(q) \/ Insert(q) PROVE DbOK'
  <2>. DEFINE x == api[q].id
  <2>1. /\ x \in Ids
        /\ db' = [id \in Ids |-> db'[id]] /\ \A id \in Ids \ {x} : db'[id] = db[id]
        /\ db'[x] \in Rows(x) \cup {Nil}
        /\ Here(x) => db'[x] # Nil
        /\ Permitted(db')
        /\ UNCHANGED <<removed, sealed>>
        /\ firm' \subseteq firm \cup {x} /\ firm' \subseteq Contacts
        /\ x \in firm' => x \in firm \/ db'[x] # Nil
    BY <1>2, WrittenOK, SaveStep
  <2>. HIDE DEF x
  <2>2. \A id \in Ids : db'[id] # Nil => db'[id] \in Rows(id) BY <2>1 DEF DbOK, Here
  <2>3. \A c \in firm' : db'[c] # Nil
    <3>1. \A c \in Contacts : c \in Ids BY IdsApart
    <3>. QED BY <2>1, <3>1 DEF DbOK, Here
  <2>. QED BY <2>1, <2>2, <2>3 DEF DbOK, Here
<1>3. ASSUME NEW q \in Requests, Delete(q) PROVE DbOK'
  <2>. DEFINE x == api[q].id  gone == Deleted(x)
  <2>1. /\ x \in Ids /\ gone \subseteq {x} \cup Members /\ x \in gone
        /\ db' = [i \in Ids |-> IF i \in gone THEN Nil ELSE db[i]]
        /\ removed' = removed \cup gone
        /\ sealed' \subseteq sealed \cup {x} /\ firm' = firm \ gone
    BY <1>3, DeletedOK
  <2>2. \A m \in Members : m \in Ids BY IdsApart
  <2>3. Permitted(db')
    <3>1. ASSUME NEW m \in Members, db'[m] # Nil PROVE db'[m[1]] # Nil /\ db'[m[2]] # Nil
      <4>1. m \notin gone /\ db[m] # Nil BY <2>1, <2>2, <3>1
      <4>2. x # m[1] /\ x # m[2] BY <4>1 DEF Deleted, Here
      <4>3. /\ m[1] \in Ids /\ m[2] \in Ids /\ m[1] \notin Members /\ m[2] \notin Members
        <5>1. m[1] \in Workspaces /\ m[2] \in Users BY DEF Members
        <5>. QED BY <5>1, IdsApart
      <4>4. m[1] \notin gone /\ m[2] \notin gone BY <2>1, <4>2, <4>3
      <4>5. db[m[1]] # Nil /\ db[m[2]] # Nil BY <4>1 DEF DbOK, Permitted
      <4>. HIDE DEF gone
      <4>. QED BY <2>1, <4>3, <4>4, <4>5
    <3>2. \A c \in Contacts : c \in Ids BY IdsApart
    <3>. HIDE DEF gone
    <3>3. \A c, e \in Contacts :
            c # e /\ db'[c] # Nil /\ db'[e] # Nil /\ db'[c].phone = db'[e].phone =>
               db'[c].ws # db'[e].ws
      BY <2>1, <3>2 DEF DbOK, Permitted
    <3>. QED BY <3>1, <3>3 DEF Permitted
  <2>. HIDE DEF gone, x
  <2>4. \A id \in Ids : db'[id] # Nil => db'[id] \in Rows(id) BY <2>1 DEF DbOK, Here
  <2>5. \A c \in firm' : db'[c] # Nil
    <3>1. \A c \in Contacts : c \in Ids BY IdsApart
    <3>. QED BY <2>1, <3>1 DEF DbOK, Here
  <2>6. removed' \in SUBSET Ids /\ sealed' \in SUBSET removed' /\ firm' \in SUBSET Contacts
    BY <2>1, <2>2 DEF DbOK
  <2>7. db' = [i \in Ids |-> db'[i]] BY <2>1
  <2>. QED BY <2>3, <2>4, <2>5, <2>6, <2>7 DEF DbOK, Here
<1>4. ASSUME NEW q \in Requests, DbStep(q), ~SaveWrite(q), ~Insert(q), ~Delete(q)
      PROVE  UNCHANGED tables
  BY <1>4 DEF DbStep, Check, Find, SaveLoad, ContactSteps, Lookup, Resolve, Publish, Fails
<1>5. CASE UNCHANGED vars BY <1>1, <1>5 DEF vars
<1>6. CASE Crash BY <1>1, <1>6 DEF Crash
<1>7. ASSUME NEW q \in Requests, RemoteSteps(q) PROVE UNCHANGED tables
  BY <1>7 DEF RemoteSteps, Terminate, TerminateFails, Launch, Ask
<1>. QED BY <1>1, <1>2, <1>3, <1>4, <1>5, <1>6, <1>7 DEF Next, NewCall

\* OpenWA's sessions are those of the table's keys.
LEMMA RemoteKept ==
  ASSUME Base, [Next]_vars
  PROVE  RemoteOK'
<1>. USE DEF Base, RemoteOK
<1>1. ASSUME NEW q \in Requests, NEW s, InFlight(q), s \in {"terminate", "launch"},
             Head(api[q].todo) = s
      PROVE  api[q].id \in Sessions
  <2>1. CallOK(api[q]) /\ s \in Ahead(api[q].todo) BY <1>1, FirstStep
  <2>. QED BY <1>1, <2>1 DEF CallOK, TodoOK
<1>2. ASSUME NEW q \in Requests, RemoteSteps(q) PROVE RemoteOK'
  <2>1. CASE Terminate(q) BY <2>1 DEF Terminate
  <2>2. CASE TerminateFails(q)
    BY <1>1, <2>2 DEF TerminateFails, At, InFlight
  <2>3. CASE Launch(q) BY <1>1, <2>3 DEF Launch, At, InFlight, remote
  <2>4. CASE Ask(q) BY <2>4 DEF Ask, remote
  <2>. QED BY <1>2, <2>1, <2>2, <2>3, <2>4 DEF RemoteSteps
<1>3. CASE UNCHANGED remote BY <1>3 DEF remote
<1>. QED BY <1>2, <1>3 DEF Next, NewCall, DbStep, Crash, vars, remote

\* What is there when the users have registered and furnished a workspace.
RowsMade(u, w, s, c, k, p) ==
  /\ \A id \in Users : db[id] = Bare
  /\ \A id \in Workspaces : db[id] = IF id = w THEN [owner |-> u] ELSE Nil
  /\ \A id \in Members : db[id] = IF id = <<w, u>> THEN [role |-> "owner"] ELSE Nil
  /\ \A id \in Sessions : db[id] = IF id = s THEN [ws |-> w, status |-> "connected"] ELSE Nil
  /\ \A id \in Contacts :
       db[id] = IF id = c THEN [ws |-> w, phone |-> p, blocked |-> FALSE] ELSE Nil
  /\ \A id \in Keys \cup Groups : db[id] = IF id = k THEN [ws |-> w] ELSE Nil

\* They are the rows of each table.
LEMMA FurnishedRows ==
  ASSUME NEW u \in Users, NEW w \in Workspaces, NEW s \in Sessions, NEW c \in Contacts,
         NEW k \in Keys, NEW p \in Phones, db = Furnished(u, w, s, c, k, p)
  PROVE  RowsMade(u, w, s, c, k, p)
<1>0. <<w, u>> \in Members BY DEF Members
<1>1. ASSUME NEW id \in Users PROVE db[id] = Bare
  <2>1. /\ id \in Ids /\ id # w /\ id # <<w, u>> /\ id # s /\ id # c /\ id # k
    BY <1>0, IdsApart
  <2>. QED BY <2>1 DEF Furnished
<1>2. ASSUME NEW id \in Workspaces PROVE db[id] = IF id = w THEN [owner |-> u] ELSE Nil
  <2>1. /\ /\ id \in Ids
              /\ id \notin Users /\ id # <<w, u>> /\ id # s /\ id # c /\ id # k
    BY <1>0, IdsApart
  <2>. QED BY <2>1 DEF Furnished
<1>3. ASSUME NEW id \in Members
      PROVE  db[id] = IF id = <<w, u>> THEN [role |-> "owner"] ELSE Nil
  <2>1. /\ /\ id \in Ids
              /\ id \notin Users /\ id # w /\ id # s /\ id # c /\ id # k
    BY <1>0, IdsApart
  <2>. QED BY <2>1 DEF Furnished
<1>4. ASSUME NEW id \in Sessions
      PROVE  db[id] = IF id = s THEN [ws |-> w, status |-> "connected"] ELSE Nil
  <2>1. /\ /\ id \in Ids
              /\ id \notin Users /\ id # w /\ id # <<w, u>> /\ id # c /\ id # k
    BY <1>0, IdsApart
  <2>. QED BY <2>1 DEF Furnished
<1>5. ASSUME NEW id \in Contacts
      PROVE  db[id] = IF id = c THEN [ws |-> w, phone |-> p, blocked |-> FALSE] ELSE Nil
  <2>1. /\ /\ id \in Ids
              /\ id \notin Users /\ id # w /\ id # <<w, u>> /\ id # s /\ id # k
    BY <1>0, IdsApart
  <2>. QED BY <2>1 DEF Furnished
<1>6. ASSUME NEW id \in Keys \cup Groups PROVE db[id] = IF id = k THEN [ws |-> w] ELSE Nil
  <2>1. /\ /\ id \in Ids
              /\ id \notin Users /\ id # w /\ id # <<w, u>> /\ id # s /\ id # c
    BY <1>0, IdsApart
  <2>. QED BY <2>1 DEF Furnished
<1>. QED BY <1>1, <1>2, <1>3, <1>4, <1>5, <1>6 DEF RowsMade

\* It holds initially.
LEMMA InitBase ==
  ASSUME Init
  PROVE  Base
<1>1. api = [q \in Requests |-> api[q]] /\ CallsInv BY DEF Init, CallsInv
<1>2. removed = {} /\ sealed = {} /\ firm = {} /\ excused = {} BY DEF Init
<1>3. CASE db = [id \in Ids |-> Nil] /\ running = {}
  <2>1. \A m \in Members \cup Contacts : db[m] = Nil
    <3>1. \A m \in Members \cup Contacts : m \in Ids BY IdsApart
    <3>. QED BY <1>3, <3>1
  <2>2. Permitted(db) BY <2>1 DEF Permitted
  <2>. QED BY <1>1, <1>2, <1>3, <2>2 DEF Base, DbOK, RemoteOK, Here
<1>4. ASSUME NEW u \in Users, NEW w \in Workspaces, NEW s \in Sessions, NEW c \in Contacts,
             NEW k \in Keys, NEW p \in Phones, db = Furnished(u, w, s, c, k, p), running = {s}
      PROVE  Base
  <2>1. <<w, u>> \in Members BY DEF Members
  <2>2. db = [id \in Ids |-> db[id]] BY <1>4 DEF Furnished
  <2>3. RowsMade(u, w, s, c, k, p) BY <1>4, FurnishedRows
  <2>4. ASSUME NEW id \in Ids, db[id] # Nil PROVE db[id] \in Rows(id)
    <3>1. CASE id \in Users BY <2>3, <3>1, RowsOf DEF RowsMade
    <3>2. CASE id \in Workspaces
      <4>1. db[id] = [owner |-> u] BY <2>3, <2>4, <3>2 DEF RowsMade
      <4>2. [owner |-> u] \in Workspace BY DEF Workspace
      <4>. QED BY <3>2, <4>1, <4>2, RowsOf
    <3>3. CASE id \in Members
      <4>1. db[id] = [role |-> "owner"] BY <2>3, <2>4, <3>3 DEF RowsMade
      <4>2. [role |-> "owner"] \in Membership BY DEF Membership, Roles
      <4>. QED BY <3>3, <4>1, <4>2, RowsOf
    <3>4. CASE id \in Sessions
      <4>1. db[id] = [ws |-> w, status |-> "connected"] BY <2>3, <2>4, <3>4 DEF RowsMade
      <4>2. [ws |-> w, status |-> "connected"] \in Session BY DEF Session, Statuses
      <4>. QED BY <3>4, <4>1, <4>2, RowsOf
    <3>5. CASE id \in Contacts
      <4>1. db[id] = [ws |-> w, phone |-> p, blocked |-> FALSE] BY <2>3, <2>4, <3>5 DEF RowsMade
      <4>2. [ws |-> w, phone |-> p, blocked |-> FALSE] \in Contact BY DEF Contact
      <4>. QED BY <3>5, <4>1, <4>2, RowsOf
    <3>6. CASE id \in Keys \cup Groups
      <4>1. db[id] = [ws |-> w] BY <2>3, <2>4, <3>6 DEF RowsMade
      <4>2. [ws |-> w] \in Owned BY DEF Owned
      <4>. QED BY <3>6, <4>1, <4>2, RowsOf
    <3>. QED BY <3>1, <3>2, <3>3, <3>4, <3>5, <3>6 DEF Ids
  <2>5. Permitted(db)
    <3>1. ASSUME NEW m \in Members, db[m] # Nil PROVE db[m[1]] # Nil /\ db[m[2]] # Nil
      <4>1. m[1] = w /\ m[2] = u BY <2>3, <3>1 DEF RowsMade
      <4>2. db[w] \in Rows(w) \/ db[w] = Nil BY <2>4, IdsApart
      <4>3. [owner |-> u] \in Rows(w) /\ Bare \in Rows(u) BY RowsOf DEF Workspace
      <4>. QED BY <2>3, <4>1, <4>3, IdsApart DEF RowsMade
    <3>2. \A x, y \in Contacts : db[x] # Nil /\ db[y] # Nil => x = y BY <2>3 DEF RowsMade
    <3>. QED BY <3>1, <3>2 DEF Permitted
  <2>. QED BY <1>1, <1>2, <1>4, <2>2, <2>4, <2>5 DEF Base, DbOK, RemoteOK, Here
<1>. QED BY <1>3, <1>4 DEF Init

\* Every step keeps it.
LEMMA BaseKept ==
  ASSUME Base, [Next]_vars
  PROVE  Base'
BY CallsKept, DbKept, RemoteKept DEF Base

-----------------------------------------------------------------------------
(* Refresh tokens.                                                         *)

\* Where a call about to store a token stands.
Storing(r) ==
  "store" \in Ahead(r.todo) /\ "sign" \notin Ahead(r.todo)

\* No call comes to store a token but by signing one.
LEMMA StoringGoes ==
  ASSUME Base, TokenInv, NEW q \in Requests, InFlight(q), NEW e, NEW a, Goes(q, e, a),
         Head(api[q].todo) # "sign" \/ api' = [api EXCEPT ![q] = Ended],
         NEW p \in Requests, api'[p].todo # <<>>, Storing(api'[p])
  PROVE  p # q /\ api'[p] = api[p]
<1>. DEFINE r == api[q]
<1>1. PICK n : api' = [api EXCEPT ![q] = n]
               /\ (n = Ended \/ Ahead(n.todo) = Ahead(r.todo) \ {Head(r.todo)})
  BY DEF Goes
<1>2. api'[q] = n /\ \A x \in Requests \ {q} : api'[x] = api[x] BY <1>1 DEF Base
<1>3. ASSUME p = q PROVE FALSE
  <2>1. n # Ended BY <1>2, <1>3 DEF Ended
  <2>2. Head(r.todo) # "sign"
    <3>1. CASE api' = [api EXCEPT ![q] = Ended] BY <1>2, <2>1, <3>1 DEF Base
    <3>. QED BY <3>1
  <2>3. Ahead(n.todo) = Ahead(r.todo) \ {Head(r.todo)} BY <1>1, <2>1
  <2>4. "store" \in Ahead(r.todo) /\ "sign" \notin Ahead(r.todo) /\ Head(r.todo) # "store"
    BY <1>2, <1>3, <2>2, <2>3 DEF Storing
  <2>. QED BY <2>4 DEF TokenInv, At
<1>. QED BY <1>2, <1>3

\* A step that touches no token, and after which no call is newly about to store one.
LEMMA TokensStay ==
  ASSUME Base, TokenInv, UNCHANGED tokens, api' = [x \in Requests |-> api'[x]],
         \A p \in Requests : api'[p].todo # <<>> /\ Storing(api'[p]) => api'[p] = api[p]
  PROVE  TokenInv'
<1>1. TokensOK' /\ SupersededStaysDead' BY DEF TokenInv, TokensOK, SupersededStaysDead, tokens, Token
<1>2. ASSUME NEW p \in Requests, api'[p].todo # <<>>,
             "store" \in Ahead(api'[p].todo), "sign" \notin Ahead(api'[p].todo)
      PROVE  /\ api'[p].todo # <<>> /\ Head(api'[p].todo) = "store" /\ api'[p].id \in Users
             /\ api'[p].arg \in Token \ dead'[api'[p].id]
  <2>1. api'[p] = api[p] BY <1>2 DEF Storing
  <2>. QED BY <1>2, <2>1 DEF TokenInv, InFlight, At, tokens
<1>. QED BY <1>1, <1>2 DEF TokenInv, InFlight, At

\* The next await of a call that signed its token is the store.
LEMMA SignedStores ==
  ASSUME NEW r, CallOK(r), Head(r.todo) = "sign", NEW n, CallOK(n),
         Ahead(n.todo) = Ahead(r.todo) \ {"sign"}, "store" \in Ahead(n.todo)
  PROVE  Head(n.todo) = "store"
<1>. DEFINE h == Head(n.todo)  U == Ahead(Tail(n.todo))  V == Ahead(Tail(r.todo))
<1>1. /\ Ahead(r.todo) = {"sign"} \cup V
      /\ \A s \in V : Rank("sign") < Rank(s)
  BY TailOf DEF CallOK, TodoOK
<1>2. /\ Ahead(n.todo) = {h} \cup U
      /\ \A s \in U : Rank(h) < Rank(s) \/ (h = "lookup" /\ s = "lookup")
  BY TailOf DEF CallOK, TodoOK
<1>. HIDE DEF h, U, V
<1>3. h \in V BY <1>1, <1>2
<1>4. ASSUME h # "store" PROVE FALSE
  <2>1. Rank(h) < Rank("store") BY <1>2, <1>4
  <2>. QED BY <1>1, <1>3, <2>1, RankNat DEF Rank
<1>. QED BY <1>4 DEF h

\* No step makes a token that was superseded the stored one.
LEMMA TokenKept ==
  ASSUME Base, TokenInv, [Next]_vars
  PROVE  TokenInv'
<1>1. api' = [x \in Requests |-> api'[x]] BY BaseKept DEF Base
<1>2. ASSUME NEW q \in Requests, InFlight(q), NEW e, NEW a, Goes(q, e, a), UNCHANGED tokens,
             Head(api[q].todo) # "sign" \/ api' = [api EXCEPT ![q] = Ended]
      PROVE  TokenInv'
  BY <1>1, <1>2, StoringGoes, TokensStay
<1>3. ASSUME NEW q \in Requests, NEW n, api' = [api EXCEPT ![q] = n], n = Ended \/ ~Storing(n),
             UNCHANGED tokens
      PROVE  TokenInv'
  <2>1. \A p \in Requests : api'[p] = IF p = q THEN n ELSE api[p] BY <1>3 DEF Base
  <2>2. \A p \in Requests : api'[p].todo # <<>> /\ Storing(api'[p]) => api'[p] = api[p]
    BY <1>3, <2>1 DEF Ended
  <2>. QED BY <1>1, <1>3, <2>2, TokensStay
<1>4. ASSUME NEW q \in Requests, NewCall(q) PROVE TokenInv'
  <2>1. PICK n : api' = [api EXCEPT ![q] = n] /\ Opens(n)
    BY <1>4, NewCallBegins DEF Begun, Base
  <2>2. ~Storing(n) BY <2>1 DEF Opens, Storing
  <2>. QED BY <1>3, <1>4, <2>1, <2>2 DEF NewCall
<1>5. ASSUME NEW q \in Requests, PlainStep(q), UNCHANGED tokens PROVE TokenInv'
  BY <1>2, <1>5, PlainStepGoes DEF Base
<1>6. ASSUME NEW q \in Requests, DbStep(q) PROVE TokenInv'
  <2>1. UNCHANGED tokens BY <1>6 DEF DbStep
  <2>2. CASE Find(q) BY <1>2, <2>1, <2>2, FindStep DEF Base
  <2>3. CASE SaveWrite(q)
    <3>1. Goes(q, Nil, api[q].arg) BY <2>3, WriteGoes DEF Base
    <3>. QED BY <1>2, <2>1, <2>3, <3>1 DEF SaveWrite, At, InFlight
  <2>4. CASE Insert(q)
    <3>1. CASE Goes(q, Nil, api[q].arg) BY <1>2, <2>1, <2>4, <3>1 DEF Insert, At, InFlight
    <3>2. CASE Founds(q) /\ api[q].op = "createWorkspace"
      <4>1. PICK n : /\ api' = [api EXCEPT ![q] = n]
                     /\ n = Ended \/ (CallOK(n) /\ n.op = "createWorkspace")
        BY <3>2 DEF Founds
      <4>2. n = Ended \/ ~Storing(n) BY <4>1 DEF CallOK, OpOK, Storing
      <4>. QED BY <1>3, <2>1, <4>1, <4>2
    <3>. QED BY <2>4, <3>1, <3>2, InsertGoes DEF Base
  <2>5. CASE Lookup(q)
    <3>1. PICK n : /\ api' = [api EXCEPT ![q] = n]
                   /\ Ahead(n.todo) \subseteq {"insert", "load", "write", "lookup"}
      BY <2>5, LookupGoes DEF Base, Turns
    <3>2. ~Storing(n) BY <3>1 DEF Storing
    <3>. QED BY <1>3, <2>1, <3>1, <3>2
  <2>6. CASE Resolve(q)
    <3>1. \A c \in Contacts : Here(c) => db[c] \in Contact BY RowsOf, IdsApart DEF Base, DbOK
    <3>2. \E a : Goes(q, api[q].ent, a) BY <2>6, <3>1, ResolveGoes DEF Base, DbOK
    <3>. QED BY <1>2, <2>1, <2>6, <3>2 DEF Resolve, At, InFlight
  <2>. QED BY <1>5, <1>6, <2>1, <2>2, <2>3, <2>4, <2>5, <2>6 DEF DbStep, ContactSteps, PlainStep
<1>7. ASSUME NEW q \in Requests, RemoteSteps(q), UNCHANGED tokens PROVE TokenInv'
  <2>1. CASE Ask(q)
    <3>1. \E e : Goes(q, e, api[q].arg) BY <2>1, AskGoes DEF Base
    <3>. QED BY <1>2, <1>7, <2>1, <3>1 DEF Ask, At, InFlight
  <2>. QED BY <1>5, <1>7, <2>1 DEF RemoteSteps, PlainStep
<1>8. ASSUME NEW q \in Requests, Sign(q) PROVE TokenInv'
  <2>. DEFINE r == api[q]  u == r.id
  <2>1. InFlight(q) /\ u \in Users /\ Head(r.todo) = "sign" /\ UNCHANGED cache
    BY <1>8, SignStep DEF Base
  <2>2. PICK t \in Token :
          /\ Goes(q, r.ent, t)
          /\ issued' = [issued EXCEPT ![u] = @ \cup {t}]
          /\ dead' = [dead EXCEPT ![u] = @ \ {t}]
    BY <1>8, SignStep DEF Base
  <2>3. TokensOK' /\ SupersededStaysDead'
    BY <2>1, <2>2 DEF TokenInv, TokensOK, SupersededStaysDead, Token
  <2>4. PICK n : /\ api' = [api EXCEPT ![q] = n]
                 /\ \/ n = Ended
                    \/ /\ CallOK(n) /\ n.id = u /\ n.arg = t
                       /\ Ahead(n.todo) = Ahead(r.todo) \ {"sign"}
    BY <2>1, <2>2 DEF Goes
  <2>5. \A p \in Requests : api'[p] = IF p = q THEN n ELSE api[p] BY <2>4 DEF Base
  <2>6. \A v \in Users : dead'[v] \subseteq dead[v] /\ t \notin dead'[u]
    BY <2>1, <2>2 DEF TokenInv, TokensOK
  <2>7. CallOK(r) BY <2>1, FlightOK DEF Base
  <2>. HIDE DEF r, u
  <2>8. ASSUME NEW p \in Requests, api'[p].todo # <<>>,
               "store" \in Ahead(api'[p].todo), "sign" \notin Ahead(api'[p].todo)
        PROVE  /\ api'[p].todo # <<>> /\ Head(api'[p].todo) = "store" /\ api'[p].id \in Users
               /\ api'[p].arg \in Token \ dead'[api'[p].id]
    <3>1. CASE p = q
      <4>1. n # Ended BY <2>5, <2>8, <3>1 DEF Ended
      <4>2. Head(n.todo) = "store" BY <2>1, <2>4, <2>5, <2>7, <2>8, <3>1, <4>1, SignedStores
      <4>. QED BY <2>1, <2>4, <2>5, <2>6, <2>8, <3>1, <4>1, <4>2
    <3>2. CASE p # q
      <4>1. /\ api[p].todo # <<>> /\ Head(api[p].todo) = "store" /\ api[p].id \in Users
            /\ api[p].arg \in Token \ dead[api[p].id] /\ api'[p] = api[p]
        BY <2>5, <2>8, <3>2 DEF TokenInv, InFlight, At
      <4>. QED BY <2>6, <2>8, <4>1
    <3>. QED BY <3>1, <3>2
  <2>. QED BY <2>3, <2>8 DEF TokenInv, InFlight, At
<1>9. ASSUME NEW q \in Requests, NEW t \in Token \cup {Nil}, At(q, "store") \/ At(q, "forget"),
             api[q].id \in Users, t \notin dead[api[q].id],
             cache' = [cache EXCEPT ![api[q].id] = t],
             dead' = [dead EXCEPT ![api[q].id] = DeadAfter(q, api[q].id, t)],
             UNCHANGED issued, PlainStep(q)
      PROVE  TokenInv'
  <2>. DEFINE u == api[q].id
  <2>1. /\ dead' = [dead EXCEPT ![u] = DeadAfter(q, u, t)]
        /\ DeadAfter(q, u, t) \subseteq Token /\ t \notin DeadAfter(q, u, t)
        /\ u \in Users
    BY <1>9 DEF TokenInv, TokensOK, DeadAfter
  <2>2. TokensOK' /\ SupersededStaysDead'
    BY <1>9, <2>1 DEF TokenInv, TokensOK, SupersededStaysDead, Token
  <2>3. ASSUME NEW p \in Requests, api'[p].todo # <<>>,
               "store" \in Ahead(api'[p].todo), "sign" \notin Ahead(api'[p].todo)
        PROVE  /\ api'[p].todo # <<>> /\ Head(api'[p].todo) = "store" /\ api'[p].id \in Users
               /\ api'[p].arg \in Token \ dead'[api'[p].id]
    <3>1. InFlight(q) /\ Head(api[q].todo) # "sign" BY <1>9 DEF At, InFlight
    <3>2. p # q /\ api'[p] = api[p]
      BY <1>9, <2>3, <3>1, PlainStepGoes, StoringGoes DEF Storing, Base
    <3>3. /\ At(p, "store") /\ api[p].id \in Users /\ api[p].arg \in Token \ dead[api[p].id]
      BY <2>3, <3>2 DEF TokenInv, InFlight
    <3>4. CASE api[p].id = u
      <4>1. StoredByOther(q, u) BY <3>2, <3>3, <3>4 DEF StoredByOther
      <4>2. dead'[u] = dead[u] BY <2>1, <4>1 DEF DeadAfter, TokenInv, TokensOK
      <4>. QED BY <3>2, <3>3, <3>4, <4>2 DEF At
    <3>5. CASE api[p].id # u
      <4>1. dead'[api[p].id] = dead[api[p].id] BY <2>1, <3>3, <3>5 DEF TokenInv, TokensOK
      <4>. QED BY <3>2, <3>3, <4>1 DEF At
    <3>. QED BY <3>4, <3>5
  <2>. QED BY <2>2, <2>3 DEF TokenInv, InFlight, At
<1>10. ASSUME NEW q \in Requests, Store(q) PROVE TokenInv'
  <2>1. At(q, "store") /\ InFlight(q) BY <1>10 DEF Store, At, InFlight
  <2>2. "store" \in Ahead(api[q].todo) /\ "sign" \notin Ahead(api[q].todo)
    <3>1. /\ Ahead(api[q].todo) = {"store"} \cup Ahead(Tail(api[q].todo))
          /\ \A s \in Ahead(Tail(api[q].todo)) : Rank("store") < Rank(s)
      BY <2>1, FirstStep DEF Base, At
    <3>. QED BY <3>1 DEF Rank
  <2>3. api[q].id \in Users /\ api[q].arg \in Token \ dead[api[q].id]
    BY <2>1, <2>2 DEF TokenInv
  <2>4. PlainStep(q) BY <1>10 DEF PlainStep
  <2>. QED BY <1>9, <1>10, <2>1, <2>3, <2>4 DEF Store
<1>11. ASSUME NEW q \in Requests, Forget(q) PROVE TokenInv'
  <2>1. At(q, "forget") /\ InFlight(q) BY <1>11 DEF Forget, At, InFlight
  <2>2. CallOK(api[q]) /\ "forget" \in Ahead(api[q].todo) BY <2>1, FirstStep DEF Base, At
  <2>3. api[q].id \in Users BY <2>2 DEF CallOK, TodoOK
  <2>4. Nil \notin dead[api[q].id] BY <2>3, IdsAssumption DEF TokenInv, TokensOK, Token
  <2>5. PlainStep(q) BY <1>11 DEF PlainStep
  <2>. QED BY <1>9, <1>11, <2>1, <2>3, <2>4, <2>5 DEF Forget
<1>12. CASE Crash
  <2>1. \A p \in Requests : api'[p].todo = <<>> BY <1>12 DEF Crash, InFlight, Ended
  <2>2. \A u \in Users : Nil \notin dead[u] BY IdsAssumption DEF TokenInv, TokensOK, Token
  <2>3. TokensOK' /\ SupersededStaysDead'
    BY <1>12, <2>2 DEF Crash, TokenInv, TokensOK, SupersededStaysDead, Token
  <2>. QED BY <2>1, <2>3 DEF TokenInv, InFlight
<1>13. CASE UNCHANGED vars
  BY <1>1, <1>13, TokensStay DEF vars, tokens, Base
<1>. QED BY <1>4, <1>6, <1>7, <1>8, <1>10, <1>11, <1>12, <1>13 DEF Next, TokenSteps

-----------------------------------------------------------------------------
(* Sessions on OpenWA.                                                     *)

\* A removal that is past OpenWA, and about to remove its row.
Removes(r) ==
  r.op = "removeSession" /\ "delete" \in Ahead(r.todo) /\ "terminate" \notin Ahead(r.todo)

\* No step leaves a session running without its row, unless it is excused.
LEMMA RemovalKept ==
  ASSUME Base, RemovalInv, [Next]_vars
  PROVE  RemovalInv'
<1>1. api' = [x \in Requests |-> api'[x]] BY BaseKept DEF Base
<1>2. running \subseteq Sessions /\ \A s \in Sessions : s \in Ids BY IdsApart DEF Base, RemoteOK
\* Other steps of a call do not touch OpenWA or take a session's row.
<1>3. ASSUME NEW q \in Requests, NEW n, api' = [api EXCEPT ![q] = n], UNCHANGED remote,
             n = Ended \/ (Removes(n) => InFlight(q) /\ Removes(api[q]) /\ n.id = api[q].id),
             \A s \in Sessions : Here(s) => db'[s] # Nil
      PROVE  RemovalInv'
  <2>1. \A p \in Requests : api'[p] = IF p = q THEN n ELSE api[p] BY <1>3 DEF Base
  <2>2. Rowed' BY <1>2, <1>3 DEF RemovalInv, Rowed, Here, remote
  <2>3. ASSUME NEW p \in Requests, api'[p].todo # <<>>, Removes(api'[p]), api'[p].id \in running'
        PROVE  api'[p].id \in excused'
    <3>1. InFlight(p) /\ Removes(api[p]) /\ api'[p].id = api[p].id
      BY <1>3, <2>1, <2>3 DEF Ended, InFlight
    <3>. QED BY <1>3, <2>3, <3>1 DEF RemovalInv, Removes, remote
  <2>. QED BY <2>2, <2>3 DEF RemovalInv, InFlight, Removes
<1>4. ASSUME NEW q \in Requests, InFlight(q), NEW e, NEW a, Goes(q, e, a), UNCHANGED remote,
             Head(api[q].todo) # "terminate" \/ api' = [api EXCEPT ![q] = Ended],
             \A s \in Sessions : Here(s) => db'[s] # Nil
      PROVE  RemovalInv'
  <2>1. CASE api' = [api EXCEPT ![q] = Ended] BY <1>3, <1>4, <2>1
  <2>2. CASE Head(api[q].todo) # "terminate"
    <3>1. PICK n : /\ api' = [api EXCEPT ![q] = n]
                   /\ \/ n = Ended
                      \/ /\ n.op = api[q].op /\ n.id = api[q].id
                         /\ Ahead(n.todo) = Ahead(api[q].todo) \ {Head(api[q].todo)}
      BY <1>4 DEF Goes
    <3>2. n = Ended \/ (Removes(n) => InFlight(q) /\ Removes(api[q]) /\ n.id = api[q].id)
      BY <1>4, <2>2, <3>1 DEF Removes
    <3>. QED BY <1>3, <1>4, <3>1, <3>2
  <2>. QED BY <1>4, <2>1, <2>2
<1>5. ASSUME NEW q \in Requests, PlainStep(q), UNCHANGED remote,
             \A s \in Sessions : Here(s) => db'[s] # Nil,
             ~Terminate(q), ~TerminateFails(q)
      PROVE  RemovalInv'
  <2>1. Head(api[q].todo) # "terminate" \/ api' = [api EXCEPT ![q] = Ended]
    BY <1>5 DEF PlainStep, Check, Granted, SaveLoad, Delete, Publish, Fails, Store, Forget, Launch, At
  <2>. QED BY <1>4, <1>5, <2>1, PlainStepGoes DEF Base
<1>6. UNCHANGED db => \A s \in Sessions : Here(s) => db'[s] # Nil BY DEF Here
<1>7. ASSUME NEW q \in Requests, NewCall(q) PROVE RemovalInv'
  <2>1. PICK n : api' = [api EXCEPT ![q] = n] /\ Opens(n)
    BY <1>7, NewCallBegins DEF Begun, Base
  <2>2. ~Removes(n) BY <2>1 DEF Opens, Removes
  <2>. QED BY <1>3, <1>6, <1>7, <2>1, <2>2 DEF NewCall, tables
<1>8. ASSUME NEW q \in Requests, SaveWrite(q) \/ Insert(q), UNCHANGED remote PROVE RemovalInv'
  <2>1. \A s \in Sessions : Here(s) => db'[s] # Nil
    BY <1>2, <1>8, WrittenOK DEF Here, Base
  <2>2. InFlight(q) /\ Head(api[q].todo) # "terminate" BY <1>8, SaveStep DEF Base
  <2>3. CASE Founds(q) /\ api[q].op = "createWorkspace"
    <3>1. PICK n : api' = [api EXCEPT ![q] = n] /\ (n = Ended \/ n.op = "createWorkspace")
      BY <2>3 DEF Founds
    <3>2. n = Ended \/ ~Removes(n) BY <3>1 DEF Removes
    <3>. QED BY <1>3, <1>8, <2>1, <3>1, <3>2
  <2>4. CASE Goes(q, Nil, api[q].arg) BY <1>4, <1>8, <2>1, <2>2, <2>4
  <2>. QED BY <1>8, <2>3, <2>4, WriteGoes, InsertGoes DEF Base
\* The removal of a row.
<1>9. ASSUME NEW q \in Requests, Delete(q), UNCHANGED remote PROVE RemovalInv'
  <2>. DEFINE r == api[q]
  <2>1. /\ InFlight(q) /\ Head(r.todo) = "delete" /\ CallOK(r) /\ "delete" \in Ahead(r.todo)
        /\ Deleted(r.id) \subseteq {r.id} \cup Members
        /\ db' = [i \in Ids |-> IF i \in Deleted(r.id) THEN Nil ELSE db[i]]
    BY <1>9, DeletedOK DEF Base
  <2>2. "terminate" \notin Ahead(r.todo)
    <3>1. /\ Ahead(r.todo) = {"delete"} \cup Ahead(Tail(r.todo))
          /\ \A s \in Ahead(Tail(r.todo)) : Rank("delete") < Rank(s)
      BY <2>1, FirstStep DEF Base
    <3>. QED BY <3>1 DEF Rank
  <2>3. ASSUME NEW s \in running PROVE db'[s] # Nil \/ s \in excused
    <3>1. s \in Sessions /\ s \in Ids /\ s \notin Members BY <1>2, IdsApart
    <3>2. CASE s = r.id
      <4>1. r.op = "removeSession" BY <2>1, <3>1, <3>2 DEF CallOK, TodoOK
      <4>. QED BY <2>1, <2>2, <3>2, <4>1 DEF RemovalInv
    <3>3. CASE s # r.id
      <4>1. s \notin Deleted(r.id) BY <2>1, <3>1, <3>3
      <4>. QED BY <2>1, <3>1, <4>1 DEF RemovalInv, Rowed, Here
    <3>. QED BY <3>2, <3>3
  <2>4. PICK n : /\ api' = [api EXCEPT ![q] = n]
                 /\ \/ n = Ended
                    \/ Ahead(n.todo) = Ahead(r.todo) \ {"delete"}
    <3>1. PlainStep(q) BY <1>9 DEF PlainStep
    <3>. QED BY <2>1, <3>1, PlainStepGoes DEF Goes, Base
  <2>5. n = Ended \/ ~Removes(n) BY <2>4 DEF Removes
  <2>6. \A p \in Requests : api'[p] = IF p = q THEN n ELSE api[p] BY <2>4 DEF Base
  <2>. HIDE DEF r
  <2>7. Rowed' BY <1>9, <2>3 DEF Rowed, Here, remote
  <2>8. ASSUME NEW p \in Requests, api'[p].todo # <<>>, Removes(api'[p]), api'[p].id \in running
        PROVE  api'[p].id \in excused
    BY <2>5, <2>6, <2>8 DEF RemovalInv, Removes, InFlight, Ended
  <2>. QED BY <1>9, <2>7, <2>8 DEF RemovalInv, InFlight, Removes, remote
<1>10. ASSUME NEW q \in Requests, DbStep(q) PROVE RemovalInv'
  <2>1. UNCHANGED remote BY <1>10 DEF DbStep
  <2>2. CASE Find(q) BY <1>4, <1>6, <2>1, <2>2, FindStep DEF Base, tables
  <2>3. CASE Lookup(q)
    <3>1. PICK n : api' = [api EXCEPT ![q] = n] /\ n.op = "import"
      BY <2>3, LookupGoes DEF Base, Turns
    <3>2. ~Removes(n) BY <3>1 DEF Removes
    <3>. QED BY <1>3, <1>6, <2>1, <2>3, <3>1, <3>2 DEF Lookup, tables
  <2>4. CASE Resolve(q)
    <3>1. \A c \in Contacts : Here(c) => db[c] \in Contact BY RowsOf, IdsApart DEF Base, DbOK
    <3>2. \E a : Goes(q, api[q].ent, a) BY <2>4, <3>1, ResolveGoes DEF Base, DbOK
    <3>. QED BY <1>4, <1>6, <2>1, <2>4, <3>2 DEF Resolve, At, InFlight, tables
  <2>5. CASE Check(q) \/ SaveLoad(q) \/ Publish(q) \/ Fails(q)
    <3>1. UNCHANGED db /\ PlainStep(q)
      BY <2>5 DEF Check, SaveLoad, Publish, Fails, tables, PlainStep
    <3>2. (~Terminate(q) /\ ~TerminateFails(q)) \/ api' = [api EXCEPT ![q] = Ended]
      BY <2>5 DEF Check, Granted, SaveLoad, Publish, Fails, Terminate, TerminateFails, At
    <3>3. CASE api' = [api EXCEPT ![q] = Ended] BY <1>3, <1>6, <2>1, <3>1, <3>3
    <3>. QED BY <1>5, <1>6, <2>1, <3>1, <3>2, <3>3
  <2>. QED BY <1>8, <1>9, <1>10, <2>1, <2>2, <2>3, <2>4, <2>5 DEF DbStep, ContactSteps
<1>11. ASSUME NEW q \in Requests, TokenSteps(q), UNCHANGED <<tables, remote>> PROVE RemovalInv'
  <2>1. CASE Sign(q)
    <3>1. Head(api[q].todo) = "sign" /\ InFlight(q) /\ \E t : Goes(q, api[q].ent, t)
      BY <2>1, SignStep DEF Base
    <3>. QED BY <1>4, <1>6, <1>11, <3>1 DEF tables
  <2>2. CASE Store(q) \/ Forget(q)
    <3>1. PlainStep(q) /\ ~Terminate(q) /\ ~TerminateFails(q)
      BY <2>2 DEF PlainStep, Store, Forget, Terminate, TerminateFails, At
    <3>. QED BY <1>5, <1>6, <1>11, <3>1 DEF tables
  <2>. QED BY <1>11, <2>1, <2>2 DEF TokenSteps
\* Terminate, and its failure.
<1>12. ASSUME NEW q \in Requests, Terminate(q) \/ TerminateFails(q) PROVE RemovalInv'
  <2>. DEFINE r == api[q]
  <2>1. InFlight(q) /\ UNCHANGED db
    BY <1>12 DEF Terminate, TerminateFails, At, InFlight, tables
  <2>2. /\ running' \subseteq running /\ excused \subseteq excused'
        /\ \/ api' = [api EXCEPT ![q] = Ended]
           \/ r.id \notin running' \/ r.id \in excused'
           \/ r.op # "removeSession"
    BY <1>12 DEF Terminate, TerminateFails
  <2>3. PICK n : /\ api' = [api EXCEPT ![q] = n]
                 /\ n = Ended \/ (n.id = r.id /\ n.op = r.op)
    <3>1. PlainStep(q) BY <1>12 DEF PlainStep
    <3>. QED BY <3>1, PlainStepGoes DEF Goes, Base
  <2>4. \A p \in Requests : api'[p] = IF p = q THEN n ELSE api[p] BY <2>3 DEF Base
  <2>. HIDE DEF r
  <2>5. Rowed' BY <2>1, <2>2 DEF RemovalInv, Rowed, Here
  <2>6. ASSUME NEW p \in Requests, api'[p].todo # <<>>, Removes(api'[p]), api'[p].id \in running'
        PROVE  api'[p].id \in excused'
    <3>1. CASE p = q
      <4>1. n # Ended BY <2>4, <2>6, <3>1 DEF Ended
      <4>2. ~(api' = [api EXCEPT ![q] = Ended]) BY <2>4, <3>1, <4>1 DEF Base
      <4>. QED BY <2>2, <2>3, <2>4, <2>6, <3>1, <4>1, <4>2 DEF Removes
    <3>2. CASE p # q BY <2>2, <2>4, <2>6, <3>2 DEF RemovalInv, Removes, InFlight
    <3>. QED BY <3>1, <3>2
  <2>. QED BY <2>5, <2>6 DEF RemovalInv, InFlight, Removes
<1>13. ASSUME NEW q \in Requests, Launch(q) PROVE RemovalInv'
  <2>. DEFINE r == api[q]  s == r.id
  <2>1. InFlight(q) /\ UNCHANGED db /\ Head(r.todo) = "launch"
    BY <1>13 DEF Launch, At, InFlight, tables
  <2>2. PICK n : /\ api' = [api EXCEPT ![q] = n]
                 /\ \/ n = Ended
                    \/ /\ n.op = r.op /\ n.id = r.id
                       /\ Ahead(n.todo) = Ahead(r.todo) \ {"launch"}
    <3>1. PlainStep(q) BY <1>13 DEF PlainStep
    <3>. QED BY <2>1, <3>1, PlainStepGoes DEF Goes, Base
  <2>3. n = Ended \/ (Removes(n) => InFlight(q) /\ Removes(r) /\ n.id = r.id)
    BY <2>1, <2>2 DEF Removes
  <2>4. \A p \in Requests : api'[p] = IF p = q THEN n ELSE api[p] BY <2>2 DEF Base
  <2>5. CASE UNCHANGED remote BY <1>3, <1>6, <2>1, <2>2, <2>3, <2>5
  <2>6. CASE /\ running' = running \cup {s}
             /\ excused' = IF Removing(s) \/ ~Here(s) THEN excused \cup {s} ELSE excused
    <3>1. Rowed' BY <2>1, <2>6 DEF RemovalInv, Rowed, Here
    <3>2. ASSUME NEW p \in Requests, api'[p].todo # <<>>, Removes(api'[p]), api'[p].id \in running'
          PROVE  api'[p].id \in excused'
      <4>1. InFlight(p) /\ Removes(api[p]) /\ api'[p].id = api[p].id
        BY <2>3, <2>4, <3>2 DEF Ended, InFlight
      <4>2. CASE api[p].id = s
        <5>1. Removing(s) BY <4>1, <4>2 DEF Removing, Removes
        <5>. QED BY <2>6, <4>1, <4>2, <5>1
      <4>3. CASE api[p].id # s
        BY <2>6, <3>2, <4>1, <4>3 DEF RemovalInv, Removes
      <4>. QED BY <4>2, <4>3
    <3>. QED BY <3>1, <3>2 DEF RemovalInv, InFlight, Removes
  <2>. QED BY <1>13, <2>5, <2>6 DEF Launch
<1>14. ASSUME NEW q \in Requests, Ask(q) PROVE RemovalInv'
  <2>1. \E e : Goes(q, e, api[q].arg) BY <1>14, AskGoes DEF Base
  <2>. QED BY <1>4, <1>6, <1>14, <2>1 DEF Ask, At, InFlight, tables
<1>15. CASE Crash
  <2>1. \A p \in Requests : api'[p].todo = <<>> BY <1>15 DEF Crash, InFlight, Ended
  <2>. QED BY <1>15, <2>1 DEF Crash, RemovalInv, Rowed, Here, InFlight, tables, remote
<1>16. CASE UNCHANGED vars
  BY <1>16 DEF vars, tables, remote, RemovalInv, Rowed, Here, InFlight
<1>. QED BY <1>7, <1>10, <1>11, <1>12, <1>13, <1>14, <1>15, <1>16 DEF Next, RemoteSteps

-----------------------------------------------------------------------------
(* What a step makes of a call.                                            *)

\* A delete is the last await of its call.
LEMMA DeleteEnds ==
  ASSUME Base, NEW q \in Requests, Delete(q)
  PROVE  api' = [api EXCEPT ![q] = Ended]
<1>. DEFINE r == api[q]
<1>1. InFlight(q) /\ Head(r.todo) = "delete" /\ CallOK(r) BY DeletedOK DEF Base
<1>2. Ahead(r.todo) = {"delete"}
  <2>1. /\ Ahead(r.todo) = {"delete"} \cup Ahead(Tail(r.todo))
        /\ \A s \in Ahead(Tail(r.todo)) : Rank("delete") < Rank(s)
    BY <1>1, FirstStep DEF Base
  <2>. QED BY <2>1 DEF Rank
<1>3. PlainStep(q) BY DEF PlainStep
<1>4. PICK n : /\ api' = [api EXCEPT ![q] = n]
               /\ \/ n = Ended
                  \/ CallOK(n) /\ Ahead(n.todo) = Ahead(r.todo) \ {"delete"}
  BY <1>1, <1>3, PlainStepGoes DEF Goes, Base
<1>5. ASSUME CallOK(n), Ahead(n.todo) = {} PROVE FALSE
  <2>1. n.todo # <<>> /\ TodoOK(n) BY <1>5 DEF CallOK
  <2>2. n.todo \in Seq(Steps) /\ Ascends(n.todo) BY <2>1 DEF TodoOK
  <2>3. Ahead(n.todo) = {Head(n.todo)} \cup Ahead(Tail(n.todo)) BY <2>1, <2>2, TailOf
  <2>. QED BY <1>5, <2>3
<1>. HIDE DEF r
<1>6. Ahead(r.todo) \ {"delete"} = {} BY <1>2
<1>7. n = Ended BY <1>4, <1>5, <1>6
<1>. QED BY <1>4, <1>7

\* The drawing of a broadcast, once its contacts are looked up.
Drawn(r) ==
  [r.arg EXCEPT !.drawn = {db[c].phone : c \in Resolved(r.ws, r.arg.chosen)},
                !.barred = {db[c].phone : c \in {c \in firm : db[c].ws = r.ws}}]

\* Call p goes on as n, past its first await.
Advances(p, n) ==
  LET r == api[p] IN
    /\ InFlight(p) /\ n.op = r.op /\ n.by = r.by /\ n.ws = r.ws /\ n.id = r.id /\ n.set = r.set
    /\ Ahead(n.todo) = Ahead(r.todo) \ {Head(r.todo)}
    /\ \/ PlainStep(p) /\ ~Fails(p) /\ ~Delete(p) /\ n.ent = r.ent /\ n.arg = r.arg
       \/ Find(p) /\ Here(r.id) /\ n.ent = Assigned(db[r.id], r.set) /\ n.arg = r.arg
       \/ (SaveWrite(p) \/ Insert(p)) /\ n.ent = Nil /\ n.arg = r.arg
       \/ Ask(p) /\ r.id \in Sessions /\ r.ent # Nil /\ n.ent.ws = r.ent.ws /\ n.arg = r.arg
       \/ Sign(p) /\ r.id \in Users /\ n.ent = r.ent
       \/ Resolve(p) /\ n.ent = r.ent /\ n.arg = Drawn(r)

\* Call p is new, as n.
Opened(p, n) == NewCall(p) /\ Opens(n) /\ UNCHANGED <<tables, tokens, remote>>

\* Call p turned to the next row of its import.
Turned(p, n) ==
  /\ Lookup(p) /\ n.op = "import" /\ n.set = <<>> /\ n.id \in Contacts
  /\ Ahead(n.todo) \subseteq {"insert", "load", "write", "lookup"}
  /\ (Here(n.id) /\ n.ent = db[n.id]) \/ Fresh(n.id)

\* Call p saved its workspace.
Founded(p, n) ==
  LET r == api[p] IN
    /\ Insert(p) /\ n.op = "createWorkspace" /\ n.op = r.op /\ n.set = r.set /\ n.by = r.by
    /\ n.id = <<r.id, r.by>> /\ r.id \in Workspaces /\ r.by \in Users
    /\ n.ent = [role |-> "owner"] /\ n.ent # Nil
    /\ Ahead(n.todo) = Ahead(r.todo) \ {"insert"}

\* Whatever happens, a call in flight is as it was, or made one step.
LEMMA CallChanges ==
  ASSUME Base, [Next]_vars, NEW p \in Requests, NEW n, n = api'[p], n.todo # <<>>
  PROVE  CallOK(n) /\ (n = api[p] \/ Advances(p, n) \/ Opened(p, n) \/ Turned(p, n) \/ Founded(p, n))
<1>. DEFINE Is == n = api[p] \/ Advances(p, n) \/ Opened(p, n) \/ Turned(p, n) \/ Founded(p, n)
            r == api[p]
<1>1. CallOK(n) BY CallsKept DEF CallsInv, Unmade, Ended
<1>2. ASSUME NEW q \in Requests, NEW x, api' = [api EXCEPT ![q] = x], p = q => Is PROVE Is
  <2>1. p # q => api'[p] = api[p] BY <1>2 DEF Base
  <2>. QED BY <1>2, <2>1
<1>3. ASSUME NEW x, api' = [api EXCEPT ![p] = x] PROVE n = x /\ x # Ended
  BY <1>3 DEF Base, Ended
<1>4. ASSUME NEW q \in Requests, NewCall(q) PROVE Is
  <2>1. PICK x : api' = [api EXCEPT ![q] = x] /\ Opens(x)
    BY <1>4, NewCallBegins DEF Begun, Base
  <2>2. ASSUME p = q PROVE Opened(p, n)
    <3>1. n = x BY <1>3, <2>1, <2>2
    <3>. QED BY <1>4, <2>1, <2>2, <3>1 DEF Opened, NewCall
  <2>. HIDE DEF Is
  <2>. QED BY <1>2, <2>1, <2>2 DEF Is
<1>5. ASSUME NEW q \in Requests, NEW e, NEW a, Goes(q, e, a), InFlight(q),
             p = q =>
               \/ PlainStep(p) /\ ~Fails(p) /\ ~Delete(p) /\ e = r.ent /\ a = r.arg
               \/ Find(p) /\ Here(r.id) /\ e = Assigned(db[r.id], r.set) /\ a = r.arg
               \/ (SaveWrite(p) \/ Insert(p)) /\ e = Nil /\ a = r.arg
               \/ Ask(p) /\ r.id \in Sessions /\ r.ent # Nil /\ e.ws = r.ent.ws /\ a = r.arg
               \/ Sign(p) /\ r.id \in Users /\ e = r.ent
               \/ Resolve(p) /\ e = r.ent /\ a = Drawn(r)
      PROVE  Is
  <2>1. PICK x :
          /\ api' = [api EXCEPT ![q] = x]
          /\ \/ x = Ended
             \/ LET y == api[q] IN
                  /\ x.op = y.op /\ x.by = y.by /\ x.ws = y.ws /\ x.id = y.id /\ x.set = y.set
                  /\ x.ent = e /\ x.arg = a /\ Ahead(x.todo) = Ahead(y.todo) \ {Head(y.todo)}
    BY <1>5 DEF Goes
  <2>2. ASSUME p = q PROVE Advances(p, n)
    <3>1. n = x /\ x # Ended BY <1>3, <2>1, <2>2
    <3>. QED BY <1>5, <2>1, <2>2, <3>1 DEF Advances
  <2>. HIDE DEF Is
  <2>. QED BY <1>2, <2>1, <2>2 DEF Is
<1>6. ASSUME NEW q \in Requests, api' = [api EXCEPT ![q] = Ended] PROVE Is
  <2>1. p # q BY <1>3, <1>6
  <2>. QED BY <1>2, <1>6, <2>1
<1>7. ASSUME NEW q \in Requests, PlainStep(q) PROVE Is
  <2>1. CASE Fails(q) BY <1>6, <2>1 DEF Fails
  <2>2. CASE Delete(q) BY <1>6, <2>2, DeleteEnds
  <2>3. CASE ~Fails(q) /\ ~Delete(q)
    BY <1>5, <1>7, <2>3, PlainStepGoes DEF Base
  <2>. QED BY <2>1, <2>2, <2>3
<1>. HIDE DEF Is
<1>. SUFFICES Is BY <1>1 DEF Is
<1>8. ASSUME NEW q \in Requests, DbStep(q) PROVE Is
  <2>1. CASE Find(q) BY <1>5, <2>1, FindStep DEF Base
  <2>2. CASE SaveWrite(q)
    <3>1. Goes(q, Nil, api[q].arg) BY <2>2, WriteGoes DEF Base
    <3>. QED BY <1>5, <2>2, <3>1 DEF SaveWrite, At, InFlight
  <2>3. CASE Insert(q)
    <3>1. CASE Goes(q, Nil, api[q].arg) BY <1>5, <2>3, <3>1 DEF Insert, At, InFlight
    <3>2. CASE Founds(q) /\ api[q].op = "createWorkspace"
      <4>1. PICK x :
              /\ api' = [api EXCEPT ![q] = x]
              /\ \/ x = Ended
                 \/ LET y == api[q] IN
                      /\ x.op = y.op /\ x.by = y.by /\ x.set = y.set
                      /\ x.id = <<y.id, y.by>> /\ y.id \in Workspaces /\ y.by \in Users
                      /\ x.ent = [role |-> "owner"] /\ x.ent # Nil
                      /\ Ahead(x.todo) = Ahead(y.todo) \ {"insert"}
        BY <3>2 DEF Founds
      <4>2. ASSUME p = q PROVE Founded(p, n)
        <5>1. n = x /\ x # Ended BY <1>3, <4>1, <4>2
        <5>. QED BY <2>3, <3>2, <4>1, <4>2, <5>1 DEF Founded
      <4>. QED BY <1>2, <4>1, <4>2 DEF Is
    <3>. QED BY <2>3, <3>1, <3>2, InsertGoes DEF Base
  <2>4. CASE Lookup(q)
    <3>1. PICK x :
            /\ api' = [api EXCEPT ![q] = x] /\ x.op = "import" /\ x.set = <<>> /\ x.id \in Contacts
            /\ Ahead(x.todo) \subseteq {"insert", "load", "write", "lookup"}
            /\ (Here(x.id) /\ x.ent = db[x.id]) \/ Fresh(x.id)
      BY <2>4, LookupGoes DEF Base, Turns
    <3>2. ASSUME p = q PROVE Turned(p, n)
      <4>1. n = x BY <1>3, <3>1, <3>2
      <4>. QED BY <2>4, <3>1, <3>2, <4>1 DEF Turned
    <3>. QED BY <1>2, <3>1, <3>2 DEF Is
  <2>5. CASE Resolve(q)
    <3>1. \A c \in Contacts : Here(c) => db[c] \in Contact BY RowsOf, IdsApart DEF Base, DbOK
    <3>2. Goes(q, api[q].ent, Drawn(api[q])) BY <2>5, <3>1, ResolveGoes DEF Base, DbOK, Drawn
    <3>. QED BY <1>5, <2>5, <3>2 DEF Resolve, At, InFlight
  <2>. QED BY <1>7, <1>8, <2>1, <2>2, <2>3, <2>4, <2>5 DEF DbStep, ContactSteps, PlainStep
<1>9. ASSUME NEW q \in Requests, TokenSteps(q) PROVE Is
  <2>1. CASE Sign(q)
    <3>1. InFlight(q) /\ api[q].id \in Users /\ \E t : Goes(q, api[q].ent, t)
      BY <2>1, SignStep DEF Base
    <3>. QED BY <1>5, <2>1, <3>1
  <2>. QED BY <1>7, <1>9, <2>1 DEF TokenSteps, PlainStep
<1>10. ASSUME NEW q \in Requests, RemoteSteps(q) PROVE Is
  <2>1. CASE Ask(q)
    <3>1. \E e : /\ Goes(q, e, api[q].arg) /\ e.ws = api[q].ent.ws
                 /\ api[q].ent # Nil /\ api[q].id \in Sessions
      BY <2>1, AskGoes DEF Base
    <3>. QED BY <1>5, <2>1, <3>1 DEF Ask, At, InFlight
  <2>. QED BY <1>7, <1>10, <2>1 DEF RemoteSteps, PlainStep
<1>11. CASE Crash
  <2>1. n = api[p] BY <1>11 DEF Crash, Ended
  <2>. QED BY <2>1 DEF Is
<1>12. CASE UNCHANGED vars
  <2>1. n = api[p] BY <1>12 DEF vars
  <2>. QED BY <2>1 DEF Is
<1>. QED BY <1>4, <1>8, <1>9, <1>10, <1>11, <1>12 DEF Next

\* Only three awaits change a row.
LEMMA TableSteps ==
  ASSUME [Next]_vars
  PROVE  UNCHANGED tables \/ \E q \in Requests : SaveWrite(q) \/ Insert(q) \/ Delete(q)
<1>1. ASSUME NEW q \in Requests, DbStep(q), ~SaveWrite(q), ~Insert(q), ~Delete(q)
      PROVE  UNCHANGED tables
  BY <1>1 DEF DbStep, Check, Find, SaveLoad, ContactSteps, Lookup, Resolve, Publish, Fails
<1>2. ASSUME NEW q \in Requests, RemoteSteps(q) PROVE UNCHANGED tables
  BY <1>2 DEF RemoteSteps, Terminate, TerminateFails, Launch, Ask
<1>3. CASE Crash BY <1>3 DEF Crash
<1>4. CASE UNCHANGED vars BY <1>4 DEF vars
<1>. QED BY <1>1, <1>2, <1>3, <1>4 DEF Next, NewCall

\* A call holds no entity but one it held, one whose row is there, or one whose
\* row never was.
LEMMA HoldsFrom ==
  ASSUME Base, [Next]_vars, NEW p \in Requests, NEW n, n = api'[p], n.todo # <<>>, n.ent # Nil
  PROVE  Holds(p, n.id) \/ Here(n.id) \/ n.id \notin removed \/ n.id \in Members
<1>1. CASE n = api[p] BY <1>1 DEF Holds, InFlight
<1>2. CASE Advances(p, n)
  <2>1. InFlight(p) /\ n.id = api[p].id BY <1>2 DEF Advances
  <2>2. api[p].ent # Nil \/ Here(n.id) BY <1>2 DEF Advances
  <2>. QED BY <2>1, <2>2 DEF Holds
<1>3. CASE Opened(p, n) BY <1>3 DEF Opened, Opens
<1>4. CASE Turned(p, n) BY <1>4 DEF Turned, Fresh
<1>5. CASE Founded(p, n) BY <1>5 DEF Founded, Members
<1>. QED BY <1>1, <1>2, <1>3, <1>4, <1>5, CallChanges

-----------------------------------------------------------------------------
(* Rows that stay removed.                                                 *)

\* No step gives a call or a table a row that is gone for good.
LEMMA SealKept ==
  ASSUME Base, SealInv, [Next]_vars
  PROVE  SealInv'
<1>1. sealed \subseteq removed /\ sealed \subseteq Ids BY DEF Base, DbOK
\* Nobody comes to hold a sealed row.
<1>2. ASSUME NEW p \in Requests, NEW id \in sealed \ Members,
             api'[p].todo # <<>>, api'[p].id = id, api'[p].ent # Nil
      PROVE  FALSE
  <2>1. Holds(p, id) \/ Here(id) BY <1>1, <1>2, HoldsFrom
  <2>. QED BY <2>1 DEF SealInv
<1>3. CASE UNCHANGED tables
  BY <1>2, <1>3 DEF SealInv, Holds, Here, InFlight, tables
<1>4. ASSUME NEW q \in Requests, SaveWrite(q) \/ Insert(q) PROVE SealInv'
  <2>. DEFINE r == api[q]
  <2>1. InFlight(q) /\ r.ent # Nil BY <1>4, SaveStep DEF Base
  <2>2. sealed' = sealed /\ \A id \in Ids \ {r.id} : db'[id] = db[id] BY <1>4, WrittenOK DEF Base
  <2>3. r.id \notin sealed \ Members BY <2>1 DEF SealInv, Holds
  <2>. HIDE DEF r
  <2>4. \A id \in sealed \ Members : db'[id] = Nil BY <1>1, <2>2, <2>3 DEF SealInv, Here
  <2>. QED BY <1>2, <2>2, <2>4 DEF SealInv, Holds, Here, InFlight
<1>5. ASSUME NEW q \in Requests, Delete(q) PROVE SealInv'
  <2>. DEFINE x == api[q].id
  <2>1. /\ x \in Ids /\ x \in Deleted(x)
        /\ db' = [i \in Ids |-> IF i \in Deleted(x) THEN Nil ELSE db[i]]
        /\ sealed' \subseteq sealed \cup {x}
        /\ x \in sealed' => x \in sealed \/ ~HeldByOther(q, x)
    BY <1>5, DeletedOK DEF Base
  <2>2. api' = [api EXCEPT ![q] = Ended] BY <1>5, DeleteEnds
  <2>3. \A p \in Requests : api'[p] = IF p = q THEN Ended ELSE api[p] BY <2>2 DEF Base
  <2>4. \A id \in sealed' \ Members : db'[id] = Nil BY <1>1, <2>1 DEF SealInv, Here
  <2>5. ASSUME NEW p \in Requests, NEW id \in sealed' \ Members,
               api'[p].todo # <<>>, api'[p].id = id, api'[p].ent # Nil
        PROVE  FALSE
    <3>1. CASE id \in sealed BY <1>2, <2>5, <3>1
    <3>2. CASE id \notin sealed
      <4>1. id = x /\ ~HeldByOther(q, x) BY <2>1, <2>5, <3>2
      <4>2. p # q /\ api'[p] = api[p] BY <2>3, <2>5 DEF Ended
      <4>. QED BY <2>5, <4>1, <4>2 DEF HeldByOther, InFlight
    <3>. QED BY <3>1, <3>2
  <2>. QED BY <2>4, <2>5 DEF SealInv, Holds, Here, InFlight
<1>. QED BY <1>3, <1>4, <1>5, TableSteps

-----------------------------------------------------------------------------
(* The blacklist.                                                          *)

\* A call that holds a contact, past or about to load it.
Spares(r) == r.ent.blocked \/ ("blocked" \in DOMAIN r.set /\ ~r.set.blocked)

\* Nobody comes to hold a firmly blacklisted contact otherwise.
LEMMA SparesKept ==
  ASSUME Base, FirmInv, [Next]_vars, NEW p \in Requests, NEW n, n = api'[p], n.todo # <<>>,
         n.ent # Nil, n.id \in firm
  PROVE  Spares(n)
<1>1. n.id \in Contacts /\ Here(n.id) /\ db[n.id].blocked BY DEF FirmInv, Base, DbOK
<1>2. n.id \notin Sessions \cup Members \cup Keys \cup Users BY <1>1, IdsApart
<1>3. CASE n = api[p] BY <1>3 DEF FirmInv, Holds, InFlight, Spares
<1>4. CASE Advances(p, n)
  <2>. DEFINE r == api[p]
  <2>1. InFlight(p) /\ n.id = r.id /\ n.set = r.set BY <1>4 DEF Advances
  <2>2. CASE n.ent = r.ent
    <3>1. Holds(p, n.id) BY <2>1, <2>2 DEF Holds
    <3>. QED BY <2>1, <2>2, <3>1 DEF FirmInv, Spares
  <2>3. CASE n.ent = Assigned(db[r.id], r.set)
    <3>1. db[n.id] \in [ws : Workspaces, phone : Phones, blocked : BOOLEAN]
      BY <1>1, RowsOf, IdsApart DEF Base, DbOK, Contact
    <3>2. "blocked" \in DOMAIN db[n.id] BY <3>1
    <3>3. n.ent.blocked = IF "blocked" \in DOMAIN n.set THEN n.set.blocked ELSE db[n.id].blocked
      BY <2>1, <2>3, <3>2 DEF Assigned
    <3>. QED BY <1>1, <3>3 DEF Spares
  <2>. QED BY <1>2, <1>4, <2>1, <2>2, <2>3 DEF Advances
<1>5. CASE Opened(p, n) BY <1>1, <1>2, <1>5 DEF Opened, Opens
<1>6. CASE Turned(p, n) BY <1>1, <1>6 DEF Turned, Fresh, Spares
<1>7. CASE Founded(p, n) BY <1>2, <1>7 DEF Founded, Members
<1>. QED BY <1>3, <1>4, <1>5, <1>6, <1>7, CallChanges

\* A broadcast about to be published, with its contacts looked up.
Publishing(r) == "publish" \in Ahead(r.todo) /\ "resolve" \notin Ahead(r.todo)

\* A broadcast about to be queued has no barred recipient.
LEMMA PublishingKept ==
  ASSUME Base, FirmInv, [Next]_vars, NEW p \in Requests, NEW n, n = api'[p], n.todo # <<>>,
         Publishing(n)
  PROVE  n.arg.drawn \cap n.arg.barred = {}
<1>1. CASE n = api[p] BY <1>1 DEF FirmInv, InFlight, Publishing
<1>2. CASE Advances(p, n)
  <2>. DEFINE r == api[p]
  <2>1. InFlight(p) /\ "publish" \in Ahead(r.todo) /\ Ahead(n.todo) = Ahead(r.todo) \ {Head(r.todo)}
    BY <1>2 DEF Advances, Publishing
  <2>2. r.id \in Sessions /\ r.arg \in Drawing
    <3>1. CallOK(r) BY <2>1, FlightOK DEF Base
    <3>. QED BY <2>1, <3>1 DEF CallOK, TodoOK
  <2>3. CASE Head(r.todo) # "resolve"
    <3>1. Publishing(r) BY <2>1, <2>3 DEF Publishing, Advances
    <3>2. n.arg = r.arg
      <4>1. ~Resolve(p) BY <2>3 DEF Resolve, At
      <4>. QED BY <1>2, <2>2, <4>1, IdsApart DEF Advances
    <3>. QED BY <2>1, <3>1, <3>2 DEF FirmInv, Publishing
  <2>4. CASE Head(r.todo) = "resolve"
    <3>1. ~PlainStep(p)
      <4>1. api' # [api EXCEPT ![p] = Ended] BY DEF Base, Ended
      <4>. QED BY <2>4, <4>1, PlainStepGoes DEF Base
    <3>2. n.arg = Drawn(r)
      BY <1>2, <2>4, <3>1 DEF Advances, Find, SaveWrite, Insert, Ask, Sign, At
    <3>3. n.arg.drawn = {db[c].phone : c \in Resolved(r.ws, r.arg.chosen)}
          /\ n.arg.barred = {db[c].phone : c \in {c \in firm : db[c].ws = r.ws}}
      BY <2>2, <3>2 DEF Drawn, Drawing
    <3>4. ASSUME NEW c \in Resolved(r.ws, r.arg.chosen), NEW e \in firm, db[e].ws = r.ws,
                 db[c].phone = db[e].phone
          PROVE  FALSE
      <4>1. c \in Contacts /\ Here(c) /\ db[c].ws = r.ws /\ ~db[c].blocked
        BY <2>2 DEF Resolved, Drawing
      <4>2. e \in Contacts /\ Here(e) /\ db[e].blocked BY DEF FirmInv, Base, DbOK
      <4>. QED BY <3>4, <4>1, <4>2 DEF Base, DbOK, Permitted, Here
    <3>. QED BY <3>3, <3>4
  <2>. QED BY <2>3, <2>4
<1>3. CASE Opened(p, n) BY <1>3 DEF Opened, Opens, Publishing
<1>4. CASE Turned(p, n) BY <1>4 DEF Turned, Publishing
<1>5. CASE Founded(p, n)
  <2>1. CallOK(n) BY CallChanges
  <2>. QED BY <1>5, <2>1 DEF Founded, CallOK, OpOK, Publishing
<1>. QED BY <1>1, <1>2, <1>3, <1>4, <1>5, CallChanges

\* A write of a contact keeps to the blacklist.
LEMMA FirmWrite ==
  ASSUME Base, FirmInv, NEW q \in Requests, SaveWrite(q) \/ Insert(q)
  PROVE  /\ \A c \in firm' : db'[c].blocked
         /\ \A c \in firm' : c \in firm \/ (c = api[q].id /\ ~HeldByOther(q, c))
<1>. DEFINE r == api[q]  c == r.id
<1>1. /\ InFlight(q) /\ CallOK(r) /\ c \in Ids /\ r.ent \in Rows(c) /\ r.ent # Nil
      /\ \A id \in Ids \ {c} : db'[id] = db[id]
      /\ Permitted(db')
      /\ firm' \subseteq firm \cup {c} /\ firm' \subseteq Contacts
      /\ firm' = FirmAfter(q, db')
  <2>1. firm' = FirmAfter(q, db')
    <3>1. CASE SaveWrite(q) BY <3>1 DEF SaveWrite
    <3>2. CASE Insert(q) BY <3>2 DEF Insert
    <3>. QED BY <3>1, <3>2
  <2>. QED BY <2>1, SaveStep, WrittenOK DEF Base
<1>2. \A x \in Contacts : x \in Ids BY IdsApart
<1>3. ASSUME NEW x \in firm', x # c PROVE x \in firm /\ db'[x].blocked
  BY <1>1, <1>2, <1>3 DEF FirmInv
<1>4. ASSUME c \in firm' PROVE db'[c].blocked /\ (c \in firm \/ ~HeldByOther(q, c))
  <2>1. c \in Contacts BY <1>1, <1>4
  <2>. DEFINE lifted == "blocked" \in DOMAIN r.set /\ ~r.set.blocked
              settled == db'[c] # Nil /\ db'[c].blocked /\ ~HeldByOther(q, c)
  <2>2. ~lifted BY <1>1, <1>4, <2>1 DEF FirmAfter
  <2>3. CASE settled BY <2>3
  <2>4. CASE ~settled
    <3>1. c \in firm BY <1>1, <1>4, <2>1, <2>2, <2>4 DEF FirmAfter
    <3>2. r.ent.blocked /\ db[c].blocked /\ Here(c)
      BY <1>1, <2>2, <3>1 DEF FirmInv, Holds, Base, DbOK
    <3>3. CASE Insert(q) BY <3>2, <3>3 DEF Insert
    <3>4. CASE SaveWrite(q)
      <4>1. ~r.plan.insert BY <3>2, <3>4 DEF SaveWrite
      <4>2. db'[c] = Saved(c, r.ent, r.plan) BY <1>1, <3>4 DEF SaveWrite, Base, DbOK
      <4>3. r.ent \in [ws : Workspaces, phone : Phones, blocked : BOOLEAN]
        BY <1>1, <2>1, RowsOf DEF Contact
      <4>4. "blocked" \in DOMAIN r.ent BY <4>3
      <4>. DEFINE f == [x \in DOMAIN r.ent |-> IF x \in r.plan.cols THEN r.ent[x] ELSE db[c][x]]
      <4>5. db'[c] = f BY <3>2, <4>1, <4>2 DEF Saved
      <4>6. f.blocked = IF "blocked" \in r.plan.cols THEN r.ent.blocked ELSE db[c].blocked
        BY <4>4
      <4>. HIDE DEF f, c, r
      <4>7. f.blocked BY <3>2, <4>6
      <4>. QED BY <3>1, <4>5, <4>7
    <3>. QED BY <3>1, <3>3, <3>4
  <2>. QED BY <2>3, <2>4
<1>. QED BY <1>3, <1>4

\* No step undoes a firm blacklisting.
LEMMA FirmKept ==
  ASSUME Base, FirmInv, [Next]_vars
  PROVE  FirmInv'
<1>1. ASSUME NEW p \in Requests, api'[p].todo # <<>>,
             "publish" \in Ahead(api'[p].todo), "resolve" \notin Ahead(api'[p].todo)
      PROVE  api'[p].arg.drawn \cap api'[p].arg.barred = {}
  BY <1>1, PublishingKept DEF Publishing
<1>2. ASSUME NEW p \in Requests, NEW c \in firm,
             api'[p].todo # <<>>, api'[p].id = c, api'[p].ent # Nil
      PROVE  Spares(api'[p])
  BY <1>2, SparesKept
<1>3. CASE firm' \subseteq firm /\ \A c \in firm' : db'[c].blocked
  BY <1>1, <1>2, <1>3 DEF FirmInv, Holds, InFlight, Spares
<1>4. CASE UNCHANGED tables BY <1>3, <1>4 DEF tables, FirmInv
<1>5. ASSUME NEW q \in Requests, Delete(q) PROVE FirmInv'
  <2>1. /\ db' = [i \in Ids |-> IF i \in Deleted(api[q].id) THEN Nil ELSE db[i]]
        /\ firm' = firm \ Deleted(api[q].id) /\ firm \subseteq Contacts
        /\ \A c \in Contacts : c \in Ids
    BY <1>5, DeletedOK, IdsApart DEF Base, DbOK
  <2>2. \A c \in firm' : db'[c].blocked BY <2>1 DEF FirmInv
  <2>. QED BY <1>3, <2>1, <2>2
<1>6. ASSUME NEW q \in Requests, SaveWrite(q) \/ Insert(q) PROVE FirmInv'
  <2>1. /\ \A c \in firm' : db'[c].blocked
        /\ \A c \in firm' : c \in firm \/ (c = api[q].id /\ ~HeldByOther(q, c))
        /\ firm' \subseteq Contacts
    BY <1>6, FirmWrite, WrittenOK DEF Base
  <2>2. \/ Goes(q, Nil, api[q].arg)
        \/ Founds(q)
    BY <1>6, WriteGoes, InsertGoes DEF Base
  <2>3. PICK n : /\ api' = [api EXCEPT ![q] = n]
                 /\ n = Ended \/ n.ent = Nil \/ n.id \in Members
    <3>1. CASE Goes(q, Nil, api[q].arg) BY <3>1 DEF Goes
    <3>2. CASE Founds(q)
      <4>1. PICK n : /\ api' = [api EXCEPT ![q] = n]
                     /\ \/ n = Ended
                        \/ /\ n.id = <<api[q].id, api[q].by>>
                           /\ api[q].id \in Workspaces /\ api[q].by \in Users
        BY <3>2 DEF Founds
      <4>2. n = Ended \/ n.id \in Members BY <4>1 DEF Members
      <4>. QED BY <4>1, <4>2
    <3>. QED BY <2>2, <3>1, <3>2
  <2>4. \A p \in Requests : api'[p] = IF p = q THEN n ELSE api[p] BY <2>3 DEF Base
  <2>5. ASSUME NEW p \in Requests, NEW c \in firm',
               api'[p].todo # <<>>, api'[p].id = c, api'[p].ent # Nil
        PROVE  Spares(api'[p])
    <3>1. CASE c \in firm BY <1>2, <2>5, <3>1
    <3>2. CASE c \notin firm
      <4>1. p # q
        <5>1. c \notin Members BY <2>1, IdsApart
        <5>. QED BY <2>3, <2>4, <2>5, <5>1 DEF Ended
      <4>2. HeldByOther(q, c) BY <2>4, <2>5, <4>1 DEF HeldByOther, InFlight
      <4>. QED BY <2>1, <3>2, <4>2
    <3>. QED BY <3>1, <3>2
  <2>. QED BY <1>1, <2>1, <2>5 DEF FirmInv, Holds, InFlight, Spares
<1>. QED BY <1>4, <1>5, <1>6, TableSteps

-----------------------------------------------------------------------------
(* The owner of a workspace.                                               *)

\* A step is of one call, or ends them all.
LEMMA OneActs ==
  ASSUME Base, [Next]_vars
  PROVE  \A p, q \in Requests :
           p # q /\ api'[p].todo # <<>> /\ api'[q].todo # <<>> => api'[p] = api[p] \/ api'[q] = api[q]
<1>1. ASSUME NEW x \in Requests, NEW n, api' = [api EXCEPT ![x] = n],
             NEW p \in Requests, NEW q \in Requests, p # q
      PROVE  api'[p] = api[p] \/ api'[q] = api[q]
  BY <1>1 DEF Base
<1>2. ASSUME NEW x \in Requests, DbStep(x) PROVE \E n : api' = [api EXCEPT ![x] = n]
  BY <1>2 DEF DbStep, Check, Find, SaveLoad, SaveWrite, Insert, Delete, Fails, ContactSteps, Lookup,
              Resolve, Publish
<1>3. ASSUME NEW x \in Requests, TokenSteps(x) PROVE \E n : api' = [api EXCEPT ![x] = n]
  BY <1>3 DEF TokenSteps, Sign, Store, Forget
<1>4. ASSUME NEW x \in Requests, RemoteSteps(x) PROVE \E n : api' = [api EXCEPT ![x] = n]
  BY <1>4 DEF RemoteSteps, Terminate, TerminateFails, Launch, Ask
<1>5. ASSUME NEW x \in Requests, NewCall(x) PROVE \E n : api' = [api EXCEPT ![x] = n]
  BY <1>5, NewCallBegins DEF Begun, Base
<1>6. CASE UNCHANGED vars BY <1>6 DEF vars
<1>7. CASE Crash BY <1>7 DEF Crash, Ended
<1>8. ASSUME NEW x \in Requests, NEW n, api' = [api EXCEPT ![x] = n]
      PROVE  \A p, q \in Requests : p # q => api'[p] = api[p] \/ api'[q] = api[q]
  BY <1>1, <1>8
<1>. QED BY <1>2, <1>3, <1>4, <1>5, <1>6, <1>7, <1>8 DEF Next

\* The await about to be made comes before those still ahead.
LEMMA Behind ==
  ASSUME CallsInv, NEW q \in Requests, InFlight(q), NEW s, Rank(s) < Rank(Head(api[q].todo))
  PROVE  s \notin Ahead(api[q].todo)
<1>1. ASSUME s \in Ahead(api[q].todo) PROVE FALSE
  <2>1. s = Head(api[q].todo) \/ Rank(Head(api[q].todo)) < Rank(s) BY <1>1, FirstStep
  <2>2. Rank(s) \in Nat /\ Rank(Head(api[q].todo)) \in Nat BY RankNat
  <2>. QED BY <2>1, <2>2
<1>. QED BY <1>1

\* What is left of a workspace that is there, and was not removed.
LEMMA OwnerStays ==
  ASSUME Base, OwnerInv, [Next]_vars, NEW w \in Workspaces
  PROVE  /\ removed \subseteq removed'
         /\ Here(w) => w \in removed' \/ (db'[w] # Nil /\ db'[w].owner = db[w].owner)
<1>1. w \in Ids /\ w \notin Members BY IdsApart
<1>2. CASE UNCHANGED tables BY <1>2 DEF tables, Here
<1>3. ASSUME NEW q \in Requests, Delete(q)
      PROVE  /\ removed \subseteq removed'
             /\ Here(w) => w \in removed' \/ (db'[w] # Nil /\ db'[w].owner = db[w].owner)
  <2>. DEFINE gone == Deleted(api[q].id)
  <2>1. db' = [i \in Ids |-> IF i \in gone THEN Nil ELSE db[i]] /\ removed' = removed \cup gone
    BY <1>3, DeletedOK DEF Base
  <2>. HIDE DEF gone
  <2>. QED BY <1>1, <2>1 DEF Here
<1>4. ASSUME NEW q \in Requests, SaveWrite(q) \/ Insert(q)
      PROVE  /\ removed \subseteq removed'
             /\ Here(w) => w \in removed' \/ (db'[w] # Nil /\ db'[w].owner = db[w].owner)
  <2>. DEFINE r == api[q]
  <2>1. /\ removed' = removed /\ \A id \in Ids \ {r.id} : db'[id] = db[id]
        /\ Here(r.id) => db'[r.id] # Nil
    BY <1>4, WrittenOK DEF Base
  <2>2. InFlight(q) /\ r.id \in Ids /\ r.ent \in Rows(r.id) /\ r.ent # Nil BY <1>4, SaveStep DEF Base
  <2>3. ASSUME r.id = w, Here(w), w \notin removed PROVE db'[w] # Nil /\ db'[w].owner = db[w].owner
    <3>1. r.ent.owner = db[w].owner BY <2>2, <2>3 DEF OwnerInv
    <3>2. CASE Insert(q) BY <2>3, <3>2 DEF Insert
    <3>3. CASE SaveWrite(q)
      <4>1. ~r.plan.insert BY <2>3, <3>3 DEF SaveWrite
      <4>2. db'[w] = Saved(w, r.ent, r.plan) BY <1>1, <2>3, <3>3 DEF SaveWrite, Base, DbOK
      <4>3. r.ent \in [owner : Users] BY <2>2, <2>3, RowsOf DEF Workspace
      <4>4. "owner" \in DOMAIN r.ent BY <4>3
      <4>. DEFINE f == [x \in DOMAIN r.ent |-> IF x \in r.plan.cols THEN r.ent[x] ELSE db[w][x]]
      <4>5. db'[w] = f BY <2>3, <4>1, <4>2 DEF Saved
      <4>6. f.owner = IF "owner" \in r.plan.cols THEN r.ent.owner ELSE db[w].owner BY <4>4
      <4>. HIDE DEF f, r
      <4>. QED BY <2>1, <2>3, <3>1, <4>5, <4>6
    <3>. QED BY <1>4, <3>2, <3>3
  <2>. HIDE DEF r
  <2>. QED BY <1>1, <2>1, <2>3 DEF Here
<1>. QED BY <1>2, <1>3, <1>4, TableSteps

\* The membership that a call saves: its owner's, or that of another.
LEMMA MemberSave ==
  ASSUME Base, OwnerInv, NEW q \in Requests, SaveWrite(q), api[q].id \in Members
  PROVE  LET r == api[q]  w == r.id[1]  v == r.id[2] IN
           /\ w \in Workspaces /\ v \in Users /\ r.id = <<w, v>>
           /\ \/ r.op = "invite" /\ HasOwner(w) /\ NotOwner(w, v)
              \/ /\ r.op = "createWorkspace"
                 /\ w \in removed \/ (Here(w) /\ db[w].owner = v)
                 /\ Here(r.id) /\ db[r.id].role = "owner" => db'[r.id] # Nil /\ db'[r.id].role = "owner"
                 /\ ~Here(r.id) /\ db'[r.id] # Nil => db'[r.id].role = "owner"
<1>. DEFINE r == api[q]  w == r.id[1]  v == r.id[2]  T == Ahead(r.todo)
<1>1. w \in Workspaces /\ v \in Users /\ r.id = <<w, v>> BY DEF Members
<1>2. /\ InFlight(q) /\ CallOK(r) /\ Head(r.todo) = "write" /\ "write" \in T
      /\ r.id \in Ids /\ r.ent \in Rows(r.id) /\ r.ent # Nil
  <2>1. Head(r.todo) = "write" BY DEF SaveWrite, At
  <2>. QED BY <2>1, SaveStep DEF Base
<1>3. "admin" \notin T /\ "absent" \notin T /\ "insert" \notin T
  BY <1>2, Behind, Ranks DEF Base
<1>4. r.op \in {"invite", "createWorkspace"} BY <1>2 DEF CallOK, OpOK
<1>5. CASE r.op = "invite"
  <2>1. r.ws = w BY <1>2, <1>5 DEF CallOK, OpOK
  <2>2. HasOwner(w) /\ NotOwner(w, v) BY <1>2, <1>3, <1>5, <2>1 DEF OwnerInv
  <2>. QED BY <1>1, <1>5, <2>2
<1>6. CASE r.op = "createWorkspace"
  <2>1. w \in removed \/ (Here(w) /\ db[w].owner = v) BY <1>2, <1>3, <1>6 DEF OwnerInv
  <2>2. r.ent.role = "owner" BY <1>2, <1>3, <1>6 DEF CallOK, OpOK
  <2>3. db'[r.id] = Saved(r.id, r.ent, r.plan) BY <1>2 DEF SaveWrite, Base, DbOK
  <2>4. r.ent \in [role : Roles] /\ "role" \in DOMAIN r.ent
    <3>1. r.ent \in [role : Roles] BY <1>2, RowsOf DEF Membership
    <3>. QED BY <3>1
  <2>. DEFINE f == [x \in DOMAIN r.ent |-> IF x \in r.plan.cols THEN r.ent[x] ELSE db[r.id][x]]
  <2>5. f.role = IF "role" \in r.plan.cols THEN r.ent.role ELSE db[r.id].role BY <2>4
  <2>6. Here(r.id) => ~r.plan.insert /\ db'[r.id] = f /\ db'[r.id] # Nil
    <3>1. Here(r.id) => ~r.plan.insert BY DEF SaveWrite
    <3>2. Here(r.id) => db'[r.id] # Nil BY WrittenOK DEF Base
    <3>. QED BY <2>3, <3>1, <3>2 DEF Saved
  <2>7. ~Here(r.id) => db'[r.id] = IF r.plan.insert THEN r.ent ELSE Nil BY <2>3 DEF Saved
  <2>. HIDE DEF f, r, w, v
  <2>8. Here(r.id) /\ db[r.id].role = "owner" => db'[r.id] # Nil /\ db'[r.id].role = "owner"
    BY <2>2, <2>5, <2>6
  <2>9. ~Here(r.id) /\ db'[r.id] # Nil => db'[r.id].role = "owner" BY <2>2, <2>7
  <2>. QED BY <1>1, <1>6, <2>1, <2>8, <2>9 DEF r, w, v
<1>. QED BY <1>4, <1>5, <1>6

\* A workspace that has its owner keeps it.
LEMMA SettledStays ==
  ASSUME Base, OwnerInv, [Next]_vars, NEW w \in Workspaces, HasOwner(w)
  PROVE  HasOwner(w)'
<1>. DEFINE o == db[w].owner  m == <<w, o>>
<1>1. /\ removed \subseteq removed'
      /\ Here(w) => w \in removed' \/ (db'[w] # Nil /\ db'[w].owner = o)
  BY OwnerStays
<1>2. CASE w \in removed \/ (Here(w) /\ o \in removed)
  BY <1>1, <1>2 DEF HasOwner, Here
<1>3. CASE w \notin removed /\ Here(w) /\ o \notin removed /\ Role(w, o) = "owner"
  <2>1. Here(m) /\ db[m].role = "owner"
    <3>1. Nil # "owner" BY IdsAssumption DEF Roles
    <3>. QED BY <1>3, <3>1 DEF Role
  <2>2. o \in Users /\ w \in Ids /\ m \in Members /\ m \in Ids
    <3>1. w \in Ids BY IdsApart
    <3>2. db[w] \in [owner : Users] BY <1>3, <3>1, RowsOf DEF Base, DbOK, Workspace
    <3>3. m \in Members BY <3>2 DEF Members
    <3>. QED BY <3>1, <3>2, <3>3, IdsApart
  <2>3. m[1] = w /\ m[2] = o OBVIOUS
  <2>. HIDE DEF m, o
  <2>4. ASSUME w \notin removed', o \notin removed' PROVE db'[m] # Nil /\ db'[m].role = "owner"
    <3>1. CASE UNCHANGED tables BY <2>1, <3>1 DEF tables, Here
    <3>2. ASSUME NEW q \in Requests, Delete(q) PROVE db'[m] # Nil /\ db'[m].role = "owner"
      <4>. DEFINE r == api[q]
      <4>1. /\ InFlight(q) /\ Head(r.todo) = "delete" /\ CallOK(r) /\ "delete" \in Ahead(r.todo)
            /\ db' = [i \in Ids |-> IF i \in Deleted(r.id) THEN Nil ELSE db[i]]
            /\ removed' = removed \cup Deleted(r.id) /\ r.id \in Deleted(r.id)
        BY <3>2, DeletedOK DEF Base
      <4>2. ASSUME r.id = m PROVE FALSE
        <5>1. r.op = "removeMember" BY <2>2, <4>1, <4>2 DEF CallOK, TodoOK
        <5>2. "find" \notin Ahead(r.todo) BY <4>1, Behind, Ranks DEF Base
        <5>3. NotOwner(w, o) BY <2>3, <4>1, <4>2, <5>1, <5>2 DEF OwnerInv
        <5>. QED BY <1>3, <5>3 DEF NotOwner, o
      <4>3. r.id # w /\ r.id # o BY <2>4, <4>1
      <4>4. m \notin Deleted(r.id) BY <2>3, <4>2, <4>3 DEF Deleted
      <4>. QED BY <2>1, <2>2, <4>1, <4>4 DEF Here
    <3>3. ASSUME NEW q \in Requests, SaveWrite(q) \/ Insert(q)
          PROVE  db'[m] # Nil /\ db'[m].role = "owner"
      <4>. DEFINE r == api[q]
      <4>1. CASE r.id # m BY <2>1, <2>2, <3>3, <4>1, WrittenOK DEF Base, Here
      <4>2. CASE r.id = m
        <5>1. SaveWrite(q)
          <6>1. ASSUME Insert(q) PROVE FALSE
            <7>1. CallOK(r) /\ "insert" \in Ahead(r.todo)
              BY <6>1, SaveStep DEF Base, Insert, At
            <7>. QED BY <2>2, <4>2, <7>1 DEF CallOK, TodoOK
          <6>. QED BY <3>3, <6>1
        <5>2. \/ NotOwner(w, o)
              \/ db'[m] # Nil /\ db'[m].role = "owner"
          BY <2>1, <2>2, <2>3, <4>2, <5>1, MemberSave
        <5>. QED BY <1>3, <5>2 DEF NotOwner, o
      <4>. QED BY <4>1, <4>2
    <3>. QED BY <3>1, <3>2, <3>3, TableSteps
  <2>5. CASE w \in removed' BY <2>5 DEF HasOwner
  <2>6. CASE o \in removed' /\ w \notin removed' BY <1>1, <1>3, <2>6 DEF HasOwner, Here
  <2>7. CASE o \notin removed' /\ w \notin removed'
    <3>1. db'[w] # Nil /\ db'[w].owner = o BY <1>1, <1>3, <2>7
    <3>2. db'[<<w, o>>] # Nil /\ db'[<<w, o>>].role = "owner" BY <2>4, <2>7 DEF m
    <3>. QED BY <3>1, <3>2 DEF HasOwner, Role, Here
  <2>. QED BY <2>5, <2>6, <2>7
<1>. QED BY <1>2, <1>3 DEF HasOwner

\* Who does not own a workspace does not come to own it.
LEMMA NotOwnerStays ==
  ASSUME Base, OwnerInv, [Next]_vars, NEW w \in Workspaces, NEW v, NotOwner(w, v)
  PROVE  NotOwner(w, v)'
BY OwnerStays DEF NotOwner, Here

\* A membership comes to be only in a workspace that has its owner.
LEMMA MembersSettled ==
  ASSUME Base, OwnerInv, [Next]_vars, NEW m \in Members, db'[m] # Nil
  PROVE  HasOwner(m[1])'
<1>. DEFINE w == m[1]
<1>1. w \in Workspaces /\ m = <<m[1], m[2]>> /\ m[2] \in Users BY DEF Members
<1>2. CASE Here(m) BY <1>1, <1>2, SettledStays DEF OwnerInv
<1>3. CASE ~Here(m)
  <2>1. PICK q \in Requests : SaveWrite(q) \/ Insert(q) \/ Delete(q)
    BY <1>3, TableSteps DEF tables, Here
  <2>2. m \in Ids BY IdsApart
  <2>3. ~Delete(q) BY <1>3, <2>2, DeletedOK DEF Here, Base
  <2>4. api[q].id = m BY <1>3, <2>1, <2>2, <2>3, WrittenOK DEF Here, Base
  <2>5. SaveWrite(q)
    <3>1. ASSUME Insert(q) PROVE FALSE
      <4>1. CallOK(api[q]) /\ "insert" \in Ahead(api[q].todo)
        BY <3>1, SaveStep DEF Base, Insert, At
      <4>. QED BY <2>4, <4>1 DEF CallOK, TodoOK
    <3>. QED BY <2>1, <2>3, <3>1
  <2>6. \/ HasOwner(w)
        \/ /\ w \in removed \/ (Here(w) /\ db[w].owner = m[2])
           /\ db'[m].role = "owner"
    BY <1>3, <2>4, <2>5, MemberSave
  <2>7. CASE HasOwner(w) BY <1>1, <2>7, SettledStays
  <2>8. CASE /\ w \in removed \/ (Here(w) /\ db[w].owner = m[2])
             /\ db'[m].role = "owner"
    <3>1. /\ removed \subseteq removed'
          /\ Here(w) => w \in removed' \/ (db'[w] # Nil /\ db'[w].owner = db[w].owner)
      BY <1>1, OwnerStays
    <3>2. CASE w \in removed' BY <3>2 DEF HasOwner
    <3>3. CASE w \notin removed'
      <4>1. db'[w] # Nil /\ db'[w].owner = m[2] BY <2>8, <3>1, <3>3
      <4>2. db'[<<w, m[2]>>] # Nil /\ db'[<<w, m[2]>>].role = "owner" BY <1>1, <2>8
      <4>. QED BY <4>1, <4>2 DEF HasOwner, Role, Here
    <3>. QED BY <3>2, <3>3
  <2>. QED BY <2>6, <2>7, <2>8
<1>. QED BY <1>2, <1>3

\* A call past "admin" found the workspace to have its owner.
LEMMA AdminSettles ==
  ASSUME Base, OwnerInv, NEW p \in Requests, Check(p), Head(api[p].todo) = "admin",
         api[p].by \in Users, api[p].ws \in Workspaces
  PROVE  HasOwner(api[p].ws)
<1>. DEFINE r == api[p]  m == <<r.ws, r.by>>
<1>1. Granted(r) BY DEF Check
<1>2. m \in Members /\ m[1] = r.ws BY DEF Members
<1>3. Here(m)
  <2>1. Role(r.ws, r.by) \in {"owner", "admin"} BY <1>1 DEF Granted
  <2>2. Nil \notin {"owner", "admin"} BY IdsAssumption DEF Roles
  <2>. QED BY <2>1, <2>2 DEF Role
<1>. QED BY <1>2, <1>3 DEF OwnerInv

\* So did an invitation.
LEMMA InviterSettles ==
  ASSUME Base, OwnerInv, NEW p \in Requests, Check(p), Head(api[p].todo) = "admin",
         api[p].op = "invite"
  PROVE  HasOwner(api[p].ws)
<1>1. CallOK(api[p]) BY FlightOK DEF Base, Check
<1>2. api[p].id \in Members /\ api[p].id[1] = api[p].ws /\ api[p].by \in Users
  BY <1>1 DEF CallOK, OpOK
<1>3. api[p].ws \in Workspaces BY <1>2 DEF Members
<1>. QED BY <1>2, <1>3, AdminSettles

\* What the checks of a call are made by.
LEMMA AdvanceHeads ==
  ASSUME Base, NEW p \in Requests, NEW n, n = api'[p], n.todo # <<>>, Advances(p, n)
  PROVE  /\ Head(api[p].todo) \in {"admin", "absent"} => Check(p)
         /\ Head(api[p].todo) = "find" => Find(p)
<1>. DEFINE h == Head(api[p].todo)
<1>1. h = "find" => Find(p)
  <2>1. ASSUME h = "find" PROVE ~PlainStep(p)
    <3>1. api' # [api EXCEPT ![p] = Ended] BY DEF Base, Ended
    <3>. QED BY <2>1, <3>1, PlainStepGoes DEF Base
  <2>. QED BY <2>1 DEF Advances, SaveWrite, Insert, Ask, Sign, Resolve, At
<1>2. h \in {"admin", "absent"} => Check(p)
  BY DEF Advances, PlainStep, SaveLoad, Publish, Store, Forget, Terminate, TerminateFails,
              Launch, Find, SaveWrite, Insert, Ask, Sign, Resolve, At
<1>. QED BY <1>1, <1>2

\* What a call found out about the owner stays true.
LEMMA OwnerCallKept ==
  ASSUME Base, OwnerInv, [Next]_vars, NEW p \in Requests, NEW n, n = api'[p], n.todo # <<>>
  PROVE  LET T == Ahead(n.todo) IN
           /\ n.op = "invite" /\ "admin" \notin T => HasOwner(n.ws)'
           /\ n.op = "invite" /\ "absent" \notin T => NotOwner(n.id[1], n.id[2])'
           /\ n.op = "removeMember" /\ "find" \notin T => NotOwner(n.id[1], n.id[2])'
           /\ n.op = "createWorkspace" /\ "insert" \notin T =>
                n.id[1] \in removed' \/ (db'[n.id[1]] # Nil /\ db'[n.id[1]].owner = n.id[2])
<1>. DEFINE r == api[p]  T == Ahead(n.todo)  h == Head(r.todo)  S == Ahead(r.todo)
<1>1. /\ CallOK(n)
      /\ n = r \/ Advances(p, n) \/ Opened(p, n) \/ Turned(p, n) \/ Founded(p, n)
  BY CallChanges
<1>2. n.op \in {"invite", "removeMember"} =>
        /\ n.id \in Members /\ n.id = <<n.id[1], n.id[2]>> /\ n.id[1] = n.ws
        /\ n.ws \in Workspaces /\ n.id[2] \in Users
  BY <1>1 DEF CallOK, OpOK, Members
<1>3. Advances(p, n) =>
        InFlight(p) /\ n.op = r.op /\ n.ws = r.ws /\ n.id = r.id /\ T = S \ {h}
  BY DEF Advances
<1>4. ASSUME n.op = "invite", "admin" \notin T PROVE HasOwner(n.ws)'
  <2>1. HasOwner(n.ws)
    <3>1. CASE n = r BY <1>4, <3>1 DEF OwnerInv, InFlight
    <3>2. CASE Advances(p, n) /\ "admin" \notin S BY <1>3, <1>4, <3>2 DEF OwnerInv
    <3>3. CASE Advances(p, n) /\ "admin" \in S
      <4>1. h = "admin" BY <1>3, <1>4, <3>3
      <4>2. Check(p) BY <3>3, <4>1, AdvanceHeads
      <4>. QED BY <1>3, <1>4, <3>3, <4>1, <4>2, InviterSettles
    <3>. QED BY <1>1, <1>4, <3>1, <3>2, <3>3 DEF Opened, Opens, Turned, Founded
  <2>. QED BY <1>2, <1>4, <2>1, SettledStays
<1>5. ASSUME n.op = "invite", "absent" \notin T PROVE NotOwner(n.id[1], n.id[2])'
  <2>1. NotOwner(n.id[1], n.id[2])
    <3>1. CASE n = r BY <1>5, <3>1 DEF OwnerInv, InFlight
    <3>2. CASE Advances(p, n) /\ "absent" \notin S BY <1>3, <1>5, <3>2 DEF OwnerInv
    <3>3. CASE Advances(p, n) /\ "absent" \in S
      <4>1. h = "absent" BY <1>3, <1>5, <3>3
      <4>2. Check(p) BY <3>3, <4>1, AdvanceHeads
      <4>3. ~Here(n.id) BY <1>3, <3>3, <4>1, <4>2 DEF Check, Granted
      <4>4. "admin" \notin S BY <1>3, <3>3, <4>1, Behind, Ranks DEF Base
      <4>5. HasOwner(n.ws) BY <1>3, <1>5, <3>3, <4>4 DEF OwnerInv
      <4>6. Role(n.ws, n.id[2]) # "owner"
        <5>1. ~Here(<<n.ws, n.id[2]>>) BY <1>2, <1>5, <4>3
        <5>2. Nil # "owner" BY IdsAssumption DEF Roles
        <5>. QED BY <5>1, <5>2 DEF Role
      <4>. QED BY <1>2, <1>5, <4>5, <4>6 DEF HasOwner, NotOwner
    <3>. QED BY <1>1, <1>5, <3>1, <3>2, <3>3 DEF Opened, Opens, Turned, Founded
  <2>. QED BY <1>2, <1>5, <2>1, NotOwnerStays
<1>6. ASSUME n.op = "removeMember", "find" \notin T PROVE NotOwner(n.id[1], n.id[2])'
  <2>1. NotOwner(n.id[1], n.id[2])
    <3>1. CASE n = r BY <1>6, <3>1 DEF OwnerInv, InFlight
    <3>2. CASE Advances(p, n) /\ "find" \notin S BY <1>3, <1>6, <3>2 DEF OwnerInv
    <3>3. CASE Advances(p, n) /\ "find" \in S
      <4>1. h = "find" BY <1>3, <1>6, <3>3
      <4>2. Find(p) BY <3>3, <4>1, AdvanceHeads
      <4>3. Here(n.id) /\ db[n.id].role # "owner" BY <1>3, <1>6, <3>3, <4>2 DEF Find
      <4>4. HasOwner(n.ws) BY <1>2, <1>6, <4>3 DEF OwnerInv
      <4>5. Role(n.ws, n.id[2]) # "owner" BY <1>2, <1>6, <4>3 DEF Role
      <4>. QED BY <1>2, <1>6, <4>4, <4>5 DEF HasOwner, NotOwner
    <3>. QED BY <1>1, <1>6, <3>1, <3>2, <3>3 DEF Opened, Opens, Turned, Founded
  <2>. QED BY <1>2, <1>6, <2>1, NotOwnerStays
<1>7. ASSUME n.op = "createWorkspace", "insert" \notin T
      PROVE  n.id[1] \in removed' \/ (db'[n.id[1]] # Nil /\ db'[n.id[1]].owner = n.id[2])
  <2>1. n.id \in Members /\ n.id[1] \in Workspaces /\ n.id \notin Workspaces
    <3>1. n.id \in Members BY <1>1, <1>7 DEF CallOK, OpOK
    <3>. QED BY <3>1, IdsApart DEF Members
  <2>2. CASE n.id[1] \in removed \/ (Here(n.id[1]) /\ db[n.id[1]].owner = n.id[2])
    BY <2>1, <2>2, OwnerStays
  <2>3. CASE n = r BY <1>7, <2>2, <2>3 DEF OwnerInv, InFlight
  <2>4. CASE Advances(p, n)
    <3>1. "insert" \notin S
      <4>1. CallOK(r) BY <1>3, <2>4, FlightOK DEF Base
      <4>. QED BY <1>3, <1>7, <2>1, <2>4, <4>1 DEF CallOK, OpOK
    <3>. QED BY <1>3, <1>7, <2>2, <2>4, <3>1 DEF OwnerInv
  <2>5. CASE Founded(p, n)
    <3>1. /\ Insert(p) /\ r.op = "createWorkspace" /\ n.id = <<r.id, r.by>> /\ r.id \in Workspaces
      BY <1>7, <2>5 DEF Founded
    <3>2. CallOK(r) /\ r.id \in Ids /\ r.ent \in Rows(r.id) /\ r.ent # Nil /\ "insert" \in S
      BY <3>1, SaveStep DEF Insert, At, Base
    <3>3. r.ent.owner = r.by BY <3>1, <3>2 DEF CallOK, OpOK
    <3>4. db'[r.id] = r.ent BY <3>1, <3>2 DEF Insert, Base, DbOK
    <3>. QED BY <3>1, <3>2, <3>3, <3>4
  <2>. QED BY <1>1, <1>7, <2>3, <2>4, <2>5 DEF Opened, Opens, Turned
<1>. QED BY <1>4, <1>5, <1>6, <1>7

\* After a call wrote, it holds no workspace.
LEMMA WriterLetsGo ==
  ASSUME Base, NEW q \in Requests, SaveWrite(q) \/ Insert(q), api'[q].todo # <<>>,
         api'[q].ent # Nil
  PROVE  api'[q].id \notin Workspaces
<1>1. CASE Goes(q, Nil, api[q].arg)
  <2>1. PICK n : api' = [api EXCEPT ![q] = n] /\ (n = Ended \/ n.ent = Nil) BY <1>1 DEF Goes
  <2>2. api'[q] = n BY <2>1 DEF Base
  <2>. QED BY <2>1, <2>2 DEF Ended
<1>2. CASE Founds(q)
  <2>1. PICK n : /\ api' = [api EXCEPT ![q] = n]
                 /\ \/ n = Ended
                    \/ /\ n.id = <<api[q].id, api[q].by>>
                       /\ api[q].id \in Workspaces /\ api[q].by \in Users
    BY <1>2 DEF Founds
  <2>2. api'[q] = n BY <2>1 DEF Base
  <2>3. n # Ended BY <2>2 DEF Ended
  <2>4. n.id = <<api[q].id, api[q].by>> /\ api[q].id \in Workspaces /\ api[q].by \in Users
    BY <2>1, <2>3
  <2>5. n.id \in Members BY <2>4 DEF Members
  <2>. QED BY <2>2, <2>5, IdsApart
<1>. QED BY <1>1, <1>2, WriteGoes, InsertGoes DEF Base

\* Call p holds workspace w as n: it did before, it read it, or it is about to make it.
HoldsOn(p, n, w) ==
  LET T == Ahead(n.todo) IN
    \/ /\ Holds(p, w) /\ n.ent = api[p].ent
       /\ "insert" \in Ahead(api[p].todo) => "insert" \in T
    \/ Here(w) /\ n.ent.owner = db[w].owner
    \/ /\ UNCHANGED tables /\ ~Here(w) /\ "insert" \in T
       /\ \A q \in Requests : InFlight(q) => api[q].id # w

\* What a call that holds a workspace has of it.
LEMMA WorkspaceHeld ==
  ASSUME Base, [Next]_vars, NEW p \in Requests, NEW n, n = api'[p], n.todo # <<>>,
         n.id \in Workspaces, n.ent # Nil
  PROVE  HoldsOn(p, n, n.id)
<1>. DEFINE r == api[p]  w == n.id
<1>1. /\ CallOK(n)
      /\ n = r \/ Advances(p, n) \/ Opened(p, n) \/ Turned(p, n) \/ Founded(p, n)
  BY CallChanges
<1>2. w \in Ids /\ w \notin Users \cup Members \cup Keys \cup Sessions \cup Contacts BY IdsApart
<1>3. CASE n = r BY <1>3 DEF HoldsOn, Holds, InFlight
<1>4. CASE Advances(p, n)
  <2>1. InFlight(p) /\ r.id = w /\ n.set = r.set /\ Ahead(n.todo) = Ahead(r.todo) \ {Head(r.todo)}
    BY <1>4 DEF Advances
  <2>2. CASE PlainStep(p) /\ n.ent = r.ent
    <3>1. Head(r.todo) # "insert"
      <4>1. api' # [api EXCEPT ![p] = Ended] BY DEF Base, Ended
      <4>. QED BY <2>2, <4>1, PlainStepGoes DEF Base
    <3>2. Holds(p, w) BY <2>1, <2>2 DEF Holds
    <3>. QED BY <2>1, <2>2, <3>1, <3>2 DEF HoldsOn
  <2>3. CASE Here(r.id) /\ n.ent = Assigned(db[r.id], r.set)
    <3>1. r.set = <<>> BY <1>1, <1>2, <2>1 DEF CallOK, SetOK
    <3>2. db[w] \in [owner : Users] BY <1>2, <2>1, <2>3, RowsOf DEF Base, DbOK, Workspace
    <3>3. DOMAIN r.set = {} /\ "owner" \in DOMAIN db[w] BY <3>1, <3>2
    <3>4. Assigned(db[w], r.set) = [c \in DOMAIN db[w] |-> db[w][c]] BY <3>3 DEF Assigned
    <3>5. n.ent.owner = db[w].owner BY <2>1, <2>3, <3>3, <3>4
    <3>. QED BY <2>1, <2>3, <3>5 DEF HoldsOn
  <2>4. CASE Sign(p) /\ r.id \in Users BY <1>2, <2>1, <2>4
  <2>5. CASE Resolve(p)
    <3>1. "resolve" \in Ahead(r.todo) /\ CallOK(r) BY <2>1, <2>5, FirstStep DEF Resolve, At, Base
    <3>. QED BY <1>2, <2>1, <3>1 DEF CallOK, TodoOK
  <2>. QED BY <1>2, <1>4, <2>1, <2>2, <2>3, <2>4, <2>5 DEF Advances
<1>5. CASE Opened(p, n) BY <1>2, <1>5 DEF Opened, Opens, HoldsOn
<1>6. CASE Turned(p, n) BY <1>2, <1>6 DEF Turned
<1>7. CASE Founded(p, n)
  <2>1. n.id \in Members BY <1>7 DEF Founded, Members
  <2>. QED BY <1>2, <2>1
<1>. QED BY <1>1, <1>3, <1>4, <1>5, <1>6, <1>7

\* A call that holds a workspace knows its owner.
LEMMA EntityOwnerKept ==
  ASSUME Base, OwnerInv, [Next]_vars, NEW p \in Requests, NEW n, n = api'[p], n.todo # <<>>,
         n.id \in Workspaces, n.ent # Nil
  PROVE  n.id \in removed' \/ IF db'[n.id] # Nil THEN n.ent.owner = db'[n.id].owner
                                                 ELSE "insert" \in Ahead(n.todo)
<1>. DEFINE r == api[p]  w == n.id
<1>1. HoldsOn(p, n, w) BY WorkspaceHeld
<1>2. /\ w \in Ids /\ removed \subseteq removed'
      /\ Here(w) => w \in removed' \/ (db'[w] # Nil /\ db'[w].owner = db[w].owner)
  BY OwnerStays, IdsApart
<1>3. CASE /\ Holds(p, w) /\ n.ent = r.ent
           /\ "insert" \in Ahead(r.todo) => "insert" \in Ahead(n.todo)
  <2>1. w \in removed \/ IF Here(w) THEN n.ent.owner = db[w].owner ELSE "insert" \in Ahead(n.todo)
    BY <1>3 DEF OwnerInv, Holds
  <2>2. ASSUME ~Here(w), w \notin removed, db'[w] # Nil PROVE FALSE
    <3>1. PICK q \in Requests : SaveWrite(q) \/ Insert(q) \/ Delete(q)
      BY <2>2, TableSteps DEF tables, Here
    <3>2. ~Delete(q) BY <1>2, <2>2, DeletedOK DEF Base, Here
    <3>3. api[q].id = w BY <1>2, <2>2, <3>1, <3>2, WrittenOK DEF Base, Here
    <3>4. Holds(q, w) BY <3>1, <3>2, <3>3, SaveStep DEF Base, Holds
    <3>5. q # p BY <3>1, <3>2, WriterLetsGo
    <3>. QED BY <1>3, <2>2, <3>4, <3>5 DEF OwnerInv
  <2>. QED BY <1>2, <2>1, <2>2
<1>4. CASE Here(w) /\ n.ent.owner = db[w].owner BY <1>2, <1>4
<1>5. CASE UNCHANGED tables /\ ~Here(w) /\ "insert" \in Ahead(n.todo) BY <1>5 DEF tables, Here
<1>. QED BY <1>1, <1>3, <1>4, <1>5 DEF HoldsOn

\* Two calls hold a workspace only once it is there.
LEMMA HoldersKept ==
  ASSUME Base, OwnerInv, [Next]_vars, NEW p \in Requests, NEW q \in Requests, p # q,
         NEW w \in Workspaces, Holds(p, w)', Holds(q, w)'
  PROVE  db'[w] # Nil \/ w \in removed'
<1>1. /\ removed \subseteq removed'
      /\ Here(w) => w \in removed' \/ db'[w] # Nil
  BY OwnerStays
<1>2. ASSUME NEW x \in Requests, NEW y \in Requests, x # y, Holds(x, w)', Holds(y, w)',
             api'[y] = api[y]
      PROVE  Here(w) \/ w \in removed
  <2>1. Holds(y, w) BY <1>2 DEF Holds, InFlight
  <2>2. HoldsOn(x, api'[x], w) BY <1>2, WorkspaceHeld DEF Holds, InFlight
  <2>. QED BY <1>2, <2>1, <2>2 DEF HoldsOn, OwnerInv, Holds
<1>3. api'[p] = api[p] \/ api'[q] = api[q] BY OneActs DEF Holds, InFlight
<1>. QED BY <1>1, <1>2, <1>3

\* No step takes a workspace from its owner.
LEMMA OwnerKept ==
  ASSUME Base, OwnerInv, [Next]_vars
  PROVE  OwnerInv'
<1>1. ASSUME NEW m \in Members, db'[m] # Nil PROVE HasOwner(m[1])' BY <1>1, MembersSettled
<1>2. ASSUME NEW p \in Requests, NEW n, n = api'[p], n.todo # <<>>
      PROVE  /\ n.op = "invite" /\ "admin" \notin Ahead(n.todo) => HasOwner(n.ws)'
             /\ n.op = "invite" /\ "absent" \notin Ahead(n.todo) => NotOwner(n.id[1], n.id[2])'
             /\ n.op = "removeMember" /\ "find" \notin Ahead(n.todo) =>
                  NotOwner(n.id[1], n.id[2])'
             /\ n.op = "createWorkspace" /\ "insert" \notin Ahead(n.todo) =>
                  n.id[1] \in removed' \/ (db'[n.id[1]] # Nil /\ db'[n.id[1]].owner = n.id[2])
             /\ n.id \in Workspaces /\ n.ent # Nil =>
                  n.id \in removed' \/ IF db'[n.id] # Nil THEN n.ent.owner = db'[n.id].owner
                                                          ELSE "insert" \in Ahead(n.todo)
  BY <1>2, OwnerCallKept, EntityOwnerKept
<1>3. ASSUME NEW p \in Requests, NEW q \in Requests, NEW w \in Workspaces, p # q,
             Holds(p, w)', Holds(q, w)'
      PROVE  db'[w] # Nil \/ w \in removed'
  BY <1>3, HoldersKept
<1>. QED BY <1>1, <1>2, <1>3 DEF OwnerInv, InFlight, Here

-----------------------------------------------------------------------------
(* The workspace of a session.                                             *)

\* A call holds a session of a workspace that has its owner.
LEMMA SessionHeld ==
  ASSUME Base, OwnerInv, SessionInv, [Next]_vars, NEW p \in Requests, NEW n, n = api'[p],
         n.todo # <<>>, n.id \in Sessions, n.ent # Nil
  PROVE  Belongs(n)
<1>. DEFINE r == api[p]  h == Head(r.todo)  S == Ahead(r.todo)  T == Ahead(n.todo)
<1>1. /\ CallOK(n)
      /\ n = r \/ Advances(p, n) \/ Opened(p, n) \/ Turned(p, n) \/ Founded(p, n)
  BY CallChanges
<1>2. n.id \in Ids /\ n.id \notin Users \cup Members \cup Contacts BY IdsApart
<1>3. CASE n = r BY <1>3 DEF SessionInv, InFlight
<1>4. CASE Advances(p, n)
  <2>1. InFlight(p) /\ r.id = n.id /\ n.by = r.by /\ n.ws = r.ws /\ T = S \ {h}
    BY <1>4 DEF Advances
  <2>2. ASSUME r.ent # Nil, n.ent.ws = r.ent.ws PROVE Belongs(n)
    <3>1. Belongs(r) BY <2>1, <2>2 DEF SessionInv
    <3>2. CASE h = "admin" /\ "admin" \in S
      <4>1. Check(p) BY <1>4, <3>2, AdvanceHeads
      <4>2. HasOwner(r.ws) /\ r.ent.ws = r.ws BY <3>1, <3>2, <4>1, AdminSettles DEF Belongs
      <4>3. "admin" \notin T BY <2>1, <3>2
      <4>. QED BY <2>2, <4>2, <4>3 DEF Belongs
    <3>3. CASE ~(h = "admin" /\ "admin" \in S)
      <4>1. "admin" \in T <=> "admin" \in S BY <2>1, <3>3
      <4>. QED BY <2>1, <2>2, <3>1, <4>1 DEF Belongs
    <3>. QED BY <3>2, <3>3
  <2>3. CASE Find(p) /\ Here(r.id) /\ n.ent = Assigned(db[r.id], r.set)
    <3>1. h = "find" /\ CallOK(r) BY <2>1, <2>3, FlightOK DEF Find, At, Base
    <3>2. "admin" \notin T BY <2>1, <3>1, Behind, Ranks DEF Base
    <3>3. db[r.id] \in [ws : Workspaces, status : Statuses]
      BY <1>2, <2>1, <2>3, RowsOf DEF Base, DbOK, Session
    <3>4. "ws" \in DOMAIN db[r.id] BY <3>3
    <3>5. "ws" \notin DOMAIN r.set
      <4>1. r.set = <<>> \/ \E st \in Statuses : r.set = [status |-> st]
        BY <1>2, <2>1, <3>1 DEF CallOK, SetOK
      <4>2. ASSUME NEW st, r.set = [status |-> st] PROVE "ws" \notin DOMAIN r.set BY <4>2
      <4>3. r.set = <<>> => DOMAIN r.set = {} OBVIOUS
      <4>. QED BY <4>1, <4>2, <4>3
    <3>6. n.ent.ws = db[r.id].ws BY <2>3, <3>4, <3>5 DEF Assigned
    <3>. QED BY <2>1, <2>3, <3>2, <3>6 DEF Belongs, SessionInv
  <2>4. CASE Ask(p) /\ r.ent # Nil /\ n.ent.ws = r.ent.ws BY <2>2, <2>4
  <2>5. CASE n.ent = r.ent BY <2>2, <2>5
  <2>. QED BY <1>2, <1>4, <2>1, <2>3, <2>4, <2>5 DEF Advances
<1>5. CASE Opened(p, n) BY <1>5 DEF Opened, Opens, Belongs
<1>6. CASE Turned(p, n) BY <1>2, <1>6 DEF Turned
<1>7. CASE Founded(p, n) BY <1>2, <1>7 DEF Founded, Members
<1>. QED BY <1>1, <1>3, <1>4, <1>5, <1>6, <1>7

\* The row of a session is of a workspace that had its owner.
LEMMA SessionRow ==
  ASSUME Base, SessionInv, [Next]_vars, NEW s \in Sessions, db'[s] # Nil
  PROVE  HasOwner(db'[s].ws)
<1>1. s \in Ids /\ s \notin Members BY IdsApart
<1>2. CASE db'[s] = db[s] BY <1>2 DEF SessionInv, Here
<1>3. CASE UNCHANGED tables BY <1>2, <1>3 DEF tables
<1>4. ASSUME NEW q \in Requests, Delete(q) PROVE db'[s] = db[s]
  BY <1>1, <1>4, DeletedOK DEF Base
<1>5. ASSUME NEW q \in Requests, SaveWrite(q) \/ Insert(q) PROVE HasOwner(db'[s].ws)
  <2>. DEFINE r == api[q]
  <2>1. CASE r.id # s BY <1>1, <1>2, <1>5, <2>1, WrittenOK DEF Base
  <2>2. CASE r.id = s
    <3>1. /\ InFlight(q) /\ r.ent # Nil /\ r.ent \in Rows(s)
          /\ Head(r.todo) \in {"write", "insert"}
      BY <1>5, <2>2, SaveStep DEF Base, SaveWrite, Insert, At
    <3>2. "admin" \notin Ahead(r.todo) BY <3>1, Behind, Ranks DEF Base
    <3>3. HasOwner(r.ent.ws) BY <2>2, <3>1, <3>2 DEF SessionInv, Belongs
    <3>4. CASE Insert(q)
      <4>1. db'[s] = r.ent BY <1>1, <2>2, <3>4 DEF Insert, Base, DbOK
      <4>. QED BY <3>3, <4>1
    <3>5. CASE SaveWrite(q)
      <4>1. db'[s] = Saved(s, r.ent, r.plan) BY <1>1, <2>2, <3>5 DEF SaveWrite, Base, DbOK
      <4>2. r.ent \in [ws : Workspaces, status : Statuses] BY <3>1, RowsOf DEF Session
      <4>3. "ws" \in DOMAIN r.ent BY <4>2
      <4>. DEFINE f == [x \in DOMAIN r.ent |-> IF x \in r.plan.cols THEN r.ent[x] ELSE db[s][x]]
      <4>4. f.ws = IF "ws" \in r.plan.cols THEN r.ent.ws ELSE db[s].ws BY <4>3
      <4>5. db'[s] = r.ent \/ (Here(s) /\ db'[s] = f) BY <4>1 DEF Saved
      <4>. HIDE DEF f, r
      <4>. QED BY <3>3, <4>4, <4>5 DEF SessionInv
    <3>. QED BY <1>5, <3>4, <3>5
  <2>. QED BY <2>1, <2>2
<1>. QED BY <1>2, <1>3, <1>4, <1>5, TableSteps

\* No step takes the owner from the workspace of a session.
LEMMA SessionKept ==
  ASSUME Base, OwnerInv, SessionInv, [Next]_vars
  PROVE  SessionInv'
<1>1. ASSUME NEW s \in Sessions, NEW w, db'[s] # Nil, w = db'[s].ws PROVE HasOwner(w)'
  <2>1. HasOwner(w) BY <1>1, SessionRow
  <2>2. db'[s] \in [ws : Workspaces, status : Statuses]
    BY <1>1, BaseKept, RowsOf, IdsApart DEF Base, DbOK, Session, Here
  <2>3. w \in Workspaces BY <1>1, <2>2
  <2>. QED BY <2>1, <2>3, SettledStays
<1>2. ASSUME NEW p \in Requests, NEW n, n = api'[p], n.todo # <<>>, n.id \in Sessions, n.ent # Nil
      PROVE  /\ "admin" \notin Ahead(n.todo) => HasOwner(n.ent.ws)'
             /\ "admin" \in Ahead(n.todo) =>
                  n.ent.ws = n.ws /\ n.by \in Users /\ n.ws \in Workspaces
  <2>1. Belongs(n) BY <1>2, SessionHeld
  <2>2. CallOK(n) BY <1>2, CallChanges
  <2>3. n.ent \in [ws : Workspaces, status : Statuses]
    BY <1>2, <2>2, RowsOf DEF CallOK, EntOK, Session
  <2>4. n.ent.ws \in Workspaces BY <2>3
  <2>. QED BY <2>1, <2>4, SettledStays DEF Belongs
<1>3. \A s \in Sessions : db'[s] # Nil => HasOwner(db[s].ws)' BY <1>1
<1>. QED BY <1>2, <1>3 DEF SessionInv, Belongs, InFlight, Here

-----------------------------------------------------------------------------
(* The specification.                                                      *)

\* The invariants hold initially.
LEMMA InitOthers ==
  ASSUME Init
  PROVE  SealInv /\ FirmInv /\ TokenInv /\ RemovalInv /\ OwnerInv /\ SessionInv
<1>1. \A q \in Requests : ~InFlight(q) /\ api[q].todo = <<>> BY DEF Init, InFlight, Unmade
<1>2. removed = {} /\ sealed = {} /\ firm = {} /\ \A u \in Users : dead[u] = {} BY DEF Init
<1>3. TokensOK
  <2>1. 1 \in Token BY MaxTokensAssumption DEF Token
  <2>. QED BY <2>1 DEF Init, TokensOK
<1>4. TokenInv BY <1>1, <1>2, <1>3 DEF TokenInv, SupersededStaysDead
<1>5. /\ Rowed /\ \A m \in Members : Here(m) => HasOwner(m[1])
      /\ \A x \in Sessions : Here(x) => HasOwner(db[x].ws)
  <2>1. CASE db = [id \in Ids |-> Nil] /\ running = {}
    <3>1. \A x \in Members \cup Sessions : x \in Ids BY IdsApart
    <3>. QED BY <2>1, <3>1 DEF Rowed, Here
  <2>2. ASSUME NEW u \in Users, NEW w \in Workspaces, NEW s \in Sessions, NEW c \in Contacts,
               NEW k \in Keys, NEW p \in Phones, db = Furnished(u, w, s, c, k, p), running = {s}
        PROVE  /\ Rowed /\ \A m \in Members : Here(m) => HasOwner(m[1])
               /\ \A x \in Sessions : Here(x) => HasOwner(db[x].ws)
    <3>1. /\ db[w] = [owner |-> u] /\ db[s] = [ws |-> w, status |-> "connected"]
          /\ \A x \in Sessions : x # s => db[x] = Nil
          /\ \A m \in Members : db[m] = IF m = <<w, u>> THEN [role |-> "owner"] ELSE Nil
      <4>1. RowsMade(u, w, s, c, k, p) BY <2>2, FurnishedRows
      <4>. QED BY <4>1 DEF RowsMade
    <3>2. Here(w) /\ Here(s)
      <4>1. w \in Ids /\ s \in Ids BY IdsApart
      <4>2. db[w] \in Workspace /\ db[s] \in Session
        BY <3>1 DEF Workspace, Session, Statuses
      <4>. QED BY <4>1, <4>2, RowsOf, IdsApart DEF Here
    <3>3. HasOwner(w)
      <4>1. <<w, u>> \in Members BY DEF Members
      <4>2. db[<<w, u>>] = [role |-> "owner"] BY <3>1, <4>1
      <4>3. db[<<w, u>>] # Nil /\ db[<<w, u>>].role = "owner"
        <5>1. [role |-> "owner"] \in Membership BY DEF Membership, Roles
        <5>. QED BY <4>1, <4>2, <5>1, RowsOf, IdsApart
      <4>. QED BY <3>1, <3>2, <4>3 DEF HasOwner, Role, Here
    <3>4. \A m \in Members : Here(m) => m = <<w, u>> BY <3>1 DEF Here
    <3>5. \A x \in Sessions : Here(x) => db[x].ws = w BY <3>1 DEF Here
    <3>. QED BY <2>2, <3>2, <3>3, <3>4, <3>5 DEF Rowed
  <2>. QED BY <2>1, <2>2 DEF Init
<1>6. RemovalInv BY <1>1, <1>5 DEF RemovalInv
<1>7. OwnerInv BY <1>1, <1>5 DEF OwnerInv, Holds
<1>8. SealInv /\ FirmInv BY <1>1, <1>2 DEF SealInv, FirmInv, Holds
<1>9. SessionInv BY <1>1, <1>5 DEF SessionInv
<1>. QED BY <1>4, <1>6, <1>7, <1>8, <1>9

\* Whatever calls interleave, crash or fail, every row fits its table, the
\* foreign keys and the unique phone hold, and a call about to save() holds an
\* entity of the table it saves to.
THEOREM TypeKept == Spec => []TypeOK
<1>1. Init => Base /\ TokenInv BY InitBase, InitOthers
<1>2. Base /\ TokenInv /\ [Next]_vars => (Base /\ TokenInv)' BY BaseKept, TokenKept
<1>3. Base /\ TokenInv => TypeOK
  <2>. SUFFICES ASSUME Base, TokenInv PROVE TypeOK OBVIOUS
  <2>1. /\ DOMAIN db = Ids /\ \A id \in Ids : Here(id) => db[id] \in Rows(id)
        /\ Permitted(db)
        /\ removed \in SUBSET Ids /\ sealed \in SUBSET removed /\ firm \in SUBSET Contacts
        /\ TokensOK /\ RemoteOK
    BY DEF Base, DbOK, TokenInv
  <2>2. ASSUME NEW q \in Requests, InFlight(q)
        PROVE  /\ \A i \in DOMAIN api[q].todo : api[q].todo[i] \in Steps
               /\ api[q].id # Nil => api[q].id \in Ids
               /\ api[q].ent # Nil => api[q].ent \in Rows(api[q].id)
               /\ Head(api[q].todo) \in {"load", "write", "insert"} => api[q].ent # Nil
    <3>1. /\ CallOK(api[q])
          /\ Head(api[q].todo) \in Uses => api[q].ent # Nil
          /\ api[q].ent # Nil => api[q].ent \in Rows(api[q].id)
      BY <2>2, FirstStep DEF Base
    <3>2. api[q].todo \in Seq(Steps) /\ api[q].id \in Ids \cup {Nil} BY <3>1 DEF CallOK, TodoOK
    <3>3. \A i \in DOMAIN api[q].todo : api[q].todo[i] \in Steps BY <3>2
    <3>. QED BY <3>1, <3>2, <3>3 DEF Uses
  <2>. QED BY <2>1, <2>2 DEF TypeOK
<1>. QED BY <1>1, <1>2, <1>3, PTL DEF Spec

\* A row removed while no other call held its entity is not INSERTed again by
\* the save() of an old entity: revoked keys, deleted accounts, contacts and
\* sessions stay gone.
THEOREM RemovedKept == Spec => []RemovedStays
<1>1. Init => Base /\ SealInv BY InitBase, InitOthers
<1>2. Base /\ SealInv /\ [Next]_vars => (Base /\ SealInv)' BY BaseKept, SealKept
<1>3. Base /\ SealInv => RemovedStays BY DEF SealInv, RemovedStays
<1>. QED BY <1>1, <1>2, <1>3, PTL DEF Spec

\* A contact blacklisted while no other call held it stays so until a call
\* lifts it, and no broadcast is queued to it that was drawn since.
THEOREM BlacklistKept == Spec => []BlacklistHonoured
<1>1. Init => Base /\ FirmInv BY InitBase, InitOthers
<1>2. Base /\ FirmInv /\ [Next]_vars => (Base /\ FirmInv)' BY BaseKept, FirmKept
<1>3. Base /\ FirmInv => BlacklistHonoured
  <2>. SUFFICES ASSUME Base, FirmInv PROVE BlacklistHonoured OBVIOUS
  <2>1. ASSUME NEW q \in Requests, At(q, "publish")
        PROVE  api[q].arg.drawn \cap api[q].arg.barred = {}
    <3>1. InFlight(q) /\ Head(api[q].todo) = "publish" BY <2>1 DEF At, InFlight
    <3>2. "publish" \in Ahead(api[q].todo) BY <3>1, FirstStep DEF Base
    <3>3. Rank("resolve") < Rank("publish") BY DEF Rank
    <3>4. "resolve" \notin Ahead(api[q].todo) BY <3>1, <3>3, Behind DEF Base
    <3>. QED BY <3>1, <3>2, <3>4 DEF FirmInv
  <2>. QED BY <2>1 DEF BlacklistHonoured, FirmInv, Base, DbOK
<1>. QED BY <1>1, <1>2, <1>3, PTL DEF Spec

\* The refresh token in the cache is never one that a later login, refresh or
\* logout replaced when no other call was about to store its own.
THEOREM SupersededKept == Spec => []SupersededStaysDead
<1>1. Init => Base /\ TokenInv BY InitBase, InitOthers
<1>2. Base /\ TokenInv /\ [Next]_vars => (Base /\ TokenInv)' BY BaseKept, TokenKept
<1>3. Base /\ TokenInv => SupersededStaysDead BY DEF TokenInv
<1>. QED BY <1>1, <1>2, <1>3, PTL DEF Spec

\* A session that runs on OpenWA has its row, and its workspace has the owner
\* who may stop it: unless OpenWA did not stop it when it was removed, a start
\* overlapped the removal, or the workspace or the owner's account was removed.
THEOREM OrphansNone == Spec => []NoOrphan
<1>. DEFINE I == Base /\ RemovalInv /\ OwnerInv /\ SessionInv
<1>1. Init => I BY InitBase, InitOthers
<1>2. I /\ [Next]_vars => I' BY BaseKept, RemovalKept, OwnerKept, SessionKept
<1>3. I => NoOrphan
  <2>. SUFFICES ASSUME Base, Rowed, SessionInv PROVE NoOrphan BY DEF RemovalInv
  <2>1. running \subseteq Sessions BY DEF Base, RemoteOK
  <2>. QED BY <2>1 DEF Rowed, SessionInv, NoOrphan
<1>. QED BY <1>1, <1>2, <1>3, PTL DEF Spec

\* No invitation, whatever its role, no removal of a member and no save of an
\* old entity takes the role of owner from a workspace's owner, for any number
\* of users, workspaces and calls.
THEOREM OwnersKept == Spec => []OwnerPresent
<1>1. Init => Base /\ OwnerInv BY InitBase, InitOthers
<1>2. Base /\ OwnerInv /\ [Next]_vars => (Base /\ OwnerInv)' BY BaseKept, OwnerKept
<1>3. Base /\ OwnerInv => OwnerPresent
  <2>. SUFFICES ASSUME OwnerInv, NEW w \in Workspaces, NEW u \in Users, Here(<<w, u>>)
                PROVE  HasOwner(w)
    BY DEF OwnerPresent
  <2>1. <<w, u>> \in Members /\ <<w, u>>[1] = w BY DEF Members
  <2>. QED BY <2>1 DEF OwnerInv
<1>. QED BY <1>1, <1>2, <1>3, PTL DEF Spec
=============================================================================
