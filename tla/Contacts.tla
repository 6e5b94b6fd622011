------------------------------ MODULE Contacts ------------------------------
(***************************************************************************)
(* The contacts and contact groups of src/src/modules/contacts, the import *)
(* of a list of phones, and how create() of src/src/modules/broadcasts     *)
(* draws the recipients of a broadcast from them.  Phones stand for what   *)
(* is left of a phone number when all but its digits is taken away.        *)
(***************************************************************************)
EXTENDS Workspaces

CONSTANT MaxRows        \* bound: rows of an import with a phone

ASSUME MaxRowsAssumption == MaxRows \in Nat \ {0}

-----------------------------------------------------------------------------
(* The handlers.                                                           *)

CreateContact(q, u, w, c) ==
  /\ Fresh(c)
  /\ \E p \in Phones, b \in BOOLEAN :
       Begin(q, InWorkspace("create", <<"member", "insert">>, u, w, c, <<>>,
                            [ws |-> w, phone |-> p, blocked |-> b]))

\* What update() may set of the columns that matter: none (name, tags, notes),
\* the phone, isBlacklisted, or both.
Patches ==
  {<<>>} \cup [{"phone"} -> Phones] \cup [{"blocked"} -> BOOLEAN]
    \cup [phone : Phones, blocked : BOOLEAN]

UpdateContact(q, u, w, c) ==
  \E set \in Patches :
    Begin(q, InWorkspace("update", <<"member", "find", "load", "write">>, u, w, c, set, Nil))

Blacklist(q, u, w, c) ==
  Begin(q, InWorkspace("update", <<"member", "find", "load", "write">>, u, w, c,
                       [blocked |-> TRUE], Nil))

CreateGroup(q, u, w, g) ==
  Fresh(g) /\ Begin(q, InWorkspace("create", <<"member", "insert">>, u, w, g, <<>>, [ws |-> w]))

UpdateGroup(q, u, w, g) ==
  Begin(q, InWorkspace("update", <<"member", "find", "load", "write">>, u, w, g, <<>>, Nil))

\* remove() of a contact and removeGroup().
RemoveRow(q, u, w, id) ==
  Begin(q, InWorkspace("remove", <<"member", "find", "delete">>, u, w, id, <<>>, Nil))

\* importMany(): a lookup and a save per row; arg holds the phones to come.
Import(q, u, w) ==
  \E n \in 1..MaxRows : \E phones \in [1..n -> Phones] :
    Begin(q, Call("import", <<"member">> \o [i \in 1..n |-> "lookup"], u, w, Nil, <<>>, Nil, phones))

\* create() of a broadcast with phones listed, or not, and contacts chosen.
CreateBroadcast(q, u, w, s) ==
  \E listed \in BOOLEAN, chosen \in SUBSET Contacts :
    Begin(q, Call("broadcast", <<"admin", "member", "find", "resolve", "publish">>, u, w, s, <<>>, Nil,
                  [listed |-> listed, chosen |-> chosen, drawn |-> {}, barred |-> {}]))

-----------------------------------------------------------------------------
(* Their awaits.                                                           *)

Owning(w, p) == {c \in Contacts : Here(c) /\ db[c].ws = w /\ db[c].phone = p}

\* Mutant: an imported contact is taken off the blacklist.
LookupResets(q) ==
  /\ At(q, "lookup")
  /\ LET r == api[q]  p == Head(r.arg)  rest == Tail(r.todo) IN
       \/ \E c \in Owning(r.ws, p) :
            api' = [api EXCEPT ![q] =
              [r EXCEPT !.todo = <<"load", "write">> \o rest, !.arg = Tail(@),
                        !.id = c, !.ent = [db[c] EXCEPT !.blocked = FALSE]]]
       \/ /\ Owning(r.ws, p) = {}
          /\ \E c \in Contacts :
               /\ Fresh(c)
               /\ api' = [api EXCEPT ![q] =
                    [r EXCEPT !.todo = <<"insert">> \o rest, !.arg = Tail(@), !.id = c,
                              !.ent = [ws |-> r.ws, phone |-> p, blocked |-> FALSE]]]
  /\ UNCHANGED tables

\* The next row: the contact of that phone is saved with its new name and
\* tags, or one is made.
Lookup(q) ==
  /\ At(q, "lookup")
  /\ LET r == api[q]  p == Head(r.arg)  rest == Tail(r.todo) IN
       \/ \E c \in Owning(r.ws, p) :
            api' = [api EXCEPT ![q] =
              [r EXCEPT !.todo = <<"load", "write">> \o rest, !.arg = Tail(@),
                        !.id = c, !.ent = db[c]]]
       \/ /\ Owning(r.ws, p) = {}
          /\ \E c \in Contacts :
               /\ Fresh(c)
               /\ api' = [api EXCEPT ![q] =
                    [r EXCEPT !.todo = <<"insert">> \o rest, !.arg = Tail(@), !.id = c,
                              !.ent = [ws |-> r.ws, phone |-> p, blocked |-> FALSE]]]
  /\ UNCHANGED tables

\* resolvePhones(): those of the contacts chosen that are not blacklisted.
Resolved(w, chosen) == {c \in chosen : Here(c) /\ db[c].ws = w /\ ~db[c].blocked}

\* Their phones join the recipients; a broadcast without any is refused.
Resolve(q) ==
  /\ At(q, "resolve")
  /\ LET r == api[q]
         drawn == {db[c].phone : c \in Resolved(r.ws, r.arg.chosen)}
         barred == {db[c].phone : c \in {c \in firm : db[c].ws = r.ws}}
     IN  /\ r.arg.listed \/ drawn # {}
         /\ api' = [api EXCEPT ![q] =
              Past([r EXCEPT !.arg = [@ EXCEPT !.drawn = drawn, !.barred = barred]])]
  /\ UNCHANGED tables

\* The broadcast is INSERTed with its recipients: Init of Broadcast.tla.
Publish(q) ==
  /\ At(q, "publish")
  /\ api' = [api EXCEPT ![q] = Past(@)]
  /\ UNCHANGED tables

ContactCalls(q) ==
  \E u \in Users, w \in Workspaces :
    /\ Valid(u)
    /\ \/ \E c \in Contacts :
            \/ CreateContact(q, u, w, c) \/ UpdateContact(q, u, w, c)
            \/ Blacklist(q, u, w, c)
       \/ \E g \in Groups : CreateGroup(q, u, w, g) \/ UpdateGroup(q, u, w, g)
       \/ \E id \in Contacts \cup Groups : RemoveRow(q, u, w, id)
       \/ Import(q, u, w)

ContactSteps(q) == Lookup(q) \/ Resolve(q) \/ Publish(q)

-----------------------------------------------------------------------------
(* Properties.                                                             *)

\* Once a contact was blacklisted while nobody else held it, only a call that
\* names isBlacklisted takes that back: an import of its phone, an edit or a
\* save of an old entity does not, and no broadcast draws its phone from the
\* contacts.
BlacklistHonoured ==
  /\ \A c \in firm : Here(c) /\ db[c].blocked
  /\ \A q \in Requests : At(q, "publish") => api[q].arg.drawn \cap api[q].arg.barred = {}
=============================================================================
