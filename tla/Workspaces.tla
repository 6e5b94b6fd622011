----------------------------- MODULE Workspaces -----------------------------
(***************************************************************************)
(* Workspaces, their members and API keys: src/src/modules/workspaces and  *)
(* src/src/modules/api-keys.  Every call of a user has passed the JWT      *)
(* guard, which looks the user up.                                         *)
(***************************************************************************)
EXTENDS Tables

Role(w, u) == IF Here(<<w, u>>) THEN db[<<w, u>>].role ELSE Nil

-----------------------------------------------------------------------------
(* The handlers.                                                           *)

InWorkspace(op, todo, u, w, id, set, ent) == Call(op, todo, u, w, id, set, ent, Nil)

CreateWorkspace(q, u, w) ==
  Fresh(w) /\ Begin(q, InWorkspace("createWorkspace", <<"insert", "load", "write">>,
                                   u, w, w, <<>>, [owner |-> u]))

UpdateWorkspace(q, u, w) ==
  Begin(q, InWorkspace("update", <<"admin", "find", "load", "write">>, u, w, w, <<>>, Nil))

RemoveWorkspace(q, u, w) ==
  Begin(q, InWorkspace("remove", <<"owner", "find", "delete">>, u, w, w, <<>>, Nil))

\* The role may be any string, "owner" too: the DTO asks for no more.  A member
\* is saved under the key (workspace, user): save() SELECTs it, and changes the
\* role of one that was inserted since "absent" looked.
Invite(q, u, w, v) ==
  \E role \in Roles :
    Begin(q, InWorkspace("invite", <<"admin", "invitee", "absent", "load", "write">>,
                         u, w, <<w, v>>, <<>>, [role |-> role]))

RemoveMember(q, u, w, v) ==
  Begin(q, InWorkspace("removeMember", <<"admin", "find", "delete">>, u, w, <<w, v>>, <<>>, Nil))

CreateKey(q, u, w, k) ==
  Fresh(k) /\ Begin(q, InWorkspace("create", <<"admin", "insert">>, u, w, k, <<>>, [ws |-> w]))

RemoveKey(q, u, w, k) ==
  Begin(q, InWorkspace("remove", <<"admin", "find", "delete">>, u, w, k, <<>>, Nil))

\* validate() of the key a caller presents: it is there, and saved with the
\* time of its use.
Validate(q, k) ==
  /\ Here(k)
  /\ Begin(q, InWorkspace("validate", <<"load", "write">>, Nil, db[k].ws, k, <<>>, db[k]))

-----------------------------------------------------------------------------
(* The awaits on membership and workspace: assertMember(), assertRole(),   *)
(* the invited user, no membership yet, getOpenwaCredentials().            *)

\* Mutant: invite() does not look for a membership.
GrantedTwice(r) ==
  LET step == Head(r.todo) IN
    CASE step = "member"  -> Role(r.ws, r.by) # Nil
      [] step = "admin"   -> Role(r.ws, r.by) \in {"owner", "admin"}
      [] step = "owner"   -> Role(r.ws, r.by) = "owner"
      [] step = "invitee" -> Here(r.id[2])
      [] step = "absent"  -> TRUE
      [] step = "creds"   -> Here(r.ws)
      [] OTHER            -> FALSE

\* What each of these awaits must find to go on.
Granted(r) ==
  LET step == Head(r.todo) IN
    CASE step = "member"  -> Role(r.ws, r.by) # Nil
      [] step = "admin"   -> Role(r.ws, r.by) \in {"owner", "admin"}
      [] step = "owner"   -> Role(r.ws, r.by) = "owner"
      [] step = "invitee" -> Here(r.id[2])
      [] step = "absent"  -> ~Here(r.id)
      [] step = "creds"   -> Here(r.ws)
      [] OTHER            -> FALSE

Check(q) ==
  /\ InFlight(q) /\ Granted(api[q])
  /\ api' = [api EXCEPT ![q] = Past(@)]
  /\ UNCHANGED tables

WorkspaceCalls(q) ==
  \/ \E u \in Users, w \in Workspaces :
       /\ Valid(u)
       /\ \/ CreateWorkspace(q, u, w) \/ UpdateWorkspace(q, u, w) \/ RemoveWorkspace(q, u, w)
          \/ \E v \in Users : Invite(q, u, w, v) \/ RemoveMember(q, u, w, v)
          \/ \E k \in Keys : CreateKey(q, u, w, k) \/ RemoveKey(q, u, w, k)
  \/ \E k \in Keys : Validate(q, k)

-----------------------------------------------------------------------------
(* Properties.                                                             *)

\* Workspace w has its owner among its members, with the role "owner", unless
\* the workspace or the owner's account was removed.
HasOwner(w) ==
  \/ w \in removed
  \/ Here(w) /\ (db[w].owner \in removed \/ Role(w, db[w].owner) = "owner")

\* Whoever is a member of a workspace, its owner is one, as owner: until the
\* workspace or the owner's account is removed, no invitation, removal of a
\* member or save of an old entity takes the role from the owner.  (It may be
\* another member who removes the workspace: one invited as "owner".)
OwnerPresent == \A w \in Workspaces, u \in Users : Here(<<w, u>>) => HasOwner(w)
=============================================================================
