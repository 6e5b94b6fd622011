------------------------------ MODULE Accounts ------------------------------
(***************************************************************************)
(* Users and their refresh tokens: src/src/modules/users and               *)
(* src/src/modules/auth.  The cache keeps one refresh token per user, the  *)
(* last one stored, in the memory of the process.  A token is a JWT of     *)
(* user and second: tokens of one user signed in the same second are       *)
(* equal.  They are numbered here by the seconds in which any was signed.  *)
(***************************************************************************)
EXTENDS Tables

CONSTANT MaxTokens      \* bound: seconds in which a user's tokens are signed

ASSUME MaxTokensAssumption == MaxTokens \in Nat \ {0}

VARIABLES
  cache,     \* the refresh token stored per user
  issued,    \* the tokens ever signed per user (not in the code)
  dead       \* the tokens superseded for good per user (not in the code)

tokens == <<cache, issued, dead>>

Token == 1..MaxTokens

-----------------------------------------------------------------------------
(* The handlers.                                                           *)

Account(op, todo, u, ent) == Call(op, todo, u, Nil, u, <<>>, ent, Nil)

\* The email is not registered: hash, INSERT, issueTokens().
Register(q, u) ==
  /\ ~Here(u) /\ u \notin removed
  /\ Begin(q, Account("register", <<"insert", "sign", "store">>, u, Bare))

\* validateCredentials() finds the user, and the password matches.
Login(q, u) == Here(u) /\ Begin(q, Account("login", <<"sign", "store">>, u, Nil))

\* The token presented is the one stored; the user may be gone.
Refresh(q, u) ==
  \E t \in issued[u] :
    cache[u] = t /\ Begin(q, Account("refresh", <<"sign", "store">>, u, Nil))

Logout(q, u) == Valid(u) /\ Begin(q, Account("logout", <<"forget">>, u, Nil))

\* update() and changePassword(): read, hash, save().
UpdateUser(q, u) == Valid(u) /\ Begin(q, Account("updateUser", <<"find", "load", "write">>, u, Nil))

RemoveUser(q, u) == Valid(u) /\ Begin(q, Account("removeUser", <<"find", "delete">>, u, Nil))

-----------------------------------------------------------------------------
(* The awaits on the signer and on the cache.                              *)

\* Another call has signed a token for u and is storing it.
StoredByOther(q, u) == \E p \in Requests \ {q} : At(p, "store") /\ api[p].id = u

\* The tokens of u that are superseded for good after q stored t or forgot
\* one: with no other call about to store its own, all but t.
DeadAfter(q, u, t) == dead[u] \cup IF StoredByOther(q, u) THEN {} ELSE issued[u] \ {t}

\* signAsync(), in the second of the last token of the user or in a later one.
Sign(q) ==
  /\ At(q, "sign")
  /\ LET u == api[q].id
         last == Cardinality(issued[u])
     IN  \E t \in {last, last + 1} \cap Token :
           /\ issued' = [issued EXCEPT ![u] = @ \cup {t}]
           /\ dead' = [dead EXCEPT ![u] = @ \ {t}]
           /\ api' = [api EXCEPT ![q] = Past([@ EXCEPT !.arg = t])]
  /\ UNCHANGED cache

\* Mutant: the old token stays when another is issued.
StoreIfNone(q) ==
  /\ At(q, "store")
  /\ LET u == api[q].id  t == api[q].arg IN
       /\ cache' = IF cache[u] = Nil THEN [cache EXCEPT ![u] = t] ELSE cache
       /\ dead' = [dead EXCEPT ![u] = DeadAfter(q, u, t)]
  /\ api' = [api EXCEPT ![q] = Past(@)]
  /\ UNCHANGED issued

Store(q) ==
  /\ At(q, "store")
  /\ LET u == api[q].id  t == api[q].arg IN
       /\ cache' = [cache EXCEPT ![u] = t]
       /\ dead' = [dead EXCEPT ![u] = DeadAfter(q, u, t)]
  /\ api' = [api EXCEPT ![q] = Past(@)]
  /\ UNCHANGED issued

Forget(q) ==
  /\ At(q, "forget")
  /\ LET u == api[q].id IN
       /\ cache' = [cache EXCEPT ![u] = Nil]
       /\ dead' = [dead EXCEPT ![u] = DeadAfter(q, u, Nil)]
  /\ api' = [api EXCEPT ![q] = Past(@)]
  /\ UNCHANGED issued

AccountCalls(q) ==
  \E u \in Users :
    \/ Register(q, u) \/ Login(q, u) \/ Refresh(q, u) \/ Logout(q, u)
    \/ UpdateUser(q, u) \/ RemoveUser(q, u)

TokenSteps(q) == Sign(q) \/ Store(q) \/ Forget(q)

-----------------------------------------------------------------------------
(* Properties.                                                             *)

TokensOK ==
  /\ cache \in [Users -> Token \cup {Nil}]
  /\ issued \in [Users -> SUBSET Token] /\ dead \in [Users -> SUBSET Token]

\* A refresh token that a finished login, refresh or logout superseded is
\* never accepted again: refresh() takes only the stored token, and only a
\* call that had already signed its own may store over the outcome.
SupersededStaysDead == \A u \in Users : cache[u] \notin dead[u]
=============================================================================
