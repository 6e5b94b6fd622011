------------------------------ MODULE Sessions ------------------------------
(***************************************************************************)
(* The sessions of src/src/modules/sessions, each the record of a session  *)
(* of the OpenWA server, which runs or not.  What a call asks of OpenWA    *)
(* may be carried out although its answer is an error or a timeout, and    *)
(* may not be although it is a 2xx, whose body nothing reads.              *)
(***************************************************************************)
EXTENDS Workspaces

VARIABLES
  running,   \* the sessions that run on OpenWA
  excused    \* sessions that a removal did not stop at OpenWA, or a start
             \* overlapping it started again (not in the code)

remote == <<running, excused>>

-----------------------------------------------------------------------------
(* The handlers.                                                           *)

CreateSession(q, u, w, s) ==
  Fresh(s) /\ Begin(q, InWorkspace("create", <<"admin", "insert">>, u, w, s, <<>>,
                                   [ws |-> w, status |-> "idle"]))

UpdateSession(q, u, w, s) ==
  Begin(q, InWorkspace("update", <<"member", "find", "load", "write">>, u, w, s, <<>>, Nil))

RemoveSession(q, u, w, s) ==
  Begin(q, InWorkspace("removeSession",
    <<"admin", "member", "find", "creds", "terminate", "delete">>, u, w, s, <<>>, Nil))

Start(q, u, w, s) ==
  Begin(q, InWorkspace("start", <<"member", "find", "creds", "load", "write", "launch">>,
                       u, w, s, [status |-> "connecting"], Nil))

Stop(q, u, w, s) ==
  Begin(q, InWorkspace("stop", <<"member", "find", "creds", "terminate", "load", "write">>,
                       u, w, s, [status |-> "disconnected"], Nil))

GetStatus(q, u, w, s) ==
  Begin(q, InWorkspace("getStatus", <<"member", "find", "creds", "ask", "load", "write">>,
                       u, w, s, <<>>, Nil))

-----------------------------------------------------------------------------
(* The awaits on OpenWA.                                                   *)

Removing(s) == \E p \in Requests : InFlight(p) /\ api[p].op = "removeSession" /\ api[p].id = s

\* Mutant: a removal leaves OpenWA alone.
TerminateStopOnly(q) ==
  /\ At(q, "terminate")
  /\ running' = IF api[q].op = "stop" THEN running \ {api[q].id} ELSE running
  /\ api' = [api EXCEPT ![q] = Past(@)]
  /\ UNCHANGED <<tables, excused>>

\* terminateSession() returns, carried out or not: the call goes on.
Terminate(q) ==
  /\ At(q, "terminate")
  /\ LET s == api[q].id IN
       \/ running' = running \ {s} /\ UNCHANGED excused
       \/ /\ s \in running /\ UNCHANGED running
          /\ excused' = IF api[q].op = "removeSession" THEN excused \cup {s} ELSE excused
  /\ api' = [api EXCEPT ![q] = Past(@)]
  /\ UNCHANGED tables

\* terminateSession() rejects, carried out or not: a removal goes on.
TerminateFails(q) ==
  /\ At(q, "terminate")
  /\ running' \in {running, running \ {api[q].id}}
  /\ IF api[q].op = "removeSession"
     THEN /\ api' = [api EXCEPT ![q] = Past(@)]
          /\ excused' = excused \cup {api[q].id}
     ELSE /\ api' = [api EXCEPT ![q] = Ended]
          /\ UNCHANGED excused
  /\ UNCHANGED tables

\* startSession(), the last thing start() does: carried out, or not.
Launch(q) ==
  /\ At(q, "launch")
  /\ LET s == api[q].id IN
       \/ /\ running' = running \cup {s}
          /\ excused' = IF Removing(s) \/ ~Here(s) THEN excused \cup {s} ELSE excused
       \/ UNCHANGED remote
  /\ api' = [api EXCEPT ![q] = Past(@)]
  /\ UNCHANGED tables

\* mapState() of what OpenWA may answer; nothing for an error.
Answers(s) == IF s \in running THEN Statuses \ {"idle"} ELSE {"disconnected"}

\* getStatus() saves what differs, and is done when nothing does.
Ask(q) ==
  /\ At(q, "ask")
  /\ LET r == api[q] IN
       \/ \E a \in Answers(r.id) \ {r.ent.status} :
            api' = [api EXCEPT ![q] = Past([r EXCEPT !.ent.status = a])]
       \/ api' = [api EXCEPT ![q] = Ended]
  /\ UNCHANGED <<tables, remote>>

SessionCalls(q) ==
  \E u \in Users, w \in Workspaces, s \in Sessions :
    /\ Valid(u)
    /\ \/ CreateSession(q, u, w, s) \/ UpdateSession(q, u, w, s) \/ RemoveSession(q, u, w, s)
       \/ Start(q, u, w, s) \/ Stop(q, u, w, s) \/ GetStatus(q, u, w, s)

RemoteSteps(q) == Terminate(q) \/ TerminateFails(q) \/ Launch(q) \/ Ask(q)

-----------------------------------------------------------------------------
(* Properties.                                                             *)

RemoteOK == running \in SUBSET Sessions /\ excused \in SUBSET Sessions

\* A session that runs on OpenWA can still be stopped: its row is there, and
\* the owner of its workspace is a member, who may call stop().  Unless OpenWA
\* did not stop it when it was removed, or a start overlapped the removal; or
\* the workspace, or its owner's account, was removed while it ran.
NoOrphan == \A s \in running : s \in excused \/ (Here(s) /\ HasOwner(db[s].ws))
=============================================================================
