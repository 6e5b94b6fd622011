--------------------------- MODULE RecipientLedger ---------------------------
(***************************************************************************)
(* What a blast promises about each of its recipients, whatever the        *)
(* handlers, the worker, the retries and the restarts of Broadcast.tla do: *)
(*                                                                         *)
(*   - OpenWA is asked to write only to a recipient the report does not    *)
(*     show as settled, so a retried or repeated run never writes to       *)
(*     someone the report already counts;                                  *)
(*   - an entry becomes "sent" only once OpenWA answered a request for it  *)
(*     with a success;                                                     *)
(*   - a settled entry stays as it is until the broadcast is deleted.      *)
(*                                                                         *)
(* It does not promise exactly one message: a request whose outcome was    *)
(* lost (a timeout, a crash before the row was saved) is made again.  Nor  *)
(* does it promise a message for every entry that says "sent": whether     *)
(* OpenWA carried out what it answered with a 2xx is not told by the       *)
(* answer's status, which is all that the report goes by.                  *)
(***************************************************************************)
EXTENDS Naturals

CONSTANT Recipients

VARIABLES rcpt,       \* what the report shows of each recipient
          asked,      \* requests to OpenWA to write to each, carried out or not
          answered    \* recipients a request for whom was answered with a success

Outcomes == {"pending", "sent", "failed", "gone"}

Unsettled(r) == rcpt[r] \in {"pending", "gone"}

LedgerInit ==
  /\ rcpt = [r \in Recipients |-> "pending"]
  /\ asked = [r \in Recipients |-> 0]
  /\ answered = {}

\* A request for r, answered with a success or not.
Request(r) ==
  /\ Unsettled(r)
  /\ asked' = [asked EXCEPT ![r] = @ + 1]
  /\ answered' \in {answered, answered \cup {r}}
  /\ UNCHANGED rcpt

SettleSent(r) ==
  /\ Unsettled(r)
  /\ r \in answered
  /\ rcpt' = [rcpt EXCEPT ![r] = "sent"]
  /\ UNCHANGED <<asked, answered>>

SettleFailed(r) ==
  /\ Unsettled(r)
  /\ rcpt' = [rcpt EXCEPT ![r] = "failed"]
  /\ UNCHANGED <<asked, answered>>

Delete ==
  /\ rcpt' = [r \in Recipients |-> "gone"]
  /\ UNCHANGED <<asked, answered>>

LedgerNext ==
  \/ \E r \in Recipients : Request(r) \/ SettleSent(r) \/ SettleFailed(r)
  \/ Delete

LedgerSpec == LedgerInit /\ [][LedgerNext]_<<rcpt, asked, answered>>
=============================================================================
