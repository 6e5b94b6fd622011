------------------------------- MODULE Outbox -------------------------------
(***************************************************************************)
(* What a queue of outgoing requests promises about each item it accepted, *)
(* whatever the retries, restarts and edits of the modules that implement  *)
(* it (Webhooks.tla, Messages.tla) do:                                     *)
(*                                                                         *)
(*   - an item is settled once: delivered, dropped or failed for good;     *)
(*   - it is called delivered only if a request for it backs that: one the *)
(*     subscriber of a webhook took in, one OpenWA answered with a 2xx;    *)
(*   - no request goes out for an item before it is accepted or after it   *)
(*     is settled.                                                         *)
(*                                                                         *)
(* Delivery is at least once: the request may go out several times, and an *)
(* item called failed may have been carried out all the same.              *)
(***************************************************************************)
EXTENDS Naturals

CONSTANT Items

VARIABLES outcome,   \* what became of each item
          requests,  \* how often the other side was asked to carry it out
          backing    \* how many of these requests back calling it delivered

Accept(i) ==
  /\ outcome[i] = "none"
  /\ outcome' = [outcome EXCEPT ![i] = "pending"]
  /\ UNCHANGED <<requests, backing>>

Request(i) ==
  /\ outcome[i] = "pending"
  /\ requests' = [requests EXCEPT ![i] = @ + 1]
  /\ backing' \in {backing, [backing EXCEPT ![i] = @ + 1]}
  /\ UNCHANGED outcome

Settle(i, as) ==
  /\ outcome[i] = "pending"
  /\ as = "delivered" => backing[i] > 0
  /\ outcome' = [outcome EXCEPT ![i] = as]
  /\ UNCHANGED <<requests, backing>>

OutboxInit ==
  /\ outcome = [i \in Items |-> "none"]
  /\ requests = [i \in Items |-> 0]
  /\ backing = [i \in Items |-> 0]

OutboxNext ==
  \E i \in Items :
    \/ Accept(i)
    \/ Request(i)
    \/ \E as \in {"delivered", "dropped", "failed"} : Settle(i, as)

OutboxSpec == OutboxInit /\ [][OutboxNext]_<<outcome, requests, backing>>
=============================================================================
