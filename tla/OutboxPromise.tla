--------------------------- MODULE OutboxPromise ---------------------------
(***************************************************************************)
(* What an outbox promises for each of its rows, without workers, claims,  *)
(* leases or time (the module comment of email_outbox.rs): a row is        *)
(* pending until it is settled, it is handed to the SMTP server only while *)
(* pending, "sent" means that the server took it, "sent" and "expired" are *)
(* final, and a failed row can be given back to the workers.               *)
(***************************************************************************)
EXTENDS Naturals

CONSTANT Emails

VARIABLES status, delivered

vars == <<status, delivered>>

Init ==
  /\ status = [e \in Emails |-> "absent"]
  /\ delivered = [e \in Emails |-> 0]

Move(e, from, to) ==
  /\ status[e] = from
  /\ status' = [status EXCEPT ![e] = to]
  /\ UNCHANGED delivered

Insert(e) == Move(e, "absent", "pending")

Deliver(e) ==
  /\ status[e] = "pending"
  /\ delivered' = [delivered EXCEPT ![e] = @ + 1]
  /\ UNCHANGED status

ConfirmSent(e) == delivered[e] > 0 /\ Move(e, "pending", "sent")

GiveUp(e) == Move(e, "pending", "failed")

Expire(e) == Move(e, "pending", "expired")

Requeue(e) == Move(e, "failed", "pending")

Next ==
  \E e \in Emails :
    \/ Insert(e) \/ Deliver(e) \/ ConfirmSent(e) \/ GiveUp(e) \/ Expire(e) \/ Requeue(e)

Spec == Init /\ [][Next]_vars
=============================================================================
