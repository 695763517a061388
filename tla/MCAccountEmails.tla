-------------------------- MODULE MCAccountEmails --------------------------
(***************************************************************************)
(* Model-checking instance.  It starts where a magic link for the first    *)
(* address was requested, followed and has expired, which keeps the number *)
(* of handlers a behaviour needs small; magic_link_verify marked the user  *)
(* as verified, or failed to, which costs a fault.  From there a behaviour *)
(* goes one of two ways: the user has no other address (Alone; one was     *)
(* added and removed; a call may fail or a second token be issued, not     *)
(* both), or has added two more and followed the link of one of them or of *)
(* both, and another account was deleted (WithRows).                       *)
(***************************************************************************)
EXTENDS AccountEmails, TLC

Anything == Permutations(Requests) \cup Permutations(Addresses)

SignedInOnce(a, marked) ==
  /\ users[1] = [NewUser(a) EXCEPT !.verified = marked]
  /\ sessions = {1}
  /\ req = [r \in Requests |-> Idle]
  /\ resets = [n \in Tokens |-> 0] /\ overlaps = [n \in Tokens |-> 0]
  /\ starts = MaxStarts

Alone ==
  \E a \in Addresses, marked \in BOOLEAN :
    /\ users = [u \in Users |-> IF u = 1 THEN [NewUser(a) EXCEPT !.verified = marked] ELSE Never]
    /\ SignedInOnce(a, marked) /\ followed = {a}
    /\ extras = [x \in Rows |-> IF x = 1 THEN Deleted ELSE Never]
    /\ faults \in {0, IF marked THEN MaxFaults ELSE MaxFaults - 1}
    /\ mail = {} /\ lastToken = faults + 1

\* An additional address of the user whose link with token n was mailed.
Added(a, n, verified) ==
  [row |-> "here", owner |-> 1, email |-> a, verified |-> verified,
   pending |-> IF verified THEN 0 ELSE n, stale |-> FALSE]

WithRows ==
  \E a, b, c \in Addresses, marked, second \in BOOLEAN :
    /\ Cardinality({a, b, c}) = 3
    /\ users = [u \in Users |-> IF u = 1 THEN [NewUser(a) EXCEPT !.verified = marked] ELSE Deleted]
    /\ SignedInOnce(a, marked) /\ followed = {a, b} \cup IF second THEN {c} ELSE {}
    /\ extras = [x \in Rows |-> IF x = 1 THEN Added(b, 1, TRUE)
                                ELSE IF x = 2 THEN Added(c, 2, second) ELSE Never]
    /\ mail = {[kind |-> "extra", token |-> 1, to |-> b], [kind |-> "extra", token |-> 2, to |-> c]}
    /\ lastToken = 2
    /\ faults = MaxFaults

MCSpec == (Alone \/ WithRows) /\ [][Next]_vars
=============================================================================
