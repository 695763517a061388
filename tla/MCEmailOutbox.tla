--------------------------- MODULE MCEmailOutbox ---------------------------
(***************************************************************************)
(* Values for the runs of EmailOutbox.                                     *)
(***************************************************************************)
EXTENDS EmailOutbox, TLC

CONSTANTS e1, e2

\* backoff_secs, scaled like ClaimWindow: the first delays are shorter than it.
MCBackoff == [a \in 1 .. MaxAttempts |-> a]

Symm == Permutations(Workers)
=============================================================================
