--------------------------- MODULE MCAlertChecks ---------------------------
(***************************************************************************)
(* Symmetry for the runs of AlertChecks.                                   *)
(***************************************************************************)
EXTENDS AlertChecks, TLC

Symm == Permutations(Instances)
=============================================================================
