--------------------------- MODULE MCLeaseManager ---------------------------
(* Model values and symmetry for checking LeaseManager with TLC. *)
EXTENDS LeaseManager, TLC

Symmetry == Permutations(Resources) \cup Permutations(Holders)
=============================================================================
