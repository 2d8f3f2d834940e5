------------------------------ MODULE MCRelease ------------------------------
(***************************************************************************)
(* Release for TLC: two operators.                                         *)
(***************************************************************************)
EXTENDS Release, TLC

Symmetry == Permutations(Operators)
=============================================================================
