-------------------------- MODULE MCUpdateService ---------------------------
(* Constants for checking UpdateService with TLC. *)
EXTENDS UpdateService, TLC

CONSTANTS v1, v2

\* Every image takes two chunks, so that a download can stop half way, and
\* two images have the same size, so that verify cannot tell them apart.
MCImageSize == [v \in Images |-> 2]

RuntimeFaults == {"download", "remove", "load", "start", "unload"}
PowerFaults == {"crash", "seedread", "save", "remove"}

Symmetry == Permutations(Apps) \cup Permutations(Images)
=============================================================================
