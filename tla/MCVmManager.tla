---------------------------- MODULE MCVmManager ----------------------------
(* Small instances of VmManager for TLC. *)
EXTENDS VmManager, TLC

\* Names, request slots and runs are interchangeable.
Symmetry == Permutations(Ids) \cup Permutations(Clients) \cup Permutations(Runs)
=============================================================================
