----------------------------- MODULE MCVmLedger -----------------------------
(* Instances of VmLedger for TLC. *)
EXTENDS VmLedger, TLC

Symmetry == Permutations(Id)
=============================================================================
