-------------------------- MODULE MCOrchestration --------------------------
(* Instances of Orchestration for TLC: one garden. *)
EXTENDS Orchestration, TLC

CONSTANT g1

MCGarden == {g1}
MCGardenOf == [s \in Sub |-> g1]

Symmetry == Permutations(Id)
=============================================================================
