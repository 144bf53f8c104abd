--------------------------- MODULE MCDeployments ---------------------------
(* Instances of Deployments for TLC. *)
EXTENDS Deployments, TLC

CONSTANT g1

MCGarden == {g1}
MCGardenOf == [s \in Sub |-> g1]

Symmetry == Permutations(Id) \cup Permutations(Task)
=============================================================================
