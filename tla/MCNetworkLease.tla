-------------------------- MODULE MCNetworkLease --------------------------
(* Instances of NetworkLease for TLC. *)
EXTENDS NetworkLease, TLC

CONSTANTS i1, i2, o1, o2

\* One garden, or two gardens that share the address pool.
OneGarden == [o \in Owner |-> i1]
TwoGardens == [o \in Owner |-> IF o = o1 THEN i1 ELSE i2]
OwnBucket == [e \in Execution |-> e]

Symmetry == Permutations(Token) \cup Permutations(Request)
===========================================================================
