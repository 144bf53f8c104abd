--------------------------- MODULE DeploymentRow ---------------------------
(***************************************************************************)
(* What the server promises to anyone who reads deployments through its    *)
(* API (GET /api/v1/deployments/:sid): the abstract specification that     *)
(* module Deployments implements and module DeployCommand relies on.       *)
(*                                                                         *)
(* A deployment appears without a result, is handed to its garden any      *)
(* number of times, and is resolved.  Once resolved it stays resolved,     *)
(* but its state and its result may still change: a late report overwrites *)
(* a row that was finalized, and a cancellation one that was completed.    *)
(***************************************************************************)
CONSTANT Id

VARIABLES
  shown,    \* Id -> the state a reader sees, "absent" if there is no such row
  outcome   \* Id -> the result a reader sees

rowVars == <<shown, outcome>>

OpenStates == {"created", "dispatched", "acknowledged"}
EndStates == {"completed", "stale", "canceled"}
Outcomes == {"success", "failure", "partial"}

RowTypeOK ==
  /\ shown \in [Id -> OpenStates \cup EndStates \cup {"absent"}]
  /\ outcome \in [Id -> Outcomes \cup {"none"}]

RowInit ==
  /\ shown = [d \in Id |-> "absent"]
  /\ outcome = [d \in Id |-> "none"]

\* A row is inserted.
Appear(d) ==
  /\ shown[d] = "absent"
  /\ shown' = [shown EXCEPT ![d] = "dispatched"]
  /\ UNCHANGED outcome

\* Some open rows are dispatched again or acknowledged, in one statement.
Hand(D, s) ==
  /\ \A d \in D : shown[d] \in OpenStates
  /\ shown' = [d \in Id |-> IF d \in D THEN s ELSE shown[d]]
  /\ UNCHANGED outcome

\* A row is resolved, or resolved anew.
Resolve(d, s, r) ==
  /\ shown[d] # "absent"
  /\ shown' = [shown EXCEPT ![d] = s]
  /\ outcome' = [outcome EXCEPT ![d] = r]

RowNext ==
  \/ \E d \in Id : Appear(d)
  \/ \E D \in SUBSET Id, s \in OpenStates : Hand(D, s)
  \/ \E d \in Id, s \in EndStates, r \in Outcomes : Resolve(d, s, r)

RowSpec == RowInit /\ [][RowNext]_rowVars

\* No row stays open.
RowsEnd == \A d \in Id : shown[d] \in OpenStates ~> shown[d] \in EndStates

FairRowSpec == RowSpec /\ RowsEnd
=============================================================================
