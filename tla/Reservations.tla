---------------------------- MODULE Reservations ----------------------------
(***************************************************************************)
(* What a garden promises to the owner of its host: the abstract           *)
(* specification that module VmLedger implements ("atomic VM admission",   *)
(* Garden.VM.Manager).                                                     *)
(*                                                                         *)
(* A VM is admitted once, when the budget has room for it next to          *)
(* everything that still stands.  Only then may anything of it be on the   *)
(* host.  Its claim is given up when nothing of it is left there, or kept  *)
(* for ever when its cleanup failed; in between it does not change,        *)
(* whichever processes are killed and restarted.                           *)
(***************************************************************************)
EXTENDS Naturals, FiniteSetsExt

CONSTANTS
  Id,       \* VM ids
  Budget,   \* what the host may spend on VMs
  Amounts   \* what a VM may ask for

VARIABLES
  claim,    \* Id -> the stage of the VM and what it claims
  occupied  \* the VMs of which something is on the host

resVars == <<claim, occupied>>

Free == [stage |-> "free", resources |-> 0]
Done == [stage |-> "done", resources |-> 0]

ResInit ==
  /\ claim = [i \in Id |-> Free]
  /\ occupied = {}

\* The VMs that count against the budget.
Standing == {i \in Id : claim[i].stage \in {"held", "kept"}}
Claimed(c, ids) == MapThenSumSet(LAMBDA i : c[i].resources, ids)

\* A VM is admitted.
Admit(i, n) ==
  /\ claim[i].stage = "free"
  /\ Claimed(claim, Standing) + n <= Budget
  /\ claim' = [claim EXCEPT ![i] = [stage |-> "held", resources |-> n]]
  /\ UNCHANGED occupied

\* A VM comes to the host, or leaves it.
Use(i) ==
  /\ i \in Standing
  /\ occupied' \in {occupied \cup {i}, occupied \ {i}}
  /\ UNCHANGED claim

\* Some claims are given up and others kept for ever, in one step: a restarted
\* ledger takes note of everything that ended without it.
Resolve(D, K) ==
  /\ \A i \in D \cup K : claim[i].stage = "held"
  /\ D \cap (K \cup occupied) = {}
  /\ claim' = [i \in Id |-> IF i \in D THEN Done
                            ELSE IF i \in K THEN [claim[i] EXCEPT !.stage = "kept"]
                            ELSE claim[i]]
  /\ UNCHANGED occupied

ResNext ==
  \/ \E i \in Id : Use(i) \/ \E n \in Amounts : Admit(i, n)
  \/ \E D, K \in SUBSET Id : Resolve(D, K)

ResSpec == ResInit /\ [][ResNext]_resVars
=============================================================================
