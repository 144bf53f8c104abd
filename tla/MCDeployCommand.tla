-------------------------- MODULE MCDeployCommand --------------------------
(* An instance of DeployCommand for TLC: each family of command lines        *)
(* varies the arguments that act together.                                   *)
EXTENDS DeployCommand

Plain == [target |-> "path", to |-> TRUE, name |-> FALSE, type |-> "none", tags |-> "none",
          action |-> "none", copy |-> "none", sudo |-> FALSE, force |-> FALSE,
          override |-> FALSE, reason |-> FALSE, noWait |-> FALSE, connects |-> TRUE]

Targets == {"none", "seed", "path", "host", "job", "configuration", "output", "noattr"}

MCArgs ==
  {[Plain EXCEPT !.target = t, !.to = b, !.type = y] :
     t \in Targets, b \in BOOLEAN, y \in {"none", "service", "nix-darwin"}}
  \cup {[Plain EXCEPT !.target = t, !.copy = c, !.tags = g, !.name = (t = "output")] :
     t \in {"seed", "path", "output"}, c \in {"none", "store"}, g \in {"good", "bad"}}
  \cup {[Plain EXCEPT !.connects = FALSE]}
  \cup {[Plain EXCEPT !.target = "seed", !.force = f, !.override = o, !.reason = r,
                      !.action = a, !.noWait = w] :
     f \in BOOLEAN, o \in BOOLEAN, r \in BOOLEAN, a \in {"none", "restart"}, w \in BOOLEAN}
  \cup {[Plain EXCEPT !.to = FALSE, !.sudo = TRUE, !.copy = c, !.type = y, !.action = a] :
     c \in {"none", "ssh", "store"}, y \in {"none", "service"},
     a \in {"none", "stage", "restart"}}

MCArtifacts ==
  {[manifest |-> m, type |-> y, kind |-> k, host |-> h] :
     m \in {"missing", "invalid", "valid"}, y \in {"service"}, k \in {"nixos", "service"},
     h \in {TRUE}}
  \cup {[manifest |-> "valid", type |-> "home-manager", kind |-> "home-manager", host |-> FALSE],
        [manifest |-> "missing", type |-> "nixos", kind |-> "nixos", host |-> FALSE]}
=============================================================================
