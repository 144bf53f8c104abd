---------------------------- MODULE MCActivator ----------------------------
(* An instance of Activator for TLC: any request next to services requests. *)
EXTENDS Activator, TLC

CONSTANTS p1, p2, s1, s2

Services(seeds) == [peer |-> "both", kind |-> "services", seeds |-> seeds]
From(peer, kind) == [peer |-> peer, kind |-> kind, seeds |-> <<>>]

\* What overlaps, and when, only matters between services requests, so the
\* others are made to p1 alone and only its commands print.
MCRequests ==
  p1 :> ({From("activation", k) : k \in Kind \ {"services"}}
         \cup {From(peer, k) : peer \in Peer, k \in {"network", "nixos"}}
         \cup {Services(<<s1, s2>>)})
  @@ p2 :> {Services(<<s2>>), Services(<<s2, s1>>)}
MCMaxLines == p1 :> 1 @@ p2 :> 0
=============================================================================
