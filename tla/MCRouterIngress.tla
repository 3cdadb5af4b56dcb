-------------------------- MODULE MCRouterIngress --------------------------
(* Small instances of RouterIngress for TLC. *)
EXTENDS RouterIngress

CONSTANTS p1, p2

MCProducers == {p1, p2}
MCSymmetry == Permutations(MCProducers)

\* Multicast noise that coalesces, two ordinary flows, and a protected frame.
MCFrames ==
  {[prio |-> 1, size |-> 1, flow |-> "noise", key |-> "ssdp"],
   [prio |-> 1, size |-> 2, flow |-> "tls", key |-> ""],
   [prio |-> 3, size |-> 1, flow |-> "arp", key |-> ""],
   [prio |-> 2, size |-> 5, flow |-> "dns", key |-> ""]}
=============================================================================
