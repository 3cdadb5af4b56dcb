--------------------------- MODULE MCPacketBridge ---------------------------
(* Small instances of PacketBridge for TLC. *)
EXTENDS PacketBridge, TLC

CONSTANTS p1, p2

MCProducers == {p1, p2}
MCSymmetry == Permutations(MCProducers)
=============================================================================
