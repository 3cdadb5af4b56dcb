---------------------------- MODULE MCDHCPServer ----------------------------
(* Small instances of DHCPServer for TLC. *)
EXTENDS DHCPServer, TLC

CONSTANTS c1, c2, c3

MCClients == {c1, c2, c3}
MCSymmetry == Permutations(MCClients)
=============================================================================
