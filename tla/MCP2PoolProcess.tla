-------------------------- MODULE MCP2PoolProcess --------------------------
(* Small instances of P2PoolProcess for TLC. *)
EXTENDS P2PoolProcess, TLC

CONSTANTS c1, c2

MCClients == {c1, c2}
MCSymmetry == Permutations(MCClients)
=============================================================================
