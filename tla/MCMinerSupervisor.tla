------------------------- MODULE MCMinerSupervisor -------------------------
(* Small instances of MinerSupervisor for TLC. *)
EXTENDS MinerSupervisor, TLC

CONSTANTS c1, c2

MCCallers == {c1, c2}
MCSymmetry == Permutations(MCCallers)
=============================================================================
