-------------------------- MODULE MCCommandChannel --------------------------
(* Small instances of CommandChannel for TLC. *)
EXTENDS CommandChannel, TLC

CONSTANTS p1, p2, s1, s2

MCProducers == {p1, p2}
MCSlots == {s1, s2}
=============================================================================
