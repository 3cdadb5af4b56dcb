-------------------------- MODULE MCStratumEngine --------------------------
(* Small instances of StratumEngine for TLC. *)
EXTENDS StratumEngine

CONSTANTS s1, s2
=============================================================================
