----------------------------- MODULE MCPlatform -----------------------------
(***************************************************************************)
(* Platform for TLC: counters that are stopped, or divided, at first.      *)
(***************************************************************************)
EXTENDS Platform, TLC

MCFirstPmcr == {{}, {"D", "LC"}}

Symmetry == Permutations(Processes)
=============================================================================
