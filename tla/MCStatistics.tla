---------------------------- MODULE MCStatistics ----------------------------
(***************************************************************************)
(* Instance of Statistics for TLC.                                         *)
(***************************************************************************)
EXTENDS Statistics, TLC

Symmetry == Permutations(Callers)
=============================================================================
