----------------------------- MODULE MCSemiSync -----------------------------
(***************************************************************************)
(* Instances of SemiSync for TLC.                                          *)
(***************************************************************************)
EXTENDS SemiSync, TLC

Symmetry == Permutations(Threads) \cup Permutations(Replicas)

=============================================================================
