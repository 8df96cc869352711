---------------------------- MODULE MCGroupCommit ----------------------------
(* Three threads, one callback and values up to MaxValue. *)
EXTENDS GroupCommitClient, TLC

Symmetry == Permutations(Thread) \cup Permutations(Callback)

=============================================================================
