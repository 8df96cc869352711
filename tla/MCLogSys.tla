------------------------------ MODULE MCLogSys -------------------------------
EXTENDS LogSys, TLC

Symmetry == Permutations(Committers)

=============================================================================
