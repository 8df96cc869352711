------------------------------- MODULE MCMVCC --------------------------------
EXTENDS MVCC, TLC

Symmetry == Permutations(Trx) \cup Permutations(Reader)

=============================================================================
