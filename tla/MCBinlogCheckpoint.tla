------------------------ MODULE MCBinlogCheckpoint ------------------------
EXTENDS BinlogCheckpoint, TLC

Symmetry == Permutations(Trx)
=============================================================================
