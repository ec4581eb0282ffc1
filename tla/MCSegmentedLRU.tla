--------------------------- MODULE MCSegmentedLRU ---------------------------
EXTENDS SegmentedLRU, TLC

MCSymmetry == Permutations(Key)
=============================================================================
