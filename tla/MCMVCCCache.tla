---------------------------- MODULE MCMVCCCache -----------------------------
EXTENDS MVCCCache, TLC

MCSymmetry == Permutations(Conn) \cup Permutations(Oid)
=============================================================================
