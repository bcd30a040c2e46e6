--------------------------- MODULE MCNetworkStart ---------------------------
EXTENDS NetworkStart, TLC
Symm == Permutations(Param)
=============================================================================
