----------------------------- MODULE MCNcpLink -----------------------------
EXTENDS NcpLink, TLC
Symm == Permutations(Req)
=============================================================================
