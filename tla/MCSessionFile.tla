--------------------------- MODULE MCSessionFile ---------------------------
EXTENDS SessionFile, TLC
Symmetry == Permutations(Writers) \cup Permutations(Inodes) \cup Permutations(Records)
=============================================================================
