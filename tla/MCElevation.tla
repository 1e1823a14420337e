---------------------------- MODULE MCElevation ----------------------------
EXTENDS Elevation, TLC
Symmetry == Permutations(Windows) \cup Permutations(Scripts) \cup Permutations(Files)
=============================================================================
