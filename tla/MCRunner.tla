------------------------------ MODULE MCRunner ------------------------------
EXTENDS RunnerInvariant, TLC
Symmetry == Permutations(Disks) \cup Permutations(Stages)
=============================================================================
