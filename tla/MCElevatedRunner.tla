-------------------------- MODULE MCElevatedRunner --------------------------
EXTENDS ElevatedRunner, TLC
Symmetry == Permutations(Windows) \cup Permutations(Procs) \cup Permutations(Files)
              \cup Permutations(Disks) \cup Permutations(Stages)
=============================================================================
