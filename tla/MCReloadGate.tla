---------------------------- MODULE MCReloadGate ----------------------------
\* ReloadGate for TLC: packet threads are interchangeable.
EXTENDS ReloadGate, TLC

ThreadSymmetry == Permutations(Threads)
=============================================================================
