-------------------------- MODULE MCFragReassembly --------------------------
\* FragReassembly for TLC.
EXTENDS FragReassembly, TLC

CONSTANTS p1, p2
PeerSymmetry == Permutations({p1, p2})
=============================================================================
