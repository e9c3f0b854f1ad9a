------------------------- MODULE MCDaemonLifecycle -------------------------
\* DaemonLifecycle for TLC: profiles a and b share their interfaces, c adds
\* interfaces of its own.
EXTENDS DaemonLifecycle, TLC

CONSTANTS a, b, c

MCIface == [p \in Profiles |-> IF p = c THEN "own" ELSE "shared"]
SharedSymmetry == Permutations({a, b})
=============================================================================
