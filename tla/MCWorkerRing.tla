---------------------------- MODULE MCWorkerRing ----------------------------
\* WorkerRing for TLC: the LAN and the worker are model values.
EXTENDS WorkerRing

CONSTANTS l1, w, none
=============================================================================
