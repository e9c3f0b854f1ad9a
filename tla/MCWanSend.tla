----------------------------- MODULE MCWanSend ------------------------------
\* WanSend for TLC: the threads and the WANs are model values.
EXTENDS WanSend

CONSTANTS s1, s2, w1, w2
=============================================================================
