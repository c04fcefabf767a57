---------------------------- MODULE MCTransport ----------------------------
EXTENDS Transport, TLC

CONSTANTS q1, q2, v1

Streams == Permutations(Queries)
=============================================================================
