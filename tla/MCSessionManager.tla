-------------------------- MODULE MCSessionManager --------------------------
\* The session table on a small instance: three keys, so that an eviction has
\* a choice; two concurrent lookups, so that stamps go backwards; limits that
\* are unlimited, a table of one and a table of two.
EXTENDS SessionManager, TLC
CONSTANTS k1, k2, k3, c1, c2

MCKeys == {k1, k2, k3}
MCCallers == {c1, c2}
MCSessions == 1 .. 5

\* Keys and callers are interchangeable, and no property here is liveness.
Symmetry == Permutations(MCKeys) \cup Permutations(MCCallers)
=============================================================================
