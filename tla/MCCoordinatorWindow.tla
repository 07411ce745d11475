-------------------------- MODULE MCCoordinatorWindow --------------------------
EXTENDS CoordinatorWindow, TLC

CONSTANTS c1, c2, t1, t2

Symmetry == Permutations({c1, c2}) \cup Permutations({t1, t2})
==============================================================================
