------------------------------- MODULE MCGoal -------------------------------
EXTENDS Goal, TLC

CONSTANTS g1, g2, r1, r2

Symmetry == Permutations({g1, g2}) \cup Permutations({r1, r2})
=============================================================================
