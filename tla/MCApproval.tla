----------------------------- MODULE MCApproval -----------------------------
EXTENDS Approval, TLC

CONSTANTS c1, c2, c3, k1, k2, h1, h2

Symmetry == Permutations({c1, c2, c3})
            \cup Permutations({k1, k2}) \cup Permutations({h1, h2})
=============================================================================
