---------------------------- MODULE MCCheckpoint ----------------------------
EXTENDS Checkpoint, TLC

CONSTANTS f1, f2

Symmetry == Permutations({f1, f2})
=============================================================================
