------------------------------- MODULE MCJobs -------------------------------
(* Two sessions and the unscoped legacy id; sessions are interchangeable. *)
EXTENDS Jobs, TLC

CONSTANTS s1, s2

MCSessions == {s1, s2}
Symmetry == Permutations(MCSessions)
=============================================================================
