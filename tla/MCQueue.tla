------------------------------ MODULE MCQueue ------------------------------
(* Instances of Queue for TLC.                                             *)
EXTENDS Queue, TLC

CONSTANTS d1, d2, r1, r2, s1, s2

\* Of saves of one kind.
Symmetry == Permutations({r1, r2}) \cup Permutations({s1, s2})
=============================================================================
