------------------------------ MODULE MCSignOn ------------------------------
EXTENDS SignOn, TLC

CONSTANTS p1, p2, r1, r2, r3

\* Two requests of one process and one of another.
TwoProcesses == (r1 :> p1) @@ (r2 :> p1) @@ (r3 :> p2)

Symmetry == Permutations(Key) \cup Permutations({r1, r2})
=============================================================================
