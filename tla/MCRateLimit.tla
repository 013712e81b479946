---------------------------- MODULE MCRateLimit ----------------------------
(* RateLimit on a small instance: the model values of the .cfg file.        *)
EXTENDS RateLimit, TLC

Symmetry == Permutations(Proc) \cup Permutations(Request)
=============================================================================
