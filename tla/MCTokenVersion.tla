--------------------------- MODULE MCTokenVersion ---------------------------
(* TokenVersion on a small instance: the model values of the .cfg files.    *)
EXTENDS TokenVersion, TLC

Symmetry == Permutations(Req)
=============================================================================
