----------------------------- MODULE MCAccount -----------------------------
(* Account on a small instance: the model values of the .cfg files.         *)
EXTENDS Account, TLC

Symmetry == Permutations(Req) \cup Permutations(Id) \cup Permutations(Token)
=============================================================================
