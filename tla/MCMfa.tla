------------------------------- MODULE MCMfa -------------------------------
(* Mfa on a small instance: the model values of the .cfg files.             *)
EXTENDS Mfa, TLC

Symmetry == Permutations(Req)
=============================================================================
