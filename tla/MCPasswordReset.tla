-------------------------- MODULE MCPasswordReset --------------------------
(* PasswordReset on small sets, with the symmetry of requests and tokens.   *)
EXTENDS PasswordReset, TLC

Symmetry == Permutations(Req) \cup Permutations(Token)
=============================================================================
