------------------------------- MODULE MCMFA -------------------------------
(* TLC instances of MFA. *)
EXTENDS MFA, TLC

(* Requests and secrets are interchangeable: they are only compared. *)
Symmetry == Permutations(Requests) \cup Permutations(Secrets)
==============================================================================
