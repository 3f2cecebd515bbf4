----------------------------- MODULE MCLockout -----------------------------
(* TLC instances of Lockout. *)
EXTENDS Lockout, TLC

(* Logins are interchangeable: they are only compared. *)
Symmetry == Permutations(Attempts)
==============================================================================
