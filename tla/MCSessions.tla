----------------------------- MODULE MCSessions -----------------------------
(* TLC instances of Sessions. *)
EXTENDS Sessions, TLC

(* Users and requests are interchangeable: they are only compared. *)
Symmetry == Permutations(Users) \cup Permutations(Requests)
==============================================================================
