---------------------------- MODULE MCPhoneCodes ----------------------------
(* TLC instances of PhoneCodes. *)
EXTENDS PhoneCodes, TLC

(* Requests are interchangeable: they are only compared. *)
Symmetry == Permutations(Requests)
==============================================================================
