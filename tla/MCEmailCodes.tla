---------------------------- MODULE MCEmailCodes ----------------------------
(* TLC instances of EmailCodes. *)
EXTENDS EmailCodes, TLC

(* Requests, users and values are interchangeable: they are only compared. *)
Symmetry == Permutations(Requests) \cup Permutations(Users) \cup Permutations(Codes)
==============================================================================
