----------------------------- MODULE MCAccounts -----------------------------
(* TLC instances of Accounts. *)
EXTENDS Accounts, TLC

(* Requests and addresses are interchangeable: they are only compared. *)
Symmetry == Permutations(Requests) \cup Permutations(Emails)
==============================================================================
