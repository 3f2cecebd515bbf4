--------------------------- MODULE MCQRCredentials ---------------------------
(* TLC instances of QRCredentials. *)
EXTENDS QRCredentials, TLC

(* Requests and drivers are interchangeable: they are only compared. *)
Symmetry ==
  Permutations(Refreshes) \cup Permutations(Scans) \cup Permutations(Credentials)
==============================================================================
