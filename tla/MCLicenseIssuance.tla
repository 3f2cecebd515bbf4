-------------------------- MODULE MCLicenseIssuance --------------------------
(* Issuance of licences: requests and licence records are model values. *)
EXTENDS LicenseIssuance, TLC

Symmetry == Permutations(Requests) \cup Permutations(Leaves)

==============================================================================
