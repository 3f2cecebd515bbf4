--------------------------- MODULE LicenseRecords ---------------------------
(* Licence records as the chain side names them, and the value of a field  *)
(* that a database document does not have.                                 *)

CONSTANTS
  Leaves,         \* licence records, one keccak and one MiMC leaf each
  Missing         \* a field the document does not have

ASSUME LicenseRecordsAssumption == Missing \notin Leaves

=============================================================================
