---------------------------- MODULE LicenseLeaves ----------------------------
(***************************************************************************)
(* The collection license_leaves: issuance stores documents in it and the  *)
(* event listener confirms them.                                           *)
(*                                                                         *)
(* The structs carry no bson tags: a field is stored and read under its    *)
(* Go name in lower case, while filters, updates and indexes name it with  *)
(* underscores.                                                            *)
(***************************************************************************)
EXTENDS LicenseRecords

VARIABLE leaves   \* the documents stored

Document == [keccak256leaf : Leaves, keccak256_leaf : {Missing}, synced_at : {Missing, "set"}]

LeafDocument(leaf) ==
  [keccak256leaf |-> leaf, keccak256_leaf |-> Missing, synced_at |-> Missing]

(* The unique index is on keccak256_leaf; a missing field counts as null. *)
Insertable(doc) == \A d \in leaves : d.keccak256_leaf # doc.keccak256_leaf

==============================================================================
