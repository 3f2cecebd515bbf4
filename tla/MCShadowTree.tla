---------------------------- MODULE MCShadowTree ----------------------------
(* Shadow tree: calls and leaves are model values. *)
EXTENDS ShadowTree, TLC

Symmetry == Permutations(Requests) \cup Permutations(Leaves)

=============================================================================
