------------------------- MODULE MCRuntimeOwnerLease -------------------------
(* TLC instances of RuntimeOwnerLease. *)
EXTENDS RuntimeOwnerLease, TLC

Symmetry == Permutations(Proc) \cup Permutations(Inode)

=============================================================================
