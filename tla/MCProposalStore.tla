-------------------------- MODULE MCProposalStore --------------------------
(* TLC instances of ProposalStore. *)
EXTENDS ProposalStore, TLC

Symmetry == Permutations(Proposals) \cup Permutations(Requests) \cup Permutations(Keys) \cup Permutations(Plans) 


=============================================================================
