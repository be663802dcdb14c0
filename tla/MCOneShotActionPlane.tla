------------------------- MODULE MCOneShotActionPlane -------------------------
(* TLC instances of OneShotActionPlane. *)
EXTENDS OneShotActionPlane, TLC

Symmetry == Permutations(Ticket) \cup Permutations(Call) \cup Permutations(Request)

=============================================================================
