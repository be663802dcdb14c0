------------------------- MODULE MCMigrationCutover -------------------------
(* The model-checked instances of MigrationCutover. *)
EXTENDS MigrationCutover, TLC

CONSTANTS c1, c2

TwoCalls == {c1, c2}
Symmetry == Permutations(TwoCalls)
=============================================================================
