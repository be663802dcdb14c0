------------------------------ MODULE MCMediaTurn ------------------------------
(* TLC instances of MediaTurn. *)
EXTENDS MediaTurn

=============================================================================
