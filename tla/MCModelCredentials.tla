------------------------- MODULE MCModelCredentials -------------------------
(* The model-checked instance of ModelCredentials: two browser tabs activate   *)
(* the same draft.                                                             *)
EXTENDS ModelCredentials

TwoRequests == {"first", "second"}
=============================================================================
