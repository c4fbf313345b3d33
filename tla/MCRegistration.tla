--------------------------- MODULE MCRegistration ---------------------------
(* Registration with three transactions, so that one that waits for another *)
(* may be overtaken by a third.                                            *)
EXTENDS Registration
=============================================================================
