----------------------------- MODULE MCRowLocks -----------------------------
(* RowLocks with four transactions at a time. *)
EXTENDS RowLocks

Connections == {"c1", "c2", "c3", "c4"}
=============================================================================
