--------------------------- MODULE MCNotification ---------------------------
(* Notification with two partitions, of which the reader is at one at most. *)
EXTENDS Notification
=============================================================================
