---------------------------- MODULE MCReminders ----------------------------
(* Reminders with one assignment whose event is refused, and one behind it. *)
EXTENDS Reminders
=============================================================================
