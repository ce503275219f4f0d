----------------------------- MODULE MCReminder -----------------------------
(* One or two concurrent callers on one reminder. *)
EXTENDS Reminder

=============================================================================
