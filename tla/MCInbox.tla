------------------------------ MODULE MCInbox ------------------------------
(* People, watchers and agents are model values. *)
EXTENDS Inbox

=============================================================================
