-------------------------- MODULE MCAssignmentLog --------------------------
(* Instances of AssignmentLog for TLC. *)
EXTENDS AssignmentLog

CONSTANTS a1, a2

=============================================================================
