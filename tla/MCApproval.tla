----------------------------- MODULE MCApproval -----------------------------
(* Instances of Approval for TLC. *)
EXTENDS Approval

CONSTANTS p1, p2, p3, c1, c2, k1, k2

=============================================================================
