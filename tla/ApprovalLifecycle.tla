-------------------------- MODULE ApprovalLifecycle --------------------------
(***************************************************************************)
(* What the approval store promises about one request: the decision of an     *)
(* approver is recorded and takes effect in one step, while the request is    *)
(* PENDING and at most once per approver; the action is authorised by the     *)
(* approval that completes a quorum which nobody has denied, and by nothing   *)
(* else; a resolved request stays so.                                         *)
(***************************************************************************)

CONSTANTS
    Approvers,
    Quorums      \* the sets of approvers that authorise the action

VARIABLES state, approvals, denials

vars == <<state, approvals, denials>>

Init ==
    /\ state = "ABSENT"
    /\ approvals = {}
    /\ denials = {}

Undecided(p) == p \notin approvals \cup denials

Create ==
    /\ state = "ABSENT"
    /\ state' = "PENDING"
    /\ UNCHANGED <<approvals, denials>>

\* The approval that completes a quorum authorises the action, an earlier one leaves
\* the request PENDING.
Approve(p) ==
    /\ state = "PENDING" /\ Undecided(p)
    /\ approvals' = approvals \cup {p}
    /\ state' = IF approvals' \in Quorums THEN "APPROVED" ELSE "PENDING"
    /\ UNCHANGED denials

Deny(p) ==
    /\ state = "PENDING" /\ Undecided(p)
    /\ denials' = denials \cup {p}
    /\ state' = "DENIED"
    /\ UNCHANGED approvals

Close ==
    /\ state = "PENDING"
    /\ state' \in {"EXPIRED", "CANCELLED", "SUPERSEDED"}
    /\ UNCHANGED <<approvals, denials>>

Execute ==
    /\ state = "APPROVED"
    /\ state' = "EXECUTED"
    /\ UNCHANGED <<approvals, denials>>

Next ==
    \/ Create \/ Close \/ Execute
    \/ \E p \in Approvers : Approve(p) \/ Deny(p)

Spec == Init /\ [][Next]_vars

=============================================================================
