------------------------------ MODULE Approval ------------------------------
(***************************************************************************)
(* One durable approval request: the a2a888_approval_request row and its       *)
(* decisions, concurrent ApplyTransition calls from any number of manager      *)
(* replicas, and the ACP permission checks that wait for the outcome.          *)
(*                                                                         *)
(* ApplyTransition is four steps: the caller resolves the eligible approvers   *)
(* and the time, GetRequest, ListDecisions (with the evaluation, which only    *)
(* reads these snapshots), and the transaction that compares the state.        *)
(* Checks of the same action share the request, its name being a hash of the   *)
(* intent.                                                                     *)
(***************************************************************************)
EXTENDS Naturals, FiniteSets

CONSTANTS
    Principals,          \* principals that may ever be named by the policy
    Requester,           \* requester_principal_id
    AgentOwner,          \* executing_agent_owner_id
    ProhibitRequester,   \* prohibit_requester_approval
    ProhibitOwnerSole,   \* prohibit_agent_owner_sole_approval
    RequiredApprovals,   \* required_approvals of the request
    Callers,             \* concurrent ApplyTransition calls
    Checks,              \* permission checks of the action
    None

Decisions == {"APPROVE", "DENY"}
Transitions == Decisions \cup {"EXPIRE", "CANCEL", "SUPERSEDE", "EXECUTE"}

ASSUME ApprovalConstants ==
    /\ IsFiniteSet(Principals)
    /\ RequiredApprovals \in Nat \ {0}
    /\ ProhibitRequester \in BOOLEAN
    /\ ProhibitOwnerSole \in BOOLEAN
    /\ None \notin Principals \cup Transitions

VARIABLES
    state,      \* state column, "ABSENT" before the insert
    count,      \* approval_count column
    decision,   \* outcome of each principal's decision row, or None
    expired,    \* expires_at <= now()
    call,       \* per caller: the ApplyTransition call in progress
    check       \* per check: new, waiting, allowed or denied

vars == <<state, count, decision, expired, call, check>>

RequestStates ==
    {"ABSENT", "PENDING", "APPROVED", "DENIED", "EXPIRED", "CANCELLED", "SUPERSEDED", "EXECUTED"}

\* A call: its arguments, and what it has read so far.
CallType ==
    [pc : {"idle", "get", "list", "commit"}, transition : Transitions \cup {None},
     actor : Principals \cup {None}, eligible : BOOLEAN, late : BOOLEAN,
     state : RequestStates, count : Nat, approvers : SUBSET Principals]

TypeOK ==
    /\ state \in RequestStates
    /\ count \in Nat
    /\ decision \in [Principals -> Decisions \cup {None}]
    /\ expired \in BOOLEAN
    /\ call \in [Callers -> CallType]
    /\ check \in [Checks -> {"new", "waiting", "allowed", "denied"}]

NoCall ==
    [pc |-> "idle", transition |-> None, actor |-> None, eligible |-> FALSE, late |-> FALSE,
     state |-> "ABSENT", count |-> 0, approvers |-> {}]

Init ==
    /\ state = "ABSENT"
    /\ count = 0
    /\ decision = [p \in Principals |-> None]
    /\ expired = FALSE
    /\ call = [c \in Callers |-> NoCall]
    /\ check = [k \in Checks |-> "new"]

ApprovedBy(d) == {p \in Principals : d[p] = "APPROVE"}
DeniedBy(d)   == {p \in Principals : d[p] = "DENY"}

-----------------------------------------------------------------------------
(* ApplyTransition *)

\* ResolveEligibleApprovalApprovers, from the active members the policy names by id,
\* group or role: the owner is struck out only when it would be the one left.
EligibleApprovers(named) ==
    LET others == IF ProhibitRequester THEN named \ {Requester} ELSE named
    IN  IF ProhibitOwnerSole /\ Cardinality(others) = 1 THEN others \ {AgentOwner} ELSE others

\* The caller resolves who may decide from the memberships and groups of that
\* moment, takes the time and calls ApplyTransition.
Begin(c, t, p, named) ==
    /\ call[c].pc = "idle"
    /\ call' = [call EXCEPT ![c] = [NoCall EXCEPT
                   !.pc = "get", !.transition = t, !.actor = p, !.late = expired,
                   !.eligible = p \in EligibleApprovers(named)]]
    /\ UNCHANGED <<state, count, decision, expired, check>>

Return(c) == call' = [call EXCEPT ![c] = NoCall]

GetRequest(c) ==
    /\ call[c].pc = "get"
    /\ IF state = "ABSENT"
       THEN Return(c)
       ELSE call' = [call EXCEPT ![c].pc = "list", ![c].state = state, ![c].count = count]
    /\ UNCHANGED <<state, count, decision, expired, check>>

\* ApplyApprovalTransition: the checks, on the snapshots.
Accepts(k, decided) ==
    \/ /\ k.transition \in Decisions
       /\ k.state = "PENDING" /\ ~k.late
       /\ k.eligible /\ k.actor \notin decided
    \/ k.transition = "EXPIRE" /\ k.state = "PENDING" /\ k.late
    \/ k.transition \in {"CANCEL", "SUPERSEDE"} /\ k.state = "PENDING" /\ ~k.late
    \/ k.transition = "EXECUTE" /\ k.state = "APPROVED"

ListDecisions(c) ==
    /\ call[c].pc = "list"
    /\ IF Accepts(call[c], ApprovedBy(decision) \cup DeniedBy(decision))
       THEN call' = [call EXCEPT ![c].pc = "commit", ![c].approvers = ApprovedBy(decision)]
       ELSE Return(c)
    /\ UNCHANGED <<state, count, decision, expired, check>>

\* ApplyApprovalTransition: its result.
CountAfter(k) == IF k.transition = "APPROVE" THEN Cardinality(k.approvers) + 1 ELSE k.count

\* Mutant: the transition is taken for the state.
StateAfterByName(k) ==
    CASE k.transition = "APPROVE" -> IF CountAfter(k) >= RequiredApprovals THEN "APPROVED" ELSE "PENDING"
      [] OTHER -> k.transition

StateAfter(k) ==
    CASE k.transition = "APPROVE" -> IF CountAfter(k) >= RequiredApprovals THEN "APPROVED" ELSE "PENDING"
      [] k.transition = "DENY" -> "DENIED"
      [] k.transition = "EXPIRE" -> "EXPIRED"
      [] k.transition = "CANCEL" -> "CANCELLED"
      [] k.transition = "SUPERSEDE" -> "SUPERSEDED"
      [] OTHER -> "EXECUTED"

\* The CHECK of the table: approval_count <= required_approvals.
CountAllowed(k) == CountAfter(k) <= RequiredApprovals

\* The insert of the decision row: a second row of the same approver is refused.
Recorded(k) ==
    IF k.transition \in Decisions THEN [decision EXCEPT ![k.actor] = k.transition] ELSE decision

\* Mutant: the state is not compared under the lock.
UnchangedSinceReadAlways(k) == k.transition \in Decisions => decision[k.actor] = None

\* SELECT ... FOR UPDATE compares the state, and only the state, with the snapshot.
\* The unique index has the approver's id as given; every caller here spells it alike.
UnchangedSinceRead(k) ==
    /\ state = k.state
    /\ k.transition \in Decisions => decision[k.actor] = None

\* The transaction, rolled back when the request changed, the insert fails or the
\* update breaks the CHECK.
Commit(c) ==
    /\ call[c].pc = "commit"
    /\ IF UnchangedSinceRead(call[c]) /\ CountAllowed(call[c])
       THEN /\ decision' = Recorded(call[c])
            /\ state' = StateAfter(call[c])
            /\ count' = CountAfter(call[c])
       ELSE UNCHANGED <<decision, state, count>>
    /\ Return(c)
    /\ UNCHANGED <<expired, check>>

-----------------------------------------------------------------------------
(* NewChecker and WaitForDecision *)

\* CreateRequest does nothing when the request exists already.
CreateRequest(k) ==
    /\ check[k] = "new"
    /\ state' = IF state = "ABSENT" THEN "PENDING" ELSE state
    /\ check' = [check EXCEPT ![k] = "waiting"]
    /\ UNCHANGED <<count, decision, expired, call>>

\* Mutant: a poll waits for APPROVED and DENIED only.
OutcomeOfDecided ==
    CASE state = "APPROVED" -> "allowed" [] state = "DENIED" -> "denied" [] OTHER -> "waiting"

\* Mutant: every resolved request lets the action through.
OutcomeOfResolved == IF state = "PENDING" THEN "waiting" ELSE "allowed"

\* What one poll of WaitForDecision makes of the state.
Outcome ==
    CASE state = "PENDING" -> "waiting" [] state = "APPROVED" -> "allowed" [] OTHER -> "denied"

\* A poll.  After an allow the checker calls ApplyTransition for EXECUTE with a nil
\* policy: the evaluation refuses it and the error is dropped.
Poll(k) ==
    /\ check[k] = "waiting"
    /\ check' = [check EXCEPT ![k] = Outcome]
    /\ UNCHANGED <<state, count, decision, expired, call>>

\* The caller's context ends, or the insert or a read fails: the check denies.
CheckFails(k) ==
    /\ check[k] \in {"new", "waiting"}
    /\ check' = [check EXCEPT ![k] = "denied"]
    /\ UNCHANGED <<state, count, decision, expired, call>>

-----------------------------------------------------------------------------
(* Time and failures *)

Expires ==
    /\ state # "ABSENT" /\ ~expired
    /\ expired' = TRUE
    /\ UNCHANGED <<state, count, decision, call, check>>

\* A call of ApplyTransition fails before its commit, or its process dies.
CallFails(c) ==
    /\ call[c].pc # "idle"
    /\ Return(c)
    /\ UNCHANGED <<state, count, decision, expired, check>>

-----------------------------------------------------------------------------
CallStep(c) == GetRequest(c) \/ ListDecisions(c) \/ Commit(c)

Next ==
    \/ \E c \in Callers : CallStep(c) \/ CallFails(c)
    \/ \E c \in Callers, t \in Decisions, p \in Principals, named \in SUBSET Principals :
            Begin(c, t, p, named)
    \/ \E c \in Callers, t \in Transitions \ Decisions : Begin(c, t, None, {})
    \/ \E k \in Checks : CreateRequest(k) \/ Poll(k) \/ CheckFails(k)
    \/ Expires

Spec == Init /\ [][Next]_vars

\* The ticker of a check keeps polling; nobody is assumed to decide, to expire
\* the request or to cancel anything.
FairSpec == Spec /\ \A k \in Checks : WF_vars(Poll(k))

-----------------------------------------------------------------------------
(* Properties *)

Quorums == {Q \in SUBSET Principals : Cardinality(Q) >= RequiredApprovals}

Lifecycle == INSTANCE ApprovalLifecycle WITH
    Approvers <- Principals, approvals <- ApprovedBy(decision), denials <- DeniedBy(decision)

\* A check lets the action through only on a quorum of distinct approvers with no
\* denial, whatever calls raced for the request before and after its poll.
AllowedByQuorum ==
    \A k \in Checks : check[k] = "allowed" =>
        /\ Cardinality(ApprovedBy(decision)) >= RequiredApprovals
        /\ DeniedBy(decision) = {}

\* A resolved request ends every wait for it, in whatever state the polls find it.
ResolvedEndsWait ==
    \A k \in Checks :
        check[k] = "waiting" /\ state # "PENDING" ~> check[k] \in {"allowed", "denied"}

\* A decision is recorded once per approver, and what is resolved stays so: no stale
\* caller moves a request out of a terminal state (APPROVED may still be executed),
\* adds a decision to a resolved one, or changes or removes a recorded decision.
ResolvedFinal ==
    [][/\ \A p \in Principals : decision[p] # None => decision'[p] = decision[p]
       /\ state \notin {"ABSENT", "PENDING"} =>
             /\ UNCHANGED decision
             /\ state' = state \/ (state = "APPROVED" /\ state' = "EXECUTED")]_vars

-----------------------------------------------------------------------------
(* What the comment and the requirement say, and the code does not do *)

\* "ApplyTransition evaluates and persists an approval transition atomically": three
\* reads and a transaction look like the one step of ApprovalLifecycle, in which the
\* approval that completes the quorum authorises the action.
ImplementsLifecycle == Lifecycle!Spec

=============================================================================
