--------------------------- MODULE ApprovalProofs ---------------------------
(***************************************************************************)
(* Approval, for any principals, quorum, callers and permission checks: a      *)
(* check allows the action only on an undenied quorum, and what is decided and *)
(* resolved stays so.  Calls that do not overlap implement ApprovalLifecycle.  *)
(***************************************************************************)
EXTENDS Approval, FiniteSetTheorems, TLAPS

\* What a call knows.  A decision has an actor; an accepted call saw the one state its
\* transition leaves from; the approvals it saw have not gone away, which is why a
\* count that ignores later approvals can only be too small.
CallInv ==
    \A c \in Callers :
        /\ call[c].transition \in Decisions => call[c].actor \in Principals
        /\ call[c].pc # "idle" => call[c].transition \in Transitions
        /\ call[c].pc = "commit" =>
              /\ call[c].transition = "EXECUTE" => call[c].state = "APPROVED"
              /\ call[c].transition # "EXECUTE" => call[c].state = "PENDING"
              /\ call[c].approvers \subseteq ApprovedBy(decision)

\* The state column and the decision rows agree.
StateInv ==
    /\ state \in {"APPROVED", "EXECUTED"} =>
          Cardinality(ApprovedBy(decision)) >= RequiredApprovals /\ DeniedBy(decision) = {}
    /\ state \in {"ABSENT", "PENDING"} => DeniedBy(decision) = {}

\* APPROVED is left for EXECUTED only, so an allowed check stays justified.
AllowedInv == \A k \in Checks : check[k] = "allowed" => state \in {"APPROVED", "EXECUTED"}

IInv == TypeOK /\ CallInv /\ StateInv /\ AllowedInv

-----------------------------------------------------------------------------
(* Decisions *)

\* Sets of principals are finite.
LEMMA PrincipalSets ==
    ASSUME NEW S \in SUBSET Principals
    PROVE  IsFiniteSet(S) /\ Cardinality(S) \in Nat
  BY FS_Subset, FS_CardinalityType, ApprovalConstants

\* A recorded approval adds its actor to the approvals and to nothing else.
LEMMA RecordApproval ==
    ASSUME TypeOK, NEW p \in Principals, decision[p] = None
    PROVE  LET d == [decision EXCEPT ![p] = "APPROVE"]
           IN  /\ d \in [Principals -> Decisions \cup {None}]
               /\ p \notin ApprovedBy(decision) /\ p \notin DeniedBy(decision)
               /\ ApprovedBy(d) = ApprovedBy(decision) \cup {p}
               /\ DeniedBy(d) = DeniedBy(decision)
  BY ApprovalConstants DEF TypeOK, ApprovedBy, DeniedBy, Decisions, Transitions

LEMMA RecordDenial ==
    ASSUME TypeOK, NEW p \in Principals, decision[p] = None
    PROVE  LET d == [decision EXCEPT ![p] = "DENY"]
           IN  /\ d \in [Principals -> Decisions \cup {None}]
               /\ p \notin ApprovedBy(decision) /\ p \notin DeniedBy(decision)
               /\ ApprovedBy(d) = ApprovedBy(decision)
               /\ DeniedBy(d) = DeniedBy(decision) \cup {p}
  BY ApprovalConstants DEF TypeOK, ApprovedBy, DeniedBy, Decisions, Transitions

\* An approver who is new to the decisions makes the quorum at least as large as the
\* count of a caller that saw only some of the earlier approvals.
LEMMA StaleCount ==
    ASSUME NEW A \in SUBSET Principals, NEW B \in SUBSET A,
           NEW p \in Principals, p \notin A
    PROVE  Cardinality(A \cup {p}) >= Cardinality(B) + 1
<1>1. IsFiniteSet(A) /\ Cardinality(A) \in Nat /\ Cardinality(B) \in Nat
  BY PrincipalSets
<1>2. Cardinality(B) <= Cardinality(A)
  BY <1>1, FS_Subset
<1>3. Cardinality(A \cup {p}) = Cardinality(A) + 1
  BY <1>1, FS_AddElement
<1> QED BY <1>1, <1>2, <1>3

-----------------------------------------------------------------------------
(* The transaction *)

\* What the commit of a call that saw the approvals of B does: nothing; an approval,
\* which is counted from B; a denial; the closing of a pending request; or the
\* execution of an approved one.
Effect(B) ==
    \/ UNCHANGED <<state, decision>>
    \/ /\ state = "PENDING"
       /\ \E p \in Principals :
             /\ p \notin ApprovedBy(decision) /\ p \notin DeniedBy(decision)
             /\ ApprovedBy(decision)' = ApprovedBy(decision) \cup {p}
             /\ DeniedBy(decision)' = DeniedBy(decision)
             /\ Cardinality(ApprovedBy(decision)') >= Cardinality(B) + 1
             /\ state' = IF Cardinality(B) + 1 >= RequiredApprovals THEN "APPROVED" ELSE "PENDING"
    \/ /\ state = "PENDING"
       /\ \E p \in Principals :
             /\ p \notin ApprovedBy(decision) /\ p \notin DeniedBy(decision)
             /\ ApprovedBy(decision)' = ApprovedBy(decision)
             /\ DeniedBy(decision)' = DeniedBy(decision) \cup {p}
             /\ state' = "DENIED"
    \/ state = "PENDING" /\ state' \in {"EXPIRED", "CANCELLED", "SUPERSEDED"} /\ UNCHANGED decision
    \/ state = "APPROVED" /\ state' = "EXECUTED" /\ UNCHANGED decision

LEMMA CommitEffect ==
    ASSUME IInv, NEW c \in Callers, Commit(c)
    PROVE  /\ Effect(call[c].approvers)
           /\ Cardinality(call[c].approvers) \in Nat /\ Cardinality(ApprovedBy(decision)') \in Nat
           /\ state' \in RequestStates
           /\ count' \in Nat
           /\ decision' \in [Principals -> Decisions \cup {None}]
<1> DEFINE k == call[c]
<1>0. /\ TypeOK /\ CallInv
      /\ k \in CallType /\ k.pc = "commit"
  BY DEF IInv, Commit, TypeOK
<1>a. k.approvers \in SUBSET Principals /\ ApprovedBy(decision)' \in SUBSET Principals
  BY <1>0 DEF CallType, ApprovedBy
<1>b. Cardinality(k.approvers) \in Nat /\ Cardinality(ApprovedBy(decision)') \in Nat
  BY <1>a, PrincipalSets
<1>1. CASE ~(UnchangedSinceRead(k) /\ CountAllowed(k))
  BY <1>0, <1>1, <1>b DEF Commit, Effect, TypeOK
<1>2. CASE UnchangedSinceRead(k) /\ CountAllowed(k)
  <2>1. /\ decision' = Recorded(k) /\ state' = StateAfter(k) /\ count' = CountAfter(k)
        /\ state = k.state
    BY <1>2 DEF Commit, UnchangedSinceRead
  <2>2. /\ k.transition \in Transitions
        /\ k.transition = "EXECUTE" => state = "APPROVED"
        /\ k.transition # "EXECUTE" => state = "PENDING"
        /\ k.approvers \subseteq ApprovedBy(decision)
    BY <1>0, <2>1 DEF CallInv
  <2>3. count' \in Nat
    <3>1. k.count \in Nat /\ k.approvers \in SUBSET Principals
      BY <1>0 DEF CallType
    <3>2. Cardinality(k.approvers) \in Nat
      BY <3>1, PrincipalSets
    <3> QED BY <2>1, <3>1, <3>2 DEF CountAfter
  <2>4. CASE k.transition = "APPROVE"
    <3>1. k.actor \in Principals /\ decision[k.actor] = None
      BY <1>0, <1>2, <2>4 DEF CallInv, UnchangedSinceRead, Decisions
    <3>2. decision' = [decision EXCEPT ![k.actor] = "APPROVE"]
      BY <2>1, <2>4 DEF Recorded, Decisions
    <3>3. /\ decision' \in [Principals -> Decisions \cup {None}]
          /\ k.actor \notin ApprovedBy(decision) /\ k.actor \notin DeniedBy(decision)
          /\ ApprovedBy(decision)' = ApprovedBy(decision) \cup {k.actor}
          /\ DeniedBy(decision)' = DeniedBy(decision)
      BY <1>0, <3>1, <3>2, RecordApproval DEF ApprovedBy, DeniedBy
    <3>4. state' = IF Cardinality(k.approvers) + 1 >= RequiredApprovals THEN "APPROVED" ELSE "PENDING"
      BY <2>1, <2>4 DEF StateAfter, CountAfter
    <3>5. ApprovedBy(decision) \in SUBSET Principals
      BY DEF ApprovedBy
    <3>6. Cardinality(ApprovedBy(decision)') >= Cardinality(k.approvers) + 1
      BY <2>2, <3>1, <3>3, <3>5, StaleCount
    <3>8. state = "PENDING"
      BY <2>2, <2>4
    <3>9. Effect(k.approvers)
      BY <3>1, <3>3, <3>4, <3>6, <3>8 DEF Effect
    <3> QED BY <1>b, <2>3, <3>3, <3>4, <3>9 DEF RequestStates
  <2>5. CASE k.transition = "DENY"
    <3>1. k.actor \in Principals /\ decision[k.actor] = None
      BY <1>0, <1>2, <2>5 DEF CallInv, UnchangedSinceRead, Decisions
    <3>2. decision' = [decision EXCEPT ![k.actor] = "DENY"]
      BY <2>1, <2>5 DEF Recorded, Decisions
    <3>3. /\ decision' \in [Principals -> Decisions \cup {None}]
          /\ k.actor \notin ApprovedBy(decision) /\ k.actor \notin DeniedBy(decision)
          /\ ApprovedBy(decision)' = ApprovedBy(decision)
          /\ DeniedBy(decision)' = DeniedBy(decision) \cup {k.actor}
      BY <1>0, <3>1, <3>2, RecordDenial DEF ApprovedBy, DeniedBy
    <3>4. state = "PENDING" /\ state' = "DENIED"
      BY <2>1, <2>2, <2>5 DEF StateAfter
    <3>5. Effect(k.approvers)
      BY <3>1, <3>3, <3>4 DEF Effect
    <3> QED BY <1>b, <2>3, <3>3, <3>4, <3>5 DEF RequestStates
  <2>6. CASE k.transition \in {"EXPIRE", "CANCEL", "SUPERSEDE"}
    <3>1. decision' = decision
      BY <2>1, <2>6 DEF Recorded, Decisions
    <3>2. state = "PENDING" /\ state' \in {"EXPIRED", "CANCELLED", "SUPERSEDED"}
      BY <2>1, <2>2, <2>6 DEF StateAfter
    <3> QED BY <1>0, <1>b, <2>3, <3>1, <3>2 DEF Effect, RequestStates, TypeOK
  <2>7. CASE k.transition = "EXECUTE"
    <3>1. decision' = decision
      BY <2>1, <2>7 DEF Recorded, Decisions
    <3>2. state = "APPROVED" /\ state' = "EXECUTED"
      BY <2>1, <2>2, <2>7 DEF StateAfter
    <3> QED BY <1>0, <1>b, <2>3, <3>1, <3>2 DEF Effect, RequestStates, TypeOK
  <2> QED BY <2>2, <2>4, <2>5, <2>6, <2>7 DEF Transitions, Decisions
<1> QED BY <1>1, <1>2

-----------------------------------------------------------------------------
(* The inductive invariant *)

LEMMA InitIInv == Init => IInv
<1> SUFFICES ASSUME Init PROVE IInv
  OBVIOUS
<1>1. ApprovedBy(decision) = {} /\ DeniedBy(decision) = {}
  BY ApprovalConstants DEF Init, ApprovedBy, DeniedBy, Decisions, Transitions
<1>2. call \in [Callers -> CallType]
  BY DEF Init, NoCall, CallType, RequestStates
<1>3. TypeOK
  BY <1>2 DEF Init, TypeOK, RequestStates
<1>4. CallInv
  BY ApprovalConstants DEF Init, CallInv, NoCall, Decisions, Transitions
<1> QED BY <1>1, <1>3, <1>4 DEF Init, IInv, StateInv, AllowedInv

\* Returning keeps what is known of the calls.
LEMMA ReturnKeepsCalls ==
    ASSUME TypeOK, CallInv, NEW c \in Callers, Return(c),
           ApprovedBy(decision) \subseteq ApprovedBy(decision)'
    PROVE  call' \in [Callers -> CallType] /\ CallInv'
<1>1. NoCall \in CallType
  BY DEF NoCall, CallType, RequestStates
<1>2. call' \in [Callers -> CallType]
  BY <1>1 DEF TypeOK, Return
<1>3. ASSUME NEW d \in Callers
      PROVE  /\ call'[d].transition \in Decisions => call'[d].actor \in Principals
             /\ call'[d].pc # "idle" => call'[d].transition \in Transitions
             /\ call'[d].pc = "commit" =>
                   /\ call'[d].transition = "EXECUTE" => call'[d].state = "APPROVED"
                   /\ call'[d].transition # "EXECUTE" => call'[d].state = "PENDING"
                   /\ call'[d].approvers \subseteq ApprovedBy(decision)'
  <2>1. CASE d = c
    <3>1. call'[d] = NoCall
      BY <2>1 DEF TypeOK, Return
    <3> QED BY <3>1, ApprovalConstants DEF NoCall, Transitions
  <2>2. CASE d # c
    <3>1. call'[d] = call[d]
      BY <2>2 DEF TypeOK, Return
    <3> QED BY <3>1 DEF CallInv
  <2> QED BY <2>1, <2>2
<1> QED BY <1>2, <1>3 DEF CallInv

\* The reads of ApplyTransition.
LEMMA ReadPreservesIInv ==
    ASSUME IInv, NEW c \in Callers, GetRequest(c) \/ ListDecisions(c) \/ CallFails(c)
    PROVE  IInv'
<1>0. TypeOK /\ CallInv /\ StateInv /\ AllowedInv
  BY DEF IInv
<1>u. UNCHANGED <<state, count, decision, expired, check>>
  BY DEF GetRequest, ListDecisions, CallFails
<1>a. ApprovedBy(decision)' = ApprovedBy(decision) /\ DeniedBy(decision)' = DeniedBy(decision)
  BY <1>u DEF ApprovedBy, DeniedBy
<1>1. call' \in [Callers -> CallType] /\ CallInv'
  <2>1. CASE Return(c)
    BY <1>0, <1>a, <2>1, ReturnKeepsCalls
  <2>2. CASE GetRequest(c) /\ ~Return(c)
    <3>1. call' = [call EXCEPT ![c].pc = "list", ![c].state = state, ![c].count = count]
      BY <2>2 DEF GetRequest
    <3>2. call[c].pc = "get"
      BY <2>2 DEF GetRequest
    <3> DEFINE k == [call[c] EXCEPT !.pc = "list", !.state = state, !.count = count]
    <3>a. k \in CallType
      <4>1. call[c] \in CallType /\ state \in RequestStates /\ count \in Nat
        BY <1>0 DEF TypeOK
      <4> QED BY <4>1 DEF CallType
    <3>3. call' \in [Callers -> CallType]
      <4>1. call' = [call EXCEPT ![c] = k]
        BY <3>1
      <4> QED BY <1>0, <3>a, <4>1 DEF TypeOK
    <3> QED BY <1>0, <1>a, <3>1, <3>2, <3>3 DEF CallInv, TypeOK, CallType
  <2>3. CASE ListDecisions(c) /\ ~Return(c)
    <3>1. /\ call' = [call EXCEPT ![c].pc = "commit", ![c].approvers = ApprovedBy(decision)]
          /\ call[c].pc = "list"
          /\ Accepts(call[c], ApprovedBy(decision) \cup DeniedBy(decision))
      BY <2>3 DEF ListDecisions
    <3> DEFINE k == [call[c] EXCEPT !.pc = "commit", !.approvers = ApprovedBy(decision)]
    <3>a. k \in CallType
      <4>1. call[c] \in CallType /\ ApprovedBy(decision) \in SUBSET Principals
        BY <1>0 DEF TypeOK, ApprovedBy
      <4> QED BY <4>1 DEF CallType
    <3>2. call' \in [Callers -> CallType]
      <4>1. call' = [call EXCEPT ![c] = k]
        BY <3>1
      <4> QED BY <1>0, <3>a, <4>1 DEF TypeOK
    <3>3. /\ call[c].transition = "EXECUTE" => call[c].state = "APPROVED"
          /\ call[c].transition # "EXECUTE" => call[c].state = "PENDING"
      BY <3>1 DEF Accepts, Decisions
    <3>4. /\ call'[c].transition = call[c].transition /\ call'[c].actor = call[c].actor
          /\ call'[c].state = call[c].state /\ call'[c].approvers = ApprovedBy(decision)
          /\ \A d \in Callers \ {c} : call'[d] = call[d]
      BY <1>0, <3>1 DEF TypeOK, CallType
    <3>5. call[c].pc # "idle"
      BY <3>1
    <3>6. ASSUME NEW d \in Callers
          PROVE  /\ call'[d].transition \in Decisions => call'[d].actor \in Principals
                 /\ call'[d].pc # "idle" => call'[d].transition \in Transitions
                 /\ call'[d].pc = "commit" =>
                       /\ call'[d].transition = "EXECUTE" => call'[d].state = "APPROVED"
                       /\ call'[d].transition # "EXECUTE" => call'[d].state = "PENDING"
                       /\ call'[d].approvers \subseteq ApprovedBy(decision)'
      <4>1. CASE d = c
        BY <1>0, <1>a, <3>3, <3>4, <3>5, <4>1 DEF CallInv
      <4>2. CASE d # c
        BY <1>0, <1>a, <3>4, <4>2 DEF CallInv
      <4> QED BY <4>1, <4>2
    <3> QED BY <3>2, <3>6 DEF CallInv
  <2> QED BY <2>1, <2>2, <2>3 DEF CallFails
<1> QED BY <1>0, <1>1, <1>u, <1>a DEF IInv, TypeOK, StateInv, AllowedInv

LEMMA BeginPreservesIInv ==
    ASSUME IInv, NEW c \in Callers, NEW t \in Transitions, NEW p \in Principals \cup {None},
           NEW named \in SUBSET Principals, t \in Decisions => p \in Principals,
           Begin(c, t, p, named)
    PROVE  IInv'
<1>0. TypeOK /\ CallInv /\ StateInv /\ AllowedInv
  BY DEF IInv
<1> DEFINE new == [NoCall EXCEPT !.pc = "get", !.transition = t, !.actor = p, !.late = expired,
                                 !.eligible = p \in EligibleApprovers(named)]
<1>1. call' = [call EXCEPT ![c] = new] /\ UNCHANGED <<state, count, decision, expired, check>>
  BY DEF Begin
<1>2. (p \in EligibleApprovers(named)) \in BOOLEAN
  OBVIOUS
<1>3. /\ new \in CallType
      /\ new.pc = "get" /\ new.transition = t /\ new.actor = p
  BY <1>0, <1>2 DEF NoCall, CallType, TypeOK, RequestStates
<1>4. call' \in [Callers -> CallType] /\ call'[c] = new /\ \A d \in Callers \ {c} : call'[d] = call[d]
  BY <1>0, <1>1, <1>3 DEF TypeOK
<1>5. ApprovedBy(decision)' = ApprovedBy(decision) /\ DeniedBy(decision)' = DeniedBy(decision)
  BY <1>1 DEF ApprovedBy, DeniedBy
<1>6. CallInv'
  <2>1. ASSUME NEW d \in Callers
        PROVE  /\ call'[d].transition \in Decisions => call'[d].actor \in Principals
               /\ call'[d].pc # "idle" => call'[d].transition \in Transitions
               /\ call'[d].pc = "commit" =>
                     /\ call'[d].transition = "EXECUTE" => call'[d].state = "APPROVED"
                     /\ call'[d].transition # "EXECUTE" => call'[d].state = "PENDING"
                     /\ call'[d].approvers \subseteq ApprovedBy(decision)'
    <3>1. CASE d = c
      BY <1>3, <1>4, <3>1
    <3>2. CASE d # c
      BY <1>0, <1>4, <1>5, <3>2 DEF CallInv
    <3> QED BY <3>1, <3>2
  <2> QED BY <2>1 DEF CallInv
<1> QED BY <1>0, <1>1, <1>4, <1>5, <1>6 DEF IInv, TypeOK, StateInv, AllowedInv

LEMMA CommitPreservesIInv ==
    ASSUME IInv, NEW c \in Callers, Commit(c)
    PROVE  IInv'
<1>0. TypeOK /\ CallInv /\ StateInv /\ AllowedInv
  BY DEF IInv
<1>1. /\ Effect(call[c].approvers)
      /\ Cardinality(call[c].approvers) \in Nat /\ Cardinality(ApprovedBy(decision)') \in Nat
      /\ state' \in RequestStates /\ count' \in Nat
      /\ decision' \in [Principals -> Decisions \cup {None}]
  BY CommitEffect
<1>2. Return(c) /\ UNCHANGED <<expired, check>>
  BY DEF Commit
<1>3. UNCHANGED <<state, decision>> =>
         ApprovedBy(decision)' = ApprovedBy(decision) /\ DeniedBy(decision)' = DeniedBy(decision)
  BY DEF ApprovedBy, DeniedBy
<1>4. UNCHANGED decision =>
         ApprovedBy(decision)' = ApprovedBy(decision) /\ DeniedBy(decision)' = DeniedBy(decision)
  BY DEF ApprovedBy, DeniedBy
<1>5. ApprovedBy(decision) \subseteq ApprovedBy(decision)'
  BY <1>1, <1>4 DEF Effect
<1>6. call' \in [Callers -> CallType] /\ CallInv'
  BY <1>0, <1>2, <1>5, ReturnKeepsCalls
<1>7. StateInv'
  BY <1>0, <1>1, <1>4, ApprovalConstants DEF Effect, StateInv
<1>8. AllowedInv'
  BY <1>0, <1>1, <1>2 DEF Effect, AllowedInv
<1> QED BY <1>0, <1>1, <1>2, <1>6, <1>7, <1>8 DEF IInv, TypeOK

\* The permission checks, and time.
LEMMA CheckPreservesIInv ==
    ASSUME IInv,
           \/ \E k \in Checks : CreateRequest(k) \/ Poll(k) \/ CheckFails(k)
           \/ Expires
    PROVE  IInv'
<1>0. TypeOK /\ CallInv /\ StateInv /\ AllowedInv
  BY DEF IInv
<1>a. UNCHANGED decision
  BY DEF CreateRequest, Poll, CheckFails, Expires
<1>b. ApprovedBy(decision)' = ApprovedBy(decision) /\ DeniedBy(decision)' = DeniedBy(decision)
  BY <1>a DEF ApprovedBy, DeniedBy
<1>c. UNCHANGED <<count, decision, call>> /\ CallInv'
  BY <1>0, <1>b DEF CreateRequest, Poll, CheckFails, Expires, CallInv
<1>1. ASSUME NEW k \in Checks, CreateRequest(k) PROVE IInv'
  <2>1. state' \in RequestStates /\ StateInv' /\ AllowedInv'
    BY <1>0, <1>1, <1>b DEF CreateRequest, StateInv, AllowedInv, TypeOK, RequestStates
  <2> QED BY <1>0, <1>1, <1>c, <2>1 DEF CreateRequest, IInv, TypeOK
<1>2. ASSUME NEW k \in Checks, Poll(k) PROVE IInv'
  <2>1. Outcome \in {"waiting", "allowed", "denied"} /\ (Outcome = "allowed" => state = "APPROVED")
    BY DEF Outcome
  <2>2. check' \in [Checks -> {"new", "waiting", "allowed", "denied"}] /\ AllowedInv'
    BY <1>0, <1>2, <2>1 DEF Poll, AllowedInv, TypeOK
  <2> QED BY <1>0, <1>2, <1>b, <1>c, <2>2 DEF Poll, IInv, TypeOK, StateInv
<1>3. ASSUME NEW k \in Checks, CheckFails(k) PROVE IInv'
  <2>1. check' \in [Checks -> {"new", "waiting", "allowed", "denied"}] /\ AllowedInv'
    BY <1>0, <1>3 DEF CheckFails, AllowedInv, TypeOK
  <2> QED BY <1>0, <1>3, <1>b, <1>c, <2>1 DEF CheckFails, IInv, TypeOK, StateInv
<1>4. CASE Expires
  BY <1>0, <1>4, <1>b, <1>c DEF Expires, IInv, TypeOK, StateInv, AllowedInv
<1> QED BY <1>1, <1>2, <1>3, <1>4

LEMMA NextIInv == IInv /\ [Next]_vars => IInv'
<1> SUFFICES ASSUME IInv, [Next]_vars PROVE IInv'
  OBVIOUS
<1>1. ASSUME NEW c \in Callers, CallStep(c) \/ CallFails(c) PROVE IInv'
  BY <1>1, ReadPreservesIInv, CommitPreservesIInv DEF CallStep
<1>2. ASSUME NEW c \in Callers, NEW t \in Decisions, NEW p \in Principals,
             NEW named \in SUBSET Principals, Begin(c, t, p, named)
      PROVE  IInv'
  BY <1>2, BeginPreservesIInv DEF Transitions
<1>3. ASSUME NEW c \in Callers, NEW t \in Transitions \ Decisions, Begin(c, t, None, {})
      PROVE  IInv'
  BY <1>3, BeginPreservesIInv
<1>4. CASE UNCHANGED vars
  BY <1>4 DEF vars, IInv, TypeOK, CallInv, StateInv, AllowedInv, ApprovedBy, DeniedBy
<1> QED BY <1>1, <1>2, <1>3, <1>4, CheckPreservesIInv DEF Next

-----------------------------------------------------------------------------
(* The theorems *)

\* The row, its decisions, the calls and the checks keep their types.
THEOREM TypeCorrect == Spec => []TypeOK
<1>1. IInv => TypeOK
  BY DEF IInv
<1> QED BY <1>1, InitIInv, NextIInv, PTL DEF Spec

\* A check lets the action through only on an undenied quorum of distinct approvers.
THEOREM AllowedOnlyByQuorum == Spec => []AllowedByQuorum
<1>1. IInv => AllowedByQuorum
  BY DEF IInv, StateInv, AllowedInv, AllowedByQuorum
<1> QED BY <1>1, InitIInv, NextIInv, PTL DEF Spec

\* No step changes a recorded decision, or a resolved request except by executing it.
LEMMA StepKeepsResolved ==
    ASSUME IInv, [Next]_vars
    PROVE  /\ \A p \in Principals : decision[p] # None => decision'[p] = decision[p]
           /\ state \notin {"ABSENT", "PENDING"} =>
                 /\ UNCHANGED decision
                 /\ state' = state \/ (state = "APPROVED" /\ state' = "EXECUTED")
<1>1. ASSUME NEW c \in Callers, Commit(c)
      PROVE  /\ \A p \in Principals : decision[p] # None => decision'[p] = decision[p]
             /\ state \notin {"ABSENT", "PENDING"} =>
                   /\ UNCHANGED decision
                   /\ state' = state \/ (state = "APPROVED" /\ state' = "EXECUTED")
  <2>1. Effect(call[c].approvers)
    BY <1>1, CommitEffect
  <2>2. /\ ApprovedBy(decision) \subseteq ApprovedBy(decision)'
        /\ DeniedBy(decision) \subseteq DeniedBy(decision)'
    BY <2>1 DEF Effect, ApprovedBy, DeniedBy
  <2>3. ASSUME NEW p \in Principals, decision[p] # None PROVE decision'[p] = decision[p]
    <3>1. decision[p] \in Decisions
      BY <2>3 DEF IInv, TypeOK
    <3>2. CASE decision[p] = "APPROVE"
      BY <2>2, <3>2 DEF ApprovedBy
    <3>3. CASE decision[p] = "DENY"
      BY <2>2, <3>3 DEF DeniedBy
    <3> QED BY <3>1, <3>2, <3>3 DEF Decisions
  <2> QED BY <2>1, <2>3 DEF Effect
<1>2. CASE \E c \in Callers : GetRequest(c) \/ ListDecisions(c) \/ CallFails(c)
  BY <1>2 DEF GetRequest, ListDecisions, CallFails
<1>3. ASSUME NEW c \in Callers, NEW t, NEW p, NEW named, Begin(c, t, p, named)
      PROVE  UNCHANGED <<state, decision>>
  BY <1>3 DEF Begin
<1>4. CASE \E k \in Checks : CreateRequest(k) \/ Poll(k) \/ CheckFails(k)
  BY <1>4 DEF CreateRequest, Poll, CheckFails
<1>5. CASE Expires \/ UNCHANGED vars
  BY <1>5 DEF Expires, vars
<1> QED BY <1>1, <1>2, <1>3, <1>4, <1>5 DEF Next, CallStep

\* Decisions are immutable and a resolved request stays resolved, for any number of
\* callers that read, evaluate and commit concurrently.
THEOREM ResolutionIsFinal == Spec => ResolvedFinal
<1>1. IInv /\ [Next]_vars =>
        [/\ \A p \in Principals : decision[p] # None => decision'[p] = decision[p]
         /\ state \notin {"ABSENT", "PENDING"} =>
               /\ UNCHANGED decision
               /\ state' = state \/ (state = "APPROVED" /\ state' = "EXECUTED")]_vars
  BY StepKeepsResolved
<1> QED BY <1>1, InitIInv, NextIInv, PTL DEF Spec, ResolvedFinal

-----------------------------------------------------------------------------
(* Calls that do not overlap *)

\* With one call at a time, what a call saw is what there is when it commits.
SerialInv ==
    \A c \in Callers : call[c].pc = "commit" => call[c].approvers = ApprovedBy(decision)

\* The lone caller's snapshot stays current.
LEMMA SerialStep ==
    ASSUME IInv, SerialInv, [Next]_vars, \A c, d \in Callers : c = d
    PROVE  SerialInv'
<1> SUFFICES ASSUME NEW d \in Callers, call'[d].pc = "commit"
             PROVE  call'[d].approvers = ApprovedBy(decision)'
  BY DEF SerialInv
<1>0. call \in [Callers -> CallType] /\ \A c \in Callers : c = d
  BY DEF IInv, TypeOK
<1>r. ASSUME NEW c \in Callers, Return(c) PROVE FALSE
  BY <1>0, <1>r DEF Return, NoCall
<1>u. CASE UNCHANGED <<call, decision>>
  BY <1>u DEF SerialInv, ApprovedBy
<1>1. ASSUME NEW c \in Callers, ListDecisions(c) PROVE call'[d].approvers = ApprovedBy(decision)'
  <2>1. call' = [call EXCEPT ![c].pc = "commit", ![c].approvers = ApprovedBy(decision)] /\ UNCHANGED decision
    BY <1>1, <1>r DEF ListDecisions
  <2> QED BY <1>0, <2>1 DEF CallType, ApprovedBy
<1>2. ASSUME NEW c \in Callers, GetRequest(c) PROVE FALSE
  <2>1. call' = [call EXCEPT ![c].pc = "list", ![c].state = state, ![c].count = count]
    BY <1>2, <1>r DEF GetRequest
  <2> QED BY <1>0, <2>1 DEF CallType
<1>3. ASSUME NEW c \in Callers, Commit(c) \/ CallFails(c) PROVE FALSE
  BY <1>3, <1>r DEF Commit, CallFails
<1>4. ASSUME NEW c \in Callers, NEW t, NEW p, NEW named, Begin(c, t, p, named) PROVE FALSE
  BY <1>0, <1>4 DEF Begin, NoCall
<1>5. CASE \E k \in Checks : CreateRequest(k) \/ Poll(k) \/ CheckFails(k)
  BY <1>5, <1>u DEF CreateRequest, Poll, CheckFails
<1>6. CASE Expires \/ UNCHANGED vars
  BY <1>6, <1>u DEF Expires, vars
<1> QED BY <1>1, <1>2, <1>3, <1>4, <1>5, <1>6 DEF Next, CallStep

\* The steps of the store are steps of the lifecycle.
LEMMA StepImplements == IInv /\ SerialInv /\ [Next]_vars => [Lifecycle!Next]_(Lifecycle!vars)
<1> SUFFICES ASSUME IInv, SerialInv, [Next]_vars PROVE [Lifecycle!Next]_(Lifecycle!vars)
  OBVIOUS
<1>0. UNCHANGED <<state, decision>> => UNCHANGED Lifecycle!vars
  BY DEF Lifecycle!vars, ApprovedBy, DeniedBy
<1>1. ASSUME NEW c \in Callers, Commit(c) PROVE [Lifecycle!Next]_(Lifecycle!vars)
  <2>1. Effect(ApprovedBy(decision))
    BY <1>1, CommitEffect DEF SerialInv, Commit
  <2>2. UNCHANGED decision =>
           ApprovedBy(decision)' = ApprovedBy(decision) /\ DeniedBy(decision)' = DeniedBy(decision)
    BY DEF ApprovedBy, DeniedBy
  <2>3. ASSUME NEW p \in Principals, p \notin ApprovedBy(decision)
        PROVE  ApprovedBy(decision) \cup {p} \in Quorums
                 <=> Cardinality(ApprovedBy(decision)) + 1 >= RequiredApprovals
    <3>1. ApprovedBy(decision) \in SUBSET Principals
      BY DEF ApprovedBy
    <3>2. Cardinality(ApprovedBy(decision) \cup {p}) = Cardinality(ApprovedBy(decision)) + 1
      BY <2>3, <3>1, PrincipalSets, FS_AddElement
    <3> QED BY <3>1, <3>2 DEF Quorums
  <2> QED BY <1>0, <2>1, <2>2, <2>3
          DEF Effect, Lifecycle!Next, Lifecycle!Approve, Lifecycle!Deny, Lifecycle!Close,
              Lifecycle!Execute, Lifecycle!Undecided
<1>2. ASSUME NEW c \in Callers, GetRequest(c) \/ ListDecisions(c) \/ CallFails(c)
      PROVE  [Lifecycle!Next]_(Lifecycle!vars)
  BY <1>0, <1>2 DEF GetRequest, ListDecisions, CallFails
<1>3. ASSUME NEW c \in Callers, NEW t, NEW p, NEW named, Begin(c, t, p, named)
      PROVE  [Lifecycle!Next]_(Lifecycle!vars)
  BY <1>0, <1>3 DEF Begin
<1>4. ASSUME NEW k \in Checks, CreateRequest(k) PROVE [Lifecycle!Next]_(Lifecycle!vars)
  <2>1. ApprovedBy(decision)' = ApprovedBy(decision) /\ DeniedBy(decision)' = DeniedBy(decision)
    BY <1>4 DEF CreateRequest, ApprovedBy, DeniedBy
  <2> QED BY <1>0, <1>4, <2>1 DEF CreateRequest, Lifecycle!Next, Lifecycle!Create
<1>5. ASSUME NEW k \in Checks, Poll(k) \/ CheckFails(k) PROVE [Lifecycle!Next]_(Lifecycle!vars)
  BY <1>0, <1>5 DEF Poll, CheckFails
<1>6. CASE Expires \/ UNCHANGED vars
  BY <1>0, <1>6 DEF Expires, vars
<1> QED BY <1>1, <1>2, <1>3, <1>4, <1>5, <1>6 DEF Next, CallStep

\* As long as calls do not overlap, ApplyTransition implements the one-step lifecycle,
\* quorum included; run approval_quorum shows that two calls at once do not.
THEOREM SerialStoreImplementsLifecycle ==
    ASSUME \A c, d \in Callers : c = d
    PROVE  Spec => ImplementsLifecycle
<1>1. Init => Lifecycle!Init
  BY ApprovalConstants DEF Init, Lifecycle!Init, ApprovedBy, DeniedBy, Decisions, Transitions
<1>2. Init => SerialInv
  BY DEF Init, SerialInv, NoCall
<1>3. IInv /\ SerialInv /\ [Next]_vars => SerialInv'
  BY SerialStep
<1> QED BY <1>1, <1>2, <1>3, InitIInv, NextIInv, StepImplements, PTL
        DEF Spec, ImplementsLifecycle, Lifecycle!Spec

=============================================================================
