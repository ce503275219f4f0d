---------------------------- MODULE OutboxProofs ----------------------------
(***************************************************************************)
(* Proofs about Outbox, for any sets of events and workers.                  *)
(***************************************************************************)
EXTENDS Outbox, TLAPS

\* A worker about to store an outcome has a current event, no longer in its batch.
HasCurrent ==
    \A w \in Workers : wpc[w] \in {"ack", "retry"} =>
        current[w] \in Events /\ current[w] \notin batch[w]

\* A worker about to acknowledge has delivered.
AckAfterSend == \A w \in Workers : wpc[w] = "ack" => current[w] \in sent

IInv == TypeOK /\ HasCurrent /\ AckAfterSend /\ DeliveredWasSent /\ BudgetKept

\* What a worker has still to account for.
Held(w) == batch[w] \cup (IF wpc[w] \in {"ack", "retry"} THEN {current[w]} ELSE {})

\* Some running worker, the one that claimed last, owns everything it holds.
SafeWorker(w) == wpc[w] # "stopped" /\ \A e \in Held(w) : Owns(w, e)

SomeSafeWorker == \E w \in Workers : SafeWorker(w)

SafeUnlessFailed == failed = {} => SomeSafeWorker

-----------------------------------------------------------------------------
(* The initial state satisfies the inductive invariant. *)
LEMMA InitIInv == Init => IInv
BY OutboxConstants
   DEF Init, IInv, TypeOK, HasCurrent, AckAfterSend, DeliveredWasSent, BudgetKept,
       EventStatuses

(* Storing an outcome keeps the invariant: an acknowledged event was sent, and a *)
(* retried one is dead-lettered exactly when its budget is used up.              *)
LEMMA StoreOutcomeIInv ==
    ASSUME IInv, NEW w \in Workers, StoreOutcome(w) PROVE IInv'
<1> USE DEF IInv
<1>1. current[w] \in Events /\ status[current[w]] = "CLAIMED"
  BY DEF StoreOutcome, HasCurrent, Owns
<1>2. attempts[current[w]] \in Nat /\ attempts[current[w]] + 1 <= MaxAttempts
  BY <1>1, OutboxConstants DEF BudgetKept, TypeOK
<1>3. wpc' = [wpc EXCEPT ![w] = "work"] /\ current' = [current EXCEPT ![w] = None]
      /\ UNCHANGED <<batch, sent, replays, crashes, failed>>
  BY DEF StoreOutcome
<1>4. CASE wpc[w] = "ack"
  <2>1. AckOutboxEvent(current[w]) BY <1>4 DEF StoreOutcome
  <2>2. TypeOK'
    BY <1>1, <1>3, <2>1 DEF TypeOK, AckOutboxEvent, EventStatuses
  <2>3. HasCurrent' /\ AckAfterSend'
    BY <1>3 DEF TypeOK, HasCurrent, AckAfterSend
  <2>4. DeliveredWasSent'
    BY <1>1, <1>3, <1>4, <2>1 DEF DeliveredWasSent, AckAfterSend, AckOutboxEvent, TypeOK
  <2>5. BudgetKept'
    BY <1>1, <2>1 DEF BudgetKept, AckOutboxEvent, TypeOK
  <2> QED BY <2>2, <2>3, <2>4, <2>5
<1>5. CASE wpc[w] # "ack"
  <2>1. RetryOutboxEvent(current[w]) BY <1>5 DEF StoreOutcome
  <2>2. TypeOK'
    BY <1>1, <1>2, <1>3, <2>1, OutboxConstants DEF TypeOK, RetryOutboxEvent, EventStatuses
  <2>3. HasCurrent' /\ AckAfterSend'
    BY <1>3 DEF TypeOK, HasCurrent, AckAfterSend
  <2>4. DeliveredWasSent'
    BY <1>1, <1>3, <2>1 DEF DeliveredWasSent, RetryOutboxEvent, TypeOK
  <2>5. BudgetKept'
    BY <1>1, <1>2, <2>1, OutboxConstants DEF BudgetKept, RetryOutboxEvent, TypeOK, EventStatuses
  <2> QED BY <2>2, <2>3, <2>4, <2>5
<1> QED BY <1>4, <1>5

(* Every other step of a worker keeps the invariant. *)
LEMMA WorkerIInv ==
    ASSUME IInv, NEW w \in Workers, WorkerStep(w) \/ StatementFails(w) \/ WorkerRestarts(w)
    PROVE  IInv'
<1> USE DEF IInv
<1>1. CASE \E S \in SUBSET Claimable : Claim(w, S)
  <2> PICK S \in SUBSET Claimable : Claim(w, S) BY <1>1
  <2>1. S \subseteq Events BY DEF Claimable, TypeOK
  <2>2. TypeOK' BY <2>1 DEF TypeOK, Claim, EventStatuses
  <2>3. HasCurrent' /\ AckAfterSend' BY DEF HasCurrent, AckAfterSend, Claim, TypeOK
  <2>4. DeliveredWasSent' BY DEF DeliveredWasSent, Claim, TypeOK
  <2>5. BudgetKept' BY <2>1 DEF BudgetKept, Claim, Claimable, TypeOK
  <2> QED BY <2>2, <2>3, <2>4, <2>5
<1>2. CASE \E e \in Events : HandleSucceeds(w, e)
  <2> PICK e \in Events : HandleSucceeds(w, e) BY <1>2
  <2>1. TypeOK' BY DEF TypeOK, HandleSucceeds, table
  <2>2. HasCurrent' BY DEF HasCurrent, HandleSucceeds, TypeOK
  <2>3. AckAfterSend' BY DEF AckAfterSend, HandleSucceeds, TypeOK
  <2>4. DeliveredWasSent' /\ BudgetKept'
    BY DEF DeliveredWasSent, BudgetKept, HandleSucceeds, table
  <2> QED BY <2>1, <2>2, <2>3, <2>4
<1>3. CASE \E e \in Events : HandleFails(w, e)
  <2> PICK e \in Events : HandleFails(w, e) BY <1>3
  <2>1. TypeOK' BY DEF TypeOK, HandleFails, table
  <2>2. HasCurrent' BY DEF HasCurrent, HandleFails, TypeOK
  <2>3. AckAfterSend' BY DEF AckAfterSend, HandleFails, TypeOK
  <2>4. DeliveredWasSent' /\ BudgetKept'
    BY DEF DeliveredWasSent, BudgetKept, HandleFails, table
  <2> QED BY <2>1, <2>2, <2>3, <2>4
<1>4. CASE StoreOutcome(w)
  BY <1>4, StoreOutcomeIInv
<1>5. CASE BatchDone(w)
  <2>1. TypeOK' BY <1>5 DEF TypeOK, BatchDone, table
  <2>2. HasCurrent' /\ AckAfterSend' BY <1>5 DEF HasCurrent, AckAfterSend, BatchDone, TypeOK
  <2>3. DeliveredWasSent' /\ BudgetKept'
    BY <1>5 DEF DeliveredWasSent, BudgetKept, BatchDone, table
  <2> QED BY <2>1, <2>2, <2>3
<1>6. CASE ClaimLost(w) \/ StatementFails(w)
  <2>1. TypeOK' BY <1>6 DEF TypeOK, ClaimLost, StatementFails, Stops, table
  <2>2. HasCurrent' /\ AckAfterSend'
    BY <1>6 DEF HasCurrent, AckAfterSend, ClaimLost, StatementFails, Stops, TypeOK
  <2>3. DeliveredWasSent' /\ BudgetKept'
    BY <1>6 DEF DeliveredWasSent, BudgetKept, ClaimLost, StatementFails, Stops, table
  <2> QED BY <2>1, <2>2, <2>3
<1>7. CASE WorkerRestarts(w)
  <2>1. TypeOK' BY <1>7, OutboxConstants DEF TypeOK, WorkerRestarts, table
  <2>2. HasCurrent' /\ AckAfterSend'
    BY <1>7 DEF HasCurrent, AckAfterSend, WorkerRestarts, TypeOK
  <2>3. DeliveredWasSent' /\ BudgetKept'
    BY <1>7 DEF DeliveredWasSent, BudgetKept, WorkerRestarts, table
  <2> QED BY <2>1, <2>2, <2>3
<1> QED BY <1>1, <1>2, <1>3, <1>4, <1>5, <1>6, <1>7 DEF WorkerStep

(* Inserts, operator replays and the passing of time keep the invariant. *)
LEMMA TableIInv ==
    ASSUME IInv, NEW e \in Events,
           EnqueueOutboxEvent(e) \/ ReplayDeadLetterOutboxEvent(e) \/ ClockStep(e)
    PROVE  IInv'
<1> USE DEF IInv
<1>1. UNCHANGED workers /\ UNCHANGED sent
  BY DEF EnqueueOutboxEvent, ReplayDeadLetterOutboxEvent, ClockStep, LeaseExpires,
         BecomesAvailable
<1>2. HasCurrent' /\ AckAfterSend'
  BY <1>1 DEF HasCurrent, AckAfterSend, workers
<1>3. CASE EnqueueOutboxEvent(e)
  BY <1>2, <1>3 DEF EnqueueOutboxEvent, TypeOK, DeliveredWasSent, BudgetKept, EventStatuses, workers
<1>4. CASE ReplayDeadLetterOutboxEvent(e)
  BY <1>2, <1>4, OutboxConstants
     DEF ReplayDeadLetterOutboxEvent, TypeOK, DeliveredWasSent, BudgetKept, EventStatuses, workers
<1>5. CASE ClockStep(e)
  BY <1>2, <1>5
     DEF ClockStep, LeaseExpires, BecomesAvailable, TypeOK, DeliveredWasSent, BudgetKept, workers
<1> QED BY <1>3, <1>4, <1>5

(* The invariant holds in every reachable state. *)
THEOREM Invariance == Spec => []IInv
<1>1. ASSUME IInv, [Next]_vars PROVE IInv'
  <2>1. CASE Next BY <1>1, <2>1, TableIInv, WorkerIInv DEF Next
  <2>2. CASE UNCHANGED vars
    BY <1>1, <2>2 DEF vars, table, workers, IInv, TypeOK, HasCurrent, AckAfterSend,
                      DeliveredWasSent, BudgetKept
  <2> QED BY <1>1, <2>1, <2>2
<1> QED BY <1>1, InitIInv, PTL DEF Spec

(* The type invariant of the outbox table and its workers. *)
THEOREM TypeCorrect == Spec => []TypeOK
BY Invariance, PTL DEF IInv

(* An event is DELIVERED only if some worker's handler succeeded for it. *)
THEOREM DeliveryIsReal == Spec => []DeliveredWasSent
BY Invariance, PTL DEF IInv

(* DEAD_LETTER exactly when the attempt budget is used up. *)
THEOREM BudgetIsKept == Spec => []BudgetKept
BY Invariance, PTL DEF IInv

-----------------------------------------------------------------------------
(* A worker between two events has none in its hands, and none left at all between *)
(* two batches.                                                                    *)
HandsFree ==
    \A w \in Workers :
        /\ wpc[w] \in {"poll", "work"} => current[w] = None
        /\ wpc[w] = "poll" => batch[w] = {}

LEMMA HandsFreeStep ==
    ASSUME IInv, HandsFree, [Next]_vars PROVE HandsFree'
<1>1. CASE UNCHANGED workers
  BY <1>1 DEF HandsFree, workers
<1>2. ASSUME NEW w \in Workers, WorkerStep(w) \/ StatementFails(w) \/ WorkerRestarts(w)
      PROVE  HandsFree'
  BY <1>2 DEF HandsFree, WorkerStep, StatementFails, WorkerRestarts, Claim, HandleSucceeds,
              HandleFails, StoreOutcome, BatchDone, ClaimLost, Stops, IInv, TypeOK
<1> QED
  BY <1>1, <1>2 DEF Next, vars, EnqueueOutboxEvent, ReplayDeadLetterOutboxEvent, ClockStep,
                    LeaseExpires, BecomesAvailable

(* Every step keeps the claims of the running workers accounted for. *)
LEMMA ClaimsHeldStep ==
    ASSUME IInv, HandsFree, ClaimsHeld, [Next]_vars PROVE ClaimsHeld'
<1> SUFFICES ASSUME crashes' = 0, NEW w \in Workers, NEW e \in Events,
                    Owns(w, e)', wpc'[w] # "stopped"
             PROVE  e \in batch'[w] \cup {current'[w]}
  BY DEF ClaimsHeld
<1>a. crashes = 0
  BY DEF Next, vars, WorkerStep, ClockStep, EnqueueOutboxEvent, ReplayDeadLetterOutboxEvent,
         LeaseExpires, BecomesAvailable, Claim, HandleSucceeds, HandleFails, StoreOutcome,
         BatchDone, ClaimLost, StatementFails, Stops, WorkerRestarts, IInv, TypeOK
<1>h. Owns(w, e) /\ wpc[w] # "stopped" => e \in batch[w] \cup {current[w]}
  BY <1>a DEF ClaimsHeld
<1>n. e # None
  BY OutboxConstants
<1>1. CASE UNCHANGED <<table, workers>>
  BY <1>1, <1>h DEF table, workers, Owns
<1>2. ASSUME NEW f \in Events, EnqueueOutboxEvent(f) \/ ReplayDeadLetterOutboxEvent(f) \/ ClockStep(f)
      PROVE  e \in batch'[w] \cup {current'[w]}
  BY <1>2, <1>h DEF EnqueueOutboxEvent, ReplayDeadLetterOutboxEvent, ClockStep, LeaseExpires,
                    BecomesAvailable, Owns, workers, IInv, TypeOK
<1>3. ASSUME NEW v \in Workers, NEW S \in SUBSET Claimable, Claim(v, S)
      PROVE  e \in batch'[w] \cup {current'[w]}
  <2>1. CASE e \in S
    BY <1>3, <2>1 DEF Claim, Owns, IInv, TypeOK
  <2>2. CASE e \notin S
    BY <1>3, <1>h, <1>n, <2>2 DEF Claim, Owns, HandsFree, IInv, TypeOK
  <2> QED BY <2>1, <2>2
<1>4. ASSUME NEW v \in Workers, NEW f \in Events, HandleSucceeds(v, f) \/ HandleFails(v, f)
      PROVE  e \in batch'[w] \cup {current'[w]}
  <2>1. Owns(w, e) /\ wpc[w] # "stopped"
    BY <1>4 DEF HandleSucceeds, HandleFails, table, Owns, IInv, TypeOK
  <2> QED BY <1>4, <1>h, <1>n, <2>1 DEF HandleSucceeds, HandleFails, HandsFree, IInv, TypeOK
<1>5. ASSUME NEW v \in Workers, StoreOutcome(v) PROVE e \in batch'[w] \cup {current'[w]}
  <2>1. e # current[v] /\ Owns(w, e)
    BY <1>5 DEF StoreOutcome, AckOutboxEvent, RetryOutboxEvent, Owns, IInv, TypeOK, HasCurrent
  <2> QED BY <1>5, <1>h, <2>1 DEF StoreOutcome, IInv, TypeOK
<1>6. ASSUME NEW v \in Workers, BatchDone(v) PROVE e \in batch'[w] \cup {current'[w]}
  BY <1>6, <1>h DEF BatchDone, Owns, table, IInv, TypeOK
<1>7. ASSUME NEW v \in Workers, ClaimLost(v) \/ StatementFails(v)
      PROVE  e \in batch'[w] \cup {current'[w]}
  BY <1>7, <1>h DEF ClaimLost, StatementFails, Stops, Owns, table, IInv, TypeOK
<1>8. ASSUME NEW v \in Workers, WorkerRestarts(v) PROVE FALSE
  BY <1>a, <1>8 DEF WorkerRestarts
<1> QED
  BY <1>1, <1>2, <1>3, <1>4, <1>5, <1>6, <1>7, <1>8 DEF Next, WorkerStep, vars

(* Until its process dies, a running worker never forgets an event claimed in its  *)
(* name.                                                                           *)
THEOREM NoClaimForgotten == Spec => []ClaimsHeld
<1>1. Init => HandsFree /\ ClaimsHeld
  BY DEF Init, HandsFree, ClaimsHeld, Owns
<1> QED BY <1>1, HandsFreeStep, ClaimsHeldStep, Invariance, PTL DEF Spec

(* DELIVERED is final: a late ack or retry of a worker that lost its claim does not *)
(* bring the event back.                                                            *)
THEOREM DeliveryIsFinal == Spec => DeliveredFinal
<1> DEFINE P == \A e \in Events : status[e] = "DELIVERED" => status'[e] = "DELIVERED"
<1>1. ASSUME IInv, [Next]_vars PROVE P
  <2> SUFFICES ASSUME NEW e \in Events, status[e] = "DELIVERED"
               PROVE  status'[e] = "DELIVERED"
    OBVIOUS
  <2>1. ASSUME NEW w \in Workers, StoreOutcome(w) PROVE status'[e] = "DELIVERED"
    BY <1>1, <2>1
       DEF StoreOutcome, AckOutboxEvent, RetryOutboxEvent, Owns, IInv, TypeOK, HasCurrent
  <2>2. ASSUME NEW w \in Workers, NEW S \in SUBSET Claimable, Claim(w, S)
        PROVE  status'[e] = "DELIVERED"
    BY <2>2 DEF Claim, Claimable
  <2>3. ASSUME NEW f \in Events, ReplayDeadLetterOutboxEvent(f) \/ EnqueueOutboxEvent(f)
        PROVE  status'[e] = "DELIVERED"
    BY <1>1, <2>3 DEF ReplayDeadLetterOutboxEvent, EnqueueOutboxEvent, IInv, TypeOK
  <2>4. ASSUME UNCHANGED status PROVE status'[e] = "DELIVERED" BY <2>4
  <2> QED
    BY <1>1, <2>1, <2>2, <2>3, <2>4
       DEF Next, vars, table, WorkerStep, ClockStep, LeaseExpires, BecomesAvailable,
           HandleSucceeds, HandleFails, BatchDone, ClaimLost, StatementFails, Stops,
           WorkerRestarts
<1> QED BY <1>1, Invariance, PTL DEF Spec, DeliveredFinal

-----------------------------------------------------------------------------
(* A step that leaves a worker's own state and its rows alone leaves it safe. *)
LEMMA SafeUntouched ==
    ASSUME NEW w \in Workers, SafeWorker(w),
           wpc'[w] = wpc[w], batch'[w] = batch[w], current'[w] = current[w],
           \A e \in Held(w) : status'[e] = status[e] /\ worker'[e] = worker[e]
    PROVE  SafeWorker(w)'
BY DEF SafeWorker, Held, Owns

(* Unless a statement failed, every step leaves some running worker in full      *)
(* possession of what it holds: a claim makes the claimant safe, and no other     *)
(* step touches rows of the safe worker except its own.                           *)
LEMMA SafeStep ==
    ASSUME IInv, SomeSafeWorker, failed' = {}, [Next]_vars PROVE SomeSafeWorker'
<1> PICK w \in Workers : SafeWorker(w) BY DEF SomeSafeWorker
<1>0. \A e \in Held(w) : e \in Events /\ status[e] = "CLAIMED" /\ worker[e] = w
  BY DEF Held, SafeWorker, Owns, IInv, TypeOK, HasCurrent
<1>1. CASE \E e \in Events : EnqueueOutboxEvent(e) \/ ReplayDeadLetterOutboxEvent(e) \/ ClockStep(e)
  <2> PICK e \in Events :
        EnqueueOutboxEvent(e) \/ ReplayDeadLetterOutboxEvent(e) \/ ClockStep(e) BY <1>1
  <2>1. UNCHANGED <<batch, wpc, current>>
    BY DEF EnqueueOutboxEvent, ReplayDeadLetterOutboxEvent, ClockStep, LeaseExpires,
           BecomesAvailable, workers
  <2>2. \A f \in Held(w) : status'[f] = status[f] /\ worker'[f] = worker[f]
    BY <1>0 DEF EnqueueOutboxEvent, ReplayDeadLetterOutboxEvent, ClockStep, LeaseExpires,
           BecomesAvailable, IInv, TypeOK
  <2>3. SafeWorker(w)' BY <2>1, <2>2, SafeUntouched
  <2> QED BY <2>3 DEF SomeSafeWorker
<1>2. ASSUME NEW v \in Workers, \E S \in SUBSET Claimable : Claim(v, S) PROVE SomeSafeWorker'
  <2> PICK S \in SUBSET Claimable : Claim(v, S) BY <1>2
  <2>1. S \subseteq Events BY DEF Claimable, IInv, TypeOK
  <2>2. wpc'[v] = "work" /\ batch'[v] = S BY DEF Claim, IInv, TypeOK
  <2>3. \A e \in S : status'[e] = "CLAIMED" /\ worker'[e] = v BY <2>1 DEF Claim
  <2>4. SafeWorker(v)' BY <2>2, <2>3 DEF SafeWorker, Held, Owns
  <2> QED BY <2>4 DEF SomeSafeWorker
<1>3. ASSUME NEW v \in Workers, NEW e \in Events, HandleSucceeds(v, e) \/ HandleFails(v, e)
      PROVE  SomeSafeWorker'
  <2>1. UNCHANGED <<status, worker>> BY <1>3 DEF HandleSucceeds, HandleFails, table
  <2>2. CASE v # w
    <3>1. wpc'[w] = wpc[w] /\ batch'[w] = batch[w] /\ current'[w] = current[w]
      BY <1>3, <2>2 DEF HandleSucceeds, HandleFails, IInv, TypeOK
    <3>2. SafeWorker(w)' BY <2>1, <3>1, SafeUntouched
    <3> QED BY <3>2 DEF SomeSafeWorker
  <2>3. CASE v = w
    <3>1. wpc'[w] # "stopped" /\ Held(w)' \subseteq Held(w)
      BY <1>3, <2>3 DEF HandleSucceeds, HandleFails, Held, IInv, TypeOK
    <3>2. SafeWorker(w)' BY <1>0, <2>1, <3>1 DEF SafeWorker, Owns
    <3> QED BY <3>2 DEF SomeSafeWorker
  <2> QED BY <2>2, <2>3
<1>4. ASSUME NEW v \in Workers, StoreOutcome(v) PROVE SomeSafeWorker'
  <2>0. current[v] \in Events /\ Owns(v, current[v])
    BY <1>4 DEF StoreOutcome, IInv, HasCurrent
  <2>1. \A e \in Events : e # current[v] => status'[e] = status[e] /\ worker'[e] = worker[e]
    BY <1>4, <2>0 DEF StoreOutcome, AckOutboxEvent, RetryOutboxEvent, IInv, TypeOK
  <2>2. CASE v # w
    <3>1. wpc'[w] = wpc[w] /\ batch'[w] = batch[w] /\ current'[w] = current[w]
      BY <1>4, <2>2 DEF StoreOutcome, IInv, TypeOK
    <3>2. \A e \in Held(w) : e # current[v] BY <1>0, <2>0, <2>2 DEF Owns
    <3>3. SafeWorker(w)' BY <1>0, <2>1, <3>1, <3>2, SafeUntouched
    <3> QED BY <3>3 DEF SomeSafeWorker
  <2>3. CASE v = w
    <3>1. wpc'[w] = "work" /\ Held(w)' = batch[w]
      BY <1>4, <2>3 DEF StoreOutcome, Held, IInv, TypeOK
    <3>2. current[w] \notin batch[w] /\ batch[w] \subseteq Held(w)
      BY <1>4, <2>3 DEF StoreOutcome, IInv, HasCurrent, Held
    <3>3. SafeWorker(w)' BY <1>0, <2>1, <2>3, <3>1, <3>2 DEF SafeWorker, Owns
    <3> QED BY <3>3 DEF SomeSafeWorker
  <2> QED BY <2>2, <2>3
<1>5. ASSUME NEW v \in Workers, BatchDone(v) \/ WorkerRestarts(v) PROVE SomeSafeWorker'
  <2>1. UNCHANGED <<status, worker>> BY <1>5 DEF BatchDone, WorkerRestarts, table
  <2>2. CASE v # w
    <3>1. wpc'[w] = wpc[w] /\ batch'[w] = batch[w] /\ current'[w] = current[w]
      BY <1>5, <2>2 DEF BatchDone, WorkerRestarts, IInv, TypeOK
    <3>2. SafeWorker(w)' BY <2>1, <3>1, SafeUntouched
    <3> QED BY <3>2 DEF SomeSafeWorker
  <2>3. CASE v = w
    <3>1. wpc'[w] = "poll" /\ Held(w)' = {}
      BY <1>5, <2>3 DEF BatchDone, WorkerRestarts, Held, IInv, TypeOK
    <3>2. SafeWorker(w)' BY <3>1 DEF SafeWorker
    <3> QED BY <3>2 DEF SomeSafeWorker
  <2> QED BY <2>2, <2>3
<1>6. ASSUME NEW v \in Workers, ClaimLost(v) PROVE SomeSafeWorker'
  <2>1. v # w BY <1>6 DEF ClaimLost, SafeWorker, Held
  <2>2. UNCHANGED <<status, worker>>
        /\ wpc'[w] = wpc[w] /\ batch'[w] = batch[w] /\ current'[w] = current[w]
    BY <1>6, <2>1 DEF ClaimLost, Stops, table, IInv, TypeOK
  <2>3. SafeWorker(w)' BY <2>2, SafeUntouched
  <2> QED BY <2>3 DEF SomeSafeWorker
<1>7. CASE UNCHANGED vars
  BY <1>7 DEF vars, table, workers, SomeSafeWorker, SafeWorker, Held, Owns
<1>8. ASSUME NEW v \in Workers, StatementFails(v) PROVE FALSE
  BY <1>8 DEF StatementFails
<1> QED
  BY <1>1, <1>2, <1>3, <1>4, <1>5, <1>6, <1>7, <1>8 DEF Next, WorkerStep

(* A failure is never forgotten. *)
LEMMA FailedGrows ==
    ASSUME [Next]_vars, failed' = {} PROVE failed = {}
BY DEF Next, vars, WorkerStep, ClockStep, EnqueueOutboxEvent, ReplayDeadLetterOutboxEvent,
       LeaseExpires, BecomesAvailable, Claim, HandleSucceeds, HandleFails, StoreOutcome,
       BatchDone, ClaimLost, StatementFails, WorkerRestarts

(* However leases run out and processes restart, lost claims never stop the last   *)
(* running worker; only a failing statement can.                                   *)
THEOREM LastWorkerSurvives == Spec => []SomeWorkerRuns
<1>1. Init => SafeUnlessFailed
  <2> SUFFICES ASSUME Init PROVE SomeSafeWorker BY DEF SafeUnlessFailed
  <2>1. PICK w \in Workers : TRUE BY OutboxConstants
  <2>2. SafeWorker(w) BY DEF Init, SafeWorker, Held
  <2> QED BY <2>2 DEF SomeSafeWorker
<1>2. IInv /\ SafeUnlessFailed /\ [Next]_vars => SafeUnlessFailed'
  BY SafeStep, FailedGrows DEF SafeUnlessFailed
<1>3. SafeUnlessFailed => SomeWorkerRuns
  BY DEF SafeUnlessFailed, SomeSafeWorker, SafeWorker, SomeWorkerRuns
<1> QED BY <1>1, <1>2, <1>3, Invariance, PTL DEF Spec
=============================================================================
