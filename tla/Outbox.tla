------------------------------- MODULE Outbox -------------------------------
(***************************************************************************)
(* The durable outbox: the a2a888_outbox_event table with its one-minute     *)
(* claim leases, the delivery workers of one or more manager processes, and  *)
(* the operator's dead-letter replay.                                        *)
(*                                                                         *)
(* Every table operation is one SQL statement, hence one action.  Time is    *)
(* left free: a lease may run out and a retry delay may end at any moment.   *)
(* A worker processes its batch one event at a time; the tenant queue only   *)
(* decides the order, or refuses an event when it is full.                   *)
(***************************************************************************)
EXTENDS Naturals, FiniteSets

CONSTANTS
    Events,        \* event ids
    Workers,       \* worker ids, one per manager process
    MaxAttempts,   \* max_attempts of every event
    BatchSize,     \* OutboxWorker.BatchSize
    MaxReplays,    \* bound on operator replays and on worker crashes (each)
    None           \* no worker ('')

ASSUME OutboxConstants ==
    /\ MaxAttempts \in Nat \ {0}
    /\ BatchSize \in Nat \ {0}
    /\ MaxReplays \in Nat
    /\ Workers # {}
    /\ None \notin Workers \cup Events

VARIABLES
    status,     \* status column, "ABSENT" before the insert
    attempts,   \* attempts column
    worker,     \* worker_id column
    expired,    \* claim_expires_at < now(), for claimed events
    available,  \* available_at <= now()
    batch,      \* per worker: claimed events it has still to process
    wpc,        \* per worker: poll, work, ack, retry or stopped
    current,    \* per worker: the event being handled
    sent,       \* events whose handler has succeeded at least once
    replays,    \* operator replays so far
    crashes,    \* worker crashes so far
    failed      \* workers one of whose statements has ever failed

table   == <<status, attempts, worker, expired, available>>
workers == <<batch, wpc, current>>
vars    == <<table, workers, sent, replays, crashes, failed>>

EventStatuses == {"ABSENT", "PENDING", "CLAIMED", "DELIVERED", "DEAD_LETTER"}

TypeOK ==
    /\ status \in [Events -> EventStatuses]
    /\ attempts \in [Events -> 0..MaxAttempts]
    /\ worker \in [Events -> Workers \cup {None}]
    /\ expired \subseteq Events
    /\ available \subseteq Events
    /\ batch \in [Workers -> SUBSET Events]
    /\ wpc \in [Workers -> {"poll", "work", "ack", "retry", "stopped"}]
    /\ current \in [Workers -> Events \cup {None}]
    /\ sent \subseteq Events
    /\ replays \in 0..MaxReplays
    /\ crashes \in 0..MaxReplays
    /\ failed \subseteq Workers

Init ==
    /\ status = [e \in Events |-> "ABSENT"]
    /\ attempts = [e \in Events |-> 0]
    /\ worker = [e \in Events |-> None]
    /\ expired = {}
    /\ available = {}
    /\ batch = [w \in Workers |-> {}]
    /\ wpc = [w \in Workers |-> "poll"]
    /\ current = [w \in Workers |-> None]
    /\ sent = {}
    /\ replays = 0
    /\ crashes = 0
    /\ failed = {}

-----------------------------------------------------------------------------
(* The table *)

\* EnqueueOutboxEvent, or the insert of RecordMachineAssignmentEvent: a conflict
\* on the idempotency key inserts nothing.
EnqueueOutboxEvent(e) ==
    /\ status[e] = "ABSENT"
    /\ status' = [status EXCEPT ![e] = "PENDING"]
    /\ available' = available \cup {e}
    /\ UNCHANGED <<attempts, worker, expired, workers, sent, replays, crashes, failed>>

\* Mutant: a claim left behind by a dead process is never taken over.
ClaimablePendingOnly == {e \in available : status[e] = "PENDING"}

\* The rows ClaimOutboxEvents selects.
Claimable ==
    {e \in available : status[e] = "PENDING" \/ (status[e] = "CLAIMED" /\ e \in expired)}

\* LIMIT: as many as there are, up to the batch size.
FillsBatch(S) ==
    /\ Cardinality(S) <= BatchSize
    /\ S = Claimable \/ Cardinality(S) = BatchSize

\* The row is CLAIMED by this worker, the WHERE of ack and retry.
Owns(w, e) == status[e] = "CLAIMED" /\ worker[e] = w

\* AckOutboxEvent on a row it owns.
AckOutboxEvent(e) ==
    /\ status' = [status EXCEPT ![e] = "DELIVERED"]
    /\ worker' = [worker EXCEPT ![e] = None]
    /\ expired' = expired \ {e}
    /\ UNCHANGED <<attempts, available>>

\* Mutant: off by one in the attempt budget.
RetryOutboxEventOffByOne(e) ==
    /\ attempts' = [attempts EXCEPT ![e] = @ + 1]
    /\ status' = [status EXCEPT ![e] =
                     IF attempts[e] >= MaxAttempts THEN "DEAD_LETTER" ELSE "PENDING"]
    /\ worker' = [worker EXCEPT ![e] = None]
    /\ expired' = expired \ {e}
    /\ available' = available \ {e}

\* RetryOutboxEvent on a row it owns: one attempt more, back to PENDING after a
\* delay, or DEAD_LETTER when the budget is spent.
RetryOutboxEvent(e) ==
    /\ attempts' = [attempts EXCEPT ![e] = @ + 1]
    /\ status' = [status EXCEPT ![e] =
                     IF attempts[e] + 1 >= MaxAttempts THEN "DEAD_LETTER" ELSE "PENDING"]
    /\ worker' = [worker EXCEPT ![e] = None]
    /\ expired' = expired \ {e}
    /\ available' = available \ {e}

\* ReplayDeadLetterOutboxEvent by an operator.
ReplayDeadLetterOutboxEvent(e) ==
    /\ status[e] = "DEAD_LETTER"
    /\ replays < MaxReplays
    /\ replays' = replays + 1
    /\ status' = [status EXCEPT ![e] = "PENDING"]
    /\ attempts' = [attempts EXCEPT ![e] = 0]
    /\ worker' = [worker EXCEPT ![e] = None]
    /\ available' = available \cup {e}
    /\ UNCHANGED <<expired, workers, sent, crashes, failed>>

\* now() passes claim_expires_at, or available_at.
LeaseExpires(e) ==
    /\ status[e] = "CLAIMED" /\ e \notin expired
    /\ expired' = expired \cup {e}
    /\ UNCHANGED <<status, attempts, worker, available, workers, sent, replays, crashes, failed>>

BecomesAvailable(e) ==
    /\ status[e] = "PENDING" /\ e \notin available
    /\ available' = available \cup {e}
    /\ UNCHANGED <<status, attempts, worker, expired, workers, sent, replays, crashes, failed>>

-----------------------------------------------------------------------------
(* OutboxWorker.RunOnce *)

\* ClaimOutboxEvents at the start of a batch; an empty batch ends the tick.
Claim(w, S) ==
    /\ wpc[w] = "poll"
    /\ S # {} /\ S \subseteq Claimable /\ FillsBatch(S)
    /\ status' = [e \in Events |-> IF e \in S THEN "CLAIMED" ELSE status[e]]
    /\ worker' = [e \in Events |-> IF e \in S THEN w ELSE worker[e]]
    /\ expired' = expired \ S
    /\ batch' = [batch EXCEPT ![w] = S]
    /\ wpc' = [wpc EXCEPT ![w] = "work"]
    /\ UNCHANGED <<attempts, available, current, sent, replays, crashes, failed>>

\* Mutant: the event stays in the batch and is handled again.
HandleSucceedsKeepsEvent(w, e) ==
    /\ wpc[w] = "work" /\ e \in batch[w]
    /\ current' = [current EXCEPT ![w] = e]
    /\ sent' = sent \cup {e}
    /\ wpc' = [wpc EXCEPT ![w] = "ack"]
    /\ UNCHANGED <<table, batch, replays, crashes, failed>>

\* Handle succeeds: the external delivery happened, the ack is next.
HandleSucceeds(w, e) ==
    /\ wpc[w] = "work" /\ e \in batch[w]
    /\ batch' = [batch EXCEPT ![w] = @ \ {e}]
    /\ current' = [current EXCEPT ![w] = e]
    /\ sent' = sent \cup {e}
    /\ wpc' = [wpc EXCEPT ![w] = "ack"]
    /\ UNCHANGED <<table, replays, crashes, failed>>

\* Mutant: an event refused by the queue goes to the ack.
HandleFailsToAck(w, e) ==
    /\ wpc[w] = "work" /\ e \in batch[w]
    /\ batch' = [batch EXCEPT ![w] = @ \ {e}]
    /\ current' = [current EXCEPT ![w] = e]
    /\ wpc' = [wpc EXCEPT ![w] = "ack"]
    /\ UNCHANGED <<table, sent, replays, crashes, failed>>

\* Mutant: a refused event is skipped.
HandleFailsSkips(w, e) ==
    /\ wpc[w] = "work" /\ e \in batch[w]
    /\ batch' = [batch EXCEPT ![w] = @ \ {e}]
    /\ UNCHANGED <<table, wpc, current, sent, replays, crashes, failed>>

\* Handle returns an error, or the tenant queue or limiter refuses the event.
HandleFails(w, e) ==
    /\ wpc[w] = "work" /\ e \in batch[w]
    /\ batch' = [batch EXCEPT ![w] = @ \ {e}]
    /\ current' = [current EXCEPT ![w] = e]
    /\ wpc' = [wpc EXCEPT ![w] = "retry"]
    /\ UNCHANGED <<table, sent, replays, crashes, failed>>

\* Mutant: the statement does not check the claim.
StoreOutcomeUnchecked(w) ==
    /\ wpc[w] \in {"ack", "retry"}
    /\ IF wpc[w] = "ack" THEN AckOutboxEvent(current[w]) ELSE RetryOutboxEvent(current[w])
    /\ wpc' = [wpc EXCEPT ![w] = "work"]
    /\ current' = [current EXCEPT ![w] = None]
    /\ UNCHANGED <<batch, sent, replays, crashes, failed>>

\* Ack or retry of an event the worker still owns.
StoreOutcome(w) ==
    /\ wpc[w] \in {"ack", "retry"}
    /\ Owns(w, current[w])
    /\ IF wpc[w] = "ack" THEN AckOutboxEvent(current[w]) ELSE RetryOutboxEvent(current[w])
    /\ wpc' = [wpc EXCEPT ![w] = "work"]
    /\ current' = [current EXCEPT ![w] = None]
    /\ UNCHANGED <<batch, sent, replays, crashes, failed>>

\* The batch is done: wait for the next tick.
BatchDone(w) ==
    /\ wpc[w] = "work" /\ batch[w] = {}
    /\ wpc' = [wpc EXCEPT ![w] = "poll"]
    /\ UNCHANGED <<table, batch, current, sent, replays, crashes, failed>>

\* RunOnce returns an error, Run returns it, and the goroutine that called Run
\* logs it and ends.
Stops(w) ==
    /\ wpc' = [wpc EXCEPT ![w] = "stopped"]
    /\ batch' = [batch EXCEPT ![w] = {}]
    /\ current' = [current EXCEPT ![w] = None]
    /\ UNCHANGED <<table, sent, replays, crashes>>

\* Ack or retry finds no row: ErrOutboxNotClaimed.
ClaimLost(w) ==
    /\ wpc[w] \in {"ack", "retry"}
    /\ ~Owns(w, current[w])
    /\ Stops(w)
    /\ UNCHANGED failed

\* A claim, ack or retry statement fails.
StatementFails(w) ==
    /\ wpc[w] \in {"poll", "ack", "retry"}
    /\ Stops(w)
    /\ failed' = failed \cup {w}

\* The manager process dies and starts again with the same worker id (hostname
\* and pid); its claims stay in the table.
WorkerRestarts(w) ==
    /\ crashes < MaxReplays
    /\ crashes' = crashes + 1
    /\ wpc' = [wpc EXCEPT ![w] = "poll"]
    /\ batch' = [batch EXCEPT ![w] = {}]
    /\ current' = [current EXCEPT ![w] = None]
    /\ UNCHANGED <<table, sent, replays, failed>>

-----------------------------------------------------------------------------
WorkerStep(w) ==
    \/ \E S \in SUBSET Claimable : Claim(w, S)
    \/ \E e \in Events : HandleSucceeds(w, e) \/ HandleFails(w, e)
    \/ StoreOutcome(w) \/ BatchDone(w) \/ ClaimLost(w)

ClockStep(e) == LeaseExpires(e) \/ BecomesAvailable(e)

Next ==
    \/ \E e \in Events : EnqueueOutboxEvent(e) \/ ReplayDeadLetterOutboxEvent(e) \/ ClockStep(e)
    \/ \E w \in Workers : WorkerStep(w) \/ StatementFails(w) \/ WorkerRestarts(w)

Spec == Init /\ [][Next]_vars

\* The ticker keeps calling RunOnce and time passes; what the handler returns,
\* and whether operators replay, statements fail or processes crash, is not assumed.
FairSpec ==
    /\ Spec
    /\ \A w \in Workers : WF_vars(WorkerStep(w))
    /\ \A e \in Events : WF_vars(ClockStep(e))

-----------------------------------------------------------------------------
(* Properties *)

\* "the worker acknowledges only after the handler returns successfully": no
\* event is DELIVERED that was never handed over, whichever workers raced for it.
DeliveredWasSent ==
    \A e \in Events : status[e] = "DELIVERED" => e \in sent

\* The attempt budget: an event is dead-lettered exactly when its attempts are
\* used up, through claims, take-overs and operator replays.
BudgetKept ==
    \A e \in Events :
        /\ status[e] = "DEAD_LETTER" => attempts[e] = MaxAttempts
        /\ status[e] \in {"ABSENT", "PENDING", "CLAIMED", "DELIVERED"} => attempts[e] < MaxAttempts

\* "individual event failures are returned to the durable retry path": until its
\* process dies, a running worker never forgets an event that is claimed in its name,
\* whoever else claimed it in between; each one is in its batch or in its hands, to
\* end in an ack or a retry, and none is left for a lease to run out on.
ClaimsHeld ==
    crashes = 0 =>
        \A w \in Workers, e \in Events :
            Owns(w, e) /\ wpc[w] # "stopped" => e \in batch[w] \cup {current[w]}

\* DELIVERED is final: a late ack or retry of a worker that lost its claim does
\* not bring the event back.
DeliveredFinal ==
    [][\A e \in Events : status[e] = "DELIVERED" => status'[e] = "DELIVERED"]_vars

\* A worker whose claim was taken over while it was delivering stops for good
\* (ErrOutboxNotClaimed ends Run).  As long as no statement fails, however leases
\* run out and processes restart, the workers never stop one another to the last:
\* the one that claimed most recently still owns what it is working on.
SomeWorkerRuns ==
    failed = {} => \E w \in Workers : wpc[w] # "stopped"

\* While a worker runs, every enqueued event gets DELIVERED or dead-lettered,
\* whoever claimed it before and stopped, lost its claim or crashed.
ResolvedWhileRunning ==
    \A e \in Events :
        status[e] = "PENDING" ~>
            \/ status[e] \in {"DELIVERED", "DEAD_LETTER"}
            \/ \A w \in Workers : wpc[w] = "stopped"

=============================================================================
