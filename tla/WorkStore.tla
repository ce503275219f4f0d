------------------------------ MODULE WorkStore ------------------------------
(***************************************************************************)
(* One durable A2A work record: its a2a888_work row with the optimistic        *)
(* version column, its a2a888_work_event log, the concurrent operations of     *)
(* callers on any manager (TaskSend, TaskCancel, TaskReply, the task store     *)
(* adapter's Create and Update, restart recovery, trace records), and the      *)
(* event manager's subscribers.                                               *)
(*                                                                         *)
(* Every statement is one step.  COMPLETED and CANCELED stand for the four     *)
(* terminal states, WORKING for the states in between.                        *)
(***************************************************************************)
EXTENDS Naturals, Sequences, FiniteSets

CONSTANTS
    Writers,       \* concurrent operations
    Subscribers,   \* streams of EventManager.Subscribe
    Targets,       \* states that replies and updates ask for
    Buffer,        \* capacity of a subscriber's channel (64)
    ReplayLimit,   \* LIMIT of the replay (500)
    MaxVersion,    \* bound on the version column
    MaxEvents,     \* bound on the log, for trace records
    None

ASSUME WorkConstants ==
    /\ Targets \subseteq {"SUBMITTED", "WORKING", "COMPLETED", "CANCELED"}
    /\ Buffer \in Nat \ {0}
    /\ ReplayLimit \in Nat \ {0}
    /\ MaxVersion \in Nat \ {0}
    /\ MaxEvents \in Nat

VARIABLES
    state,     \* state column, "ABSENT" before the insert
    version,   \* version column
    log,       \* event rows [seq, type]
    op,        \* per writer: the operation in progress
    sub,       \* per subscriber: its registration, filter and channel
    got        \* per subscriber: the items it has yielded

row  == <<state, version>>
vars == <<state, version, log, op, sub, got>>

Terminal   == {"COMPLETED", "CANCELED"}
WorkStates == {"SUBMITTED", "WORKING"} \cup Terminal
EventTypes == WorkStates \cup {"ARTIFACT", "RECOVERED", "TRACE"}
Item       == [seq : Nat \ {0}, type : EventTypes]

OpType ==
    [pc : {"idle", "insert", "write", "seq", "append", "publish"},
     kind : {"update", "cancel", "reply", "recover", None},
     state : WorkStates \cup {None}, version : Nat, target : WorkStates \cup {None},
     type : EventTypes \cup {None}, seq : Nat, out : Seq(EventTypes)]

SubType == [pc : {"off", "replay", "live"}, last : Nat, from : Nat, buf : Seq(Item)]

TypeOK ==
    /\ state \in WorkStates \cup {"ABSENT"}
    /\ version \in Nat
    /\ log \in SUBSET Item
    /\ op \in [Writers -> OpType]
    /\ sub \in [Subscribers -> SubType]
    /\ got \in [Subscribers -> SUBSET Item]

NoOp ==
    [pc |-> "idle", kind |-> None, state |-> None, version |-> 0, target |-> None,
     type |-> None, seq |-> 0, out |-> <<>>]

NoSub == [pc |-> "off", last |-> 0, from |-> 0, buf |-> <<>>]

Init ==
    /\ state = "ABSENT"
    /\ version = 0
    /\ log = {}
    /\ op = [w \in Writers |-> NoOp]
    /\ sub = [s \in Subscribers |-> NoSub]
    /\ got = [s \in Subscribers |-> {}]

Seqs == {e.seq : e \in log}

\* GetLatestWorkEventSequence: COALESCE(MAX(sequence), 0).
LatestSeq == IF log = {} THEN 0 ELSE CHOOSE q \in Seqs : \A r \in Seqs : r <= q

Return(w) == op' = [op EXCEPT ![w] = NoOp]

-----------------------------------------------------------------------------
(* Creation: TaskSend, DurableTaskStoreAdapter.Create *)

\* The idempotency lookup finds nothing; a hit returns the existing work.
LookupIdempotencyKey(w) ==
    /\ op[w].pc = "idle" /\ state = "ABSENT"
    /\ op' = [op EXCEPT ![w].pc = "insert"]
    /\ UNCHANGED <<row, log, sub, got>>

\* CreateWork: the unique indexes admit one of the racing inserts.  The executors'
\* tasks come in as SUBMITTED, like those of TaskSend.
CreateWork(w) ==
    /\ op[w].pc = "insert"
    /\ IF state = "ABSENT"
       THEN /\ state' = "SUBMITTED"
            /\ version' = 1
            /\ op' = [op EXCEPT ![w].pc = "append", ![w].type = "SUBMITTED",
                                ![w].seq = 1, ![w].out = <<"SUBMITTED">>]
       ELSE Return(w) /\ UNCHANGED row
    /\ UNCHANGED <<log, sub, got>>

-----------------------------------------------------------------------------
(* Updates *)

\* GetWork at the start of an operation, with the events it will publish.
Reads(w, kind, target, type, out) ==
    /\ op[w].pc = "idle"
    /\ state # "ABSENT" /\ version < MaxVersion
    /\ op' = [op EXCEPT ![w].pc = "write", ![w].kind = kind, ![w].state = state,
                        ![w].version = version, ![w].target = target,
                        ![w].type = type, ![w].out = out]
    /\ UNCHANGED <<row, log, sub, got>>

\* DurableTaskStoreAdapter.Update.  A PrevVersion other than 0 and the row's version
\* returns without a write; the terminal state of the row is not looked at.  Without
\* an event nothing is published, as when the operation ends there (OpFails).
Update(w, target, prev, out) ==
    /\ prev \in {0, version}
    /\ Reads(w, "update", target, target, out)

\* Mutant: a finished task is canceled like any other.
TaskCancelAny(w) == Reads(w, "cancel", "CANCELED", "CANCELED", <<"CANCELED">>)

\* A task that is not finished yet.
TaskCancel(w) ==
    /\ state \notin Terminal
    /\ Reads(w, "cancel", "CANCELED", "CANCELED", <<"CANCELED">>)

\* TaskReply: the artifact events and the status event, under one sequence.
TaskReply(w, target, artifacts) ==
    Reads(w, "reply", target, target, IF artifacts THEN <<"ARTIFACT", target>> ELSE <<target>>)

\* RecoverPendingWork, one of the rows ListPendingWorkForRecovery returned.
RecoverPendingWork(w) ==
    /\ state \in {"SUBMITTED", "WORKING"}
    /\ Reads(w, "recover", "SUBMITTED", "RECOVERED", <<>>)

\* What is left of an operation once the row is written: an event to log and
\* events to publish.
ToLog(type, out) == [NoOp EXCEPT !.pc = "seq", !.type = type, !.out = out]

\* Mutant: UPDATE without the version in its WHERE.
UpdateWorkStateUnchecked(w) ==
    /\ op[w].pc = "write"
    /\ version < MaxVersion
    /\ state' = op[w].target
    /\ version' = version + 1
    /\ op' = [op EXCEPT ![w] = ToLog(@.type, @.out)]
    /\ UNCHANGED <<log, sub, got>>

\* UpdateWorkState.  On a mismatch the callers return AlreadyDone, the terminal row
\* or an error; none of them writes again.
UpdateWorkState(w) ==
    /\ op[w].pc = "write"
    /\ IF version = op[w].version
       THEN /\ state' = op[w].target
            /\ version' = version + 1
            /\ op' = [op EXCEPT ![w] = ToLog(@.type, @.out)]
       ELSE Return(w) /\ UNCHANGED row
    /\ UNCHANGED <<log, sub, got>>

\* TraceRecorder.Record starts with the sequence.
Record(w) ==
    /\ op[w].pc = "idle"
    /\ state # "ABSENT" /\ Cardinality(log) < MaxEvents
    /\ op' = [op EXCEPT ![w] = ToLog("TRACE", <<>>)]
    /\ UNCHANGED <<row, log, sub, got>>

-----------------------------------------------------------------------------
(* The event log and its publication *)

\* Mutant: the sequence is not advanced.
ReadLatestSeqItself(w) ==
    /\ op[w].pc = "seq"
    /\ op' = [op EXCEPT ![w].pc = "append", ![w].seq = LatestSeq]
    /\ UNCHANGED <<row, log, sub, got>>

ReadLatestSeq(w) ==
    /\ op[w].pc = "seq"
    /\ op' = [op EXCEPT ![w].pc = "append", ![w].seq = LatestSeq + 1]
    /\ UNCHANGED <<row, log, sub, got>>

\* The error of the sequence query is dropped and its zero used; a trace returns it.
ReadLatestSeqFails(w) ==
    /\ op[w].pc = "seq"
    /\ IF op[w].type = "TRACE"
       THEN Return(w)
       ELSE op' = [op EXCEPT ![w].pc = "append", ![w].seq = 1]
    /\ UNCHANGED <<row, log, sub, got>>

\* Mutant: the unique index on (work_id, sequence) is missing.
AppendedUnchecked(q, t) == log \cup {[seq |-> q, type |-> t]}

\* The insert, refused when the sequence is taken.
Appended(q, t) == IF q \in Seqs THEN log ELSE log \cup {[seq |-> q, type |-> t]}

\* AppendWorkEvent; its error is dropped.
AppendWorkEvent(w) ==
    /\ op[w].pc = "append"
    /\ log' = Appended(op[w].seq, op[w].type)
    /\ op' = [op EXCEPT ![w].pc = "publish"]
    /\ UNCHANGED <<row, sub, got>>

AppendFails(w) ==
    /\ op[w].pc = "append"
    /\ op' = [op EXCEPT ![w].pc = "publish"]
    /\ UNCHANGED <<row, log, sub, got>>

\* A full channel drops the item.
Offered(c, item) ==
    IF c.pc # "off" /\ Len(c.buf) < Buffer THEN [c EXCEPT !.buf = Append(@, item)] ELSE c

\* EventManager.Publish of the operation's next event.
Publish(w) ==
    /\ op[w].pc = "publish" /\ op[w].out # <<>>
    /\ sub' = [s \in Subscribers |->
                  Offered(sub[s], [seq |-> op[w].seq, type |-> Head(op[w].out)])]
    /\ op' = [op EXCEPT ![w].out = Tail(@)]
    /\ UNCHANGED <<row, log, got>>

Finish(w) ==
    /\ op[w].pc = "publish" /\ op[w].out = <<>>
    /\ Return(w)
    /\ UNCHANGED <<row, log, sub, got>>

\* A read or write fails, or the manager stops: the rest does not happen.
OpFails(w) ==
    /\ op[w].pc # "idle"
    /\ Return(w)
    /\ UNCHANGED <<row, log, sub, got>>

-----------------------------------------------------------------------------
(* EventManager.Subscribe *)

\* Registers the channel, before the replay; from the start, or resuming.
Subscribe(s, from) ==
    /\ sub[s].pc = "off"
    /\ sub' = [sub EXCEPT ![s] = [NoSub EXCEPT !.pc = "replay", !.last = from, !.from = from]]
    /\ got' = [got EXCEPT ![s] = {}]
    /\ UNCHANGED <<row, log, op>>

\* ListWorkEvents(after, limit).
Listed(after) ==
    {e \in log : e.seq > after /\ Cardinality({q \in Seqs : after < q /\ q <= e.seq}) <= ReplayLimit}

\* The replay yields up to the first terminal event.
Yielded(after) ==
    {e \in Listed(after) : \A f \in Listed(after) : f.seq < e.seq => f.type \notin Terminal}

LastOf(S, default) == IF S = {} THEN default ELSE CHOOSE q \in {e.seq : e \in S} : \A e \in S : e.seq <= q

Replay(s) ==
    LET hist == Yielded(sub[s].from) IN
    /\ sub[s].pc = "replay"
    /\ got' = [got EXCEPT ![s] = hist]
    /\ sub' = [sub EXCEPT ![s] = IF \E e \in hist : e.type \in Terminal
                                 THEN NoSub
                                 ELSE [sub[s] EXCEPT !.pc = "live", !.last = LastOf(hist, sub[s].last)]]
    /\ UNCHANGED <<row, log, op>>

\* Mutant: the overlap with the replay is not removed.
OverlapExclusive(s, item) == item.seq < sub[s].last

\* The filter of the live loop.
Overlap(s, item) == item.seq <= sub[s].last

SkipOverlap(s) ==
    /\ sub[s].pc = "live" /\ sub[s].buf # <<>> /\ Overlap(s, Head(sub[s].buf))
    /\ sub' = [sub EXCEPT ![s].buf = Tail(@)]
    /\ UNCHANGED <<row, log, op, got>>

YieldLive(s) ==
    LET item == Head(sub[s].buf) IN
    /\ sub[s].pc = "live" /\ sub[s].buf # <<>> /\ ~Overlap(s, item)
    /\ got' = [got EXCEPT ![s] = @ \cup {item}]
    /\ sub' = [sub EXCEPT ![s] = IF item.type \in Terminal
                                 THEN NoSub
                                 ELSE [sub[s] EXCEPT !.last = item.seq, !.buf = Tail(sub[s].buf)]]
    /\ UNCHANGED <<row, log, op>>

\* The consumer's context ends, or the replay query fails.
Unsubscribe(s) ==
    /\ sub[s].pc # "off"
    /\ sub' = [sub EXCEPT ![s] = NoSub]
    /\ got' = [got EXCEPT ![s] = {}]
    /\ UNCHANGED <<row, log, op>>

-----------------------------------------------------------------------------
Operation(w) ==
    \/ LookupIdempotencyKey(w) \/ TaskCancel(w) \/ RecoverPendingWork(w) \/ Record(w)
    \/ \E target \in Targets, artifacts \in BOOLEAN : TaskReply(w, target, artifacts)
    \/ \E target \in Targets, prev \in 0..version :
          \E out \in {<<target>>, <<"ARTIFACT">>} : Update(w, target, prev, out)

OperationStep(w) ==
    \/ CreateWork(w) \/ UpdateWorkState(w)
    \/ ReadLatestSeq(w) \/ ReadLatestSeqFails(w) \/ AppendWorkEvent(w) \/ AppendFails(w)
    \/ Publish(w) \/ Finish(w) \/ OpFails(w)

SubscriberStep(s) ==
    \/ \E from \in {0, LatestSeq} : Subscribe(s, from)
    \/ Replay(s) \/ SkipOverlap(s) \/ YieldLive(s) \/ Unsubscribe(s)

Next ==
    \/ \E w \in Writers : Operation(w) \/ OperationStep(w)
    \/ \E s \in Subscribers : SubscriberStep(s)

Spec == Init /\ [][Next]_vars

-----------------------------------------------------------------------------
(* Properties *)

Wrote(w) == op[w].pc = "write" /\ op'[w].pc = "seq"

\* Optimistic locking loses no update: every write replaces exactly the state its
\* operation read and decided on, however many operations read the row meanwhile.
NoLostUpdate ==
    [][version # 0 /\ version' # version => \E w \in Writers : Wrote(w) /\ op[w].state = state]_vars

\* A cancel or a recovery that raced with the completion of the work leaves the
\* terminal state alone: only Update and TaskReply can replace one.
DoneSpared ==
    [][(state \in Terminal /\ state' # state) =>
         \E w \in Writers : Wrote(w) /\ op[w].kind \in {"update", "reply"}]_vars

\* The log has one event per sequence and no gap, although the sequence is read and
\* used in two statements, reads fail to zero and inserts are lost.
LogGapless ==
    /\ \A e, f \in log : e.seq = f.seq => e = f
    /\ \A q \in Seqs : q > 1 => q - 1 \in Seqs

\* A stream never goes back or repeats itself: whatever is published while it
\* replays, each yielded event is later than all before it.
StreamOrdered ==
    [][\A s \in Subscribers :
         sub[s].pc # "off" => \A e \in got'[s] \ got[s], f \in got[s] : f.seq < e.seq]_vars

=============================================================================
