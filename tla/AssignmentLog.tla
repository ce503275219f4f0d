---------------------------- MODULE AssignmentLog ----------------------------
(***************************************************************************)
(* The durable assignment log of one Machine: the Manager appends events and *)
(* pushes them through the outbox, the Machine applies them to its reducer    *)
(* and its agent runners, acknowledges, and after a disconnect asks for what  *)
(* it missed.                                                                *)
(*                                                                         *)
(* The Machine handles a message completely before it receives the next one,  *)
(* so a message is one action.  Its state is a record, and the handlers are   *)
(* functions on such records.                                                *)
(***************************************************************************)
EXTENDS Naturals, Sequences

CONSTANTS
    Agents,       \* agent resource ids
    MaxEvents,    \* bound on the length of the log
    MaxFaults,    \* bound on disconnects, process restarts and resends together
    SaveMayFail,  \* whether writing the cursor file may fail
    None,         \* no assignment, no runner
    DbRev         \* the config the agent table holds, returned by ConnectMachine

ASSUME AssignmentConstants ==
    /\ MaxEvents \in Nat /\ MaxFaults \in Nat
    /\ SaveMayFail \in BOOLEAN
    /\ None \notin 1..MaxEvents /\ DbRev \notin 1..MaxEvents /\ None # DbRev

VARIABLES
    log,        \* a2a888_machine_assignment_event, by sequence
    pushed,     \* how the callers fill in events, see Copies
    lastAck,    \* last_ack_sequence of the Manager's state row
    outbox,     \* sequences whose outbox event is still to be delivered
    up,         \* the control stream is connected
    toMachine,  \* messages of the Manager on the stream
    toManager,  \* messages of the Machine on the stream
    machine,    \* the Machine process, see MachineState
    faults      \* disconnects, restarts and resends so far

vars == <<log, pushed, lastAck, outbox, up, toMachine, toManager, machine, faults>>

\* What the pushed copy of an event is to the Machine.  The outbox payload is the
\* caller's event: the stored one ("stored"), one that differs from it in the
\* precision of created_at ("differs"), or one without sequence or created_at,
\* which the store filled in ("invalid").
Copies == {"stored", "differs", "invalid"}
Types  == {"CREATE", "CONFIG_UPDATE", "REMOVE"}

\* The config of an agent, named by the sequence of the event that carried it.
Configs == 1..MaxEvents \cup {None, DbRev}
Rosters == [Agents -> Configs]

MachineState ==
    [seq     : 0..MaxEvents,        \* reducer.lastSequence
     copies  : Seq(Copies),         \* reducer.eventsBySequence: the copy applied
     roster  : Rosters,             \* reducer.assignments
     acked   : 0..MaxEvents,        \* reducer.lastAcknowledged, 0 when nil
     cursor  : 0..MaxEvents,        \* the cursor in the state file, 0 when absent
     runners : Rosters,             \* MachineClient.runners with their config
     ok      : BOOLEAN]             \* no handler has returned an error

LogEvents == [agent : Agents, type : Types, config : Configs]

TypeOK ==
    /\ log \in Seq(LogEvents) /\ Len(log) <= MaxEvents
    /\ pushed \in Copies
    /\ lastAck \in 0..MaxEvents
    /\ outbox \subseteq 1..MaxEvents
    /\ up \in BOOLEAN
    /\ \A i \in DOMAIN toMachine :
          toMachine[i] \in [type : {"event"}, n : 1..MaxEvents]
                           \cup [type : {"replay"}, after : 0..MaxEvents, upto : 0..MaxEvents]
    /\ \A i \in DOMAIN toManager : toManager[i] \in [type : {"req", "ack"}, n : 0..MaxEvents]
    /\ machine \in MachineState
    /\ faults \in 0..MaxFaults

Unassigned == [a \in Agents |-> None]

FreshProcess(cursor) ==
    [seq |-> 0, copies |-> <<>>, roster |-> Unassigned, acked |-> 0, cursor |-> cursor,
     runners |-> Unassigned, ok |-> TRUE]

Init ==
    /\ log = <<>> /\ pushed \in Copies /\ lastAck = 0 /\ outbox = {}
    /\ up = FALSE /\ toMachine = <<>> /\ toManager = <<>>
    /\ machine = FreshProcess(0)
    /\ faults = 0

\* The active roster after the first n events: what the last event of each agent says.
RosterAfter(n) ==
    [a \in Agents |->
        LET about == {i \in 1..n : log[i].agent = a}
        IN  IF about = {} THEN None
            ELSE log[CHOOSE i \in about : \A j \in about : j <= i].config]

-----------------------------------------------------------------------------
(* The Machine: Reducer and MachineClient *)

\* Mutant: the reducer does not look for gaps.
AcceptsGaps(m, e, n, copy) ==
    /\ copy # "invalid"
    /\ IF n <= Len(m.copies) THEN m.copies[n] = copy
                             ELSE (e.type = "CREATE") = (m.roster[e.agent] = None)

\* Reducer.ApplyEvent returns nil: a duplicate must be equal to what was applied,
\* a new event must be the next one and fit the assignments.
Accepts(m, e, n, copy) ==
    /\ copy # "invalid"
    /\ IF n <= m.seq
       THEN m.copies[n] = copy
       ELSE n = m.seq + 1 /\ (e.type = "CREATE") = (m.roster[e.agent] = None)

\* Its effect; a duplicate has none.
Reduced(m, e, n, copy) ==
    IF n <= m.seq THEN m
    ELSE [m EXCEPT !.seq = n, !.copies = Append(@, copy), !.roster[e.agent] = e.config]

\* spawnOrUpdate or stopRunner, for a duplicate too.
Hosted(m, e) == [m EXCEPT !.runners[e.agent] = e.config]

\* The sequences for which writing the cursor file succeeds while a message is handled.
CursorWrites == IF SaveMayFail THEN SUBSET (1..MaxEvents) ELSE {1..MaxEvents}

\* Mutant: the acknowledged sequence is one too high.
AcknowledgedOffByOne(m, n, saved) ==
    IF n < m.acked THEN [m EXCEPT !.ok = FALSE]
    ELSE [m EXCEPT !.acked = n + 1, !.cursor = IF n \in saved THEN n ELSE @]

\* Reducer.Acknowledge and SaveAckCursor: moving back is an error, a failed write of the
\* cursor is only logged.
Acknowledged(m, n, saved) ==
    IF n < m.acked THEN [m EXCEPT !.ok = FALSE]
    ELSE [m EXCEPT !.acked = n, !.cursor = IF n \in saved THEN n ELSE @]

\* ApplyAssignmentEvent
ApplyAssignmentEvent(m, n, copy, saved) ==
    LET e == log[n]
    IN  IF m.ok /\ Accepts(m, e, n, copy)
        THEN Acknowledged(Hosted(Reduced(m, e, n, copy), e), n, saved)
        ELSE [m EXCEPT !.ok = FALSE]

\* ReconcileRoster: exactly the reducer's assignments run.
ReconcileRoster(m) == IF m.ok THEN [m EXCEPT !.runners = m.roster] ELSE m

\* The events after+1..upto applied in order; an error stops at the failing event.
AppliedThrough(m, after, upto, saved) ==
    LET applied[i \in after..upto] ==
          IF i = after THEN m ELSE ApplyAssignmentEvent(applied[i - 1], i, "stored", saved)
    IN  applied[upto]

\* Mutant: nothing to apply means nothing to do.
ReplayedEarlyReturn(m, after, upto, saved) ==
    IF after = upto THEN m ELSE ReconcileRoster(AppliedThrough(m, after, upto, saved))

\* ApplyAssignmentReplay: a fresh process keeps the connected roster when the log is
\* empty; otherwise the events in order, then the roster.
Replayed(m, after, upto, saved) ==
    IF after = upto /\ m.seq = 0 THEN m
    ELSE ReconcileRoster(AppliedThrough(m, after, upto, saved))

\* Mutant: the persisted cursor, whatever the reducer holds.
CursorFromFile == machine.cursor

\* assignmentReplayCursor: only a hydrated reducer may resume; the file wins over
\* the reducer's own acknowledgement.
assignmentReplayCursor ==
    IF machine.seq = 0 THEN 0
    ELSE IF machine.cursor # 0 THEN machine.cursor ELSE machine.acked

-----------------------------------------------------------------------------
(* Stream *)

\* The stream is gone: the client tears its runners down and reconnects later.
Disconnected(m) ==
    /\ up' = FALSE /\ toMachine' = <<>> /\ toManager' = <<>>
    /\ machine' = [m EXCEPT !.runners = Unassigned, !.ok = TRUE]

\* ConnectMachine returns the roster of the agent table, the client spawns it and
\* opens the control stream with a replay request.
Connect ==
    /\ ~up
    /\ up' = TRUE
    /\ \E assigned \in SUBSET Agents :
          machine' = [machine EXCEPT !.runners =
                         [a \in Agents |-> IF a \in assigned THEN DbRev ELSE None]]
    /\ toManager' = <<[type |-> "req", n |-> assignmentReplayCursor]>>
    /\ UNCHANGED <<log, pushed, lastAck, outbox, toMachine, faults>>

\* The connection breaks.
Break ==
    /\ up /\ faults < MaxFaults
    /\ faults' = faults + 1
    /\ Disconnected(machine)
    /\ UNCHANGED <<log, pushed, lastAck, outbox>>

\* The Machine process ends and starts again: only the state file survives.
Restart ==
    /\ faults < MaxFaults
    /\ faults' = faults + 1
    /\ Disconnected(FreshProcess(machine.cursor))
    /\ UNCHANGED <<log, pushed, lastAck, outbox>>

\* The receive pump handles one message; an error ends the stream, otherwise an
\* acknowledgement is sent (none after a replay without events).
MachineReceives ==
    /\ up /\ toMachine # <<>>
    /\ \E saved \in CursorWrites :
         LET msg == Head(toMachine)
             m   == IF msg.type = "event"
                    THEN ApplyAssignmentEvent(machine, msg.n, pushed, saved)
                    ELSE Replayed(machine, msg.after, msg.upto, saved)
             acks == IF msg.type = "event" THEN <<[type |-> "ack", n |-> msg.n]>>
                     ELSE IF msg.after < msg.upto THEN <<[type |-> "ack", n |-> msg.upto]>>
                     ELSE <<>>
         IN  \/ /\ m.ok
                /\ machine' = m
                /\ toMachine' = Tail(toMachine)
                /\ toManager' = toManager \o acks
                /\ UNCHANGED up
             \/ /\ ~m.ok
                /\ Disconnected(m)
    /\ UNCHANGED <<log, pushed, lastAck, outbox, faults>>

-----------------------------------------------------------------------------
(* The Manager *)

\* RecordMachineAssignmentEvent: the next sequence, the event and its outbox row in
\* one transaction.  Nothing compares the event with the roster.
RecordMachineAssignmentEvent(a, type) ==
    /\ Len(log) < MaxEvents
    /\ log' = Append(log, [agent |-> a, type |-> type,
                          config |-> IF type = "REMOVE" THEN None ELSE Len(log) + 1])
    /\ outbox' = outbox \cup {Len(log) + 1}
    /\ UNCHANGED <<pushed, lastAck, up, toMachine, toManager, machine, faults>>

\* The outbox worker delivers an event; when storing the outcome fails the event is
\* delivered again later.
Push(n) ==
    /\ n \in outbox /\ up
    /\ toMachine' = Append(toMachine, [type |-> "event", n |-> n])
    /\ \/ outbox' = outbox \ {n} /\ UNCHANGED faults
       \/ /\ faults < MaxFaults
          /\ faults' = faults + 1
          /\ UNCHANGED outbox
    /\ UNCHANGED <<log, pushed, lastAck, up, toManager, machine>>

\* The machine is not connected and the delivery budget is spent: dead letter.
GiveUp(n) ==
    /\ n \in outbox /\ ~up
    /\ outbox' = outbox \ {n}
    /\ UNCHANGED <<log, pushed, lastAck, up, toMachine, toManager, machine, faults>>

\* MachineChannel receives: GetMachineAssignmentReplay answers a request;
\* AcknowledgeMachineAssignment refuses to move back, which ends the stream.
ManagerReceives ==
    /\ up /\ toManager # <<>>
    /\ LET msg == Head(toManager)
       IN  \/ /\ msg.type = "req"
              /\ toMachine' = Append(toMachine,
                                [type |-> "replay", after |-> msg.n, upto |-> Len(log)])
              /\ toManager' = Tail(toManager)
              /\ UNCHANGED <<lastAck, up, machine>>
           \/ /\ msg.type = "ack" /\ msg.n >= lastAck
              /\ lastAck' = msg.n
              /\ toManager' = Tail(toManager)
              /\ UNCHANGED <<up, toMachine, machine>>
           \/ /\ msg.type = "ack" /\ msg.n < lastAck
              /\ Disconnected(machine)
              /\ UNCHANGED lastAck
    /\ UNCHANGED <<log, pushed, outbox, faults>>

-----------------------------------------------------------------------------
Next ==
    \/ Connect \/ Break \/ Restart \/ MachineReceives \/ ManagerReceives
    \/ \E a \in Agents, t \in Types : RecordMachineAssignmentEvent(a, t)
    \/ \E n \in 1..MaxEvents : Push(n) \/ GiveUp(n)

Spec == Init /\ [][Next]_vars

\* The client keeps reconnecting and both ends keep reading; the outbox keeps
\* delivering.  Nothing is assumed of disconnects, restarts or new events.
FairSpec ==
    /\ Spec
    /\ WF_vars(Connect) /\ WF_vars(MachineReceives) /\ WF_vars(ManagerReceives)
    /\ \A n \in 1..MaxEvents : WF_vars(Push(n))

-----------------------------------------------------------------------------
(* Properties *)

\* The reducer has applied a prefix of the log, each event of it once and none
\* skipped, and its assignments are what this prefix says, however events were
\* pushed, replayed, duplicated or reordered on the way.
ReducerMatchesLog ==
    /\ machine.seq <= Len(log) /\ Len(machine.copies) = machine.seq
    /\ machine.roster = RosterAfter(machine.seq)

\* "applying only events after a persisted cursor to an empty reducer would create
\* a sequence gap": no request or replay under way starts beyond what the reducer
\* has applied.
NoEventSkipped ==
    /\ \A i \in DOMAIN toManager : toManager[i].type = "req" => toManager[i].n <= machine.seq
    /\ \A i \in DOMAIN toMachine : toMachine[i].type = "replay" => toMachine[i].after <= machine.seq

\* Every event of the log fits the roster before it: a CREATE of an absent agent, an
\* update or removal of a present one.  An event that does not is refused by every
\* reducer on every replay, and nothing after it is ever applied.
SensibleLog ==
    \A i \in DOMAIN log : (log[i].type = "CREATE") = (RosterAfter(i - 1)[log[i].agent] = None)

\* "Manager replays all missed assignment sequences automatically": once events and
\* faults stop, and if the callers recorded a sensible log, the Machine runs each agent
\* of the log exactly as its last event says, although pushes, replays and the roster
\* of the agent table race.
Converges ==
    <>[](SensibleLog =>
           \A i \in DOMAIN log :
              machine.runners[log[i].agent] = RosterAfter(Len(log))[log[i].agent])

=============================================================================
