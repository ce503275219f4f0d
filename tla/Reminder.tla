------------------------------ MODULE Reminder ------------------------------
(***************************************************************************)
(* One reminder row, the scheduler's due and retry scans, the API calls that   *)
(* edit, cancel, complete or fail it, and the connection of the owning agent.  *)
(*                                                                         *)
(* The scans are goroutines of their own: each lists rows and then works on    *)
(* its copy, one statement per step, while the other scan and the API calls    *)
(* change the row.  COMPLETED stands for FAILED too, which differs in the text *)
(* of its message only.  The agent stays enabled.                              *)
(***************************************************************************)
EXTENDS Naturals

CONSTANTS
    Callers,     \* concurrent API calls
    Retries,     \* len(retryBackoff) (5)
    MaxFaults,   \* bound on failed statements and manager crashes
    None

ASSUME ReminderConstants ==
    /\ Retries \in Nat
    /\ MaxFaults \in Nat

VARIABLES
    rem,        \* the row: status, due = fire_at passed, cron = recurring, retry state
    scan,       \* per scan: its step, and the copied cron and retry_count
    call,       \* per caller: an edit, complete or fail, and what it has read
    connected,  \* the agent has a session
    wake,       \* a wake waits for the agent's drain loop
    seen,       \* a drain session has been opened since the reminder fired
    faults

vars == <<rem, scan, call, connected, wake, seen, faults>>

agentVars == <<connected, wake, seen>>

Open     == {"PENDING", "DUE", "MISSED"}
Finished == {"COMPLETED", "CANCELLED"}

RowType ==
    [status : {"ABSENT"} \cup Open \cup Finished, due : BOOLEAN, cron : BOOLEAN,
     retries : 0..Retries, timer : {"none", "set", "passed"}]

ScanType ==
    [pc : {"idle", "mark", "deliver", "clear", "wake", "retry", "miss"},
     cron : BOOLEAN, retries : 0..Retries]

CallType == [kind : {None, "edit", "complete"}, cron : BOOLEAN]

Scans == {"due", "retry"}

TypeOK ==
    /\ rem \in RowType
    /\ scan \in [Scans -> ScanType]
    /\ call \in [Callers -> CallType]
    /\ connected \in BOOLEAN /\ wake \in BOOLEAN /\ seen \in BOOLEAN
    /\ faults \in 0..MaxFaults

Row(status, due, cron) ==
    [status |-> status, due |-> due, cron |-> cron, retries |-> 0, timer |-> "none"]

IdleScan == [pc |-> "idle", cron |-> FALSE, retries |-> 0]
NoCall   == [kind |-> None, cron |-> FALSE]

Init ==
    /\ rem = Row("ABSENT", FALSE, FALSE)
    /\ scan = [s \in Scans |-> IdleScan]
    /\ call = [c \in Callers |-> NoCall]
    /\ connected = FALSE /\ wake = FALSE /\ seen = FALSE
    /\ faults = 0

-----------------------------------------------------------------------------
(* API calls *)

\* The first fire is in the future; the primary key admits one conversion.
ConvertMessageToReminder(cron) ==
    /\ rem.status = "ABSENT"
    /\ rem' = Row("PENDING", FALSE, cron)
    /\ UNCHANGED <<scan, call, agentVars, faults>>

\* Mutant: the retry timer is kept.
CancelReminderKeepsTimer ==
    /\ rem.status \in Open
    /\ rem' = [rem EXCEPT !.status = "CANCELLED"]
    /\ UNCHANGED <<scan, call, agentVars, faults>>

\* A single statement; finished reminders are left alone.
CancelReminder ==
    /\ rem.status \in Open
    /\ rem' = [rem EXCEPT !.status = "CANCELLED", !.timer = "none"]
    /\ UNCHANGED <<scan, call, agentVars, faults>>

\* UpdateReminderFields reads the status ...
ReadForUpdate(c) ==
    /\ call[c] = NoCall /\ rem.status \in Open
    /\ call' = [call EXCEPT ![c].kind = "edit"]
    /\ UNCHANGED <<rem, scan, agentVars, faults>>

\* ... and writes the row whatever it is by then, under the status it read with DUE
\* and MISSED turned to PENDING.  An explicit fire_at may lie in the past.
UpdateReminderFields(c, due, cron) ==
    /\ call[c].kind = "edit"
    /\ rem' = Row("PENDING", due, cron)
    /\ call' = [call EXCEPT ![c] = NoCall]
    /\ UNCHANGED <<scan, agentVars, faults>>

\* CompleteReminder and FailReminder: GetReminder, for the next cron fire.
GetReminder(c) ==
    /\ call[c] = NoCall /\ rem.status # "ABSENT"
    /\ call' = [call EXCEPT ![c] = [kind |-> "complete", cron |-> rem.cron]]
    /\ UNCHANGED <<rem, scan, agentVars, faults>>

\* The row after a fire was reported: the next fire of a recurring reminder, or the end.
Resolved(cron, final) ==
    Row(IF cron THEN "PENDING" ELSE final, rem.due /\ ~cron, rem.cron)

\* conversationVersionBumpSQL has two parameters, the conversation and the
\* organization; with any other number of arguments the driver refuses it.
VersionBumps(arguments) == arguments = 2

\* The transaction: a no-op unless the reminder is DUE; the bump for its two thread
\* messages gets the conversation only, and everything is rolled back.
CompleteReminderTx(c) ==
    /\ call[c].kind = "complete"
    /\ rem' = IF rem.status = "DUE" /\ VersionBumps(1)
              THEN Resolved(call[c].cron, "COMPLETED") ELSE rem
    /\ call' = [call EXCEPT ![c] = NoCall]
    /\ UNCHANGED <<scan, agentVars, faults>>

-----------------------------------------------------------------------------
(* The scans *)

Goto(s, pc) == scan' = [scan EXCEPT ![s].pc = pc]
EndScan(s)  == scan' = [scan EXCEPT ![s] = IdleScan]

ListDuePending ==
    /\ scan["due"].pc = "idle"
    /\ rem.status = "PENDING" /\ rem.due
    /\ scan' = [scan EXCEPT !["due"] = [pc |-> "mark", cron |-> rem.cron, retries |-> 0]]
    /\ UNCHANGED <<rem, call, agentVars, faults>>

\* The row may no longer be PENDING, or its fire_at no longer past: the statement
\* compares the status only, and the scan delivers in any case.
MarkDue ==
    /\ scan["due"].pc = "mark"
    /\ IF rem.status = "PENDING"
       THEN /\ rem' = [rem EXCEPT !.status = "DUE", !.retries = 0, !.timer = "none"]
            /\ seen' = FALSE
       ELSE UNCHANGED <<rem, seen>>
    /\ Goto("due", "deliver")
    /\ UNCHANGED <<call, connected, wake, faults>>

ListDueRetrying ==
    /\ scan["retry"].pc = "idle"
    /\ rem.status = "DUE" /\ rem.timer = "passed"
    /\ scan' = [scan EXCEPT !["retry"] = [pc |-> "deliver", cron |-> rem.cron, retries |-> rem.retries]]
    /\ UNCHANGED <<rem, call, agentVars, faults>>

\* Mutant: off by one at the end of the backoff.
DeliverOnceMore(s) ==
    /\ scan[s].pc = "deliver"
    /\ Goto(s, IF connected THEN "clear" ELSE IF scan[s].retries > Retries THEN "miss" ELSE "retry")
    /\ UNCHANGED <<rem, call, agentVars, faults>>

\* deliver: IsAgentConnected decides.
Deliver(s) ==
    /\ scan[s].pc = "deliver"
    /\ Goto(s, IF connected THEN "clear" ELSE IF scan[s].retries >= Retries THEN "miss" ELSE "retry")
    /\ UNCHANGED <<rem, call, agentVars, faults>>

ClearRetry(s) ==
    /\ scan[s].pc = "clear"
    /\ rem' = IF rem.status = "DUE" THEN [rem EXCEPT !.timer = "none"] ELSE rem
    /\ Goto(s, "wake")
    /\ UNCHANGED <<call, agentVars, faults>>

\* Mutant: the connected agent is not told.
NotifyWakeLost(s) ==
    /\ scan[s].pc = "wake"
    /\ EndScan(s)
    /\ UNCHANGED <<rem, call, agentVars, faults>>

NotifyWake(s) ==
    /\ scan[s].pc = "wake"
    /\ wake' = (wake \/ connected)
    /\ EndScan(s)
    /\ UNCHANGED <<rem, call, connected, seen, faults>>

SetRetry(s) ==
    /\ scan[s].pc = "retry"
    /\ rem' = IF rem.status = "DUE"
              THEN [rem EXCEPT !.retries = scan[s].retries + 1, !.timer = "set"] ELSE rem
    /\ EndScan(s)
    /\ UNCHANGED <<call, agentVars, faults>>

\* miss, with the recurrence of the copied row; MarkMissedAndPostNotification is
\* rolled back for the same reason.
MarkMissed(s) ==
    /\ scan[s].pc = "miss"
    /\ rem' = IF rem.status = "DUE" /\ VersionBumps(1)
              THEN Resolved(scan[s].cron, "MISSED") ELSE rem
    /\ EndScan(s)
    /\ UNCHANGED <<call, agentVars, faults>>

-----------------------------------------------------------------------------
(* The agent, time and faults *)

\* AgentReady, with the wake the drain loop gives itself and the manager sends.
AgentConnects ==
    /\ ~connected
    /\ connected' = TRUE /\ wake' = TRUE
    /\ UNCHANGED <<rem, scan, call, seen, faults>>

AgentDisconnects ==
    /\ connected
    /\ connected' = FALSE /\ wake' = FALSE
    /\ UNCHANGED <<rem, scan, call, seen, faults>>

\* HasDueReminders in the BeginSession gate.
HasDueReminders == rem.status = "DUE"

\* BeginSession: the drain loop opens sessions until the reply is idle.
BeginSession ==
    /\ connected /\ wake
    /\ wake' = HasDueReminders
    /\ seen' = (seen \/ HasDueReminders)
    /\ UNCHANGED <<rem, scan, call, connected, faults>>

FireTimePasses ==
    /\ rem.status = "PENDING" /\ ~rem.due
    /\ rem' = [rem EXCEPT !.due = TRUE]
    /\ UNCHANGED <<scan, call, agentVars, faults>>

RetryTimePasses ==
    /\ rem.timer = "set"
    /\ rem' = [rem EXCEPT !.timer = "passed"]
    /\ UNCHANGED <<scan, call, agentVars, faults>>

\* A statement of a scan fails, or its five seconds are over: ClearRetry goes on to
\* the wake, everything else gives the row up for this tick.
ScanFails(s) ==
    /\ scan[s].pc # "idle" /\ faults < MaxFaults
    /\ IF scan[s].pc = "clear" THEN Goto(s, "wake") ELSE EndScan(s)
    /\ faults' = faults + 1
    /\ UNCHANGED <<rem, call, agentVars>>

CallFails(c) ==
    /\ call[c] # NoCall /\ faults < MaxFaults
    /\ call' = [call EXCEPT ![c] = NoCall]
    /\ faults' = faults + 1
    /\ UNCHANGED <<rem, scan, agentVars>>

\* The manager dies and restarts: scans, calls and streams are gone, the row stays.
Crash ==
    /\ faults < MaxFaults
    /\ scan' = [s \in Scans |-> IdleScan]
    /\ call' = [c \in Callers |-> NoCall]
    /\ connected' = FALSE /\ wake' = FALSE
    /\ faults' = faults + 1
    /\ UNCHANGED <<rem, seen>>

-----------------------------------------------------------------------------
ScanStep(s) == Deliver(s) \/ ClearRetry(s) \/ NotifyWake(s) \/ SetRetry(s) \/ MarkMissed(s)

DueScan   == ListDuePending \/ MarkDue \/ ScanStep("due")
RetryScan == ListDueRetrying \/ ScanStep("retry")

Next ==
    \/ \E cron \in BOOLEAN : ConvertMessageToReminder(cron)
    \/ CancelReminder
    \/ \E c \in Callers :
          \/ ReadForUpdate(c) \/ GetReminder(c) \/ CompleteReminderTx(c) \/ CallFails(c)
          \/ \E due, cron \in BOOLEAN : UpdateReminderFields(c, due, cron)
    \/ DueScan \/ RetryScan
    \/ AgentConnects \/ AgentDisconnects \/ BeginSession
    \/ FireTimePasses \/ RetryTimePasses
    \/ \E s \in Scans : ScanFails(s)
    \/ Crash

Spec == Init /\ [][Next]_vars

\* Time passes, both tickers keep running their scans and the drain loop reads its
\* wakes.  Nobody is assumed to connect, to answer or to edit.
FairSpec ==
    /\ Spec
    /\ WF_vars(DueScan) /\ WF_vars(RetryScan)
    /\ WF_vars(RetryTimePasses) /\ WF_vars(BeginSession)

-----------------------------------------------------------------------------
(* Properties *)

\* A retry timer belongs to a DUE reminder: neither a stale scan nor a cancel, a
\* report or an edit leaves one behind.
TimerOnlyWhileDue == rem.timer # "none" => rem.status = "DUE"

\* A fired reminder reaches a connected agent, in whatever order it connected, was
\* woken and the row fired; a wake lost to a failed statement is not repeated.
FireNoticed ==
    rem.status = "DUE" /\ connected ~>
        rem.status # "DUE" \/ seen \/ ~connected \/ faults > 0

-----------------------------------------------------------------------------
(* What a comment says, and the code does not do *)

\* "After the backoff is exhausted a one-shot reminder is marked MISSED; a recurring
\* reminder is rescheduled to the next cron fire": a DUE reminder does not keep its
\* retry timer for ever while the agent stays away.
RetriedUntilMissed == rem.timer # "none" ~> connected \/ rem.timer = "none"

=============================================================================
