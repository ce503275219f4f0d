--------------------------- MODULE ReminderProofs ---------------------------
(***************************************************************************)
(* Reminder, for any number of callers, any backoff and any number of faults.  *)
(***************************************************************************)
EXTENDS Reminder, TLAPS

\* A scan that decided to retry has a retry left in its copy, and holds it until it
\* writes: without this SetRetry could count past the backoff.
RetryLeft == \A s \in Scans : scan[s].pc = "retry" => scan[s].retries < Retries

IInv == TypeOK /\ RetryLeft /\ TimerOnlyWhileDue

\* Row, the way every rewrite of a reminder starts.
LEMMA RowFacts ==
    ASSUME NEW status \in {"ABSENT"} \cup Open \cup Finished,
           NEW due \in BOOLEAN, NEW cron \in BOOLEAN
    PROVE  Row(status, due, cron) \in RowType /\ Row(status, due, cron).timer = "none"
  BY ReminderConstants DEF Row, RowType

\* The outcome of a fire has no timer, whatever the copy said of the recurrence.
LEMMA ResolvedFacts ==
    ASSUME TypeOK, NEW cron \in BOOLEAN, NEW final \in Open \cup Finished
    PROVE  Resolved(cron, final) \in RowType /\ Resolved(cron, final).timer = "none"
<1>1. rem.due \in BOOLEAN /\ rem.cron \in BOOLEAN
  BY DEF TypeOK, RowType
<1>2. (rem.due /\ ~cron) \in BOOLEAN
  OBVIOUS
<1>3. (IF cron THEN "PENDING" ELSE final) \in {"ABSENT"} \cup Open \cup Finished
  BY DEF Open, Finished
<1> QED BY <1>1, <1>2, <1>3, RowFacts DEF Resolved

\* A statement that touches only a row in status DUE.
LEMMA DueRowFacts ==
    ASSUME TypeOK, rem.status = "DUE",
           NEW n \in 0..Retries, NEW timer \in {"none", "set", "passed"}
    PROVE  /\ [rem EXCEPT !.timer = timer] \in RowType
           /\ [rem EXCEPT !.timer = timer].status = "DUE"
           /\ [rem EXCEPT !.retries = n, !.timer = timer] \in RowType
           /\ [rem EXCEPT !.retries = n, !.timer = timer].status = "DUE"
  BY DEF TypeOK, RowType

\* The moves of a scan.
LEMMA ScanFacts ==
    ASSUME TypeOK, RetryLeft, NEW s \in Scans,
           NEW pc \in {"idle", "mark", "deliver", "clear", "wake", "retry", "miss"}
    PROVE  /\ [scan EXCEPT ![s] = IdleScan] \in [Scans -> ScanType]
           /\ [scan EXCEPT ![s].pc = pc] \in [Scans -> ScanType]
           /\ EndScan(s) => RetryLeft'
           /\ Goto(s, pc) /\ (pc = "retry" => scan[s].retries < Retries) => RetryLeft'
<1>1. /\ scan \in [Scans -> ScanType]
      /\ 0 \in 0..Retries
  BY ReminderConstants DEF TypeOK
<1>2. /\ [scan EXCEPT ![s] = IdleScan] \in [Scans -> ScanType]
      /\ [scan EXCEPT ![s].pc = pc] \in [Scans -> ScanType]
  BY <1>1 DEF IdleScan, ScanType
<1>3. EndScan(s) => RetryLeft'
  BY <1>1 DEF EndScan, RetryLeft, IdleScan
<1>4. Goto(s, pc) /\ (pc = "retry" => scan[s].retries < Retries) => RetryLeft'
  BY <1>1 DEF Goto, RetryLeft, ScanType
<1> QED BY <1>2, <1>3, <1>4

-----------------------------------------------------------------------------

LEMMA InitIInv == Init => IInv
<1> SUFFICES ASSUME Init PROVE IInv
  OBVIOUS
<1>1. rem \in RowType /\ rem.timer = "none"
  BY RowFacts DEF Init
<1>2. scan \in [Scans -> ScanType] /\ RetryLeft
  BY ReminderConstants DEF Init, ScanType, IdleScan, RetryLeft
<1>3. call \in [Callers -> CallType]
  BY DEF Init, CallType, NoCall
<1>4. connected \in BOOLEAN /\ wake \in BOOLEAN /\ seen \in BOOLEAN
  BY Zenon DEF Init
<1>5. faults \in 0..MaxFaults
  BY ReminderConstants DEF Init
<1> QED BY <1>1, <1>2, <1>3, <1>4, <1>5 DEF IInv, TypeOK, TimerOnlyWhileDue

\* The API calls.
LEMMA CallPreservesIInv ==
    ASSUME IInv,
           \/ \E cron \in BOOLEAN : ConvertMessageToReminder(cron)
           \/ CancelReminder
           \/ \E c \in Callers :
                 \/ ReadForUpdate(c) \/ GetReminder(c) \/ CompleteReminderTx(c) \/ CallFails(c)
                 \/ \E due, cron \in BOOLEAN : UpdateReminderFields(c, due, cron)
    PROVE  IInv'
<1>0. TypeOK /\ RetryLeft /\ TimerOnlyWhileDue
  BY DEF IInv
<1>1. ASSUME NEW cron \in BOOLEAN, ConvertMessageToReminder(cron) PROVE IInv'
  <2>1. rem' \in RowType /\ rem'.timer = "none"
    BY <1>1, RowFacts DEF ConvertMessageToReminder, Open
  <2> QED BY <1>0, <1>1, <2>1
          DEF ConvertMessageToReminder, IInv, TypeOK, RetryLeft, TimerOnlyWhileDue, agentVars
<1>2. CASE CancelReminder
  <2>1. rem' \in RowType /\ rem'.timer = "none"
    BY <1>0, <1>2 DEF CancelReminder, TypeOK, RowType, Finished
  <2> QED BY <1>0, <1>2, <2>1
          DEF CancelReminder, IInv, TypeOK, RetryLeft, TimerOnlyWhileDue, agentVars
<1>3. ASSUME NEW c \in Callers, ReadForUpdate(c) \/ GetReminder(c) \/ CallFails(c) PROVE IInv'
  <2>0. call \in [Callers -> CallType] /\ rem.cron \in BOOLEAN
    BY <1>0 DEF TypeOK, RowType
  <2>a. ReadForUpdate(c) => call' \in [Callers -> CallType]
    BY <2>0 DEF ReadForUpdate, CallType
  <2>b. GetReminder(c) => call' \in [Callers -> CallType]
    BY <2>0 DEF GetReminder, CallType
  <2>c. CallFails(c) => call' \in [Callers -> CallType]
    BY <2>0 DEF CallFails, CallType, NoCall
  <2>1. call' \in [Callers -> CallType] /\ UNCHANGED <<rem, scan, connected, wake, seen>>
    BY <1>3, <2>a, <2>b, <2>c DEF ReadForUpdate, GetReminder, CallFails, agentVars
  <2>2. faults' \in 0..MaxFaults
    BY <1>0, <1>3, ReminderConstants DEF ReadForUpdate, GetReminder, CallFails, TypeOK
  <2> QED BY <1>0, <2>1, <2>2 DEF IInv, TypeOK, RetryLeft, TimerOnlyWhileDue
<1>4. ASSUME NEW c \in Callers, CompleteReminderTx(c) PROVE IInv'
  <2>1. call[c].cron \in BOOLEAN
    BY <1>0 DEF TypeOK, CallType
  <2>2. rem' \in RowType /\ (rem' = rem \/ rem'.timer = "none")
    <3>1. Resolved(call[c].cron, "COMPLETED") \in RowType /\ Resolved(call[c].cron, "COMPLETED").timer = "none"
      BY <1>0, <2>1, ResolvedFacts DEF Finished
    <3> QED BY <1>0, <1>4, <3>1 DEF CompleteReminderTx, TypeOK
  <2>3. call' \in [Callers -> CallType] /\ UNCHANGED <<scan, connected, wake, seen, faults>>
    BY <1>0, <1>4 DEF CompleteReminderTx, TypeOK, CallType, NoCall, agentVars
  <2> QED BY <1>0, <2>2, <2>3 DEF IInv, TypeOK, RetryLeft, TimerOnlyWhileDue
<1>5. ASSUME NEW c \in Callers, NEW due \in BOOLEAN, NEW cron \in BOOLEAN,
             UpdateReminderFields(c, due, cron)
      PROVE  IInv'
  <2>1. rem' \in RowType /\ rem'.timer = "none"
    BY <1>5, RowFacts DEF UpdateReminderFields, Open
  <2>2. call' \in [Callers -> CallType] /\ UNCHANGED <<scan, connected, wake, seen, faults>>
    BY <1>0, <1>5 DEF UpdateReminderFields, TypeOK, CallType, NoCall, agentVars
  <2> QED BY <1>0, <2>1, <2>2 DEF IInv, TypeOK, RetryLeft, TimerOnlyWhileDue
<1> QED BY <1>1, <1>2, <1>3, <1>4, <1>5

\* The scans.
LEMMA ScanPreservesIInv ==
    ASSUME IInv, DueScan \/ RetryScan
    PROVE  IInv'
<1>0. TypeOK /\ RetryLeft /\ TimerOnlyWhileDue
  BY DEF IInv
<1>s. "due" \in Scans /\ "retry" \in Scans
  BY DEF Scans
<1>t. /\ rem \in RowType /\ scan \in [Scans -> ScanType]
      /\ 0 \in 0..Retries
  BY <1>0, ReminderConstants DEF TypeOK
<1>1. CASE ListDuePending \/ ListDueRetrying
  <2>1. scan' \in [Scans -> ScanType]
    BY <1>t, <1>s, <1>1 DEF ListDuePending, ListDueRetrying, RowType, ScanType
  <2>2. RetryLeft'
    BY <1>0, <1>t, <1>s, <1>1 DEF ListDuePending, ListDueRetrying, RetryLeft
  <2> QED BY <1>0, <1>1, <2>1, <2>2
          DEF ListDuePending, ListDueRetrying, IInv, TypeOK, TimerOnlyWhileDue, agentVars
<1>2. CASE MarkDue
  <2>1. rem' \in RowType /\ TimerOnlyWhileDue'
    BY <1>0, <1>t, <1>2 DEF MarkDue, RowType, TimerOnlyWhileDue, Open
  <2>2. scan' \in [Scans -> ScanType] /\ RetryLeft'
    BY <1>0, <1>s, <1>2, ScanFacts DEF MarkDue, Goto
  <2> QED BY <1>0, <1>2, <2>1, <2>2 DEF MarkDue, IInv, TypeOK
<1>3. ASSUME NEW s \in Scans, Deliver(s) PROVE IInv'
  <2>1. PICK pc \in {"clear", "miss", "retry"} :
           Goto(s, pc) /\ (pc = "retry" => ~(scan[s].retries >= Retries))
    BY <1>3 DEF Deliver
  <2>2. pc = "retry" => scan[s].retries < Retries
    BY <1>t, <2>1, ReminderConstants DEF ScanType
  <2>3. scan' \in [Scans -> ScanType] /\ RetryLeft'
    BY <1>0, <2>1, <2>2, ScanFacts DEF Goto
  <2> QED BY <1>0, <1>3, <2>3 DEF Deliver, IInv, TypeOK, TimerOnlyWhileDue, agentVars
<1>4. ASSUME NEW s \in Scans, ClearRetry(s) PROVE IInv'
  <2>1. rem' \in RowType /\ TimerOnlyWhileDue'
    BY <1>0, <1>t, <1>4, DueRowFacts DEF ClearRetry, TimerOnlyWhileDue
  <2>2. scan' \in [Scans -> ScanType] /\ RetryLeft'
    BY <1>0, <1>4, ScanFacts DEF ClearRetry, Goto
  <2> QED BY <1>0, <1>4, <2>1, <2>2 DEF ClearRetry, IInv, TypeOK, agentVars
<1>5. ASSUME NEW s \in Scans, NotifyWake(s) PROVE IInv'
  <2>1. scan' \in [Scans -> ScanType] /\ RetryLeft'
    BY <1>0, <1>5, ScanFacts DEF NotifyWake, EndScan
  <2>2. wake' \in BOOLEAN /\ UNCHANGED <<rem, call, connected, seen, faults>>
    BY <1>0, <1>5 DEF NotifyWake, TypeOK
  <2> QED BY <1>0, <2>1, <2>2 DEF IInv, TypeOK, TimerOnlyWhileDue
<1>6. ASSUME NEW s \in Scans, SetRetry(s) PROVE IInv'
  <2>1. scan[s].retries + 1 \in 0..Retries
    BY <1>0, <1>t, <1>6, ReminderConstants DEF SetRetry, RetryLeft, ScanType
  <2>2. rem' \in RowType /\ TimerOnlyWhileDue'
    BY <1>0, <1>t, <1>6, <2>1, DueRowFacts DEF SetRetry, TimerOnlyWhileDue
  <2>3. scan' \in [Scans -> ScanType] /\ RetryLeft'
    BY <1>0, <1>6, ScanFacts DEF SetRetry, EndScan
  <2> QED BY <1>0, <1>6, <2>2, <2>3 DEF SetRetry, IInv, TypeOK, agentVars
<1>7. ASSUME NEW s \in Scans, MarkMissed(s) PROVE IInv'
  <2>1. scan[s].cron \in BOOLEAN
    BY <1>t DEF ScanType
  <2>2. Resolved(scan[s].cron, "MISSED") \in RowType /\ Resolved(scan[s].cron, "MISSED").timer = "none"
    BY <1>0, <2>1, ResolvedFacts DEF Open
  <2>3. rem' \in RowType /\ TimerOnlyWhileDue'
    BY <1>0, <1>t, <1>7, <2>2 DEF MarkMissed, TimerOnlyWhileDue
  <2>4. scan' \in [Scans -> ScanType] /\ RetryLeft'
    BY <1>0, <1>7, ScanFacts DEF MarkMissed, EndScan
  <2> QED BY <1>0, <1>7, <2>3, <2>4 DEF MarkMissed, IInv, TypeOK, agentVars
<1> QED BY <1>s, <1>1, <1>2, <1>3, <1>4, <1>5, <1>6, <1>7 DEF DueScan, RetryScan, ScanStep

\* The agent, time and faults.
LEMMA OtherPreservesIInv ==
    ASSUME IInv,
           \/ AgentConnects \/ AgentDisconnects \/ BeginSession
           \/ FireTimePasses \/ RetryTimePasses
           \/ \E s \in Scans : ScanFails(s)
           \/ Crash
    PROVE  IInv'
<1>0. TypeOK /\ RetryLeft /\ TimerOnlyWhileDue
  BY DEF IInv
<1>1. CASE AgentConnects \/ AgentDisconnects
  BY <1>0, <1>1 DEF AgentConnects, AgentDisconnects, IInv, TypeOK, RetryLeft, TimerOnlyWhileDue
<1>2. CASE BeginSession
  <2>1. wake' \in BOOLEAN /\ seen' \in BOOLEAN /\ UNCHANGED <<rem, scan, call, connected, faults>>
    BY <1>0, <1>2 DEF BeginSession, HasDueReminders, TypeOK
  <2> QED BY <1>0, <2>1 DEF IInv, TypeOK, RetryLeft, TimerOnlyWhileDue
<1>3. CASE FireTimePasses
  <2>1. rem' \in RowType /\ TimerOnlyWhileDue'
    BY <1>0, <1>3 DEF FireTimePasses, TypeOK, RowType, TimerOnlyWhileDue
  <2> QED BY <1>0, <1>3, <2>1 DEF FireTimePasses, IInv, TypeOK, RetryLeft, agentVars
<1>4. CASE RetryTimePasses
  <2>1. rem' \in RowType /\ TimerOnlyWhileDue'
    BY <1>0, <1>4 DEF RetryTimePasses, TypeOK, RowType, TimerOnlyWhileDue
  <2> QED BY <1>0, <1>4, <2>1 DEF RetryTimePasses, IInv, TypeOK, RetryLeft, agentVars
<1>5. ASSUME NEW s \in Scans, ScanFails(s) PROVE IInv'
  <2>1. scan' \in [Scans -> ScanType] /\ RetryLeft'
    BY <1>0, <1>5, ScanFacts DEF ScanFails, Goto, EndScan
  <2>2. faults' \in 0..MaxFaults
    BY <1>0, <1>5, ReminderConstants DEF ScanFails, TypeOK
  <2> QED BY <1>0, <1>5, <2>1, <2>2 DEF ScanFails, IInv, TypeOK, TimerOnlyWhileDue, agentVars
<1>6. CASE Crash
  <2>1. scan' \in [Scans -> ScanType] /\ RetryLeft' /\ call' \in [Callers -> CallType]
    BY <1>6, ReminderConstants DEF Crash, ScanType, IdleScan, RetryLeft, CallType, NoCall
  <2>2. faults' \in 0..MaxFaults
    BY <1>0, <1>6, ReminderConstants DEF Crash, TypeOK
  <2> QED BY <1>0, <1>6, <2>1, <2>2 DEF Crash, IInv, TypeOK, TimerOnlyWhileDue
<1> QED BY <1>1, <1>2, <1>3, <1>4, <1>5, <1>6

LEMMA NextIInv == IInv /\ [Next]_vars => IInv'
<1> SUFFICES ASSUME IInv, [Next]_vars PROVE IInv'
  OBVIOUS
<1>1. CASE Next
  BY <1>1, CallPreservesIInv, ScanPreservesIInv, OtherPreservesIInv DEF Next
<1>2. CASE UNCHANGED vars
  BY <1>2 DEF vars, IInv, TypeOK, RetryLeft, TimerOnlyWhileDue
<1> QED BY <1>1, <1>2

\* The rows, scans and calls keep their types: in particular the retry counter of a
\* reminder never passes the length of the backoff, although scans write copies.
THEOREM TypeCorrect == Spec => []TypeOK
<1>1. IInv => TypeOK
  BY DEF IInv
<1> QED BY <1>1, InitIInv, NextIInv, PTL DEF Spec

\* A retry timer belongs to a DUE reminder, for any number of concurrent callers.
THEOREM NoStrayTimer == Spec => []TimerOnlyWhileDue
<1>1. IInv => TimerOnlyWhileDue
  BY DEF IInv
<1> QED BY <1>1, InitIInv, NextIInv, PTL DEF Spec

=============================================================================
