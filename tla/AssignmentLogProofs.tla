-------------------------- MODULE AssignmentLogProofs --------------------------
(***************************************************************************)
(* Proofs about AssignmentLog: the Machine's reducer has applied a prefix of *)
(* the Manager's log, whatever the stream did, and a replay never starts      *)
(* beyond it.                                                               *)
(***************************************************************************)
EXTENDS AssignmentLog, NaturalsInduction, WellFoundedInduction, TLAPS

\* What travels on the stream names sequences of the log, and a replay that is on its way
\* covers a range of it.  Unless writing the state file fails, neither a request nor a
\* replay starts beyond what the reducer has applied.
ToMachineMsgs ==
    [type : {"event"}, n : 1..Len(log)]
      \cup {r \in [type : {"replay"}, after : 0..Len(log), upto : 0..Len(log)] :
              r.after <= r.upto /\ (SaveMayFail \/ r.after <= machine.seq)}
ToManagerMsgs ==
    {r \in [type : {"req", "ack"}, n : 0..Len(log)] :
       r.type = "req" => SaveMayFail \/ r.n <= machine.seq}

StreamOK ==
    /\ toMachine \in Seq(ToMachineMsgs)
    /\ toManager \in Seq(ToManagerMsgs)

LogOK ==
    /\ log \in Seq(LogEvents) /\ Len(log) <= MaxEvents
    /\ pushed \in Copies
    /\ lastAck \in 0..Len(log)
    /\ outbox \subseteq 1..Len(log)
    /\ up \in BOOLEAN
    /\ faults \in 0..MaxFaults

\* A reducer that has applied a prefix of the log.
Reduces(m) ==
    /\ m \in MachineState
    /\ m.seq <= Len(log) /\ Len(m.copies) = m.seq
    /\ m.roster = RosterAfter(m.seq)
    /\ m.acked <= m.seq
    /\ m.cursor <= Len(log)

\* Unless writing the state file fails, a reducer that holds something has a cursor no
\* further than what it holds.
MachineOK(m) == Reduces(m) /\ (SaveMayFail \/ m.seq = 0 \/ m.cursor <= m.seq)

IInv == LogOK /\ StreamOK /\ MachineOK(machine)

-----------------------------------------------------------------------------
(* Induction over a range, and recursion over one *)

\* A set that holds the start of a range and the successor of each member holds the range.
LEMMA RangeInduction ==
    ASSUME NEW a \in Nat, NEW b \in Nat, NEW S, a \in S,
           \A k \in a..b : k \in S /\ k + 1 \in a..b => k + 1 \in S
    PROVE  a..b \subseteq S
<1> DEFINE T == {k \in a..b : k \notin S}
<1> SUFFICES ASSUME T # {} PROVE FALSE
  OBVIOUS
<1>1. T \subseteq Nat
  OBVIOUS
<1>2. PICK m \in T : \A y \in T : ~(<<y, m>> \in OpToRel(<, Nat))
  BY <1>1, NatLessThanWellFounded, WFMin
<1>3. m \in a..b /\ m # a
  BY <1>2
<1>4. m - 1 \in a..b /\ (m - 1) + 1 = m
  BY <1>3
<1>5. m - 1 \notin T
  <2>1. m - 1 \in Nat /\ m \in Nat /\ m - 1 < m
    BY <1>3, <1>4
  <2>2. <<m - 1, m>> \in OpToRel(<, Nat)
    BY <2>1 DEF OpToRel
  <2> QED BY <1>2, <2>2
<1>6. m \in S
  BY <1>3, <1>4, <1>5
<1> QED BY <1>2, <1>6

\* g lists the Machine's states along a replay.
IsTable(g, m, after, upto, saved) ==
    g = [i \in after..upto |->
           IF i = after THEN m ELSE ApplyAssignmentEvent(g[i - 1], i, "stored", saved)]

\* AppliedThrough is a recursion that is defined: its table exists.
LEMMA AppliedTable ==
    ASSUME NEW m, NEW after \in Nat, NEW upto \in Nat, after <= upto, NEW saved
    PROVE  \E g : IsTable(g, m, after, upto, saved)
<1> DEFINE A(x, i) == ApplyAssignmentEvent(x, i, "stored", saved)
           S == {k \in after..upto :
                   \E g : g = [i \in after..k |-> IF i = after THEN m ELSE A(g[i - 1], i)]}
<1> HIDE DEF A
<1>1. after \in S
  <2> DEFINE g == [i \in after..after |-> m]
  <2>1. g = [i \in after..after |-> IF i = after THEN m ELSE A(g[i - 1], i)]
    OBVIOUS
  <2> HIDE DEF g
  <2> QED BY <2>1
<1>2. ASSUME NEW k \in after..upto, k \in S, k + 1 \in after..upto PROVE k + 1 \in S
  <2>1. PICK g : g = [i \in after..k |-> IF i = after THEN m ELSE A(g[i - 1], i)]
    BY <1>2
  <2> DEFINE h == [i \in after..(k + 1) |-> IF i = k + 1 THEN A(g[k], k + 1) ELSE g[i]]
  <2>2. /\ k \in Nat /\ k + 1 # after /\ k # k + 1
        /\ \A i \in after..(k + 1) : i = k + 1 \/ (i \in after..k /\ i # k + 1)
        /\ \A i \in after..k : i # after => i - 1 \in after..(k + 1) /\ i - 1 # k + 1
    BY <1>2
  <2>3. h[k] = g[k]
    BY <2>2
  <2>4. \A i \in after..k : h[i] = IF i = after THEN m ELSE A(h[i - 1], i)
    <3> SUFFICES ASSUME NEW i \in after..k PROVE h[i] = IF i = after THEN m ELSE A(h[i - 1], i)
      OBVIOUS
    <3>1. h[i] = g[i]
      BY <2>2
    <3>2. CASE i = after
      BY <2>1, <3>1, <3>2
    <3>3. CASE i # after
      <4>1. h[i - 1] = g[i - 1]
        BY <2>2, <3>3
      <4> QED BY <2>1, <3>1, <3>3, <4>1
    <3> QED BY <3>2, <3>3
  <2>5. h[k + 1] = A(h[(k + 1) - 1], k + 1)
    <3>1. (k + 1) - 1 = k /\ k + 1 \in after..(k + 1)
      BY <1>2
    <3>2. h[k + 1] = A(g[k], k + 1)
      BY <3>1
    <3> QED BY <2>3, <3>1, <3>2
  <2>6. h = [i \in after..(k + 1) |-> IF i = after THEN m ELSE A(h[i - 1], i)]
    <3>1. \A i \in after..(k + 1) : h[i] = IF i = after THEN m ELSE A(h[i - 1], i)
      BY <2>2, <2>4, <2>5
    <3>2. h = [i \in after..(k + 1) |-> h[i]]
      OBVIOUS
    <3> HIDE DEF h
    <3> QED BY <3>1, <3>2
  <2> HIDE DEF h
  <2> QED BY <1>2, <2>6
<1>3. after..upto \subseteq S
  <2> HIDE DEF S
  <2> QED BY <1>1, <1>2, RangeInduction
<1>4. upto \in S
  BY <1>3
<1> QED BY <1>4 DEF A, IsTable

\* AppliedThrough is the last entry of its table.
LEMMA AppliedIsTable ==
    ASSUME NEW m, NEW after \in Nat, NEW upto \in Nat, after <= upto, NEW saved
    PROVE  \E g : AppliedThrough(m, after, upto, saved) = g[upto] /\ IsTable(g, m, after, upto, saved)
<1> DEFINE g == CHOOSE f : f = [i \in after..upto |->
                     IF i = after THEN m ELSE ApplyAssignmentEvent(f[i - 1], i, "stored", saved)]
<1>1. AppliedThrough(m, after, upto, saved) = g[upto]
  BY DEF AppliedThrough
<1>2. IsTable(g, m, after, upto, saved)
  BY AppliedTable DEF IsTable
<1> HIDE DEF g
<1> QED BY <1>1, <1>2

-----------------------------------------------------------------------------
(* The roster of a prefix *)

\* A nonempty set of numbers up to n has a greatest one.
LEMMA GreatestExists ==
    ASSUME NEW n \in Nat, NEW S \in SUBSET (1..n), S # {}
    PROVE  \E q \in S : \A r \in S : r <= q
<1> DEFINE T == {n - x : x \in S}
<1>0. \A x \in S : x \in Int /\ n - x \in Nat
  OBVIOUS
<1>a. PICK x0 \in S : TRUE
  OBVIOUS
<1>b. n - x0 \in T
  BY <1>a
<1>1. T \subseteq Nat /\ T # {}
  BY <1>0, <1>b
<1>2. PICK m \in T : \A y \in T : ~(<<y, m>> \in OpToRel(<, Nat))
  BY <1>1, NatLessThanWellFounded, WFMin
<1>3. \A y \in T : ~(y < m)
  BY <1>1, <1>2 DEF OpToRel
<1>4. PICK q \in S : m = n - q
  BY <1>2
<1>5. ASSUME NEW r \in S PROVE r <= q
  <2>1. ~(n - r < n - q)
    BY <1>3, <1>4
  <2>2. r \in Int /\ q \in Int
    OBVIOUS
  <2> QED BY <2>1, <2>2
<1> QED BY <1>5

\* Before the first event nobody is assigned.
LEMMA RosterOfNothing == RosterAfter(0) = Unassigned
<1>1. 1..0 = {}
  OBVIOUS
<1> QED BY <1>1 DEF RosterAfter, Unassigned

\* One more event changes the agent it is about, and no other.
LEMMA RosterStep ==
    ASSUME NEW n \in Nat, NEW b \in Agents, log[n + 1].agent = b
    PROVE  RosterAfter(n + 1) = [RosterAfter(n) EXCEPT ![b] = log[n + 1].config]
<1> DEFINE about(k, a) == {i \in 1..k : log[i].agent = a}
           entry(S) == IF S = {} THEN None ELSE log[CHOOSE i \in S : \A j \in S : j <= i].config
<1>1. RosterAfter(n) = [a \in Agents |-> entry(about(n, a))]
      /\ RosterAfter(n + 1) = [a \in Agents |-> entry(about(n + 1, a))]
  BY DEF RosterAfter
<1>2. 1..(n + 1) = (1..n) \cup {n + 1} /\ n + 1 \in 1..(n + 1) /\ \A i \in 1..(n + 1) : i <= n + 1
  OBVIOUS
<1>3. ASSUME NEW a \in Agents, a # b PROVE about(n + 1, a) = about(n, a)
  BY <1>2, <1>3
<1>4. entry(about(n + 1, b)) = log[n + 1].config
  <2> DEFINE S == about(n + 1, b)
  <2>1. n + 1 \in S /\ \A j \in S : j <= n + 1
    BY <1>2
  <2>2. \A i \in S : (\A j \in S : j <= i) => i = n + 1
    <3>1. \A i \in S : i \in Nat
      OBVIOUS
    <3>2. \A i \in S : n + 1 <= i /\ i <= n + 1 => i = n + 1
      BY <3>1
    <3> QED BY <2>1, <3>2
  <2> DEFINE top == CHOOSE i \in S : \A j \in S : j <= i
  <2> HIDE DEF S
  <2>3. top \in S /\ \A j \in S : j <= top
    BY <2>1
  <2>4. top = n + 1
    BY <2>2, <2>3
  <2>5. entry(S) = log[top].config
    BY <2>1
  <2> QED BY <2>4, <2>5 DEF S
<1> HIDE DEF entry, about
<1>5. \A a \in Agents : RosterAfter(n + 1)[a] = IF a = b THEN log[n + 1].config ELSE RosterAfter(n)[a]
  BY <1>1, <1>3, <1>4
<1> QED BY <1>1, <1>5

\* A longer log with the same beginning has the same rosters along it.
LEMMA RosterOfPrefix ==
    ASSUME NEW n \in Nat, \A i \in 1..n : log'[i] = log[i]
    PROVE  RosterAfter(n)' = RosterAfter(n)
<1> DEFINE about(a)  == {i \in 1..n : log[i].agent = a}
           about2(a) == {i \in 1..n : log'[i].agent = a}
           top(S)    == CHOOSE i \in S : \A j \in S : j <= i
<1>1. \A a \in Agents : about2(a) = about(a)
  OBVIOUS
<1>2. ASSUME NEW a \in Agents, about(a) # {} PROVE top(about(a)) \in about(a)
  <2>1. about(a) \in SUBSET (1..n)
    OBVIOUS
  <2>2. \E q \in about(a) : \A r \in about(a) : r <= q
    BY <1>2, <2>1, GreatestExists
  <2> QED BY <2>2
<1>3. RosterAfter(n) = [a \in Agents |-> IF about(a) = {} THEN None ELSE log[top(about(a))].config]
  BY DEF RosterAfter
<1>4. RosterAfter(n)' = [a \in Agents |-> IF about2(a) = {} THEN None ELSE log'[top(about2(a))].config]
  BY DEF RosterAfter
<1>5. \A a \in Agents : \A x \in about(a) : log'[x] = log[x]
  OBVIOUS
<1> HIDE DEF about, about2, top
<1>6. ASSUME NEW a \in Agents
      PROVE  (IF about2(a) = {} THEN None ELSE log'[top(about2(a))].config)
               = (IF about(a) = {} THEN None ELSE log[top(about(a))].config)
  <2>1. about2(a) = about(a) /\ top(about2(a)) = top(about(a))
    BY <1>1
  <2>2. about(a) # {} => log'[top(about(a))] = log[top(about(a))]
    BY <1>2, <1>5
  <2> QED BY <2>1, <2>2
<1> QED BY <1>3, <1>4, <1>6

-----------------------------------------------------------------------------
(* The Machine's handlers keep its reducer on the log *)

\* The reducer takes an event it accepts: the next one of the log, or one it has.
LEMMA ReducedKeeps ==
    ASSUME LogOK, NEW m, Reduces(m), NEW n \in 1..Len(log), NEW copy \in Copies,
           Accepts(m, log[n], n, copy), NEW r, r = Reduced(m, log[n], n, copy)
    PROVE  Reduces(r) /\ m.seq <= r.seq /\ n <= r.seq
<1>1. log[n] \in LogEvents /\ Len(log) \in Nat /\ Len(log) <= MaxEvents /\ MaxEvents \in Nat
  BY AssignmentConstants DEF LogOK
<1>2. m.seq \in Nat /\ m.acked \in Nat /\ m.copies \in Seq(Copies) /\ m.roster \in Rosters
  BY <1>1 DEF Reduces, MachineState
<1>3. CASE n <= m.seq
  BY <1>3, <1>2 DEF Reduced
<1>4. CASE ~(n <= m.seq)
  <2> DEFINE b == log[n].agent
  <2>1. n = m.seq + 1
    BY <1>4 DEF Accepts
  <2>2. b \in Agents /\ log[n].config \in Configs
    BY <1>1 DEF LogEvents
  <2>3. r = [m EXCEPT !.seq = n, !.copies = Append(@, copy), !.roster[b] = log[n].config]
    BY <1>4 DEF Reduced
  <2>4. /\ r = [seq |-> n, copies |-> Append(m.copies, copy),
                roster |-> [m.roster EXCEPT ![b] = log[n].config], acked |-> m.acked,
                cursor |-> m.cursor, runners |-> m.runners, ok |-> m.ok]
    BY <2>3 DEF Reduces, MachineState
  <2>5. Append(m.copies, copy) \in Seq(Copies) /\ Len(Append(m.copies, copy)) = m.seq + 1
    BY <1>2 DEF Reduces
  <2>6. [m.roster EXCEPT ![b] = log[n].config] \in Rosters
    BY <1>2, <2>2 DEF Rosters
  <2>7. n \in 0..MaxEvents
    BY <1>1
  <2>8. r \in MachineState
    BY <2>4, <2>5, <2>6, <2>7 DEF Reduces, MachineState
  <2>9. RosterAfter(n) = [m.roster EXCEPT ![b] = log[n].config]
    BY <1>2, <2>1, <2>2, RosterStep DEF Reduces
  <2>10. /\ r.seq = n /\ r.copies = Append(m.copies, copy) /\ r.acked = m.acked /\ r.cursor = m.cursor
         /\ r.roster = [m.roster EXCEPT ![b] = log[n].config]
    BY <2>4
  <2> HIDE DEF b
  <2> QED BY <1>1, <1>2, <2>1, <2>5, <2>8, <2>9, <2>10 DEF Reduces
<1> QED BY <1>3, <1>4

\* ApplyAssignmentEvent leaves the reducer on a prefix of the log, and never a shorter one.
LEMMA ApplyKeeps ==
    ASSUME LogOK, NEW m, MachineOK(m), NEW n \in 1..Len(log), NEW copy \in Copies,
           NEW saved, SaveMayFail \/ 1..Len(log) \subseteq saved,
           NEW r, r = ApplyAssignmentEvent(m, n, copy, saved)
    PROVE  MachineOK(r) /\ m.seq <= r.seq
<1> DEFINE e == log[n]
<1>1. log[n] \in LogEvents /\ Len(log) \in Nat /\ Len(log) <= MaxEvents /\ MaxEvents \in Nat
  BY AssignmentConstants DEF LogOK
<1>2. Reduces(m) /\ m.seq \in Nat /\ m \in MachineState
  BY DEF MachineOK, Reduces, MachineState
<1>3. CASE ~(m.ok /\ Accepts(m, e, n, copy))
  <2>1. r = [m EXCEPT !.ok = FALSE]
    BY <1>3 DEF ApplyAssignmentEvent
  <2>2. r \in MachineState /\ r.seq = m.seq /\ r.copies = m.copies /\ r.roster = m.roster
        /\ r.acked = m.acked /\ r.cursor = m.cursor
    BY <1>2, <2>1 DEF MachineState
  <2> QED BY <1>2, <2>2 DEF MachineOK, Reduces
<1>4. CASE m.ok /\ Accepts(m, e, n, copy)
  <2> DEFINE x == Reduced(m, e, n, copy)
             y == [x EXCEPT !.runners[e.agent] = e.config]
  <2>1. r = Acknowledged(y, n, saved)
    BY <1>4 DEF ApplyAssignmentEvent, Hosted
  <2>2. Reduces(x) /\ m.seq <= x.seq /\ n <= x.seq
    BY <1>2, <1>4, ReducedKeeps
  <2> HIDE DEF x
  <2>3. e.agent \in Agents /\ e.config \in Configs
    BY <1>1 DEF LogEvents
  <2>4. x \in MachineState
    BY <2>2 DEF Reduces
  <2>5. y = [x EXCEPT !.runners = [x.runners EXCEPT ![e.agent] = e.config]]
        /\ [x.runners EXCEPT ![e.agent] = e.config] \in Rosters
    BY <2>3, <2>4 DEF MachineState, Rosters
  <2>6. /\ y \in MachineState /\ y.seq = x.seq /\ y.copies = x.copies /\ y.roster = x.roster
        /\ y.acked = x.acked /\ y.cursor = x.cursor
    BY <2>4, <2>5 DEF MachineState
  <2> HIDE DEF y
  <2>7. x.seq \in Nat /\ n \in 0..MaxEvents /\ n \in Nat
    BY <1>1, <2>4 DEF MachineState
  <2>8. CASE n < y.acked
    <3>1. r = [y EXCEPT !.ok = FALSE]
      BY <2>1, <2>8 DEF Acknowledged
    <3>2. /\ r \in MachineState /\ r.seq = x.seq /\ r.copies = x.copies /\ r.roster = x.roster
          /\ r.acked = x.acked /\ r.cursor = x.cursor
      BY <2>6, <3>1 DEF MachineState
    <3>3. SaveMayFail \/ r.seq = 0 \/ r.cursor <= r.seq
      <4>1. n < m.acked /\ m.acked <= m.seq /\ m.acked \in Nat
        <5>1. n <= m.seq \/ x.acked = m.acked
          BY <1>2 DEF x, Reduced, MachineState
        <5>2. x = m \/ ~(n <= m.seq)
          BY DEF x, Reduced
        <5> QED BY <1>2, <2>6, <2>8, <5>1, <5>2 DEF Reduces, MachineState
      <4>2. n <= m.seq
        BY <1>2, <2>7, <4>1
      <4>3. x = m
        BY <4>2 DEF x, Reduced
      <4> QED BY <3>2, <4>3 DEF MachineOK
    <3> QED BY <2>2, <3>2, <3>3 DEF MachineOK, Reduces
  <2>9. CASE ~(n < y.acked)
    <3>1. r = [y EXCEPT !.acked = n, !.cursor = IF n \in saved THEN n ELSE @]
      BY <2>1, <2>9 DEF Acknowledged
    <3>2. /\ r \in MachineState /\ r.seq = x.seq /\ r.copies = x.copies /\ r.roster = x.roster
          /\ r.acked = n /\ r.cursor = IF n \in saved THEN n ELSE x.cursor
      BY <2>6, <2>7, <3>1 DEF MachineState
    <3>3. SaveMayFail \/ r.cursor <= r.seq
      BY <2>2, <3>2
    <3>4. r.cursor <= Len(log)
      BY <1>1, <2>2, <3>2 DEF Reduces
    <3> QED BY <2>2, <3>2, <3>3, <3>4 DEF MachineOK, Reduces
  <2> QED BY <2>8, <2>9
<1> QED BY <1>3, <1>4

\* A replay applies its events one after the other.
LEMMA AppliedKeeps ==
    ASSUME LogOK, NEW m, MachineOK(m), NEW after \in Nat, NEW upto \in Nat, after <= upto,
           upto <= Len(log), NEW saved, SaveMayFail \/ 1..Len(log) \subseteq saved
    PROVE  LET r == AppliedThrough(m, after, upto, saved) IN MachineOK(r) /\ m.seq <= r.seq
<1>1. PICK g : AppliedThrough(m, after, upto, saved) = g[upto] /\ IsTable(g, m, after, upto, saved)
  BY AppliedIsTable
<1> DEFINE S == {k \in after..upto : MachineOK(g[k]) /\ m.seq <= g[k].seq}
<1>2. after \in S
  <2>1. g[after] = m /\ m.seq <= m.seq
    BY <1>1 DEF IsTable, MachineOK, Reduces, MachineState
  <2> QED BY <2>1
<1>3. ASSUME NEW k \in after..upto, k \in S, k + 1 \in after..upto PROVE k + 1 \in S
  <2>1. k + 1 # after /\ (k + 1) - 1 = k /\ k + 1 \in 1..Len(log)
    BY <1>3 DEF LogOK
  <2>2. g[k + 1] = ApplyAssignmentEvent(g[k], k + 1, "stored", saved)
    BY <1>1, <1>3, <2>1 DEF IsTable
  <2>3. "stored" \in Copies
    BY DEF Copies
  <2>4. MachineOK(g[k]) /\ m.seq <= g[k].seq
    BY <1>3
  <2>5. MachineOK(g[k + 1]) /\ g[k].seq <= g[k + 1].seq
    BY <2>1, <2>2, <2>3, <2>4, ApplyKeeps
  <2>6. m.seq \in Nat /\ g[k].seq \in Nat /\ g[k + 1].seq \in Nat
    BY <2>4, <2>5 DEF MachineOK, Reduces, MachineState
  <2>7. m.seq <= g[k + 1].seq
    BY <2>4, <2>5, <2>6
  <2> QED BY <1>3, <2>5, <2>7
<1>4. after..upto \subseteq S
  <2> HIDE DEF S
  <2> QED BY <1>2, <1>3, RangeInduction
<1>5. upto \in S
  BY <1>4
<1> QED BY <1>1, <1>5

\* Which runners run is no concern of the reducer.
LEMMA RunnersKeep ==
    ASSUME NEW m, MachineOK(m), NEW w \in Rosters, NEW ok \in BOOLEAN
    PROVE  /\ MachineOK([m EXCEPT !.runners = w])
           /\ [m EXCEPT !.runners = w].seq = m.seq
           /\ MachineOK([m EXCEPT !.runners = w, !.ok = ok])
           /\ [m EXCEPT !.runners = w, !.ok = ok].seq = m.seq
<1>1. m \in MachineState
  BY DEF MachineOK, Reduces
<1> DEFINE x == [m EXCEPT !.runners = w]
           y == [m EXCEPT !.runners = w, !.ok = ok]
<1>2. /\ x \in MachineState /\ x.seq = m.seq /\ x.copies = m.copies /\ x.roster = m.roster
      /\ x.acked = m.acked /\ x.cursor = m.cursor
  BY <1>1 DEF MachineState
<1>3. /\ y \in MachineState /\ y.seq = m.seq /\ y.copies = m.copies /\ y.roster = m.roster
      /\ y.acked = m.acked /\ y.cursor = m.cursor
  BY <1>1 DEF MachineState
<1> HIDE DEF x, y
<1>4. MachineOK(x) /\ MachineOK(y)
  BY <1>2, <1>3 DEF MachineOK, Reduces
<1> QED BY <1>2, <1>3, <1>4 DEF x, y

\* ApplyAssignmentReplay, whether or not there was something to apply.
LEMMA ReplayKeeps ==
    ASSUME LogOK, NEW m, MachineOK(m), NEW after \in Nat, NEW upto \in Nat, after <= upto,
           upto <= Len(log), NEW saved, SaveMayFail \/ 1..Len(log) \subseteq saved
    PROVE  LET r == Replayed(m, after, upto, saved) IN MachineOK(r) /\ m.seq <= r.seq
<1> DEFINE x == AppliedThrough(m, after, upto, saved)
           r == Replayed(m, after, upto, saved)
<1>1. MachineOK(x) /\ m.seq <= x.seq
  BY AppliedKeeps
<1>2. m.seq <= m.seq /\ x.roster \in Rosters
  BY <1>1 DEF MachineOK, Reduces, MachineState
<1>3. r = m \/ r = x \/ r = [x EXCEPT !.runners = x.roster]
  BY DEF Replayed, ReconcileRoster
<1> HIDE DEF x, r
<1>4. MachineOK(r) /\ m.seq <= r.seq
  BY <1>1, <1>2, <1>3, RunnersKeep
<1> QED BY <1>4 DEF r

-----------------------------------------------------------------------------
(* Each action keeps the invariant *)

\* What may travel on the stream only grows with the log and with the reducer.
LEMMA MessagesGrow ==
    ASSUME Len(log) \in Nat, Len(log') \in Nat, machine.seq \in Nat, machine'.seq \in Nat,
           Len(log) <= Len(log'), machine.seq <= machine'.seq
    PROVE  /\ ToMachineMsgs \subseteq ToMachineMsgs' /\ ToManagerMsgs \subseteq ToManagerMsgs'
           /\ \A q \in Seq(ToMachineMsgs) : q \in Seq(ToMachineMsgs')
           /\ \A q \in Seq(ToManagerMsgs) : q \in Seq(ToManagerMsgs')
<1>1. ToMachineMsgs \subseteq ToMachineMsgs'
  <2> SUFFICES ASSUME NEW r \in ToMachineMsgs PROVE r \in ToMachineMsgs'
    OBVIOUS
  <2>1. CASE r \in [type : {"event"}, n : 1..Len(log)]
    BY <2>1 DEF ToMachineMsgs
  <2>2. CASE r \in [type : {"replay"}, after : 0..Len(log), upto : 0..Len(log)]
    <3>1. r.after <= r.upto /\ (SaveMayFail \/ r.after <= machine.seq)
      BY <2>2 DEF ToMachineMsgs
    <3>2. r \in [type : {"replay"}, after : 0..Len(log'), upto : 0..Len(log')] /\ r.after \in Nat
      BY <2>2
    <3> QED BY <3>1, <3>2 DEF ToMachineMsgs
  <2> QED BY <2>1, <2>2 DEF ToMachineMsgs
<1>2. ToManagerMsgs \subseteq ToManagerMsgs'
  BY DEF ToManagerMsgs
<1> HIDE DEF ToMachineMsgs, ToManagerMsgs
<1>3. \A S, T : S \subseteq T => \A q \in Seq(S) : q \in Seq(T)
  OBVIOUS
<1> QED BY <1>1, <1>2, <1>3

\* The stream is gone and the Machine is otherwise as before.
LEMMA DisconnectedKeeps ==
    ASSUME LogOK, NEW m, MachineOK(m), Disconnected(m), UNCHANGED log
    PROVE  (StreamOK /\ MachineOK(machine))' /\ up' \in BOOLEAN
<1>1. Unassigned \in Rosters
  BY DEF Unassigned, Rosters, Configs
<1>2. machine' = [m EXCEPT !.runners = Unassigned, !.ok = TRUE]
  BY DEF Disconnected
<1>3. MachineOK([m EXCEPT !.runners = Unassigned, !.ok = TRUE])
  BY <1>1, RunnersKeep
<1>4. MachineOK(machine)'
  BY <1>2, <1>3 DEF MachineOK, Reduces, RosterAfter
<1>5. StreamOK'
  BY DEF StreamOK, Disconnected
<1> QED BY <1>4, <1>5 DEF Disconnected

\* Types that every action needs.
LEMMA Numbers ==
    ASSUME IInv
    PROVE  /\ Len(log) \in Nat /\ Len(log) <= MaxEvents /\ MaxEvents \in Nat
           /\ machine \in MachineState /\ machine.seq \in Nat /\ machine.acked \in Nat
           /\ machine.cursor \in Nat /\ machine.seq <= Len(log) /\ machine.acked <= Len(log)
           /\ machine.cursor <= Len(log)
<1>1. Len(log) \in Nat /\ Len(log) <= MaxEvents /\ MaxEvents \in Nat
  BY AssignmentConstants DEF IInv, LogOK
<1>2. machine \in MachineState /\ machine.seq <= Len(log) /\ machine.acked <= machine.seq
      /\ machine.cursor <= Len(log)
  BY DEF IInv, MachineOK, Reduces
<1>3. machine.seq \in Nat /\ machine.acked \in Nat /\ machine.cursor \in Nat
  BY <1>1, <1>2 DEF MachineState
<1> QED BY <1>1, <1>2, <1>3

\* A step that leaves the log alone keeps what is on the stream valid while the reducer does
\* not go back.
LEMMA SameLog ==
    ASSUME IInv, UNCHANGED log, MachineOK(machine)', machine.seq <= machine'.seq,
           up' \in BOOLEAN, lastAck' \in 0..Len(log), outbox' \subseteq 1..Len(log),
           faults' \in 0..MaxFaults, UNCHANGED pushed,
           toMachine' \in Seq(ToMachineMsgs) \/ toMachine' \in Seq(ToMachineMsgs'),
           toManager' \in Seq(ToManagerMsgs) \/ toManager' \in Seq(ToManagerMsgs')
    PROVE  IInv'
<1>1. machine'.seq \in Nat /\ Len(log') \in Nat /\ Len(log) <= Len(log')
  BY Numbers DEF MachineOK, Reduces, MachineState
<1>2. StreamOK'
  BY <1>1, Numbers, MessagesGrow DEF StreamOK
<1>3. LogOK'
  BY DEF IInv, LogOK
<1> QED BY <1>2, <1>3 DEF IInv

\* The request of a new connection starts at what the reducer has.
LEMMA ConnectStep ==
    ASSUME IInv, Connect PROVE IInv'
<1>1. PICK assigned \in SUBSET Agents :
        machine' = [machine EXCEPT !.runners = [a \in Agents |-> IF a \in assigned THEN DbRev ELSE None]]
  BY DEF Connect
<1>2. [a \in Agents |-> IF a \in assigned THEN DbRev ELSE None] \in Rosters
  BY DEF Rosters, Configs
<1>3. MachineOK(machine') /\ machine'.seq = machine.seq
  BY <1>1, <1>2, RunnersKeep DEF IInv
<1>4. UNCHANGED <<log, pushed, lastAck, outbox, toMachine, faults>> /\ up' = TRUE
      /\ toManager' = <<[type |-> "req", n |-> assignmentReplayCursor]>>
  BY DEF Connect
<1>5. MachineOK(machine)'
  BY <1>3, <1>4 DEF MachineOK, Reduces, RosterAfter
<1>6. /\ assignmentReplayCursor \in 0..Len(log)
      /\ SaveMayFail \/ assignmentReplayCursor <= machine.seq
  BY Numbers DEF assignmentReplayCursor, IInv, MachineOK, Reduces
<1>7. [type |-> "req", n |-> assignmentReplayCursor] \in ToManagerMsgs
  BY <1>6 DEF ToManagerMsgs
<1>8. toManager' \in Seq(ToManagerMsgs)
  BY <1>4, <1>7
<1>9. machine.seq <= machine'.seq
  BY <1>3, Numbers
<1> QED BY <1>4, <1>5, <1>8, <1>9, SameLog DEF IInv, LogOK, StreamOK

\* A lost connection or a restart of the Machine empties the stream.
LEMMA FaultStep ==
    ASSUME IInv, Break \/ Restart PROVE IInv'
<1>1. UNCHANGED <<log, pushed, lastAck, outbox>> /\ faults' = faults + 1 /\ faults < MaxFaults
  BY DEF Break, Restart
<1>2. faults' \in 0..MaxFaults
  BY <1>1, AssignmentConstants DEF IInv, LogOK
<1>3. MachineOK(FreshProcess(machine.cursor))
  <2> DEFINE f == FreshProcess(machine.cursor)
  <2>1. f = [seq |-> 0, copies |-> <<>>, roster |-> Unassigned, acked |-> 0,
             cursor |-> machine.cursor, runners |-> Unassigned, ok |-> TRUE]
    BY DEF FreshProcess
  <2>2. Unassigned \in Rosters /\ <<>> \in Seq(Copies) /\ machine.cursor \in 0..MaxEvents
        /\ 0 \in 0..MaxEvents
    BY Numbers DEF Unassigned, Rosters, Configs
  <2>3. f \in MachineState
    BY <2>1, <2>2 DEF MachineState
  <2>4. /\ f.seq = 0 /\ f.copies = <<>> /\ f.roster = RosterAfter(0) /\ f.acked = 0
        /\ f.cursor = machine.cursor
    BY <2>1, RosterOfNothing
  <2> HIDE DEF f
  <2>5. MachineOK(f)
    BY <2>3, <2>4, Numbers DEF MachineOK, Reduces
  <2> QED BY <2>5 DEF f
<1>4. \E m : MachineOK(m) /\ Disconnected(m)
  BY <1>3 DEF IInv, Break, Restart
<1>5. (StreamOK /\ MachineOK(machine))' /\ up' \in BOOLEAN
  BY <1>1, <1>4, DisconnectedKeeps DEF IInv
<1> QED BY <1>1, <1>2, <1>5 DEF IInv, LogOK

\* The Machine handles a message: pushed or replayed, what it applies is the next of the
\* log.  An error ends the stream.
LEMMA MachineReceivesStep ==
    ASSUME IInv, MachineReceives PROVE IInv'
<1> DEFINE msg == Head(toMachine)
           after(saved) == IF msg.type = "event"
                           THEN ApplyAssignmentEvent(machine, msg.n, pushed, saved)
                           ELSE Replayed(machine, msg.after, msg.upto, saved)
           acks == IF msg.type = "event" THEN <<[type |-> "ack", n |-> msg.n]>>
                   ELSE IF msg.after < msg.upto THEN <<[type |-> "ack", n |-> msg.upto]>>
                   ELSE <<>>
<1>1. UNCHANGED <<log, pushed, lastAck, outbox, faults>> /\ toMachine # <<>>
  BY DEF MachineReceives
<1>2. PICK saved \in CursorWrites :
        \/ /\ after(saved).ok /\ machine' = after(saved) /\ toMachine' = Tail(toMachine)
           /\ toManager' = toManager \o acks /\ UNCHANGED up
        \/ ~after(saved).ok /\ Disconnected(after(saved))
  BY DEF MachineReceives
<1>3. SaveMayFail \/ 1..Len(log) \subseteq saved
  BY Numbers DEF CursorWrites
<1>4. msg \in ToMachineMsgs /\ Tail(toMachine) \in Seq(ToMachineMsgs)
  BY <1>1 DEF IInv, StreamOK
<1>5. MachineOK(after(saved)) /\ machine.seq <= after(saved).seq /\ acks \in Seq(ToManagerMsgs)
  <2>1. CASE msg.type = "event"
    <3>1. msg.n \in 1..Len(log)
      BY <1>4, <2>1 DEF ToMachineMsgs
    <3>2. after(saved) = ApplyAssignmentEvent(machine, msg.n, pushed, saved)
          /\ acks = <<[type |-> "ack", n |-> msg.n]>>
      BY <2>1
    <3>3. MachineOK(after(saved)) /\ machine.seq <= after(saved).seq
      BY <1>3, <3>1, <3>2, ApplyKeeps DEF IInv, LogOK
    <3>4. [type |-> "ack", n |-> msg.n] \in ToManagerMsgs
      BY <3>1, Numbers DEF ToManagerMsgs
    <3> QED BY <3>2, <3>3, <3>4
  <2>2. CASE msg.type # "event"
    <3>1. msg.after \in 0..Len(log) /\ msg.upto \in 0..Len(log) /\ msg.after <= msg.upto
      BY <1>4, <2>2 DEF ToMachineMsgs
    <3>2. msg.after \in Nat /\ msg.upto \in Nat /\ msg.upto <= Len(log)
      BY <3>1, Numbers
    <3>3. after(saved) = Replayed(machine, msg.after, msg.upto, saved)
          /\ (acks = <<[type |-> "ack", n |-> msg.upto]>> \/ acks = <<>>)
      BY <2>2
    <3>4. MachineOK(after(saved)) /\ machine.seq <= after(saved).seq
      BY <1>3, <3>1, <3>2, <3>3, ReplayKeeps DEF IInv
    <3>5. [type |-> "ack", n |-> msg.upto] \in ToManagerMsgs
      BY <3>1 DEF ToManagerMsgs
    <3> QED BY <3>3, <3>4, <3>5
  <2> QED BY <2>1, <2>2
<1> HIDE DEF after, acks
<1>6. CASE /\ machine' = after(saved) /\ toMachine' = Tail(toMachine)
           /\ toManager' = toManager \o acks /\ UNCHANGED up
  <2>1. toManager' \in Seq(ToManagerMsgs)
    BY <1>5, <1>6 DEF IInv, StreamOK
  <2>2. MachineOK(machine)'
    BY <1>1, <1>5, <1>6 DEF MachineOK, Reduces, RosterAfter
  <2> QED BY <1>1, <1>4, <1>5, <1>6, <2>1, <2>2, SameLog DEF IInv, LogOK
<1>7. CASE Disconnected(after(saved))
  <2>1. (StreamOK /\ MachineOK(machine))' /\ up' \in BOOLEAN
    BY <1>1, <1>5, <1>7, DisconnectedKeeps DEF IInv
  <2> QED BY <1>1, <2>1 DEF IInv, LogOK
<1> QED BY <1>2, <1>6, <1>7

\* The Manager answers a request with the events it has by then, or takes an
\* acknowledgement.
LEMMA ManagerReceivesStep ==
    ASSUME IInv, ManagerReceives PROVE IInv'
<1> DEFINE msg == Head(toManager)
           replay == [type |-> "replay", after |-> msg.n, upto |-> Len(log)]
<1>1. UNCHANGED <<log, pushed, outbox, faults>> /\ toManager # <<>>
  BY DEF ManagerReceives
<1>2. msg \in ToManagerMsgs /\ Tail(toManager) \in Seq(ToManagerMsgs)
  BY <1>1 DEF IInv, StreamOK
<1>3. msg.n \in 0..Len(log)
  BY <1>2 DEF ToManagerMsgs
<1>4. CASE /\ msg.type = "req" /\ toMachine' = Append(toMachine, replay)
           /\ toManager' = Tail(toManager) /\ UNCHANGED <<lastAck, up, machine>>
  <2>1. SaveMayFail \/ msg.n <= machine.seq
    BY <1>2, <1>4 DEF ToManagerMsgs
  <2>2. replay \in ToMachineMsgs
    BY <1>3, <2>1, Numbers DEF ToMachineMsgs
  <2>3. toMachine' \in Seq(ToMachineMsgs)
    BY <1>4, <2>2 DEF IInv, StreamOK
  <2>4. MachineOK(machine)' /\ machine.seq <= machine'.seq
    BY <1>1, <1>4, Numbers DEF IInv, MachineOK, Reduces, RosterAfter
  <2> QED BY <1>1, <1>2, <1>4, <2>3, <2>4, SameLog DEF IInv, LogOK
<1>5. CASE lastAck' = msg.n /\ toManager' = Tail(toManager) /\ UNCHANGED <<up, toMachine, machine>>
  <2>1. MachineOK(machine)' /\ machine.seq <= machine'.seq
    BY <1>1, <1>5, Numbers DEF IInv, MachineOK, Reduces, RosterAfter
  <2> QED BY <1>1, <1>2, <1>3, <1>5, <2>1, SameLog DEF IInv, LogOK, StreamOK
<1>6. CASE Disconnected(machine) /\ UNCHANGED lastAck
  <2>1. (StreamOK /\ MachineOK(machine))' /\ up' \in BOOLEAN
    BY <1>1, <1>6, DisconnectedKeeps DEF IInv
  <2> QED BY <1>1, <1>6, <2>1 DEF IInv, LogOK
<1> QED BY <1>4, <1>5, <1>6 DEF ManagerReceives

\* The log grows: the reducer stays on the same prefix of it.
LEMMA RecordStep ==
    ASSUME IInv, NEW a \in Agents, NEW t \in Types, RecordMachineAssignmentEvent(a, t)
    PROVE  IInv'
<1> DEFINE ev == [agent |-> a, type |-> t, config |-> IF t = "REMOVE" THEN None ELSE Len(log) + 1]
<1>1. /\ UNCHANGED <<pushed, lastAck, up, toMachine, toManager, machine, faults>>
      /\ log' = Append(log, ev) /\ outbox' = outbox \cup {Len(log) + 1} /\ Len(log) < MaxEvents
  BY DEF RecordMachineAssignmentEvent
<1>2. Len(log) + 1 \in 1..MaxEvents
  BY <1>1, Numbers
<1>3. ev \in LogEvents
  BY <1>2 DEF LogEvents, Configs
<1> HIDE DEF ev
<1>4. /\ log' \in Seq(LogEvents) /\ Len(log') = Len(log) + 1
      /\ \A i \in 1..Len(log) : log'[i] = log[i]
  BY <1>1, <1>3 DEF IInv, LogOK
<1>5. Len(log') \in Nat /\ Len(log) <= Len(log') /\ Len(log') <= MaxEvents
  BY <1>1, <1>4, Numbers
<1>6. LogOK'
  <2>1. lastAck \in 0..Len(log) /\ outbox \subseteq 1..Len(log)
    BY DEF IInv, LogOK
  <2>2. 0..Len(log) \subseteq 0..Len(log') /\ 1..Len(log) \subseteq 1..Len(log')
        /\ Len(log) + 1 \in 1..Len(log')
    <3>1. \A k \in Nat : 0..k \subseteq 0..(k + 1) /\ 1..k \subseteq 1..(k + 1) /\ k + 1 \in 1..(k + 1)
      OBVIOUS
    <3> QED BY <1>4, <3>1, Numbers
  <2>3. lastAck' \in 0..Len(log') /\ outbox' \subseteq 1..Len(log')
    BY <1>1, <2>1, <2>2
  <2> QED BY <1>1, <1>4, <1>5, <2>3 DEF IInv, LogOK
<1>7. StreamOK'
  BY <1>1, <1>5, Numbers, MessagesGrow DEF IInv, StreamOK
<1>8. RosterAfter(machine.seq)' = RosterAfter(machine.seq)
  <2>1. \A n \in Nat : n <= Len(log) => \A i \in 1..n : log'[i] = log[i]
    BY <1>4, Numbers
  <2>2. \A i \in 1..machine.seq : log'[i] = log[i]
    BY <2>1, Numbers
  <2>3. PICK k \in Nat : k = machine.seq /\ \A i \in 1..k : log'[i] = log[i]
    BY <2>2, Numbers
  <2>4. RosterAfter(k)' = RosterAfter(k)
    BY <2>3, RosterOfPrefix
  <2> QED BY <1>1, <2>3, <2>4
<1>9. MachineOK(machine)'
  BY <1>1, <1>5, <1>8, Numbers DEF IInv, MachineOK, Reduces
<1> QED BY <1>6, <1>7, <1>9 DEF IInv

\* The outbox delivers or gives up.
LEMMA OutboxStep ==
    ASSUME IInv, NEW n \in 1..MaxEvents, Push(n) \/ GiveUp(n) PROVE IInv'
<1>1. /\ UNCHANGED <<log, pushed, lastAck, up, toManager, machine>> /\ n \in outbox
      /\ outbox' \subseteq outbox
  BY DEF Push, GiveUp
<1>2. n \in 1..Len(log)
  BY <1>1 DEF IInv, LogOK
<1>3. [type |-> "event", n |-> n] \in ToMachineMsgs
  BY <1>2 DEF ToMachineMsgs
<1>4. toMachine' \in Seq(ToMachineMsgs)
  BY <1>3 DEF Push, GiveUp, IInv, StreamOK
<1>5. faults' \in 0..MaxFaults
  BY AssignmentConstants DEF Push, GiveUp, IInv, LogOK
<1>6. MachineOK(machine)' /\ machine.seq <= machine'.seq
  BY <1>1, Numbers DEF IInv, MachineOK, Reduces, RosterAfter
<1> QED BY <1>1, <1>4, <1>5, <1>6, SameLog DEF IInv, LogOK, StreamOK

\* The invariant is inductive.
LEMMA NextIInv == IInv /\ [Next]_vars => IInv'
<1> SUFFICES ASSUME IInv, [Next]_vars PROVE IInv'
  OBVIOUS
<1>1. CASE UNCHANGED vars
  BY <1>1 DEF vars, IInv, LogOK, StreamOK, ToMachineMsgs, ToManagerMsgs, MachineOK, Reduces,
     RosterAfter
<1>2. CASE Next
  BY <1>2, ConnectStep, FaultStep, MachineReceivesStep, ManagerReceivesStep, RecordStep,
     OutboxStep DEF Next
<1> QED BY <1>1, <1>2

\* Nothing has been recorded, sent or applied at first.
LEMMA InitIInv == Init => IInv
<1> SUFFICES ASSUME Init PROVE IInv
  OBVIOUS
<1>1. log = <<>> /\ Len(log) = 0 /\ 0 \in 0..MaxFaults /\ 0 \in 0..MaxEvents /\ 0 <= MaxEvents
  BY AssignmentConstants DEF Init
<1>2. LogOK
  <2>1. <<>> \in Seq(LogEvents) /\ 0 \in 0..0
    OBVIOUS
  <2>2. pushed \in Copies /\ lastAck = 0 /\ outbox = {} /\ up = FALSE /\ faults = 0
    BY DEF Init
  <2>3. lastAck \in 0..Len(log) /\ outbox \subseteq 1..Len(log)
    BY <1>1, <2>1, <2>2
  <2> QED BY <1>1, <2>1, <2>2, <2>3 DEF LogOK
<1>3. StreamOK
  BY DEF Init, StreamOK
<1>4. machine = [seq |-> 0, copies |-> <<>>, roster |-> Unassigned, acked |-> 0,
                 cursor |-> 0, runners |-> Unassigned, ok |-> TRUE]
  BY DEF Init, FreshProcess
<1>5. Unassigned \in Rosters /\ <<>> \in Seq(Copies)
  BY DEF Unassigned, Rosters, Configs
<1>6. machine \in MachineState
  BY <1>1, <1>4, <1>5 DEF MachineState
<1>7. /\ machine.seq = 0 /\ machine.copies = <<>> /\ machine.roster = RosterAfter(0)
      /\ machine.acked = 0 /\ machine.cursor = 0
  BY <1>4, RosterOfNothing
<1>8. MachineOK(machine)
  BY <1>1, <1>6, <1>7 DEF MachineOK, Reduces
<1> QED BY <1>2, <1>3, <1>8 DEF IInv

\* The inductive invariant holds in every behaviour.
THEOREM Invariance == Spec => []IInv
  BY InitIInv, NextIInv, PTL DEF Spec

\* Every sequence that the log, the stream and the Machine name stays within the bounds.
THEOREM TypeCorrect == Spec => []TypeOK
<1>1. IInv => TypeOK
  <2> SUFFICES ASSUME IInv PROVE TypeOK
    OBVIOUS
  <2>1. Len(log) \in Nat /\ Len(log) <= MaxEvents /\ MaxEvents \in Nat
    BY Numbers
  <2>2. ASSUME NEW i \in DOMAIN toMachine
        PROVE  toMachine[i] \in [type : {"event"}, n : 1..MaxEvents]
                 \cup [type : {"replay"}, after : 0..MaxEvents, upto : 0..MaxEvents]
    <3>1. toMachine[i] \in ToMachineMsgs
      BY <2>2 DEF IInv, StreamOK
    <3> QED BY <2>1, <3>1 DEF ToMachineMsgs
  <2>3. ASSUME NEW i \in DOMAIN toManager
        PROVE  toManager[i] \in [type : {"req", "ack"}, n : 0..MaxEvents]
    <3>1. toManager[i] \in ToManagerMsgs
      BY <2>3 DEF IInv, StreamOK
    <3> QED BY <2>1, <3>1 DEF ToManagerMsgs
  <2>4. lastAck \in 0..MaxEvents /\ outbox \subseteq 1..MaxEvents
    BY <2>1 DEF IInv, LogOK
  <2> QED BY <2>2, <2>3, <2>4 DEF IInv, LogOK, MachineOK, Reduces, TypeOK
<1>2. QED
  BY <1>1, Invariance, PTL

\* The reducer has applied a prefix of the log and its assignments are what the prefix
\* says, for every interleaving of pushes, replays, losses, duplicates and restarts, and
\* whether or not the cursor file can be written.
THEOREM ReducerFollowsLog == Spec => []ReducerMatchesLog
<1>1. IInv => ReducerMatchesLog
  BY DEF IInv, MachineOK, Reduces, ReducerMatchesLog
<1>2. QED
  BY <1>1, Invariance, PTL

\* When the cursor file can be written, no replay starts beyond what the reducer has: the
\* events between the cursor and an empty or restarted reducer are never left out.
THEOREM ReplayLeavesNothingOut ==
    ASSUME ~SaveMayFail PROVE Spec => []NoEventSkipped
<1>1. IInv => NoEventSkipped
  <2> SUFFICES ASSUME IInv PROVE NoEventSkipped
    OBVIOUS
  <2>1. ASSUME NEW i \in DOMAIN toMachine, toMachine[i].type = "replay"
        PROVE  toMachine[i].after <= machine.seq
    <3>1. toMachine[i] \in ToMachineMsgs
      BY <2>1 DEF IInv, StreamOK
    <3> QED BY <2>1, <3>1 DEF ToMachineMsgs
  <2>2. ASSUME NEW i \in DOMAIN toManager, toManager[i].type = "req"
        PROVE  toManager[i].n <= machine.seq
    <3>1. toManager[i] \in ToManagerMsgs
      BY <2>2 DEF IInv, StreamOK
    <3> QED BY <2>2, <3>1 DEF ToManagerMsgs
  <2> QED BY <2>1, <2>2 DEF NoEventSkipped
<1>2. QED
  BY <1>1, Invariance, PTL

=============================================================================
