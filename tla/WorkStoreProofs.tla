--------------------------- MODULE WorkStoreProofs ---------------------------
(***************************************************************************)
(* WorkStore, for any number of operations and streams, any buffer and replay  *)
(* limit: optimistic locking loses no update and spares finished work, the     *)
(* event log has no gap, and a stream only moves forward.                      *)
(***************************************************************************)
EXTENDS WorkStore, SequenceTheorems, WellFoundedInduction, TLAPS

\* What an operation o knows of the row (st, v) and of the sequences q in the log.
\* A version that is still the row's comes with the row's state; a sequence to be
\* appended follows one that is there.
Knows(o, st, v, q) ==
    /\ o.pc = "write" =>
          /\ o.kind \in {"update", "cancel", "reply", "recover"}
          /\ o.target \in WorkStates /\ o.type \in EventTypes
          /\ 1 <= o.version /\ o.version <= v
          /\ o.version = v => o.state = st
          /\ o.kind \in {"cancel", "recover"} => o.state \notin Terminal
    /\ o.pc \in {"seq", "append"} => o.type \in EventTypes
    /\ o.pc \in {"append", "publish"} => o.seq # 0
    /\ o.pc = "append" => o.seq = 1 \/ o.seq - 1 \in q

OpInv == \A w \in Writers : Knows(op[w], state, version, Seqs)

\* The version counts from the insert.
RowInv == state = "ABSENT" <=> version = 0

\* The sequences are an interval, and each is used once.
LogInv ==
    /\ \E n \in Nat : Seqs = 1..n
    /\ \A e, f \in log : e.seq = f.seq => e = f

\* A stream's filter covers what it has yielded.
SubInv ==
    \A s \in Subscribers :
        /\ sub[s].pc = "replay" => got[s] = {}
        /\ sub[s].pc = "live" => \A e \in got[s] : e.seq <= sub[s].last

IInv == TypeOK /\ RowInv /\ LogInv /\ OpInv /\ SubInv

-----------------------------------------------------------------------------
(* The log *)

\* A nonempty set of numbers up to n has a greatest one.
LEMMA GreatestExists ==
    ASSUME NEW n \in Nat, NEW S \in SUBSET (1..n), S # {}
    PROVE  \E q \in S : \A r \in S : r <= q
<1> DEFINE T == {n - x : x \in S}
<1>0. \A x \in S : x \in Int /\ n - x \in Nat
  OBVIOUS
<1>a. PICK x0 \in S : TRUE
  OBVIOUS
<1>b. n - x0 \in T
  BY <1>a
<1>1. T \subseteq Nat /\ T # {}
  BY <1>0, <1>b
<1>2. PICK m \in T : \A y \in T : ~(<<y, m>> \in OpToRel(<, Nat))
  BY <1>1, NatLessThanWellFounded, WFMin
<1>3. \A y \in T : ~(y < m)
  BY <1>1, <1>2 DEF OpToRel
<1>4. PICK q \in S : m = n - q
  BY <1>2
<1>5. ASSUME NEW r \in S PROVE r <= q
  <2>1. ~(n - r < n - q)
    BY <1>3, <1>4
  <2>2. r \in Int /\ q \in Int
    OBVIOUS
  <2> QED BY <2>1, <2>2
<1> QED BY <1>5

LEMMA LatestSeqFacts ==
    ASSUME TypeOK, LogInv
    PROVE  LatestSeq \in Nat /\ (LatestSeq = 0 \/ LatestSeq \in Seqs)
<1>1. PICK n \in Nat : Seqs = 1..n
  BY DEF LogInv
<1>2. CASE log = {}
  BY <1>2 DEF LatestSeq
<1>3. CASE log # {}
  <2>1. Seqs # {} /\ Seqs \in SUBSET (1..n)
    BY <1>1, <1>3 DEF Seqs
  <2>2. \E q \in Seqs : \A r \in Seqs : r <= q
    BY <2>1, GreatestExists
  <2>3. LatestSeq \in Seqs
    BY <1>3, <2>2 DEF LatestSeq
  <2> QED BY <1>1, <2>3
<1> QED BY <1>2, <1>3

\* What a stream takes for its last event bounds what it has yielded.
LEMMA LastOfFacts ==
    ASSUME TypeOK, LogInv, NEW S \in SUBSET log, NEW d \in Nat
    PROVE  LastOf(S, d) \in Nat /\ \A e \in S : e.seq <= LastOf(S, d)
<1>1. PICK n \in Nat : Seqs = 1..n
  BY DEF LogInv
<1>2. CASE S = {}
  BY <1>2 DEF LastOf
<1>3. CASE S # {}
  <2> DEFINE Q == {e.seq : e \in S}
  <2>1. Q # {} /\ Q \in SUBSET (1..n)
    BY <1>1, <1>3 DEF Seqs
  <2>2. \E q \in Q : \A r \in Q : r <= q
    BY <2>1, GreatestExists
  <2>3. \E q \in Q : \A e \in S : e.seq <= q
    BY <2>2
  <2>4. LastOf(S, d) \in Q /\ \A e \in S : e.seq <= LastOf(S, d)
    BY <1>3, <2>3 DEF LastOf
  <2> QED BY <2>1, <2>4
<1> QED BY <1>2, <1>3

\* Appending behind a sequence that is there keeps the log an interval; a sequence
\* that is taken changes nothing.
LEMMA AppendKeepsLog ==
    ASSUME TypeOK, LogInv, NEW q \in Nat, q # 0, NEW t \in EventTypes,
           q = 1 \/ q - 1 \in Seqs, log' = Appended(q, t)
    PROVE  log' \subseteq Item /\ LogInv' /\ Seqs \subseteq Seqs'
<1>1. PICK n \in Nat : Seqs = 1..n
  BY DEF LogInv
<1>2. CASE q \in Seqs
  <2>1. log' = log
    BY <1>2 DEF Appended
  <2> QED BY <2>1 DEF TypeOK, LogInv, Seqs
<1>3. CASE q \notin Seqs
  <2> DEFINE e0 == [seq |-> q, type |-> t]
  <2>1. log' = log \cup {e0}
    BY <1>3 DEF Appended
  <2>2. e0 \in Item /\ e0.seq = q
    BY DEF Item
  <2>3. q = n + 1
    BY <1>1, <1>3
  <2>4. Seqs' = Seqs \cup {q}
    BY <2>1, <2>2 DEF Seqs
  <2>5. Seqs' = 1..(n + 1) /\ n + 1 \in Nat
    BY <1>1, <2>3, <2>4
  <2>6. \A e, f \in log' : e.seq = f.seq => e = f
    <3>1. \A e \in log : e.seq # q
      BY <1>3 DEF Seqs
    <3> QED BY <2>1, <2>2, <3>1 DEF LogInv
  <2>7. LogInv'
    BY <2>5, <2>6 DEF LogInv
  <2> QED BY <2>1, <2>2, <2>4, <2>7 DEF TypeOK
<1> QED BY <1>2, <1>3

-----------------------------------------------------------------------------
(* Operations *)

LEMMA NoOpFacts ==
    ASSUME NEW st, NEW v, NEW q
    PROVE  NoOp \in OpType /\ Knows(NoOp, st, v, q)
<1>1. NoOp \in OpType
  BY EmptySeq DEF NoOp, OpType
<1>2. Knows(NoOp, st, v, q)
  BY DEF NoOp, Knows
<1> QED BY <1>1, <1>2

\* What is known survives events, and a write of the row, whose version grows.
LEMMA KnowsLater ==
    ASSUME NEW o \in OpType, NEW st, NEW v \in Nat, NEW q, NEW st2, NEW v2, NEW q2,
           Knows(o, st, v, q), q \subseteq q2, (st2 = st /\ v2 = v) \/ v2 = v + 1
    PROVE  Knows(o, st2, v2, q2)
<1>1. o.version \in Nat
  BY DEF OpType
<1> QED BY <1>1 DEF Knows

\* A step of one operation.
LEMMA OpStep ==
    ASSUME TypeOK, OpInv, NEW w \in Writers, NEW o \in OpType, op' = [op EXCEPT ![w] = o],
           Knows(o, state', version', Seqs'), Seqs \subseteq Seqs',
           UNCHANGED row \/ version' = version + 1
    PROVE  op' \in [Writers -> OpType] /\ OpInv'
<1>1. op' \in [Writers -> OpType]
  BY DEF TypeOK
<1>2. ASSUME NEW d \in Writers PROVE Knows(op'[d], state', version', Seqs')
  <2>1. CASE d = w
    BY <2>1 DEF TypeOK
  <2>2. CASE d # w
    <3>1. op'[d] = op[d] /\ op[d] \in OpType /\ version \in Nat
      BY <2>2 DEF TypeOK
    <3>2. Knows(op[d], state, version, Seqs)
      BY DEF OpInv
    <3>3. Knows(op[d], state', version', Seqs')
      BY <3>1, <3>2, KnowsLater DEF row
    <3> QED BY <3>1, <3>3
  <2> QED BY <2>1, <2>2
<1> QED BY <1>1, <1>2 DEF OpInv

\* Steps that leave the row, the log and the streams alone.
LEMMA QuietStep ==
    ASSUME IInv, NEW w \in Writers, NEW o \in OpType, op' = [op EXCEPT ![w] = o],
           Knows(o, state, version, Seqs), UNCHANGED <<row, log, sub, got>>
    PROVE  IInv'
<1>0. TypeOK /\ RowInv /\ LogInv /\ OpInv /\ SubInv
  BY DEF IInv
<1>1. Seqs' = Seqs /\ UNCHANGED <<state, version>>
  BY DEF Seqs, row
<1>2. op' \in [Writers -> OpType] /\ OpInv'
  BY <1>0, <1>1, OpStep DEF row
<1>3. LogInv'
  BY <1>0, <1>1 DEF LogInv
<1> QED BY <1>0, <1>1, <1>2, <1>3 DEF IInv, TypeOK, RowInv, SubInv

LEMMA ReadsStep ==
    ASSUME IInv, NEW w \in Writers, NEW kind \in {"update", "cancel", "reply", "recover"},
           NEW target \in WorkStates, NEW type \in EventTypes, NEW out \in Seq(EventTypes),
           kind \in {"cancel", "recover"} => state \notin Terminal,
           Reads(w, kind, target, type, out)
    PROVE  IInv'
<1>0. TypeOK /\ RowInv
  BY DEF IInv
<1> DEFINE o == [op[w] EXCEPT !.pc = "write", !.kind = kind, !.state = state,
                              !.version = version, !.target = target,
                              !.type = type, !.out = out]
<1>1. /\ op[w] \in OpType /\ state \in WorkStates /\ version \in Nat /\ version # 0
  BY <1>0 DEF TypeOK, RowInv, Reads
<1>2. o \in OpType
  BY <1>1 DEF OpType
<1>3. /\ o.pc = "write" /\ o.kind = kind /\ o.state = state /\ o.version = version
      /\ o.target = target /\ o.type = type
  BY <1>1 DEF OpType
<1>4. Knows(o, state, version, Seqs)
  BY <1>1, <1>3 DEF Knows
<1>5. op' = [op EXCEPT ![w] = o] /\ UNCHANGED <<row, log, sub, got>>
  BY DEF Reads
<1> HIDE DEF o
<1> QED BY <1>2, <1>4, <1>5, QuietStep

\* The operations that start.
LEMMA OperationPreservesIInv ==
    ASSUME IInv, NEW w \in Writers, Operation(w)
    PROVE  IInv'
<1>0. TypeOK /\ RowInv /\ LogInv /\ OpInv
  BY DEF IInv
<1>t. Targets \subseteq WorkStates /\ WorkStates \subseteq EventTypes /\ "ARTIFACT" \in EventTypes
  BY WorkConstants DEF WorkStates, Terminal, EventTypes
<1>1. CASE LookupIdempotencyKey(w)
  <2> DEFINE o == [op[w] EXCEPT !.pc = "insert"]
  <2>1. op[w] \in OpType
    BY <1>0 DEF TypeOK
  <2>2. o \in OpType /\ o.pc = "insert"
    BY <2>1 DEF OpType
  <2>3. Knows(o, state, version, Seqs)
    BY <2>2 DEF Knows
  <2>4. op' = [op EXCEPT ![w] = o] /\ UNCHANGED <<row, log, sub, got>>
    BY <1>1 DEF LookupIdempotencyKey
  <2> HIDE DEF o
  <2> QED BY <2>2, <2>3, <2>4, QuietStep
<1>2. CASE TaskCancel(w)
  <2>1. "CANCELED" \in WorkStates /\ <<"CANCELED">> \in Seq(EventTypes)
    BY DEF WorkStates, Terminal, EventTypes
  <2> QED BY <1>2, <1>t, <2>1, ReadsStep DEF TaskCancel
<1>3. CASE RecoverPendingWork(w)
  <2>1. "SUBMITTED" \in WorkStates /\ "RECOVERED" \in EventTypes /\ <<>> \in Seq(EventTypes)
    BY DEF WorkStates, EventTypes
  <2>2. state \notin Terminal
    BY <1>3 DEF RecoverPendingWork, Terminal
  <2> QED BY <1>3, <2>1, <2>2, ReadsStep DEF RecoverPendingWork
<1>4. CASE Record(w)
  <2> DEFINE o == ToLog("TRACE", <<>>)
  <2>1. o \in OpType /\ o.pc = "seq" /\ o.type = "TRACE"
    BY EmptySeq DEF ToLog, NoOp, OpType, EventTypes
  <2>2. Knows(o, state, version, Seqs)
    BY <2>1 DEF Knows, EventTypes
  <2>3. op' = [op EXCEPT ![w] = o] /\ UNCHANGED <<row, log, sub, got>>
    BY <1>4 DEF Record
  <2> HIDE DEF o
  <2> QED BY <2>1, <2>2, <2>3, QuietStep
<1>5. ASSUME NEW target \in Targets, NEW artifacts \in BOOLEAN, TaskReply(w, target, artifacts)
      PROVE  IInv'
  <2> DEFINE out == IF artifacts THEN <<"ARTIFACT", target>> ELSE <<target>>
  <2>1. out \in Seq(EventTypes) /\ target \in WorkStates /\ target \in EventTypes
    BY <1>t
  <2>2. Reads(w, "reply", target, target, out)
    BY <1>5 DEF TaskReply
  <2> HIDE DEF out
  <2> QED BY <2>1, <2>2, ReadsStep
<1>6. ASSUME NEW target \in Targets, NEW prev \in 0..version,
             NEW out \in {<<target>>, <<"ARTIFACT">>}, Update(w, target, prev, out)
      PROVE  IInv'
  <2>1. out \in Seq(EventTypes) /\ target \in WorkStates /\ target \in EventTypes
    BY <1>t
  <2> QED BY <1>6, <2>1, ReadsStep DEF Update
<1> QED BY <1>1, <1>2, <1>3, <1>4, <1>5, <1>6 DEF Operation

\* What is left after a write is logged with the event the operation came with.
LEMMA ToLogFacts ==
    ASSUME NEW t \in EventTypes, NEW out \in Seq(EventTypes), NEW st, NEW v, NEW q
    PROVE  /\ ToLog(t, out) \in OpType /\ ToLog(t, out).pc = "seq"
           /\ Knows(ToLog(t, out), st, v, q)
<1>1. ToLog(t, out) \in OpType /\ ToLog(t, out).pc = "seq" /\ ToLog(t, out).type = t
  BY DEF ToLog, NoOp, OpType
<1> QED BY <1>1 DEF Knows

\* The two statements that write the row.
LEMMA RowWritePreservesIInv ==
    ASSUME IInv, NEW w \in Writers, CreateWork(w) \/ UpdateWorkState(w)
    PROVE  IInv'
<1>0. TypeOK /\ RowInv /\ LogInv /\ OpInv /\ SubInv
  BY DEF IInv
<1>u. UNCHANGED <<log, sub, got>> /\ Seqs' = Seqs
  BY DEF CreateWork, UpdateWorkState, Seqs
<1>t. op[w] \in OpType /\ version \in Nat /\ Knows(op[w], state, version, Seqs)
  BY <1>0 DEF TypeOK, OpInv
<1>1. CASE Return(w) /\ UNCHANGED row
  <2>1. NoOp \in OpType /\ Knows(NoOp, state, version, Seqs)
    BY NoOpFacts
  <2> QED BY <1>1, <1>u, <2>1, QuietStep DEF Return
<1>2. ASSUME NEW o \in OpType, op' = [op EXCEPT ![w] = o], version' = version + 1,
             state' \in WorkStates, Knows(o, state', version', Seqs')
      PROVE  IInv'
  <2>1. op' \in [Writers -> OpType] /\ OpInv'
    BY <1>0, <1>2, <1>u, OpStep
  <2>2. LogInv'
    BY <1>0, <1>u DEF LogInv
  <2>3. version' \in Nat /\ version' # 0 /\ state' # "ABSENT"
    BY <1>2, <1>t DEF WorkStates, Terminal
  <2> QED BY <1>0, <1>2, <1>u, <2>1, <2>2, <2>3 DEF IInv, TypeOK, RowInv, SubInv
<1>3. CASE CreateWork(w) /\ state = "ABSENT"
  <2> DEFINE o == [op[w] EXCEPT !.pc = "append", !.type = "SUBMITTED", !.seq = 1, !.out = <<"SUBMITTED">>]
  <2>1. <<"SUBMITTED">> \in Seq(EventTypes) /\ "SUBMITTED" \in EventTypes /\ "SUBMITTED" \in WorkStates
    BY DEF WorkStates, EventTypes
  <2>2. o \in OpType /\ o.pc = "append" /\ o.type = "SUBMITTED" /\ o.seq = 1
    BY <1>t, <2>1 DEF OpType
  <2>3. Knows(o, state', version', Seqs')
    BY <2>1, <2>2 DEF Knows
  <2>a. version = 0
    BY <1>0, <1>3 DEF RowInv
  <2>b. version' = 1 /\ state' = "SUBMITTED"
    BY <1>3 DEF CreateWork
  <2>c. op' = [op EXCEPT ![w] = o]
    BY <1>3 DEF CreateWork
  <2>4. op' = [op EXCEPT ![w] = o] /\ version' = version + 1 /\ state' = "SUBMITTED"
    BY <2>a, <2>b, <2>c
  <2> HIDE DEF o
  <2> QED BY <1>2, <2>1, <2>2, <2>3, <2>4
<1>4. CASE UpdateWorkState(w) /\ version = op[w].version
  <2> DEFINE o == ToLog(op[w].type, op[w].out)
  <2>1. op[w].type \in EventTypes /\ op[w].out \in Seq(EventTypes) /\ op[w].target \in WorkStates
    BY <1>t, <1>4 DEF UpdateWorkState, Knows, OpType
  <2>2. o \in OpType /\ Knows(o, state', version', Seqs')
    BY <2>1, ToLogFacts
  <2>3. op' = [op EXCEPT ![w] = o] /\ version' = version + 1 /\ state' = op[w].target
    BY <1>4 DEF UpdateWorkState
  <2> HIDE DEF o
  <2> QED BY <1>2, <2>1, <2>2, <2>3
<1> QED BY <1>1, <1>3, <1>4 DEF CreateWork, UpdateWorkState

\* The sequence is read, or its read fails.
LEMMA SeqPreservesIInv ==
    ASSUME IInv, NEW w \in Writers,
           ReadLatestSeq(w) \/ ReadLatestSeqFails(w) \/ AppendFails(w) \/ Finish(w) \/ OpFails(w)
    PROVE  IInv'
<1>0. TypeOK /\ LogInv /\ OpInv
  BY DEF IInv
<1>u. UNCHANGED <<row, log, sub, got>>
  BY DEF ReadLatestSeq, ReadLatestSeqFails, AppendFails, Finish, OpFails
<1>t. op[w] \in OpType /\ Knows(op[w], state, version, Seqs)
  BY <1>0 DEF TypeOK, OpInv
<1>1. CASE Return(w)
  <2>1. NoOp \in OpType /\ Knows(NoOp, state, version, Seqs)
    BY NoOpFacts
  <2> QED BY <1>1, <1>u, <2>1, QuietStep DEF Return
<1>2. ASSUME NEW q \in Nat, q = 1 \/ (q # 0 /\ q - 1 \in Seqs), op[w].pc = "seq",
             op' = [op EXCEPT ![w].pc = "append", ![w].seq = q]
      PROVE  IInv'
  <2> DEFINE o == [op[w] EXCEPT !.pc = "append", !.seq = q]
  <2>1. o \in OpType /\ o.pc = "append" /\ o.seq = q /\ o.type = op[w].type
    BY <1>t, <1>2 DEF OpType
  <2>2. Knows(o, state, version, Seqs)
    BY <1>t, <1>2, <2>1 DEF Knows
  <2>3. op' = [op EXCEPT ![w] = o]
    BY <1>2
  <2> HIDE DEF o
  <2> QED BY <1>u, <2>1, <2>2, <2>3, QuietStep
<1>3. CASE ReadLatestSeq(w)
  <2>1. LatestSeq \in Nat /\ (LatestSeq = 0 \/ LatestSeq \in Seqs)
    BY <1>0, LatestSeqFacts
  <2>2. LatestSeq + 1 \in Nat /\ (LatestSeq + 1 = 1 \/ (LatestSeq + 1 # 0 /\ (LatestSeq + 1) - 1 \in Seqs))
    BY <2>1
  <2> QED BY <1>2, <1>3, <2>2 DEF ReadLatestSeq
<1>4. CASE ReadLatestSeqFails(w) /\ ~Return(w)
  BY <1>2, <1>4 DEF ReadLatestSeqFails
<1>5. CASE AppendFails(w)
  <2> DEFINE o == [op[w] EXCEPT !.pc = "publish"]
  <2>1. o \in OpType /\ o.pc = "publish" /\ o.seq = op[w].seq
    BY <1>t DEF OpType
  <2>2. Knows(o, state, version, Seqs)
    BY <1>t, <1>5, <2>1 DEF Knows, AppendFails
  <2>3. op' = [op EXCEPT ![w] = o]
    BY <1>5 DEF AppendFails
  <2> HIDE DEF o
  <2> QED BY <1>u, <2>1, <2>2, <2>3, QuietStep
<1> QED BY <1>1, <1>3, <1>4, <1>5 DEF Finish, OpFails

LEMMA AppendPreservesIInv ==
    ASSUME IInv, NEW w \in Writers, AppendWorkEvent(w)
    PROVE  IInv'
<1>0. TypeOK /\ RowInv /\ LogInv /\ OpInv /\ SubInv
  BY DEF IInv
<1>u. UNCHANGED <<row, sub, got, state, version>>
  BY DEF AppendWorkEvent, row
<1>t. op[w] \in OpType /\ Knows(op[w], state, version, Seqs) /\ op[w].pc = "append"
  BY <1>0 DEF TypeOK, OpInv, AppendWorkEvent
<1>1. /\ op[w].seq \in Nat /\ op[w].seq # 0 /\ op[w].type \in EventTypes
      /\ op[w].seq = 1 \/ op[w].seq - 1 \in Seqs
  BY <1>t DEF Knows, OpType
<1>2. log' = Appended(op[w].seq, op[w].type)
  BY DEF AppendWorkEvent
<1>3. log' \subseteq Item /\ LogInv' /\ Seqs \subseteq Seqs'
  BY <1>0, <1>1, <1>2, AppendKeepsLog
<1> DEFINE o == [op[w] EXCEPT !.pc = "publish"]
<1>4. o \in OpType /\ o.pc = "publish" /\ o.seq = op[w].seq
  BY <1>t DEF OpType
<1>5. Knows(o, state', version', Seqs')
  BY <1>1, <1>4 DEF Knows
<1>6. op' = [op EXCEPT ![w] = o]
  BY DEF AppendWorkEvent
<1> HIDE DEF o
<1>7. op' \in [Writers -> OpType] /\ OpInv'
  BY <1>0, <1>3, <1>4, <1>5, <1>6, <1>u, OpStep
<1> QED BY <1>0, <1>3, <1>7, <1>u DEF IInv, TypeOK, RowInv, SubInv

LEMMA PublishPreservesIInv ==
    ASSUME IInv, NEW w \in Writers, Publish(w)
    PROVE  IInv'
<1>0. TypeOK /\ RowInv /\ LogInv /\ OpInv /\ SubInv
  BY DEF IInv
<1>u. UNCHANGED <<row, log, got, state, version>> /\ Seqs' = Seqs
  BY DEF Publish, row, Seqs
<1>t. /\ op[w] \in OpType /\ Knows(op[w], state, version, Seqs)
      /\ op[w].pc = "publish" /\ op[w].out # <<>>
  BY <1>0 DEF TypeOK, OpInv, Publish
<1>1. op[w].out \in Seq(EventTypes) /\ op[w].seq \in Nat \ {0}
  BY <1>t DEF OpType, Knows
<1>2. Head(op[w].out) \in EventTypes /\ Tail(op[w].out) \in Seq(EventTypes)
  BY <1>1, <1>t, HeadTailProperties
<1> DEFINE item == [seq |-> op[w].seq, type |-> Head(op[w].out)]
<1>3. item \in Item
  BY <1>1, <1>2 DEF Item
<1>4. sub' = [s \in Subscribers |-> Offered(sub[s], item)]
  BY DEF Publish
<1> DEFINE o == [op[w] EXCEPT !.out = Tail(@)]
<1>5. o \in OpType /\ o.pc = "publish" /\ o.seq = op[w].seq
  BY <1>t, <1>2 DEF OpType
<1>6. Knows(o, state', version', Seqs')
  BY <1>1, <1>5 DEF Knows
<1>7. op' = [op EXCEPT ![w] = o]
  BY DEF Publish
<1> HIDE DEF o, item
<1>8. op' \in [Writers -> OpType] /\ OpInv'
  BY <1>0, <1>5, <1>6, <1>7, <1>u, OpStep
<1>9. ASSUME NEW s \in Subscribers
      PROVE  /\ sub'[s] \in SubType
             /\ sub'[s].pc = sub[s].pc /\ sub'[s].last = sub[s].last
  <2>1. sub[s] \in SubType
    BY <1>0 DEF TypeOK
  <2>2. Append(sub[s].buf, item) \in Seq(Item)
    BY <1>3, <2>1, AppendProperties DEF SubType
  <2>3. sub'[s] = sub[s] \/ sub'[s] = [sub[s] EXCEPT !.buf = Append(@, item)]
    BY <1>4 DEF Offered
  <2> QED BY <2>1, <2>2, <2>3 DEF SubType
<1>10. sub' \in [Subscribers -> SubType] /\ SubInv'
  BY <1>0, <1>4, <1>9, <1>u DEF SubInv
<1>11. LogInv'
  BY <1>0, <1>u DEF LogInv
<1> QED BY <1>0, <1>8, <1>10, <1>11, <1>u DEF IInv, TypeOK, RowInv

-----------------------------------------------------------------------------
(* Streams *)

\* What the replay yields.
LEMMA YieldedFromLog == \A after : Yielded(after) \in SUBSET log
  BY DEF Yielded, Listed

\* A step of one stream, to a record c and a set of yielded items g.
LEMMA StreamStep ==
    ASSUME IInv, NEW s \in Subscribers, NEW c \in SubType, NEW g \in SUBSET Item,
           sub' = [sub EXCEPT ![s] = c], got' = [got EXCEPT ![s] = g],
           c.pc = "replay" => g = {}, c.pc = "live" => \A e \in g : e.seq <= c.last,
           UNCHANGED <<row, log, op>>
    PROVE  IInv'
<1>0. TypeOK /\ RowInv /\ LogInv /\ OpInv /\ SubInv
  BY DEF IInv
<1>u. UNCHANGED <<state, version, log, op>> /\ Seqs' = Seqs
  BY DEF row, Seqs
<1>1. sub' \in [Subscribers -> SubType] /\ got' \in [Subscribers -> SUBSET Item]
  BY <1>0 DEF TypeOK
<1>2. SubInv'
  <2>1. ASSUME NEW d \in Subscribers
        PROVE  /\ sub'[d].pc = "replay" => got'[d] = {}
               /\ sub'[d].pc = "live" => \A e \in got'[d] : e.seq <= sub'[d].last
    <3>1. CASE d = s
      BY <1>0, <3>1 DEF TypeOK
    <3>2. CASE d # s
      BY <1>0, <3>2 DEF TypeOK, SubInv
    <3> QED BY <3>1, <3>2
  <2> QED BY <2>1 DEF SubInv
<1>3. LogInv' /\ OpInv'
  BY <1>0, <1>u DEF LogInv, OpInv
<1> QED BY <1>0, <1>1, <1>2, <1>3, <1>u DEF IInv, TypeOK, RowInv

LEMMA NoSubFacts == NoSub \in SubType /\ NoSub.pc = "off"
  BY EmptySeq DEF NoSub, SubType

LEMMA SubscriberPreservesIInv ==
    ASSUME IInv, NEW s \in Subscribers, SubscriberStep(s)
    PROVE  IInv'
<1>0. TypeOK /\ LogInv /\ SubInv
  BY DEF IInv
<1>t. sub[s] \in SubType /\ got[s] \in SUBSET Item /\ log \subseteq Item
  BY <1>0 DEF TypeOK
<1>1. ASSUME NEW from \in {0, LatestSeq}, Subscribe(s, from) PROVE IInv'
  <2> DEFINE c == [NoSub EXCEPT !.pc = "replay", !.last = from, !.from = from]
  <2>1. from \in Nat
    BY <1>0, LatestSeqFacts
  <2>2. c \in SubType /\ c.pc = "replay"
    BY <2>1, EmptySeq DEF NoSub, SubType
  <2>3. sub' = [sub EXCEPT ![s] = c] /\ got' = [got EXCEPT ![s] = {}] /\ UNCHANGED <<row, log, op>>
    BY <1>1 DEF Subscribe
  <2> HIDE DEF c
  <2> QED BY <2>2, <2>3, StreamStep
<1>2. CASE Replay(s)
  <2> DEFINE hist == Yielded(sub[s].from)
             c    == [sub[s] EXCEPT !.pc = "live", !.last = LastOf(hist, @)]
  <2>1. hist \in SUBSET log /\ hist \in SUBSET Item
    BY <1>t, YieldedFromLog
  <2>2. sub[s].last \in Nat
    BY <1>t DEF SubType
  <2> HIDE DEF hist
  <2>3. LastOf(hist, sub[s].last) \in Nat /\ \A e \in hist : e.seq <= LastOf(hist, sub[s].last)
    BY <1>0, <2>1, <2>2, LastOfFacts
  <2>4. c \in SubType /\ c.pc = "live" /\ c.last = LastOf(hist, sub[s].last)
    BY <1>t, <2>3 DEF SubType
  <2> DEFINE d == IF \E e \in hist : e.type \in Terminal THEN NoSub ELSE c
  <2>5. /\ sub' = [sub EXCEPT ![s] = d]
        /\ got' = [got EXCEPT ![s] = hist] /\ UNCHANGED <<row, log, op>>
    BY <1>2 DEF Replay, hist
  <2> HIDE DEF c
  <2>6. d \in SubType /\ (d.pc = "live" => d = c) /\ d.pc # "replay"
    BY <2>4, NoSubFacts
  <2> HIDE DEF d
  <2>7. d.pc = "live" => \A e \in hist : e.seq <= d.last
    BY <2>3, <2>4, <2>6
  <2> QED BY <2>1, <2>5, <2>6, <2>7, StreamStep
<1>3. CASE SkipOverlap(s)
  <2> DEFINE c == [sub[s] EXCEPT !.buf = Tail(@)]
  <2>1. Tail(sub[s].buf) \in Seq(Item)
    BY <1>3, <1>t, HeadTailProperties DEF SkipOverlap, SubType
  <2>2. c \in SubType /\ c.pc = "live" /\ c.last = sub[s].last
    BY <1>3, <1>t, <2>1 DEF SkipOverlap, SubType
  <2>3. sub' = [sub EXCEPT ![s] = c] /\ UNCHANGED <<row, log, op, got>>
    BY <1>3 DEF SkipOverlap
  <2>4. got' = [got EXCEPT ![s] = got[s]]
    BY <1>0, <2>3 DEF TypeOK
  <2>5. \A e \in got[s] : e.seq <= c.last
    BY <1>0, <1>3, <2>2 DEF SubInv, SkipOverlap
  <2> HIDE DEF c
  <2> QED BY <1>t, <2>2, <2>3, <2>4, <2>5, StreamStep
<1>4. CASE YieldLive(s)
  <2> DEFINE item == Head(sub[s].buf)
             c    == [sub[s] EXCEPT !.last = item.seq, !.buf = Tail(@)]
             g    == got[s] \cup {item}
  <2>1. item \in Item /\ Tail(sub[s].buf) \in Seq(Item)
    BY <1>4, <1>t, HeadTailProperties DEF YieldLive, SubType
  <2>2. item.seq \in Nat /\ sub[s].last \in Nat /\ ~(item.seq <= sub[s].last)
    BY <1>4, <1>t, <2>1 DEF YieldLive, SubType, Item, Overlap
  <2>3. \A e \in got[s] : e.seq \in Nat /\ e.seq <= sub[s].last
    BY <1>0, <1>4, <1>t DEF SubInv, YieldLive, Item
  <2> DEFINE d == IF item.type \in Terminal THEN NoSub ELSE c
  <2>a. /\ sub' = [sub EXCEPT ![s] = d]
        /\ got' = [got EXCEPT ![s] = g] /\ UNCHANGED <<row, log, op>>
    BY <1>4 DEF YieldLive
  <2> HIDE DEF item
  <2>4. c \in SubType /\ c.last = item.seq
    BY <1>t, <2>1, <2>2 DEF SubType
  <2>5. \A e \in g : e.seq <= item.seq
    BY <2>2, <2>3
  <2>6. g \in SUBSET Item
    BY <1>t, <2>1
  <2>7. c.pc = "live"
    BY <1>4, <1>t DEF YieldLive, SubType
  <2> HIDE DEF c, g
  <2>8. d \in SubType /\ (d.pc = "live" => d = c) /\ d.pc # "replay"
    BY <2>4, <2>7, NoSubFacts
  <2> HIDE DEF d
  <2>9. d.pc = "live" => \A e \in g : e.seq <= d.last
    BY <2>4, <2>5, <2>8
  <2> QED BY <2>6, <2>8, <2>9, <2>a, StreamStep
<1>5. CASE Unsubscribe(s)
  BY <1>5, NoSubFacts, StreamStep DEF Unsubscribe
<1> QED BY <1>1, <1>2, <1>3, <1>4, <1>5 DEF SubscriberStep

-----------------------------------------------------------------------------
(* The inductive invariant *)

LEMMA InitIInv == Init => IInv
<1> SUFFICES ASSUME Init PROVE IInv
  OBVIOUS
<1>1. Seqs = 1..0
  BY DEF Init, Seqs
<1>2. LogInv
  BY <1>1 DEF Init, LogInv
<1>3. op \in [Writers -> OpType] /\ OpInv
  BY NoOpFacts DEF Init, OpInv
<1>4. sub \in [Subscribers -> SubType] /\ SubInv
  BY NoSubFacts DEF Init, SubInv
<1> QED BY <1>2, <1>3, <1>4 DEF Init, IInv, TypeOK, RowInv

LEMMA NextIInv == IInv /\ [Next]_vars => IInv'
<1> SUFFICES ASSUME IInv, [Next]_vars PROVE IInv'
  OBVIOUS
<1>1. ASSUME NEW w \in Writers, OperationStep(w) PROVE IInv'
  BY <1>1, RowWritePreservesIInv, SeqPreservesIInv, AppendPreservesIInv, PublishPreservesIInv
     DEF OperationStep
<1>2. CASE UNCHANGED vars
  BY <1>2 DEF vars, IInv, TypeOK, RowInv, LogInv, OpInv, SubInv, Seqs
<1> QED BY <1>1, <1>2, OperationPreservesIInv, SubscriberPreservesIInv DEF Next

-----------------------------------------------------------------------------
(* The theorems *)

\* The row, the log, the operations and the streams keep their types.
THEOREM TypeCorrect == Spec => []TypeOK
<1>1. IInv => TypeOK
  BY DEF IInv
<1> QED BY <1>1, InitIInv, NextIInv, PTL DEF Spec

\* The event log has one event per sequence and no gap.
THEOREM LogStaysGapless == Spec => []LogGapless
<1>1. IInv => LogGapless
  <2> SUFFICES ASSUME IInv PROVE LogGapless
    OBVIOUS
  <2>1. PICK n \in Nat : Seqs = 1..n
    BY DEF IInv, LogInv
  <2>2. \A q \in Seqs : q > 1 => q - 1 \in Seqs
    BY <2>1
  <2> QED BY <2>2 DEF IInv, LogInv, LogGapless
<1> QED BY <1>1, InitIInv, NextIInv, PTL DEF Spec

\* Which steps write the row.
LEMMA RowWriters ==
    ASSUME IInv, [Next]_vars, ~UNCHANGED row
    PROVE  \/ state = "ABSENT" /\ version = 0
           \/ \E w \in Writers : Wrote(w) /\ op[w].state = state /\ Knows(op[w], state, version, Seqs)
<1>1. ASSUME NEW w \in Writers, UpdateWorkState(w)
      PROVE  Wrote(w) /\ op[w].state = state /\ Knows(op[w], state, version, Seqs)
  <2>1. /\ op[w] \in OpType /\ op \in [Writers -> OpType] /\ NoOp.pc = "idle"
        /\ Knows(op[w], state, version, Seqs) /\ op[w].pc = "write"
    BY <1>1 DEF IInv, TypeOK, OpInv, UpdateWorkState, NoOp
  <2>2. version = op[w].version /\ op' = [op EXCEPT ![w] = ToLog(op[w].type, op[w].out)]
    BY <1>1 DEF UpdateWorkState, Return
  <2>3. op'[w].pc = "seq"
    BY <2>1, <2>2 DEF ToLog, NoOp
  <2> QED BY <2>1, <2>2, <2>3 DEF Wrote, Knows
<1>2. ASSUME NEW w \in Writers, CreateWork(w) PROVE state = "ABSENT" /\ version = 0
  BY <1>2 DEF CreateWork, IInv, RowInv
<1>3. ASSUME NEW w \in Writers, Operation(w) PROVE FALSE
  BY <1>3 DEF Operation, LookupIdempotencyKey, TaskCancel, RecoverPendingWork, Record, TaskReply,
             Update, Reads
<1>4. ASSUME NEW w \in Writers, OperationStep(w), ~UpdateWorkState(w), ~CreateWork(w) PROVE FALSE
  BY <1>4 DEF OperationStep, ReadLatestSeq, ReadLatestSeqFails, AppendWorkEvent, AppendFails,
             Publish, Finish, OpFails
<1>5. ASSUME NEW s \in Subscribers, SubscriberStep(s) PROVE FALSE
  BY <1>5 DEF SubscriberStep, Subscribe, Replay, SkipOverlap, YieldLive, Unsubscribe
<1>6. ~UNCHANGED vars
  BY DEF vars, row
<1> QED BY <1>1, <1>2, <1>3, <1>4, <1>5, <1>6 DEF Next

\* Optimistic locking: every write replaces the state its operation decided on.
THEOREM NoUpdateLost == Spec => NoLostUpdate
<1>1. IInv /\ [Next]_vars =>
        [version # 0 /\ version' # version => \E w \in Writers : Wrote(w) /\ op[w].state = state]_vars
  BY RowWriters DEF row
<1> QED BY <1>1, InitIInv, NextIInv, PTL DEF Spec, NoLostUpdate

\* A cancel or a recovery never replaces a terminal state.
THEOREM FinishedWorkSpared == Spec => DoneSpared
<1>1. IInv /\ [Next]_vars =>
        [(state \in Terminal /\ state' # state) =>
            \E w \in Writers : Wrote(w) /\ op[w].kind \in {"update", "reply"}]_vars
  <2> SUFFICES ASSUME IInv, [Next]_vars, state \in Terminal, state' # state
               PROVE  \E w \in Writers : Wrote(w) /\ op[w].kind \in {"update", "reply"}
    OBVIOUS
  <2>1. state # "ABSENT"
    BY DEF Terminal
  <2>2. PICK w \in Writers : Wrote(w) /\ op[w].state = state /\ Knows(op[w], state, version, Seqs)
    BY <2>1, RowWriters DEF row
  <2> QED BY <2>2 DEF Wrote, Knows
<1> QED BY <1>1, InitIInv, NextIInv, PTL DEF Spec, DoneSpared

\* A stream yields events in the order of their sequences, each once.
THEOREM StreamsMoveForward == Spec => StreamOrdered
<1> DEFINE Ordered == \A s \in Subscribers :
              sub[s].pc # "off" => \A e \in got'[s] \ got[s], f \in got[s] : f.seq < e.seq
<1>1. IInv /\ [Next]_vars => [Ordered]_vars
  <2> SUFFICES ASSUME IInv, Next PROVE Ordered
    OBVIOUS
  <2>0. got \in [Subscribers -> SUBSET Item] /\ sub \in [Subscribers -> SubType]
    BY DEF IInv, TypeOK
  <2>1. ASSUME NEW w \in Writers, Operation(w) \/ OperationStep(w) PROVE UNCHANGED got
    BY <2>1 DEF Operation, OperationStep, LookupIdempotencyKey, TaskCancel, RecoverPendingWork,
                Record, TaskReply, Update, Reads, CreateWork, UpdateWorkState, ReadLatestSeq,
                ReadLatestSeqFails, AppendWorkEvent, AppendFails, Publish, Finish, OpFails
  <2>2. ASSUME NEW s \in Subscribers, SubscriberStep(s) PROVE Ordered
    <3>1. CASE \E from \in {0, LatestSeq} : Subscribe(s, from)
      BY <2>0, <3>1 DEF Subscribe
    <3>2. CASE Replay(s)
      <4>1. got[s] = {} /\ got' = [got EXCEPT ![s] = Yielded(sub[s].from)]
        BY <3>2 DEF Replay, IInv, SubInv
      <4> QED BY <2>0, <4>1
    <3>3. CASE YieldLive(s)
      <4> DEFINE item == Head(sub[s].buf)
      <4>1. /\ sub[s].pc = "live" /\ sub[s].buf # <<>> /\ ~(item.seq <= sub[s].last)
            /\ got' = [got EXCEPT ![s] = got[s] \cup {item}]
        BY <3>3 DEF YieldLive, Overlap
      <4>2. item \in Item /\ sub[s].last \in Nat
        BY <2>0, <4>1, HeadTailProperties DEF SubType
      <4> HIDE DEF item
      <4>3. \A f \in got[s] : f.seq \in Nat /\ f.seq <= sub[s].last
        BY <2>0, <4>1 DEF IInv, SubInv, Item
      <4>4. \A f \in got[s] : f.seq < item.seq
        BY <4>1, <4>2, <4>3 DEF Item
      <4> QED BY <2>0, <4>1, <4>4
    <3>4. CASE SkipOverlap(s) \/ Unsubscribe(s)
      BY <2>0, <3>4 DEF SkipOverlap, Unsubscribe
    <3> QED BY <2>2, <3>1, <3>2, <3>3, <3>4 DEF SubscriberStep
  <2> QED BY <2>1, <2>2 DEF Next
<1> QED BY <1>1, InitIInv, NextIInv, PTL DEF Spec, StreamOrdered

=============================================================================
