-------------------------- MODULE AgentChannelProofs --------------------------
(***************************************************************************)
(* The dispatcher driven by real clients is a dispatcher: AgentChannel      *)
(* implements Dispatcher, so every theorem of DispatcherProofs holds of it. *)
(* Commands stay with their streams and replies meet their requests.        *)
(***************************************************************************)
EXTENDS AgentChannel, DispatcherProofs

\* Only opened streams carry messages or run a drain loop, and what they carry
\* is well formed: a result names the command of its turn.
ClientOK ==
    /\ runner \in [Sessions -> Agents \cup {None}]
    /\ main \in [Sessions -> {"none", "up", "down"}]
    /\ link \in [Sessions -> {"none", "open", "broken"}]
    /\ up \in [Sessions -> Seq(Messages)]
    /\ down \in [Sessions -> Seq(Commands \cup {None})]
    /\ drain \in [Sessions -> DrainSteps]
    /\ turn \in [Sessions -> Commands \cup {None}]
    /\ localState \in [Agents -> Commands \cup {None}]
    /\ \A s \in Sessions :
         /\ up[s] # <<>> => runner[s] # None
         /\ main[s] # "none" => runner[s] # None
         /\ link[s] # "none" => runner[s] # None
         /\ drain[s] # "none" => runner[s] # None
         /\ drain[s] = "run" => turn[s] # None

\* A BeginSession of the stream is on its way, or being worked on.
Asked(s)     == \E i \in 1..Len(up[s]) : up[s][i].type = "begin"
Answering(s) == pc[s] \in {"created", "bind"}

\* BeginSession and its reply take turns.  Nothing is sent behind a request, a request
\* that is being answered has no reply yet, and whatever is left of the exchange is
\* awaited or belongs to a drain loop that is gone.
InTurn(s) ==
    /\ \A i \in 1..Len(up[s]) : up[s][i].type = "begin" => i = Len(up[s])
    /\ Asked(s) => ~Answering(s)
    /\ Asked(s) \/ Answering(s) => down[s] = <<>>
    /\ Len(down[s]) <= 1
    /\ Asked(s) \/ Answering(s) \/ down[s] # <<>> => drain[s] \in {"begin", "exit"}

BeginInv == \A s \in Sessions : InTurn(s)

\* Nothing has happened on a stream that is not open yet.
Untouched(s) ==
    up[s] = <<>> /\ down[s] = <<>> /\ turn[s] = None /\ main[s] = "none" /\ pc[s] = "new"

UnopenedInv == \A s \in Sessions : link[s] = "none" => Untouched(s)

\* Command c is being created for stream s, in the reply to it, or its turn.
Holds(s, c) ==
    \/ Answering(s) /\ cmd[s] = c
    \/ \E i \in 1..Len(down[s]) : down[s][i] = c
    \/ turn[s] = c

\* The AgentReady of stream s names c.
Declares(s, c) ==
    \/ \E i \in 1..Len(up[s]) : up[s][i] = Ready(c)
    \/ pc[s] \in {"ready", "reap"} /\ cmd[s] = c

\* A command belongs to the stream it was created on.  LocalState names commands of the
\* agent's own streams, so the streams that hold the command of an AgentReady are
\* those whose mainLoop had returned when it was sent.
CommandInv ==
    \A c \in Commands :
        /\ status[c] = "NONE" =>
              /\ \A s \in Sessions : ~Holds(s, c) /\ ~Declares(s, c)
              /\ \A a \in Agents : localState[a] # c
        /\ \A s, t \in Sessions : Holds(s, c) /\ Holds(t, c) => s = t
        /\ \A a \in Agents, t \in Sessions : localState[a] = c /\ Holds(t, c) => runner[t] = a
        /\ \A s, t \in Sessions : Declares(s, c) /\ Holds(t, c) => main[t] = "down"

ChannelInv == ClientOK /\ UnopenedInv /\ BeginInv /\ CommandInv

-----------------------------------------------------------------------------
(* Every step of the composition is a step of the dispatcher *)

\* The first message of a stream makes a registration of Dispatcher's Next.
LEMMA ReadyIsRegister ==
    ASSUME ClientOK, NEW s \in Sessions, ReceiveReady(s) PROVE Next
<1>1. runner[s] \in Agents /\ Head(up[s]) \in Messages
  BY DEF ClientOK, ReceiveReady, Receives
<1>2. Head(up[s]).cmd \in Commands \cup {None}
  BY <1>1 DEF Messages, Ready, Begin, Result
<1>3. RegisterAgent(s, runner[s], Head(up[s]).cmd)
  BY DEF ReceiveReady
<1>4. QED
  BY <1>1, <1>2, <1>3 DEF Next, AgentMessage

\* A result message names a command, so handling it is one of Dispatcher's.
LEMMA ResultIsResult ==
    ASSUME ClientOK, NEW s \in Sessions, NEW st \in {"COMPLETED", "FAILED"},
           ReceiveResult(s, st)
    PROVE  Next
<1>1. Head(up[s]) \in Messages /\ Head(up[s]).type = st
  BY DEF ClientOK, ReceiveResult, Receives
<1>2. Head(up[s]).cmd \in Commands
  BY <1>1 DEF Messages, Ready, Begin, Result
<1>3. ResultClear(s, Head(up[s]).cmd, st)
  BY DEF ReceiveResult
<1>4. QED
  BY <1>2, <1>3 DEF Next, AgentMessage

\* Each step is a step of Dispatcher or leaves the dispatcher unchanged.
LEMMA StepSimulation ==
    ClientOK /\ [ChannelNext]_allVars => [Next]_vars
<1> SUFFICES ASSUME ClientOK, [ChannelNext]_allVars PROVE [Next]_vars
  OBVIOUS
<1>1. CASE UNCHANGED allVars
  BY <1>1 DEF allVars
<1>2. ASSUME NEW s \in Sessions,
             \/ \E a \in Agents : OpenStream(s, a)
             \/ LinkBreaks(s) \/ MainLoopExits(s)
             \/ DrainBegin(s) \/ DrainReply(s) \/ TurnDone(s)
             \/ ClearLocalState(s) \/ DrainExits(s)
      PROVE  UNCHANGED vars
  BY <1>2 DEF OpenStream, LinkBreaks, MainLoopExits, DrainBegin, DrainReply, DrainIdle,
     DrainStart, DrainStartFails, TurnDone, TurnEnds, ClearLocalState, DrainExits
<1>3. ASSUME NEW s \in Sessions, ReceiveStep(s) PROVE [Next]_vars
  <2>1. CASE ReceiveReady(s)
    BY <2>1, ReadyIsRegister
  <2>2. CASE ReceiveBeginIdle(s) \/ ReceiveBeginError(s)
    BY <2>2 DEF ReceiveBeginIdle, ReceiveBeginError
  <2>3. ASSUME NEW c \in Commands, ReceiveBegin(s, c) PROVE Next
    BY <2>3 DEF ReceiveBegin, Next, AgentMessage
  <2>4. ASSUME NEW st \in {"COMPLETED", "FAILED"}, ReceiveResult(s, st) PROVE Next
    BY <2>4, ResultIsResult
  <2>5. QED
    BY <1>3, <2>1, <2>2, <2>3, <2>4 DEF ReceiveStep
<1>4. ASSUME NEW s \in Sessions, BindAndReply(s) \/ OtherHandlerStep(s) \/ ReceiveFails(s)
      PROVE  Next
  BY <1>4 DEF BindAndReply, OtherHandlerStep, ReceiveFails, Next, HandlerStep
<1>5. CASE MachineCrash
  BY <1>5 DEF MachineCrash
<1>6. CASE DispatcherStep
  BY <1>6 DEF DispatcherStep, Next
<1>7. CASE RestartBreaksLinks
  BY <1>7 DEF RestartBreaksLinks, Next
<1>8. QED
  BY <1>1, <1>2, <1>3, <1>4, <1>5, <1>6, <1>7 DEF ChannelNext

-----------------------------------------------------------------------------
(* The clients stay well formed *)

\* Appending a message, or dropping the first one, keeps a channel well formed.
LEMMA ChannelOps ==
    ASSUME NEW S, NEW q \in Seq(S)
    PROVE  /\ \A m \in S : Append(q, m) \in Seq(S)
           /\ q # <<>> => Tail(q) \in Seq(S) /\ Head(q) \in S
           /\ <<>> \in Seq(S)
  OBVIOUS

\* The messages the clients build are messages.
LEMMA MessageTypes ==
    /\ Begin \in Messages
    /\ \A c \in Commands \cup {None} : Ready(c) \in Messages
    /\ \A c \in Commands, st \in {"COMPLETED", "FAILED"} : Result(c, st) \in Messages
<1>1. Begin \in Messages
  BY DEF Messages
<1>2. ASSUME NEW c \in Commands \cup {None} PROVE Ready(c) \in Messages
  BY DEF Messages
<1>3. ASSUME NEW c \in Commands, NEW st \in {"COMPLETED", "FAILED"}
      PROVE  Result(c, st) \in Messages
  BY DEF Messages
<1>4. QED
  BY <1>1, <1>2, <1>3

\* Steps of the runner preserve ClientOK.
LEMMA ClientStepOK ==
    ASSUME ClientOK, NEW s \in Sessions,
           \/ \E a \in Agents : OpenStream(s, a)
           \/ LinkBreaks(s) \/ MainLoopExits(s)
           \/ DrainBegin(s) \/ DrainReply(s) \/ TurnDone(s)
           \/ ClearLocalState(s) \/ DrainExits(s)
    PROVE  ClientOK'
<1> USE DispatcherConstants, MessageTypes DEF ClientOK, DrainSteps, channelVars
<1>1. ASSUME NEW a \in Agents, OpenStream(s, a) PROVE ClientOK'
  <2>1. <<Ready(localState[a])>> \in Seq(Messages)
    OBVIOUS
  <2>2. QED
    BY <1>1, <2>1 DEF OpenStream
<1>2. CASE LinkBreaks(s)
  BY <1>2 DEF LinkBreaks
<1>3. CASE MainLoopExits(s)
  BY <1>3 DEF MainLoopExits
<1>4. CASE DrainBegin(s)
  <2>1. Append(up[s], Begin) \in Seq(Messages)
    BY ChannelOps
  <2>2. QED
    BY <1>4, <2>1 DEF DrainBegin, SendUp
<1>5. CASE DrainReply(s)
  <2>1. down[s] # <<>> /\ Tail(down[s]) \in Seq(Commands \cup {None})
        /\ Head(down[s]) \in Commands \cup {None}
    BY <1>5 DEF DrainReply, DrainIdle, DrainStart, DrainStartFails
  <2>2. CASE DrainIdle(s)
    BY <2>1, <2>2 DEF DrainIdle
  <2>3. CASE DrainStart(s)
    BY <2>1, <2>3 DEF DrainStart
  <2>4. CASE DrainStartFails(s)
    <3>1. Append(up[s], Result(Head(down[s]), "FAILED")) \in Seq(Messages)
      BY <2>1, <2>4, ChannelOps DEF DrainStartFails
    <3>2. QED
      BY <2>1, <2>4, <3>1 DEF DrainStartFails, SendUp
  <2>5. QED
    BY <1>5, <2>2, <2>3, <2>4 DEF DrainReply
<1>6. ASSUME NEW st \in {"COMPLETED", "FAILED"}, TurnEnds(s, st) PROVE ClientOK'
  <2>1. Append(up[s], Result(turn[s], st)) \in Seq(Messages)
    BY <1>6, ChannelOps DEF TurnEnds
  <2>2. QED
    BY <1>6, <2>1 DEF TurnEnds, SendUp
<1>7. CASE ClearLocalState(s)
  BY <1>7 DEF ClearLocalState
<1>8. CASE DrainExits(s)
  BY <1>8 DEF DrainExits
<1>9. QED
  BY <1>1, <1>2, <1>3, <1>4, <1>5, <1>6, <1>7, <1>8 DEF TurnDone

\* Steps of the manager only take messages off a channel or add a reply.
LEMMA ManagerStepOK ==
    ASSUME ClientOK, TypeOK, NEW s \in Sessions,
           ReceiveStep(s) \/ BindAndReply(s) \/ OtherHandlerStep(s) \/ ReceiveFails(s)
    PROVE  ClientOK'
<1> USE DEF ClientOK, clientVars, channelVars
<1>1. CASE ReceiveStep(s)
  <2>1. up[s] # <<>> /\ Tail(up[s]) \in Seq(Messages)
    BY <1>1 DEF ReceiveStep, ReceiveReady, ReceiveBeginIdle, ReceiveBegin,
       ReceiveBeginError, ReceiveResult, Receives
  <2>2. up' = [up EXCEPT ![s] = Tail(@)] /\ UNCHANGED clientVars
    BY <1>1 DEF ReceiveStep, ReceiveReady, ReceiveBeginIdle, ReceiveBegin,
       ReceiveBeginError, ReceiveResult, PopUp
  <2>3. down' = down \/ down' = [down EXCEPT ![s] = Append(@, None)]
    BY <1>1 DEF ReceiveStep, ReceiveReady, ReceiveBeginIdle, ReceiveBegin,
       ReceiveBeginError, ReceiveResult, SendDown
  <2>4. Append(down[s], None) \in Seq(Commands \cup {None})
    OBVIOUS
  <2>5. QED
    BY <2>1, <2>2, <2>3, <2>4
<1>2. CASE BindAndReply(s)
  <2>1. cmd[s] \in Commands \cup {None}
    BY DEF TypeOK
  <2>2. Append(down[s], cmd[s]) \in Seq(Commands \cup {None})
    BY <2>1
  <2>3. QED
    BY <1>2, <2>2 DEF BindAndReply, SendDown
<1>3. CASE OtherHandlerStep(s)
  BY <1>3 DEF OtherHandlerStep
<1>4. CASE ReceiveFails(s)
  <2>1. <<>> \in Seq(Messages)
    OBVIOUS
  <2>2. QED
    BY <1>4, <2>1 DEF ReceiveFails
<1>5. QED
  BY <1>1, <1>2, <1>3, <1>4

\* Every step of the composition keeps the clients well formed.
LEMMA ClientOKStep ==
    ClientOK /\ TypeOK /\ [ChannelNext]_allVars => ClientOK'
<1> SUFFICES ASSUME ClientOK, TypeOK, [ChannelNext]_allVars PROVE ClientOK'
  OBVIOUS
<1>1. CASE UNCHANGED allVars
  BY <1>1 DEF allVars, clientVars, channelVars, ClientOK
<1>2. CASE MachineCrash
  BY <1>2 DEF MachineCrash, ClientOK, channelVars, DrainSteps
<1>3. CASE DispatcherStep
  BY <1>3 DEF DispatcherStep, ClientOK, clientVars, channelVars
<1>4. CASE RestartBreaksLinks
  <2>1. <<>> \in Seq(Messages)
    OBVIOUS
  <2>2. QED
    BY <1>4, <2>1 DEF RestartBreaksLinks, ClientOK
<1>5. QED
  BY <1>1, <1>2, <1>3, <1>4, ClientStepOK, ManagerStepOK DEF ChannelNext

-----------------------------------------------------------------------------
(* Commands stay with their streams *)

\* What a channel holds after a send.
LEMMA AppendElements ==
    ASSUME NEW S, NEW q \in Seq(S), NEW m \in S
    PROVE  /\ Len(q) \in Nat /\ Len(Append(q, m)) = Len(q) + 1
           /\ \A i \in 1..Len(q) : Append(q, m)[i] = q[i]
           /\ Append(q, m)[Len(q) + 1] = m
  OBVIOUS

\* What a channel holds after a receive.
LEMMA TailElements ==
    ASSUME NEW S, NEW q \in Seq(S), q # <<>>
    PROVE  /\ Len(q) \in Nat /\ 1 \in 1..Len(q) /\ Head(q) = q[1]
           /\ Len(Tail(q)) = Len(q) - 1
           /\ \A i \in 1..Len(Tail(q)) : i + 1 \in 1..Len(q) /\ Tail(q)[i] = q[i + 1]
  OBVIOUS

\* A channel is empty when its length is zero.
LEMMA EmptyChannel ==
    ASSUME NEW S, NEW q \in Seq(S)
    PROVE  (q = <<>> <=> Len(q) = 0) /\ (q = <<>> => 1..Len(q) = {})
  OBVIOUS

\* A step that gives no stream a command and declares none keeps the commands where
\* they are; mainLoops do not come back.
LEMMA CommandInvKept ==
    ASSUME CommandInv,
           \A c \in Commands : status'[c] = "NONE" => status[c] = "NONE",
           \A s \in Sessions, c \in Commands : Holds(s, c)' => Holds(s, c) /\ runner'[s] = runner[s],
           \A s \in Sessions, c \in Commands : Declares(s, c)' => Declares(s, c),
           \A a \in Agents, c \in Commands : localState'[a] = c => localState[a] = c,
           \A s \in Sessions : main[s] = "down" => main'[s] = "down"
    PROVE  CommandInv'
<1> SUFFICES ASSUME NEW c \in Commands
             PROVE  /\ status'[c] = "NONE" =>
                          /\ \A s \in Sessions : ~Holds(s, c)' /\ ~Declares(s, c)'
                          /\ \A a \in Agents : localState'[a] # c
                    /\ \A s, t \in Sessions : Holds(s, c)' /\ Holds(t, c)' => s = t
                    /\ \A a \in Agents, t \in Sessions :
                          localState'[a] = c /\ Holds(t, c)' => runner'[t] = a
                    /\ \A s, t \in Sessions : Declares(s, c)' /\ Holds(t, c)' => main'[t] = "down"
  BY DEF CommandInv
<1> QED BY DEF CommandInv

\* The three invariants look at one stream, or at what it holds and declares: a step that
\* leaves all of these alone on the other streams need only be looked at on its own.
LEMMA OtherStreams ==
    ASSUME UnopenedInv, BeginInv, NEW s \in Sessions,
           \A t \in Sessions \ {s} :
              /\ up'[t] = up[t] /\ down'[t] = down[t] /\ turn'[t] = turn[t] /\ main'[t] = main[t]
              /\ link'[t] = link[t] /\ drain'[t] = drain[t] /\ pc'[t] = pc[t] /\ cmd'[t] = cmd[t]
    PROVE  /\ InTurn(s)' => BeginInv'
           /\ (link'[s] = "none" => Untouched(s)') => UnopenedInv'
           /\ \A t \in Sessions \ {s}, c \in Commands :
                 Holds(t, c)' = Holds(t, c) /\ Declares(t, c)' = Declares(t, c)
<1>1. ASSUME NEW t \in Sessions \ {s} PROVE InTurn(t)' = InTurn(t) /\ Untouched(t)' = Untouched(t)
  BY <1>1 DEF InTurn, Asked, Answering, Untouched
<1>2. ASSUME NEW t \in Sessions \ {s}, NEW c \in Commands
      PROVE  Holds(t, c)' = Holds(t, c) /\ Declares(t, c)' = Declares(t, c)
  BY <1>2 DEF Holds, Answering, Declares, Ready
<1> QED BY <1>1, <1>2 DEF BeginInv, UnopenedInv

\* A new stream declares the command of the LocalState file: the streams that hold it
\* are the agent's own, and their mainLoops have returned.
LEMMA OpenStreamKeeps ==
    ASSUME ChannelInv, TypeOK, NEW s \in Sessions, NEW a \in Agents, OpenStream(s, a)
    PROVE  (UnopenedInv /\ BeginInv /\ CommandInv)'
<1>0. ClientOK /\ UnopenedInv /\ BeginInv /\ CommandInv
  BY DEF ChannelInv
<1>1. Untouched(s)
  BY <1>0 DEF OpenStream, UnopenedInv
<1>2. /\ up' = [up EXCEPT ![s] = <<Ready(localState[a])>>] /\ link'[s] = "open"
      /\ main'[s] = "up" /\ UNCHANGED <<down, turn, localState, pc, cmd, status>>
      /\ \A t \in Sessions \ {s} :
            up'[t] = up[t] /\ main'[t] = main[t] /\ link'[t] = link[t] /\ drain'[t] = drain[t]
            /\ runner'[t] = runner[t]
  BY <1>0 DEF OpenStream, ClientOK, vars, handlerVars, dbVars
<1>3. up'[s] = <<Ready(localState[a])>> /\ Len(up'[s]) = 1 /\ up'[s][1] = Ready(localState[a])
  BY <1>0, <1>2 DEF ClientOK
<1>4. InTurn(s)'
  BY <1>1, <1>2, <1>3 DEF InTurn, Untouched, Asked, Answering, Ready
<1>5. \A c \in Commands : ~Holds(s, c) /\ ~Holds(s, c)'
  BY <1>1, <1>2, DispatcherConstants DEF Holds, Untouched, Answering
<1>6. ASSUME NEW c \in Commands, Declares(s, c)' PROVE c = localState[a]
  BY <1>1, <1>2, <1>3, <1>6 DEF Declares, Untouched, Ready
<1>7. /\ BeginInv' /\ UnopenedInv'
      /\ \A t \in Sessions \ {s}, c \in Commands :
            Holds(t, c)' = Holds(t, c) /\ Declares(t, c)' = Declares(t, c)
  BY <1>0, <1>2, <1>4, OtherStreams
<1>8. \A t \in Sessions : runner[t] = a => main[t] = "down"
  BY DEF OpenStream
<1>9. CommandInv'
  <2> SUFFICES ASSUME NEW c \in Commands
               PROVE  /\ status'[c] = "NONE" =>
                            /\ \A t \in Sessions : ~Holds(t, c)' /\ ~Declares(t, c)'
                            /\ \A b \in Agents : localState'[b] # c
                      /\ \A t, u \in Sessions : Holds(t, c)' /\ Holds(u, c)' => t = u
                      /\ \A b \in Agents, t \in Sessions :
                            localState'[b] = c /\ Holds(t, c)' => runner'[t] = b
                      /\ \A t, u \in Sessions : Declares(t, c)' /\ Holds(u, c)' => main'[u] = "down"
    BY DEF CommandInv
  <2>1. status'[c] = "NONE" => /\ \A t \in Sessions : ~Holds(t, c)' /\ ~Declares(t, c)'
                               /\ \A b \in Agents : localState'[b] # c
    BY <1>0, <1>2, <1>5, <1>6, <1>7 DEF CommandInv
  <2>2. \A t, u \in Sessions : Holds(t, c)' /\ Holds(u, c)' => t = u
    BY <1>0, <1>5, <1>7 DEF CommandInv
  <2>3. \A b \in Agents, t \in Sessions : localState'[b] = c /\ Holds(t, c)' => runner'[t] = b
    BY <1>0, <1>2, <1>5, <1>7 DEF CommandInv
  <2>4. ASSUME NEW t \in Sessions, NEW u \in Sessions, Declares(t, c)', Holds(u, c)'
        PROVE  main'[u] = "down"
    <3>1. u # s /\ Holds(u, c) /\ main'[u] = main[u]
      BY <1>2, <1>5, <1>7, <2>4
    <3>2. CASE t = s
      BY <1>0, <1>6, <1>8, <2>4, <3>1, <3>2 DEF CommandInv
    <3>3. CASE t # s
      BY <1>0, <1>7, <2>4, <3>1, <3>3 DEF CommandInv
    <3> QED BY <3>2, <3>3
  <2> QED BY <2>1, <2>2, <2>3, <2>4
<1> QED BY <1>7, <1>9

\* The link breaks, the mainLoop returns or the drain loop ends: nothing is handed over.
LEMMA EndingKeeps ==
    ASSUME ChannelInv, TypeOK, NEW s \in Sessions,
           LinkBreaks(s) \/ MainLoopExits(s) \/ ClearLocalState(s) \/ DrainExits(s)
    PROVE  (UnopenedInv /\ BeginInv /\ CommandInv)'
<1>0. ClientOK /\ UnopenedInv /\ BeginInv /\ CommandInv
  BY DEF ChannelInv
<1>1. /\ UNCHANGED <<up, down, pc, cmd, status, runner>>
      /\ turn'[s] \in {turn[s], None}
      /\ main'[s] = main[s] \/ main'[s] = "down"
      /\ drain'[s] = drain[s] \/ drain'[s] = "exit" \/ (drain[s] = "clear" /\ drain'[s] = "idle")
      /\ \A t \in Sessions \ {s} :
            /\ turn'[t] = turn[t] /\ main'[t] = main[t] /\ link'[t] = link[t] /\ drain'[t] = drain[t]
      /\ \A a \in Agents : localState'[a] \in {localState[a], None}
  BY <1>0 DEF LinkBreaks, MainLoopExits, ClearLocalState, DrainExits, ClientOK, channelVars, vars,
     handlerVars, dbVars
<1>2. link'[s] # "none" \/ (link'[s] = link[s] /\ main'[s] = main[s])
  BY <1>0 DEF LinkBreaks, MainLoopExits, ClearLocalState, DrainExits, ClientOK
<1>3. InTurn(s)'
  BY <1>0, <1>1 DEF BeginInv, InTurn, Asked, Answering
<1>4. link'[s] = "none" => Untouched(s)'
  BY <1>0, <1>1, <1>2 DEF UnopenedInv, Untouched
<1>5. /\ BeginInv' /\ UnopenedInv'
      /\ \A t \in Sessions \ {s}, c \in Commands :
            Holds(t, c)' = Holds(t, c) /\ Declares(t, c)' = Declares(t, c)
  BY <1>0, <1>1, <1>3, <1>4, OtherStreams
<1>6. \A c \in Commands : (Holds(s, c)' => Holds(s, c)) /\ (Declares(s, c)' => Declares(s, c))
  BY <1>1, DispatcherConstants DEF Holds, Declares, Answering, Ready
<1>7. CommandInv'
  BY <1>0, <1>1, <1>5, <1>6, CommandInvKept, DispatcherConstants
<1> QED BY <1>5, <1>7

\* BeginSession is sent by an idle drain loop, for which nothing is under way.
LEMMA DrainBeginKeeps ==
    ASSUME ChannelInv, TypeOK, NEW s \in Sessions, DrainBegin(s)
    PROVE  (UnopenedInv /\ BeginInv /\ CommandInv)'
<1>0. ClientOK /\ UnopenedInv /\ BeginInv /\ CommandInv
  BY DEF ChannelInv
<1>1. /\ up' = [up EXCEPT ![s] = Append(up[s], Begin)] /\ link[s] = "open" /\ drain[s] = "idle"
      /\ drain' = [drain EXCEPT ![s] = "begin"]
      /\ UNCHANGED <<down, turn, main, link, pc, cmd, status, runner, localState>>
  BY DEF DrainBegin, SendUp, vars, handlerVars, dbVars
<1>2. InTurn(s) /\ ~Asked(s) /\ ~Answering(s) /\ down[s] = <<>>
  BY <1>0, <1>1 DEF BeginInv, InTurn
<1>3. up[s] \in Seq(Messages) /\ Begin \in Messages /\ up'[s] = Append(up[s], Begin)
      /\ drain'[s] = "begin"
  BY <1>0, <1>1, MessageTypes DEF ClientOK
<1>4. /\ Len(up'[s]) = Len(up[s]) + 1 /\ Len(up[s]) \in Nat
      /\ \A i \in 1..Len(up[s]) : up'[s][i] = up[s][i]
      /\ up'[s][Len(up'[s])] = Begin
  BY <1>3, AppendElements
<1>5. \A i \in 1..Len(up'[s]) : i \in 1..Len(up[s]) \/ i = Len(up'[s])
  BY <1>4
<1>6. InTurn(s)'
  BY <1>1, <1>2, <1>3, <1>4, <1>5 DEF InTurn, Asked, Answering
<1>7. \A t \in Sessions \ {s} : up'[t] = up[t] /\ drain'[t] = drain[t]
  BY <1>0, <1>1 DEF ClientOK
<1>8. /\ BeginInv' /\ UnopenedInv'
      /\ \A t \in Sessions \ {s}, c \in Commands :
            Holds(t, c)' = Holds(t, c) /\ Declares(t, c)' = Declares(t, c)
  BY <1>0, <1>1, <1>6, <1>7, OtherStreams
<1>9. \A c \in Commands : (Holds(s, c)' => Holds(s, c)) /\ (Declares(s, c)' => Declares(s, c))
  BY <1>1, <1>4, <1>5 DEF Holds, Declares, Answering, Ready, Begin
<1>10. CommandInv'
  BY <1>0, <1>1, <1>8, <1>9, CommandInvKept
<1> QED BY <1>8, <1>10

\* Sending a result adds no request and declares nothing.
LEMMA SendResult ==
    ASSUME ClientOK, NEW s \in Sessions, NEW c \in Commands, NEW st \in {"COMPLETED", "FAILED"},
           SendUp(s, Result(c, st))
    PROVE  /\ \A t \in Sessions \ {s} : up'[t] = up[t]
           /\ link[s] = "none" => up'[s] = up[s]
           /\ Asked(s)' => Asked(s)
           /\ \A d \in Commands : (\E i \in 1..Len(up'[s]) : up'[s][i] = Ready(d)) =>
                                     \E i \in 1..Len(up[s]) : up[s][i] = Ready(d)
<1>1. CASE link[s] = "open"
  <2>1. up[s] \in Seq(Messages) /\ Result(c, st) \in Messages /\ up'[s] = Append(up[s], Result(c, st))
        /\ \A t \in Sessions \ {s} : up'[t] = up[t]
    BY <1>1, MessageTypes DEF ClientOK, SendUp
  <2>2. /\ Len(up'[s]) = Len(up[s]) + 1 /\ Len(up[s]) \in Nat
        /\ \A i \in 1..Len(up[s]) : up'[s][i] = up[s][i]
        /\ up'[s][Len(up'[s])] = Result(c, st)
    BY <2>1, AppendElements
  <2>3. \A i \in 1..Len(up'[s]) : i \in 1..Len(up[s]) \/ i = Len(up'[s])
    BY <2>2
  <2> QED BY <1>1, <2>1, <2>2, <2>3 DEF Asked, Result, Ready
<1>2. CASE link[s] # "open"
  BY <1>2 DEF SendUp, Asked
<1> QED BY <1>1, <1>2

\* The turn ends: its result is sent.
LEMMA TurnEndsKeeps ==
    ASSUME ChannelInv, TypeOK, NEW s \in Sessions, NEW st \in {"COMPLETED", "FAILED"}, TurnEnds(s, st)
    PROVE  (UnopenedInv /\ BeginInv /\ CommandInv)'
<1>0. ClientOK /\ UnopenedInv /\ BeginInv /\ CommandInv
  BY DEF ChannelInv
<1>1. /\ drain[s] = "run" /\ turn[s] \in Commands /\ SendUp(s, Result(turn[s], st))
      /\ UNCHANGED <<down, turn, main, link, pc, cmd, status, runner, localState>>
      /\ \A t \in Sessions \ {s} : drain'[t] = drain[t]
  BY <1>0 DEF TurnEnds, ClientOK, vars, handlerVars, dbVars
<1>2. /\ \A t \in Sessions \ {s} : up'[t] = up[t]
      /\ link[s] = "none" => up'[s] = up[s]
      /\ Asked(s)' => Asked(s)
      /\ \A d \in Commands : (\E i \in 1..Len(up'[s]) : up'[s][i] = Ready(d)) =>
                                \E i \in 1..Len(up[s]) : up[s][i] = Ready(d)
  BY <1>0, <1>1, SendResult
<1>3. InTurn(s)'
  BY <1>0, <1>1, <1>2 DEF BeginInv, InTurn, Asked, Answering
<1>4. link'[s] = "none" => Untouched(s)'
  BY <1>0, <1>1, <1>2 DEF UnopenedInv, Untouched
<1>5. /\ BeginInv' /\ UnopenedInv'
      /\ \A t \in Sessions \ {s}, c \in Commands :
            Holds(t, c)' = Holds(t, c) /\ Declares(t, c)' = Declares(t, c)
  BY <1>0, <1>1, <1>2, <1>3, <1>4, OtherStreams
<1>6. \A c \in Commands : (Holds(s, c)' => Holds(s, c)) /\ (Declares(s, c)' => Declares(s, c))
  BY <1>1, <1>2 DEF Holds, Declares, Answering, Ready
<1>7. CommandInv'
  BY <1>0, <1>1, <1>5, <1>6, CommandInvKept
<1> QED BY <1>5, <1>7

\* The drain loop takes its reply, which was the only one; a command in it becomes the
\* turn of the stream that held it, and LocalState names it.
LEMMA DrainReplyKeeps ==
    ASSUME ChannelInv, TypeOK, NEW s \in Sessions, DrainReply(s)
    PROVE  (UnopenedInv /\ BeginInv /\ CommandInv)'
<1>0. ClientOK /\ UnopenedInv /\ BeginInv /\ CommandInv
  BY DEF ChannelInv
<1> DEFINE r == Head(down[s])
<1>1. /\ drain[s] = "begin" /\ down[s] # <<>> /\ down' = [down EXCEPT ![s] = Tail(down[s])]
      /\ UNCHANGED <<main, link, pc, cmd, status, runner>>
      /\ \A t \in Sessions \ {s} : drain'[t] = drain[t] /\ turn'[t] = turn[t] /\ down'[t] = down[t]
  BY <1>0 DEF DrainReply, DrainIdle, DrainStart, DrainStartFails, ClientOK, vars, handlerVars, dbVars
<1>2. /\ down[s] \in Seq(Commands \cup {None}) /\ down'[s] = Tail(down[s])
      /\ r = down[s][1] /\ 1 \in 1..Len(down[s]) /\ r \in Commands \cup {None}
      /\ down'[s] = <<>> /\ Len(down'[s]) = 0 /\ 1..Len(down'[s]) = {}
  <2>1. down[s] \in Seq(Commands \cup {None}) /\ down'[s] = Tail(down[s])
    BY <1>0, <1>1 DEF ClientOK
  <2>2. /\ Len(down[s]) \in Nat /\ 1 \in 1..Len(down[s]) /\ r = down[s][1]
        /\ Len(Tail(down[s])) = Len(down[s]) - 1
    BY <1>1, <2>1, TailElements
  <2>3. Len(down[s]) <= 1
    BY <1>0 DEF BeginInv, InTurn
  <2>4. Len(Tail(down[s])) = 0
    <3>1. \A n \in Nat : n <= 1 /\ 1 \in 1..n => n - 1 = 0
      OBVIOUS
    <3> QED BY <2>2, <2>3, <3>1, Zenon
  <2>5. Tail(down[s]) \in Seq(Commands \cup {None}) /\ r \in Commands \cup {None}
    BY <1>1, <2>1, ChannelOps
  <2>6. down'[s] = <<>>
    BY <2>1, <2>4, <2>5, EmptyChannel
  <2>7. Len(down'[s]) = 0 /\ 1..Len(down'[s]) = {}
    BY <2>1, <2>5, <2>6, EmptyChannel
  <2> QED BY <2>1, <2>2, <2>5, <2>6, <2>7
<1>3. ~Asked(s) /\ ~Answering(s) /\ Untouched(s) # TRUE
  BY <1>0, <1>1 DEF BeginInv, InTurn, Untouched
<1>4. link[s] # "none"
  BY <1>0, <1>1 DEF UnopenedInv, Untouched
<1>5. ASSUME \A t \in Sessions \ {s} : up'[t] = up[t], Asked(s)' => Asked(s)
      PROVE  /\ BeginInv' /\ UnopenedInv'
             /\ \A t \in Sessions \ {s}, c \in Commands :
                   Holds(t, c)' = Holds(t, c) /\ Declares(t, c)' = Declares(t, c)
  <2>1. ~Asked(s)' /\ ~Answering(s)'
    BY <1>1, <1>3, <1>5 DEF Answering
  <2>2. down'[s] = <<>> /\ Len(down'[s]) <= 1
    BY <1>2
  <2>3. \A i \in 1..Len(up'[s]) : up'[s][i].type # "begin"
    BY <2>1 DEF Asked
  <2>4. InTurn(s)'
    BY <2>1, <2>2, <2>3, Zenon DEF InTurn
  <2> QED BY <1>0, <1>1, <1>4, <1>5, <2>4, OtherStreams
<1>6. CASE DrainIdle(s)
  <2>1. UNCHANGED <<up, turn, localState>>
    BY <1>6 DEF DrainIdle
  <2>2. \A c \in Commands : (Holds(s, c)' => Holds(s, c)) /\ (Declares(s, c)' => Declares(s, c))
    BY <1>1, <1>2, <2>1 DEF Holds, Declares, Answering, Ready
  <2>3. Asked(s)' => Asked(s)
    BY <2>1 DEF Asked
  <2> QED BY <1>0, <1>1, <1>5, <2>1, <2>2, <2>3, CommandInvKept
<1>7. CASE DrainStartFails(s)
  <2>1. UNCHANGED <<turn, localState>> /\ r \in Commands /\ SendUp(s, Result(r, "FAILED"))
    BY <1>2, <1>7 DEF DrainStartFails
  <2>2. /\ \A t \in Sessions \ {s} : up'[t] = up[t]
        /\ Asked(s)' => Asked(s)
        /\ \A d \in Commands : (\E i \in 1..Len(up'[s]) : up'[s][i] = Ready(d)) =>
                                  \E i \in 1..Len(up[s]) : up[s][i] = Ready(d)
    BY <1>0, <2>1, SendResult
  <2>3. \A c \in Commands : (Holds(s, c)' => Holds(s, c)) /\ (Declares(s, c)' => Declares(s, c))
    BY <1>1, <1>2, <2>1, <2>2 DEF Holds, Declares, Answering, Ready
  <2> QED BY <1>0, <1>1, <1>5, <2>1, <2>2, <2>3, CommandInvKept
<1>8. CASE DrainStart(s)
  <2>1. /\ UNCHANGED up /\ r \in Commands /\ turn'[s] = r
        /\ localState' = [localState EXCEPT ![runner[s]] = r]
    BY <1>0, <1>2, <1>8 DEF DrainStart, ClientOK
  <2>2. Asked(s)' => Asked(s)
    BY <2>1 DEF Asked
  <2>3. /\ BeginInv' /\ UnopenedInv'
        /\ \A t \in Sessions \ {s}, c \in Commands :
              Holds(t, c)' = Holds(t, c) /\ Declares(t, c)' = Declares(t, c)
    BY <1>5, <2>1, <2>2
  <2>4. Holds(s, r)
    BY <1>2 DEF Holds
  <2>5. \A c \in Commands : (Holds(s, c)' => c = r) /\ (Declares(s, c)' => Declares(s, c))
    BY <1>1, <1>2, <1>3, <2>1 DEF Holds, Declares, Answering, Ready
  <2>6. \A t \in Sessions, c \in Commands : (Holds(t, c)' => Holds(t, c)) /\ (Declares(t, c)' => Declares(t, c))
    BY <2>3, <2>4, <2>5
  <2>7. \A a \in Agents, c \in Commands :
           localState'[a] = c => localState[a] = c \/ (c = r /\ a = runner[s])
    BY <1>0, <2>1 DEF ClientOK
  <2>8. CommandInv'
    <3> SUFFICES ASSUME NEW c \in Commands
                 PROVE  /\ status'[c] = "NONE" =>
                              /\ \A t \in Sessions : ~Holds(t, c)' /\ ~Declares(t, c)'
                              /\ \A b \in Agents : localState'[b] # c
                        /\ \A t, u \in Sessions : Holds(t, c)' /\ Holds(u, c)' => t = u
                        /\ \A b \in Agents, t \in Sessions :
                              localState'[b] = c /\ Holds(t, c)' => runner'[t] = b
                        /\ \A t, u \in Sessions : Declares(t, c)' /\ Holds(u, c)' => main'[u] = "down"
      BY DEF CommandInv
    <3>1. status[r] # "NONE" /\ \A t \in Sessions : Holds(t, r) => t = s
      BY <1>0, <2>1, <2>4 DEF CommandInv
    <3> QED BY <1>0, <1>1, <2>6, <2>7, <3>1 DEF CommandInv
  <2> QED BY <2>3, <2>8
<1> QED BY <1>6, <1>7, <1>8 DEF DrainReply

\* A crash of the machine takes the turns with it and leaves the channels to the manager.
LEMMA CrashKeeps ==
    ASSUME ChannelInv, TypeOK, MachineCrash
    PROVE  (UnopenedInv /\ BeginInv /\ CommandInv)'
<1>0. ClientOK /\ UnopenedInv /\ BeginInv /\ CommandInv
  BY DEF ChannelInv
<1>1. /\ UNCHANGED <<up, down, pc, cmd, status, runner, localState>>
      /\ \A s \in Sessions :
            /\ turn'[s] = None
            /\ main'[s] = "none" <=> main[s] = "none"
            /\ link'[s] = "none" <=> link[s] = "none"
            /\ main[s] = "down" => main'[s] = "down"
            /\ drain'[s] = IF drain[s] = "none" THEN "none" ELSE "exit"
  BY DEF MachineCrash, channelVars, vars, handlerVars, dbVars
<1>2. UnopenedInv'
  BY <1>0, <1>1 DEF UnopenedInv, Untouched
<1>3. BeginInv'
  BY <1>0, <1>1 DEF BeginInv, InTurn, Asked, Answering
<1>4. \A s \in Sessions, c \in Commands : (Holds(s, c)' => Holds(s, c)) /\ (Declares(s, c)' => Declares(s, c))
  BY <1>1, DispatcherConstants DEF Holds, Declares, Answering, Ready
<1>5. CommandInv'
  BY <1>0, <1>1, <1>4, CommandInvKept
<1> QED BY <1>2, <1>3, <1>5

\* Taking the first message off the channel: nothing is behind a request, and what is
\* left was there before.
LEMMA PopFacts ==
    ASSUME ClientOK, NEW s \in Sessions, InTurn(s), up[s] # <<>>, PopUp(s)
    PROVE  /\ \A t \in Sessions \ {s} : up'[t] = up[t]
           /\ \A i \in 1..Len(up'[s]) : up'[s][i].type = "begin" => i = Len(up'[s])
           /\ Asked(s)' => Asked(s)
           /\ \A d \in Commands : (\E i \in 1..Len(up'[s]) : up'[s][i] = Ready(d)) =>
                                     \E i \in 1..Len(up[s]) : up[s][i] = Ready(d)
           /\ Head(up[s]).type = "begin" => Asked(s) /\ ~Asked(s)'
           /\ Head(up[s]).type = "ready" => \E i \in 1..Len(up[s]) : up[s][i] = Ready(Head(up[s]).cmd)
<1>1. /\ up[s] \in Seq(Messages) /\ up'[s] = Tail(up[s]) /\ \A t \in Sessions \ {s} : up'[t] = up[t]
  BY DEF ClientOK, PopUp
<1>2. /\ Len(up[s]) \in Nat /\ 1 \in 1..Len(up[s]) /\ Head(up[s]) = up[s][1]
      /\ Len(up'[s]) = Len(up[s]) - 1
      /\ \A i \in 1..Len(up'[s]) : i + 1 \in 1..Len(up[s]) /\ up'[s][i] = up[s][i + 1]
  BY <1>1, TailElements
<1>3. \A i \in 1..Len(up[s]) : up[s][i].type = "begin" => i = Len(up[s])
  BY DEF InTurn
<1>4. ASSUME NEW i \in 1..Len(up'[s]), up'[s][i].type = "begin" PROVE i = Len(up'[s])
  <2>1. i + 1 = Len(up[s])
    BY <1>2, <1>3, <1>4
  <2> QED BY <1>2, <2>1
<1>5. Asked(s)' => Asked(s)
  BY <1>2 DEF Asked
<1>6. ASSUME NEW d \in Commands, NEW i \in 1..Len(up'[s]), up'[s][i] = Ready(d)
      PROVE  \E j \in 1..Len(up[s]) : up[s][j] = Ready(d)
  BY <1>2, <1>6
<1>7. ASSUME Head(up[s]).type = "begin" PROVE Asked(s) /\ ~Asked(s)'
  <2>1. Asked(s) /\ Len(up[s]) = 1
    BY <1>2, <1>3, <1>7 DEF Asked
  <2>2. 1..Len(up'[s]) = {}
    BY <1>2, <2>1
  <2> QED BY <2>1, <2>2 DEF Asked
<1>8. ASSUME Head(up[s]).type = "ready"
      PROVE  \E i \in 1..Len(up[s]) : up[s][i] = Ready(Head(up[s]).cmd)
  <2>1. Head(up[s]) \in Messages
    BY <1>1, ChannelOps
  <2>2. Head(up[s]) = Ready(Head(up[s]).cmd)
    BY <1>8, <2>1 DEF Messages, Ready, Begin, Result
  <2> QED BY <1>2, <2>2
<1> QED BY <1>1, <1>4, <1>5, <1>6, <1>7, <1>8

\* A handler step that takes no request and creates no command.
LEMMA QuietHandler ==
    ASSUME ChannelInv, TypeOK, NEW s \in Sessions, link[s] # "none",
           UNCHANGED <<clientVars, down>>,
           \A c \in Commands : status'[c] = "NONE" => status[c] = "NONE",
           \A t \in Sessions \ {s} : up'[t] = up[t] /\ pc'[t] = pc[t] /\ cmd'[t] = cmd[t],
           \A i \in 1..Len(up'[s]) : up'[s][i].type = "begin" => i = Len(up'[s]),
           Asked(s)' => Asked(s),
           Answering(s)' => Answering(s) /\ cmd'[s] = cmd[s],
           \A c \in Commands : Declares(s, c)' => Declares(s, c)
    PROVE  (UnopenedInv /\ BeginInv /\ CommandInv)'
<1>0. ClientOK /\ UnopenedInv /\ BeginInv /\ CommandInv
  BY DEF ChannelInv
<1>1. InTurn(s)'
  BY <1>0 DEF BeginInv, InTurn, clientVars
<1>2. /\ BeginInv' /\ UnopenedInv'
      /\ \A t \in Sessions \ {s}, c \in Commands :
            Holds(t, c)' = Holds(t, c) /\ Declares(t, c)' = Declares(t, c)
  BY <1>0, <1>1, OtherStreams DEF clientVars
<1>3. \A c \in Commands : Holds(s, c)' => Holds(s, c)
  BY DEF Holds, clientVars
<1>4. CommandInv'
  BY <1>0, <1>2, <1>3, CommandInvKept DEF clientVars
<1> QED BY <1>2, <1>4

\* A stream that has sent or registered is open.
LEMMA ActiveIsOpen ==
    ASSUME ChannelInv, NEW s \in Sessions, up[s] # <<>> \/ pc[s] # "new"
    PROVE  link[s] # "none" /\ InTurn(s) /\ ClientOK
  BY DEF ChannelInv, UnopenedInv, Untouched, BeginInv

\* AgentReady is handled: what the message declared, the handler does now.
LEMMA ReceiveReadyKeeps ==
    ASSUME ChannelInv, TypeOK, NEW s \in Sessions, ReceiveReady(s)
    PROVE  (UnopenedInv /\ BeginInv /\ CommandInv)'
<1>1. up[s] # <<>> /\ Head(up[s]).type = "ready" /\ PopUp(s)
  BY DEF ReceiveReady, Receives
<1>2. /\ UNCHANGED <<clientVars, down, status>> /\ pc'[s] = "ready" /\ cmd'[s] = Head(up[s]).cmd
      /\ \A t \in Sessions \ {s} : pc'[t] = pc[t] /\ cmd'[t] = cmd[t]
  BY DEF ReceiveReady, RegisterAgent, TypeOK, dbVars
<1>3. link[s] # "none" /\ InTurn(s) /\ ClientOK
  BY <1>1, ActiveIsOpen
<1>4. /\ \A t \in Sessions \ {s} : up'[t] = up[t]
      /\ \A i \in 1..Len(up'[s]) : up'[s][i].type = "begin" => i = Len(up'[s])
      /\ Asked(s)' => Asked(s)
      /\ \A d \in Commands : (\E i \in 1..Len(up'[s]) : up'[s][i] = Ready(d)) =>
                                \E i \in 1..Len(up[s]) : up[s][i] = Ready(d)
      /\ \E i \in 1..Len(up[s]) : up[s][i] = Ready(Head(up[s]).cmd)
  BY <1>1, <1>3, PopFacts
<1>5. ASSUME NEW c \in Commands, Declares(s, c)' PROVE Declares(s, c)
  <2>1. CASE \E i \in 1..Len(up'[s]) : up'[s][i] = Ready(c)
    BY <1>4, <2>1 DEF Declares
  <2>2. CASE cmd'[s] = c
    BY <1>2, <1>4, <2>2 DEF Declares
  <2> QED BY <1>5, <2>1, <2>2 DEF Declares, Ready
<1> QED BY <1>2, <1>3, <1>4, <1>5, QuietHandler DEF Answering

\* A result is handled.
LEMMA ReceiveResultKeeps ==
    ASSUME ChannelInv, TypeOK, NEW s \in Sessions, NEW st \in {"COMPLETED", "FAILED"},
           ReceiveResult(s, st)
    PROVE  (UnopenedInv /\ BeginInv /\ CommandInv)'
<1>1. up[s] # <<>> /\ PopUp(s)
  BY DEF ReceiveResult, Receives
<1>2. /\ UNCHANGED <<clientVars, down, status>> /\ pc'[s] = st
      /\ \A t \in Sessions \ {s} : pc'[t] = pc[t] /\ cmd'[t] = cmd[t]
  BY DEF ReceiveResult, ResultClear, TypeOK, dbVars
<1>3. link[s] # "none" /\ InTurn(s) /\ ClientOK
  BY <1>1, ActiveIsOpen
<1>4. /\ \A t \in Sessions \ {s} : up'[t] = up[t]
      /\ \A i \in 1..Len(up'[s]) : up'[s][i].type = "begin" => i = Len(up'[s])
      /\ Asked(s)' => Asked(s)
      /\ \A d \in Commands : (\E i \in 1..Len(up'[s]) : up'[s][i] = Ready(d)) =>
                                \E i \in 1..Len(up[s]) : up[s][i] = Ready(d)
  BY <1>1, <1>3, PopFacts
<1>5. \A c \in Commands : Declares(s, c)' => Declares(s, c)
  BY <1>2, <1>4 DEF Declares, Ready
<1> QED BY <1>2, <1>3, <1>4, <1>5, QuietHandler DEF Answering

\* A status is never written back to NONE.
LEMMA StatusWritten ==
    ASSUME TypeOK, NEW c, NEW st, st # "NONE", UpdateCommandStatus(c, st) \/ DbError
    PROVE  \A d \in Commands : status'[d] = "NONE" => status[d] = "NONE"
  BY DEF UpdateCommandStatus, DbError, TypeOK

\* The other steps of a handler: lookups and writes of a status.
LEMMA OtherHandlerKeeps ==
    ASSUME ChannelInv, TypeOK, NEW s \in Sessions, OtherHandlerStep(s)
    PROVE  (UnopenedInv /\ BeginInv /\ CommandInv)'
<1>1. /\ UNCHANGED <<clientVars, down, up>> /\ pc[s] # "new"
      /\ \A t \in Sessions \ {s} : pc'[t] = pc[t] /\ cmd'[t] = cmd[t]
  BY DEF OtherHandlerStep, channelVars, ReadyLookup, ReadyReap, BeginLookup, ResultStore, TypeOK
<1>2. /\ Answering(s)' => Answering(s) /\ cmd'[s] = cmd[s]
      /\ pc'[s] \in {"ready", "reap"} => pc[s] \in {"ready", "reap"} /\ cmd'[s] = cmd[s]
  BY DEF OtherHandlerStep, ReadyLookup, ReadyReap, BeginLookup, ResultStore, TypeOK, Answering
<1>3. \A c \in Commands : status'[c] = "NONE" => status[c] = "NONE"
  <2>1. CASE ReadyLookup(s)
    BY <2>1 DEF ReadyLookup, dbVars
  <2>2. CASE ~ReadyLookup(s)
    <3>1. \E st \in {"FAILED", "RUNNING", "COMPLETED"} : UpdateCommandStatus(cmd[s], st) \/ DbError
      BY <2>2 DEF OtherHandlerStep, ReadyReap, BeginLookup, ResultStore
    <3> QED BY <3>1, StatusWritten
  <2> QED BY <2>1, <2>2
<1>4. link[s] # "none" /\ InTurn(s) /\ ClientOK
  BY <1>1, ActiveIsOpen
<1>5. \A c \in Commands : Declares(s, c)' => Declares(s, c)
  BY <1>1, <1>2 DEF Declares, Ready
<1>6. /\ \A i \in 1..Len(up'[s]) : up'[s][i].type = "begin" => i = Len(up'[s])
      /\ Asked(s)' => Asked(s)
  BY <1>1, <1>4 DEF InTurn, Asked
<1> QED BY <1>1, <1>2, <1>3, <1>4, <1>5, <1>6, QuietHandler

\* The stream ends: the unread messages are gone.
LEMMA ReceiveFailsKeeps ==
    ASSUME ChannelInv, TypeOK, NEW s \in Sessions, ReceiveFails(s)
    PROVE  (UnopenedInv /\ BeginInv /\ CommandInv)'
<1>0. ClientOK
  BY DEF ChannelInv
<1>1. /\ UNCHANGED <<clientVars, down, status, cmd>> /\ pc'[s] = "done" /\ link[s] # "none"
      /\ \A t \in Sessions \ {s} : pc'[t] = pc[t] /\ up'[t] = up[t]
      /\ up'[s] = <<>>
  BY <1>0 DEF ReceiveFails, StreamCloses, TypeOK, ClientOK, dbVars
<1>2. 1..Len(up'[s]) = {}
  BY <1>1
<1> QED BY <1>1, <1>2, QuietHandler DEF Answering, Declares, Asked, Ready

\* BeginSession fails: the request is gone and there will be no reply.
LEMMA ReceiveBeginErrorKeeps ==
    ASSUME ChannelInv, TypeOK, NEW s \in Sessions, ReceiveBeginError(s)
    PROVE  (UnopenedInv /\ BeginInv /\ CommandInv)'
<1>1. up[s] # <<>> /\ PopUp(s) /\ UNCHANGED <<clientVars, down, status, pc, cmd>>
  BY DEF ReceiveBeginError, Receives, vars, handlerVars, dbVars
<1>2. link[s] # "none" /\ InTurn(s) /\ ClientOK
  BY <1>1, ActiveIsOpen
<1>3. /\ \A t \in Sessions \ {s} : up'[t] = up[t]
      /\ \A i \in 1..Len(up'[s]) : up'[s][i].type = "begin" => i = Len(up'[s])
      /\ Asked(s)' => Asked(s)
      /\ \A d \in Commands : (\E i \in 1..Len(up'[s]) : up'[s][i] = Ready(d)) =>
                                \E i \in 1..Len(up[s]) : up[s][i] = Ready(d)
  BY <1>1, <1>2, PopFacts
<1>4. \A c \in Commands : Declares(s, c)' => Declares(s, c)
  BY <1>1, <1>3 DEF Declares, Ready
<1> QED BY <1>1, <1>2, <1>3, <1>4, QuietHandler DEF Answering

\* A request that is answered: the channel to the agent was empty, and the reply, if the
\* link still carries it, is all it holds.
LEMMA ReplySent ==
    ASSUME ClientOK, NEW s \in Sessions, NEW r \in Commands \cup {None}, down[s] = <<>>,
           SendDown(s, r)
    PROVE  /\ \A t \in Sessions \ {s} : down'[t] = down[t]
           /\ Len(down'[s]) <= 1
           /\ \A i \in 1..Len(down'[s]) : down'[s][i] = r
<1>1. CASE link[s] = "open"
  <2>1. down'[s] = Append(down[s], r) /\ \A t \in Sessions \ {s} : down'[t] = down[t]
    BY <1>1 DEF SendDown, ClientOK
  <2>2. down[s] \in Seq(Commands \cup {None}) /\ Len(down[s]) = 0
    BY DEF ClientOK
  <2>3. Len(down'[s]) = 1 /\ down'[s][1] = r
    BY <2>1, <2>2, AppendElements
  <2>4. \A i \in 1..1 : i = 1
    OBVIOUS
  <2> QED BY <2>1, <2>3, <2>4
<1>2. CASE link[s] # "open"
  <2>1. down' = down /\ Len(down[s]) = 0 /\ 1..Len(down[s]) = {}
    BY <1>2 DEF SendDown
  <2> QED BY <2>1
<1> QED BY <1>1, <1>2

\* BeginSession finds no work: the request is gone and the reply names no command.
LEMMA ReceiveBeginIdleKeeps ==
    ASSUME ChannelInv, TypeOK, NEW s \in Sessions, ReceiveBeginIdle(s)
    PROVE  (UnopenedInv /\ BeginInv /\ CommandInv)'
<1>0. ClientOK /\ UnopenedInv /\ BeginInv /\ CommandInv
  BY DEF ChannelInv
<1>1. /\ up[s] # <<>> /\ Head(up[s]).type = "begin" /\ PopUp(s) /\ SendDown(s, None)
      /\ pc[s] = "recv" /\ UNCHANGED <<clientVars, status, pc, cmd>>
  BY DEF ReceiveBeginIdle, Receives, vars, handlerVars, dbVars
<1>2. link[s] # "none" /\ InTurn(s)
  BY <1>1, ActiveIsOpen
<1>3. /\ \A t \in Sessions \ {s} : up'[t] = up[t]
      /\ \A i \in 1..Len(up'[s]) : up'[s][i].type = "begin" => i = Len(up'[s])
      /\ Asked(s) /\ ~Asked(s)'
      /\ \A d \in Commands : (\E i \in 1..Len(up'[s]) : up'[s][i] = Ready(d)) =>
                                \E i \in 1..Len(up[s]) : up[s][i] = Ready(d)
  BY <1>0, <1>1, <1>2, PopFacts
<1>4. down[s] = <<>> /\ drain[s] \in {"begin", "exit"}
  BY <1>2, <1>3 DEF InTurn
<1>5. /\ \A t \in Sessions \ {s} : down'[t] = down[t]
      /\ Len(down'[s]) <= 1
      /\ \A i \in 1..Len(down'[s]) : down'[s][i] = None
  BY <1>0, <1>1, <1>4, ReplySent
<1>6. ~Answering(s)' /\ drain'[s] \in {"begin", "exit"} /\ link'[s] # "none"
  BY <1>1, <1>2, <1>4 DEF Answering, clientVars
<1>7. InTurn(s)'
  BY <1>3, <1>5, <1>6 DEF InTurn
<1>8. /\ BeginInv' /\ UnopenedInv'
      /\ \A t \in Sessions \ {s}, c \in Commands :
            Holds(t, c)' = Holds(t, c) /\ Declares(t, c)' = Declares(t, c)
  BY <1>0, <1>1, <1>3, <1>5, <1>6, <1>7, OtherStreams DEF clientVars
<1>9. \A c \in Commands : (Holds(s, c)' => Holds(s, c)) /\ (Declares(s, c)' => Declares(s, c))
  BY <1>1, <1>3, <1>5, <1>6, DispatcherConstants DEF Holds, Declares, clientVars, Ready
<1>10. CommandInv'
  BY <1>0, <1>1, <1>8, <1>9, CommandInvKept DEF clientVars
<1> QED BY <1>8, <1>10

\* BeginSession creates a command: nothing knew it before, and only this stream has it.
LEMMA ReceiveBeginKeeps ==
    ASSUME ChannelInv, TypeOK, NEW s \in Sessions, NEW c \in Commands, ReceiveBegin(s, c)
    PROVE  (UnopenedInv /\ BeginInv /\ CommandInv)'
<1>0. ClientOK /\ UnopenedInv /\ BeginInv /\ CommandInv
  BY DEF ChannelInv
<1>1. /\ up[s] # <<>> /\ Head(up[s]).type = "begin" /\ PopUp(s)
      /\ UNCHANGED <<clientVars, down>> /\ pc'[s] = "created" /\ cmd'[s] = c
      /\ \A t \in Sessions \ {s} : pc'[t] = pc[t] /\ cmd'[t] = cmd[t]
      /\ status[c] = "NONE"
      /\ \A d \in Commands : status'[d] = "NONE" => status[d] = "NONE" /\ d # c
      /\ pc[s] = "recv"
  BY DEF ReceiveBegin, Receives, BeginCreate, UpdateCommandStatus, TypeOK
<1>2. link[s] # "none" /\ InTurn(s)
  BY <1>1, ActiveIsOpen
<1>3. /\ \A t \in Sessions \ {s} : up'[t] = up[t]
      /\ \A i \in 1..Len(up'[s]) : up'[s][i].type = "begin" => i = Len(up'[s])
      /\ Asked(s) /\ ~Asked(s)'
      /\ \A d \in Commands : (\E i \in 1..Len(up'[s]) : up'[s][i] = Ready(d)) =>
                                \E i \in 1..Len(up[s]) : up[s][i] = Ready(d)
  BY <1>0, <1>1, <1>2, PopFacts
<1>4. down[s] = <<>> /\ drain[s] \in {"begin", "exit"} /\ Len(down[s]) <= 1
  BY <1>2, <1>3 DEF InTurn
<1>5. InTurn(s)'
  BY <1>1, <1>3, <1>4 DEF InTurn, clientVars
<1>6. /\ BeginInv' /\ UnopenedInv'
      /\ \A t \in Sessions \ {s}, d \in Commands :
            Holds(t, d)' = Holds(t, d) /\ Declares(t, d)' = Declares(t, d)
  BY <1>0, <1>1, <1>2, <1>3, <1>5, OtherStreams DEF clientVars
<1>7. \A d \in Commands : (Holds(s, d)' => Holds(s, d) \/ d = c) /\ (Declares(s, d)' => Declares(s, d))
  BY <1>1, <1>3 DEF Holds, Declares, clientVars, Ready
<1>8. /\ \A t \in Sessions : ~Holds(t, c) /\ ~Declares(t, c)
      /\ \A a \in Agents : localState[a] # c
  BY <1>0, <1>1 DEF CommandInv
<1>9. CommandInv'
  <2> SUFFICES ASSUME NEW d \in Commands
               PROVE  /\ status'[d] = "NONE" =>
                            /\ \A t \in Sessions : ~Holds(t, d)' /\ ~Declares(t, d)'
                            /\ \A a \in Agents : localState'[a] # d
                      /\ \A t, u \in Sessions : Holds(t, d)' /\ Holds(u, d)' => t = u
                      /\ \A a \in Agents, t \in Sessions :
                            localState'[a] = d /\ Holds(t, d)' => runner'[t] = a
                      /\ \A t, u \in Sessions : Declares(t, d)' /\ Holds(u, d)' => main'[u] = "down"
    BY DEF CommandInv
  <2>1. UNCHANGED <<localState, runner, main>>
    BY <1>1 DEF clientVars
  <2>2. \A t \in Sessions : Declares(t, d)' => Declares(t, d)
    BY <1>6, <1>7
  <2>3. CASE d = c
    <3>1. \A t \in Sessions : Holds(t, d)' => t = s
      BY <1>6, <1>8, <2>3
    <3> QED BY <1>1, <1>8, <2>1, <2>2, <2>3, <3>1
  <2>4. CASE d # c
    <3>1. \A t \in Sessions : Holds(t, d)' => Holds(t, d)
      BY <1>6, <1>7, <2>4
    <3> QED BY <1>0, <1>1, <2>1, <2>2, <3>1 DEF CommandInv
  <2> QED BY <2>3, <2>4
<1> QED BY <1>6, <1>9

\* The reply to BeginSession is sent: the command goes from the handler to the channel.
LEMMA BindAndReplyKeeps ==
    ASSUME ChannelInv, TypeOK, NEW s \in Sessions, BindAndReply(s)
    PROVE  (UnopenedInv /\ BeginInv /\ CommandInv)'
<1>0. ClientOK /\ UnopenedInv /\ BeginInv /\ CommandInv
  BY DEF ChannelInv
<1>1. /\ SendDown(s, cmd[s]) /\ pc[s] = "bind" /\ pc'[s] = "recv"
      /\ UNCHANGED <<clientVars, up, status>>
      /\ \A t \in Sessions \ {s} : pc'[t] = pc[t] /\ cmd'[t] = cmd[t]
      /\ cmd[s] \in Commands \cup {None}
  BY DEF BindAndReply, BeginBind, TypeOK, dbVars
<1>2. link[s] # "none" /\ InTurn(s) /\ Answering(s)
  BY <1>1, ActiveIsOpen DEF Answering
<1>3. down[s] = <<>> /\ drain[s] \in {"begin", "exit"} /\ ~Asked(s)
  BY <1>2 DEF InTurn
<1>4. /\ \A t \in Sessions \ {s} : down'[t] = down[t]
      /\ Len(down'[s]) <= 1
      /\ \A i \in 1..Len(down'[s]) : down'[s][i] = cmd[s]
  BY <1>0, <1>1, <1>3, ReplySent
<1>5. ~Answering(s)' /\ drain'[s] \in {"begin", "exit"} /\ link'[s] # "none" /\ ~Asked(s)'
  BY <1>1, <1>2, <1>3 DEF Answering, clientVars, Asked
<1>6. InTurn(s)'
  BY <1>1, <1>2, <1>4, <1>5 DEF InTurn
<1>7. /\ BeginInv' /\ UnopenedInv'
      /\ \A t \in Sessions \ {s}, c \in Commands :
            Holds(t, c)' = Holds(t, c) /\ Declares(t, c)' = Declares(t, c)
  BY <1>0, <1>1, <1>4, <1>5, <1>6, OtherStreams DEF clientVars
<1>8. \A c \in Commands : (Holds(s, c)' => Holds(s, c)) /\ (Declares(s, c)' => Declares(s, c))
  BY <1>1, <1>2, <1>4, <1>5 DEF Holds, Declares, clientVars, Ready
<1>9. CommandInv'
  BY <1>0, <1>1, <1>7, <1>8, CommandInvKept DEF clientVars
<1> QED BY <1>7, <1>9

\* The dispatcher's own goroutines touch no stream and bring no command back to NONE.
LEMMA DispatcherStepKeeps ==
    ASSUME ChannelInv, TypeOK, DispatcherStep
    PROVE  (UnopenedInv /\ BeginInv /\ CommandInv)'
<1>0. ClientOK /\ UnopenedInv /\ BeginInv /\ CommandInv
  BY DEF ChannelInv
<1>1. UNCHANGED <<clientVars, up, down, pc, cmd>>
  BY DEF DispatcherStep, channelVars, ReapIdleSession, teardownAgentSession, RegisterMachine,
     MachineStreamCloses, UnregisterMachine, GraceStep, GraceFires, GraceCancelled, GraceCheck,
     GraceFail, CancelCheck, CancelStore, handlerVars
<1>2. \A c \in Commands : status'[c] = "NONE" => status[c] = "NONE"
  <2>1. CASE \E c \in Commands : GraceFail(c) \/ CancelStore(c)
    <3>1. \E c \in Commands, st \in {"FAILED", "CANCELLED"} : UpdateCommandStatus(c, st) \/ DbError
      BY <2>1 DEF GraceFail, CancelStore
    <3> QED BY <3>1, StatusWritten
  <2>2. CASE ~\E c \in Commands : GraceFail(c) \/ CancelStore(c)
    BY <2>2 DEF DispatcherStep, ReapIdleSession, teardownAgentSession, RegisterMachine,
       MachineStreamCloses, UnregisterMachine, GraceStep, GraceFires, GraceCancelled, GraceCheck,
       CancelCheck, dbVars
  <2> QED BY <2>1, <2>2
<1>3. \A s \in Sessions, c \in Commands : Holds(s, c)' = Holds(s, c) /\ Declares(s, c)' = Declares(s, c)
  BY <1>1 DEF Holds, Declares, Answering, Ready, clientVars
<1>4. UnopenedInv' /\ BeginInv'
  BY <1>0, <1>1 DEF UnopenedInv, Untouched, BeginInv, InTurn, Asked, Answering, clientVars
<1>5. CommandInv'
  BY <1>0, <1>1, <1>2, <1>3, CommandInvKept DEF clientVars
<1> QED BY <1>4, <1>5

\* A restart of the manager empties the channels to it and forgets its handlers.
LEMMA RestartKeeps ==
    ASSUME ChannelInv, TypeOK, RestartBreaksLinks
    PROVE  (UnopenedInv /\ BeginInv /\ CommandInv)'
<1>0. ClientOK /\ UnopenedInv /\ BeginInv /\ CommandInv
  BY DEF ChannelInv
<1>1. /\ UNCHANGED <<down, runner, main, drain, turn, localState, status>>
      /\ \A s \in Sessions :
            /\ up'[s] = <<>> /\ cmd'[s] = None
            /\ pc'[s] = IF pc[s] = "new" THEN "new" ELSE "done"
            /\ link'[s] = "none" => link[s] = "none"
  BY DEF RestartBreaksLinks, ManagerRestart, dbVars
<1>2. \A s \in Sessions : 1..Len(up'[s]) = {}
  BY <1>1
<1>3. \A s \in Sessions : ~Asked(s)' /\ ~Answering(s)'
  BY <1>1, <1>2 DEF Asked, Answering
<1>4. UnopenedInv'
  BY <1>0, <1>1 DEF UnopenedInv, Untouched
<1>5. BeginInv'
  BY <1>0, <1>1, <1>2, <1>3 DEF BeginInv, InTurn
<1>6. \A s \in Sessions, c \in Commands : (Holds(s, c)' => Holds(s, c)) /\ ~Declares(s, c)'
  BY <1>1, <1>2, <1>3 DEF Holds, Declares, Ready
<1>7. CommandInv'
  BY <1>0, <1>1, <1>6, CommandInvKept
<1> QED BY <1>4, <1>5, <1>7

\* The dispatcher's inductive invariant and the clients' well-formedness hold
\* together in every behaviour of the composition.
THEOREM ChannelInvariance == ChannelSpec => [](IInv /\ ClientOK)
<1>1. ChannelInit => IInv /\ ClientOK
  <2>1. ChannelInit => ClientOK
    BY DEF ChannelInit, ClientOK, DrainSteps
  <2>2. QED
    BY <2>1, InitIInv DEF ChannelInit
<1>2. IInv /\ ClientOK /\ [ChannelNext]_allVars => (IInv /\ ClientOK)'
  <2>1. IInv => TypeOK
    BY DEF IInv
  <2>2. QED
    BY <2>1, StepSimulation, NextIInv, ClientOKStep
<1>3. QED
  BY <1>1, <1>2, PTL DEF ChannelSpec

\* Refinement: the dispatcher with its real clients is a dispatcher as Dispatcher
\* specifies it, message for message.
THEOREM ChannelImplementsDispatcher == ChannelSpec => Spec
<1>1. ChannelInit => Init
  BY DEF ChannelInit
<1>2. ClientOK /\ [ChannelNext]_allVars => [Next]_vars
  BY StepSimulation
<1>3. QED
  BY <1>1, <1>2, ChannelInvariance, PTL DEF ChannelSpec, Spec

-----------------------------------------------------------------------------
(* The channel's own safety *)

\* Every step of the composition keeps the exchange in turn and the commands with their
\* streams.
LEMMA ChannelInvStep ==
    ChannelInv /\ TypeOK /\ [ChannelNext]_allVars => ChannelInv'
<1> SUFFICES ASSUME ChannelInv, TypeOK, [ChannelNext]_allVars PROVE ChannelInv'
  OBVIOUS
<1>1. ClientOK'
  BY ClientOKStep DEF ChannelInv
<1>2. (UnopenedInv /\ BeginInv /\ CommandInv)'
  <2>1. CASE UNCHANGED allVars
    BY <2>1 DEF ChannelInv, UnopenedInv, Untouched, BeginInv, InTurn, Asked, Answering,
       CommandInv, Holds, Declares, Ready, allVars, vars, clientVars, channelVars, handlerVars, dbVars
  <2>2. ASSUME NEW s \in Sessions,
               \/ \E a \in Agents : OpenStream(s, a)
               \/ LinkBreaks(s) \/ MainLoopExits(s)
               \/ DrainBegin(s) \/ DrainReply(s) \/ TurnDone(s)
               \/ ClearLocalState(s) \/ DrainExits(s)
        PROVE  (UnopenedInv /\ BeginInv /\ CommandInv)'
    BY <2>2, OpenStreamKeeps, EndingKeeps, DrainBeginKeeps, DrainReplyKeeps, TurnEndsKeeps
       DEF TurnDone
  <2>3. ASSUME NEW s \in Sessions,
               ReceiveStep(s) \/ BindAndReply(s) \/ OtherHandlerStep(s) \/ ReceiveFails(s)
        PROVE  (UnopenedInv /\ BeginInv /\ CommandInv)'
    BY <2>3, ReceiveReadyKeeps, ReceiveBeginIdleKeeps, ReceiveBeginKeeps, ReceiveBeginErrorKeeps,
       ReceiveResultKeeps, BindAndReplyKeeps, OtherHandlerKeeps, ReceiveFailsKeeps DEF ReceiveStep
  <2> QED
    BY <2>1, <2>2, <2>3, CrashKeeps, DispatcherStepKeeps, RestartKeeps DEF ChannelNext
<1> QED BY <1>1, <1>2 DEF ChannelInv

\* The inductive invariant of the channel: commands stay with the stream they were created
\* on, and BeginSession and its reply take turns.
THEOREM ChannelInvariant == ChannelSpec => [](IInv /\ ChannelInv)
<1>1. ChannelInit => IInv /\ ChannelInv
  <2> SUFFICES ASSUME ChannelInit PROVE IInv /\ ChannelInv
    OBVIOUS
  <2>1. ClientOK /\ IInv
    BY InitIInv DEF ChannelInit, ClientOK, DrainSteps
  <2>2. \A s \in Sessions : /\ Untouched(s) /\ Len(down[s]) = 0
                           /\ 1..Len(up[s]) = {} /\ 1..Len(down[s]) = {}
    BY DEF ChannelInit, Init, Untouched
  <2>3. UnopenedInv
    BY <2>2 DEF UnopenedInv
  <2>4. BeginInv
    BY <2>2 DEF BeginInv, InTurn, Asked, Answering, Untouched
  <2>5. \A s \in Sessions, c \in Commands : ~Holds(s, c) /\ ~Declares(s, c)
    BY <2>2, DispatcherConstants DEF Holds, Declares, Answering, Untouched
  <2>6. \A a \in Agents, c \in Commands : localState[a] # c
    BY DispatcherConstants DEF ChannelInit
  <2>7. CommandInv
    BY <2>5, <2>6 DEF CommandInv
  <2> QED BY <2>1, <2>3, <2>4, <2>7 DEF ChannelInv
<1>2. IInv /\ ChannelInv /\ [ChannelNext]_allVars => (IInv /\ ChannelInv)'
  <2>1. IInv => TypeOK
    BY DEF IInv
  <2>2. ChannelInv => ClientOK
    BY DEF ChannelInv
  <2>3. QED
    BY <2>1, <2>2, StepSimulation, NextIInv, ChannelInvStep
<1>3. QED
  BY <1>1, <1>2, PTL DEF ChannelSpec

\* The channel is well typed: what travels on it are messages and replies.
THEOREM ChannelTypeCorrect == ChannelSpec => []ChannelTypeOK
<1>1. IInv /\ ChannelInv => ChannelTypeOK
  BY DEF IInv, ChannelInv, ClientOK, ChannelTypeOK
<1>2. QED
  BY <1>1, ChannelInvariant, PTL

\* A BeginSession reply is always the one the drain loop waits for, whatever restarts,
\* crashes and broken links come between the request and the reply.
THEOREM RepliesInTurn == ChannelSpec => []ReplyAwaited
<1>1. ChannelInv => ReplyAwaited
  BY DEF ChannelInv, BeginInv, InTurn, ReplyAwaited
<1>2. QED
  BY <1>1, ChannelInvariant, PTL

\* handleAgentReady fails a command as left over only when every drain loop that could
\* still execute it has lost its mainLoop.
THEOREM ReapIsSafe == ChannelSpec => []ReapsOnlyAbandoned
<1>1. IInv /\ ChannelInv => ReapsOnlyAbandoned
  <2> SUFFICES ASSUME IInv, ChannelInv, NEW s \in Sessions, NEW t \in Sessions,
                      pc[s] = "reap", turn[t] = cmd[s]
               PROVE  main[t] = "down"
    BY DEF ReapsOnlyAbandoned
  <2>1. cmd[s] \in Commands
    BY DEF IInv, WritingOK, TypeOK
  <2>2. Declares(s, cmd[s]) /\ Holds(t, cmd[s])
    BY DEF Declares, Holds
  <2> QED BY <2>1, <2>2 DEF ChannelInv, CommandInv
<1>2. QED
  BY <1>1, ChannelInvariant, PTL

\* A command is executed by one drain loop only: neither a reconnect nor a crash of the
\* machine makes a second stream run it.
THEOREM OneTurnPerCommand == ChannelSpec => []NoSharedTurn
<1>1. ChannelInv => NoSharedTurn
  <2> SUFFICES ASSUME ChannelInv, NEW s \in Sessions, NEW t \in Sessions,
                      turn[s] # None, turn[s] = turn[t]
               PROVE  s = t
    BY DEF NoSharedTurn
  <2>1. turn[s] \in Commands
    BY DEF ChannelInv, ClientOK
  <2>2. Holds(s, turn[s]) /\ Holds(t, turn[s])
    BY DEF Holds
  <2> QED BY <2>1, <2>2 DEF ChannelInv, CommandInv
<1>2. QED
  BY <1>1, ChannelInvariant, PTL

=============================================================================
