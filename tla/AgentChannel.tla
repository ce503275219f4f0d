---------------------------- MODULE AgentChannel ----------------------------
(***************************************************************************)
(* The AgentChannel bidi stream between the manager's dispatcher (module    *)
(* Dispatcher) and the agent runner on a machine: commandStream.mainLoop,   *)
(* the drain loop with its BeginSession / run / result cycle, and the       *)
(* LocalState file that an agent reports in AgentReady when it reconnects.  *)
(*                                                                         *)
(* Per stream, both directions are FIFO.  A link may break at any time;     *)
(* each side notices on its own, and the manager may still read what was    *)
(* buffered before the break.  The machine process may crash, the manager   *)
(* may restart.                                                             *)
(***************************************************************************)
EXTENDS Dispatcher, Sequences

VARIABLES
    runner,      \* the agent whose runner opened the stream
    main,        \* mainLoop of the stream: "none", "up" or "down"
    link,        \* the connection: "none", "open" or "broken"
    up,          \* messages from the agent to the manager
    down,        \* BeginSession replies to the agent: a command, or None for idle
    drain,       \* the drain loop goroutine of the stream
    turn,        \* the command the drain loop executes
    localState   \* the LocalState file: the command recorded as running

clientVars  == <<runner, main, link, drain, turn, localState>>
channelVars == <<up, down>>
allVars     == <<vars, clientVars, channelVars>>

Ready(c)       == [type |-> "ready", cmd |-> c]
Begin          == [type |-> "begin", cmd |-> None]
Result(c, st)  == [type |-> st, cmd |-> c]
Messages == {Ready(c) : c \in Commands \cup {None}} \cup {Begin}
              \cup {Result(c, st) : c \in Commands, st \in {"COMPLETED", "FAILED"}}

\* idle: waiting for a wake; begin: waiting for the reply to BeginSession;
\* run: a turn is executing; clear: result sent, LocalState not yet removed.
DrainSteps == {"none", "idle", "begin", "run", "clear", "exit"}

ChannelTypeOK ==
    /\ TypeOK
    /\ runner \in [Sessions -> Agents \cup {None}]
    /\ main \in [Sessions -> {"none", "up", "down"}]
    /\ link \in [Sessions -> {"none", "open", "broken"}]
    /\ \A s \in Sessions : /\ \A i \in 1..Len(up[s]) : up[s][i] \in Messages
                           /\ \A i \in 1..Len(down[s]) : down[s][i] \in Commands \cup {None}
    /\ drain \in [Sessions -> DrainSteps]
    /\ turn \in [Sessions -> Commands \cup {None}]
    /\ localState \in [Agents -> Commands \cup {None}]

ChannelInit ==
    /\ Init
    /\ runner = [s \in Sessions |-> None]
    /\ main = [s \in Sessions |-> "none"]
    /\ link = [s \in Sessions |-> "none"]
    /\ up = [s \in Sessions |-> <<>>]
    /\ down = [s \in Sessions |-> <<>>]
    /\ drain = [s \in Sessions |-> "none"]
    /\ turn = [s \in Sessions |-> None]
    /\ localState = [a \in Agents |-> None]

\* A send reaches the channel only while the link is up; otherwise it fails.
SendUp(s, m) == up' = IF link[s] = "open" THEN [up EXCEPT ![s] = Append(@, m)] ELSE up
SendDown(s, r) == down' = IF link[s] = "open" THEN [down EXCEPT ![s] = Append(@, r)] ELSE down

-----------------------------------------------------------------------------
(* The runner's side of the stream *)

\* Mutant: a runner is started without waiting for the previous mainLoop.
OpenStreamNow(s, a) ==
    /\ link[s] = "none"
    /\ runner' = [runner EXCEPT ![s] = a]
    /\ main' = [main EXCEPT ![s] = "up"]
    /\ link' = [link EXCEPT ![s] = "open"]
    /\ up' = [up EXCEPT ![s] = <<Ready(localState[a])>>]
    /\ drain' = [drain EXCEPT ![s] = "idle"]
    /\ UNCHANGED <<vars, down, turn, localState>>

\* agentRunner.start / mainLoop: a runner exists once per agent, and
\* agentRunner.stop waits for the mainLoop (r.done) of the previous one, not for
\* its drain goroutine.  The first message is AgentReady with the LocalState.
OpenStream(s, a) ==
    /\ link[s] = "none"
    /\ \A t \in Sessions : runner[t] = a => main[t] = "down"
    /\ runner' = [runner EXCEPT ![s] = a]
    /\ main' = [main EXCEPT ![s] = "up"]
    /\ link' = [link EXCEPT ![s] = "open"]
    /\ up' = [up EXCEPT ![s] = <<Ready(localState[a])>>]
    /\ drain' = [drain EXCEPT ![s] = "idle"]
    /\ UNCHANGED <<vars, down, turn, localState>>

\* The connection is lost; nobody has noticed yet.
LinkBreaks(s) ==
    /\ link[s] = "open"
    /\ link' = [link EXCEPT ![s] = "broken"]
    /\ UNCHANGED <<vars, channelVars, runner, main, drain, turn, localState>>

\* mainLoop returns: it saw an error, or agentRunner.stop cancelled it.  Its
\* defers close doneCh and cancel the drain loop's context.
MainLoopExits(s) ==
    /\ main[s] = "up"
    /\ main' = [main EXCEPT ![s] = "down"]
    /\ link' = [link EXCEPT ![s] = "broken"]
    /\ UNCHANGED <<vars, channelVars, runner, drain, turn, localState>>

\* Mutant: BeginSession is retried while the first one is unanswered.
DrainBeginRetry(s) ==
    /\ drain[s] \in {"idle", "begin"} /\ main[s] = "up" /\ link[s] = "open"
    /\ Len(up[s]) < 2
    /\ SendUp(s, Begin)
    /\ drain' = [drain EXCEPT ![s] = "begin"]
    /\ UNCHANGED <<vars, down, runner, main, link, turn, localState>>

\* drainLoop, woken: beginSession sends BeginSession and waits for the reply.  A
\* wake is best effort and never lost for good, so it may come at any time.
DrainBegin(s) ==
    /\ drain[s] = "idle" /\ main[s] = "up" /\ link[s] = "open"
    /\ SendUp(s, Begin)
    /\ drain' = [drain EXCEPT ![s] = "begin"]
    /\ UNCHANGED <<vars, down, runner, main, link, turn, localState>>

\* The reply says idle: back to waiting for a wake.
DrainIdle(s) ==
    /\ drain[s] = "begin" /\ down[s] # <<>> /\ Head(down[s]) = None
    /\ down' = [down EXCEPT ![s] = Tail(@)]
    /\ drain' = [drain EXCEPT ![s] = "idle"]
    /\ UNCHANGED <<vars, up, runner, main, link, turn, localState>>

\* The reply carries a command: runSession builds the runtime, runCommand saves
\* LocalState and starts it.
DrainStart(s) ==
    /\ drain[s] = "begin" /\ down[s] # <<>> /\ Head(down[s]) # None
    /\ down' = [down EXCEPT ![s] = Tail(@)]
    /\ turn' = [turn EXCEPT ![s] = Head(down[s])]
    /\ localState' = [localState EXCEPT ![runner[s]] = Head(down[s])]
    /\ drain' = [drain EXCEPT ![s] = "run"]
    /\ UNCHANGED <<vars, up, runner, main, link>>

\* ... or the runtime cannot be built: a failed result, no LocalState.
DrainStartFails(s) ==
    /\ drain[s] = "begin" /\ down[s] # <<>> /\ Head(down[s]) # None
    /\ down' = [down EXCEPT ![s] = Tail(@)]
    /\ SendUp(s, Result(Head(down[s]), "FAILED"))
    /\ drain' = [drain EXCEPT ![s] = "idle"]
    /\ UNCHANGED <<vars, runner, main, link, turn, localState>>

\* Mutant: the turn ends and its result is not sent.
TurnEndsSilently(s, st) ==
    /\ drain[s] = "run"
    /\ drain' = [drain EXCEPT ![s] = "clear"]
    /\ UNCHANGED <<vars, channelVars, runner, main, link, turn, localState>>

\* The turn ends, by itself or because a Cancel message stopped it: send the
\* result.  A failed send is only logged.
TurnEnds(s, st) ==
    /\ drain[s] = "run"
    /\ SendUp(s, Result(turn[s], st))
    /\ drain' = [drain EXCEPT ![s] = "clear"]
    /\ UNCHANGED <<vars, down, runner, main, link, turn, localState>>

\* ClearLocalState removes the file, whatever it holds by now.
ClearLocalState(s) ==
    /\ drain[s] = "clear"
    /\ localState' = [localState EXCEPT ![runner[s]] = None]
    /\ turn' = [turn EXCEPT ![s] = None]
    /\ drain' = [drain EXCEPT ![s] = "idle"]
    /\ UNCHANGED <<vars, channelVars, runner, main, link>>

\* The drain loop sees its context cancelled.  A running turn is cancelled and
\* LocalState removed by runCommand's defer; its failure result cannot be sent.
DrainExits(s) ==
    /\ main[s] = "down" /\ drain[s] \in {"idle", "begin", "run"}
    /\ localState' = IF drain[s] = "run" THEN [localState EXCEPT ![runner[s]] = None]
                     ELSE localState
    /\ turn' = [turn EXCEPT ![s] = None]
    /\ drain' = [drain EXCEPT ![s] = "exit"]
    /\ UNCHANGED <<vars, channelVars, runner, main, link>>

\* The machine process dies: every goroutine is gone, LocalState stays on disk.
MachineCrash ==
    /\ \E s \in Sessions : main[s] = "up" \/ drain[s] \notin {"none", "exit"}
    /\ main' = [s \in Sessions |-> IF main[s] = "none" THEN "none" ELSE "down"]
    /\ link' = [s \in Sessions |-> IF link[s] = "none" THEN "none" ELSE "broken"]
    /\ drain' = [s \in Sessions |-> IF drain[s] = "none" THEN "none" ELSE "exit"]
    /\ turn' = [s \in Sessions |-> None]
    /\ UNCHANGED <<vars, channelVars, runner, localState>>

-----------------------------------------------------------------------------
(* The manager's side: AgentChannel's receive loop *)

Receives(s, type) == up[s] # <<>> /\ Head(up[s]).type = type

PopUp(s) == up' = [up EXCEPT ![s] = Tail(@)]

ReceiveReady(s) ==
    /\ Receives(s, "ready")
    /\ RegisterAgent(s, runner[s], Head(up[s]).cmd)
    /\ PopUp(s)
    /\ UNCHANGED <<clientVars, down>>

\* BeginSession with nothing to do: reply idle.
ReceiveBeginIdle(s) ==
    /\ pc[s] = "recv" /\ Receives(s, "begin")
    /\ PopUp(s)
    /\ SendDown(s, None)
    /\ UNCHANGED <<vars, clientVars>>

ReceiveBegin(s, c) ==
    /\ Receives(s, "begin")
    /\ BeginCreate(s, c)
    /\ PopUp(s)
    /\ UNCHANGED <<clientVars, down>>

\* HandleBeginSession returns an error (a query failed, or the agent is gone by
\* now): it is logged, and no reply is sent.
ReceiveBeginError(s) ==
    /\ pc[s] = "recv" /\ Receives(s, "begin")
    /\ PopUp(s)
    /\ UNCHANGED <<vars, clientVars, down>>

\* Mutant: the command is bound, the reply is not sent.
BindNoReply(s) ==
    /\ BeginBind(s)
    /\ UNCHANGED <<clientVars, channelVars>>

\* The end of HandleBeginSession, and the reply.
BindAndReply(s) ==
    /\ BeginBind(s)
    /\ SendDown(s, cmd[s])
    /\ UNCHANGED <<clientVars, up>>

ReceiveResult(s, st) ==
    /\ Receives(s, st)
    /\ ResultClear(s, Head(up[s]).cmd, st)
    /\ PopUp(s)
    /\ UNCHANGED <<clientVars, down>>

OtherHandlerStep(s) ==
    /\ ReadyLookup(s) \/ ReadyReap(s) \/ BeginLookup(s) \/ ResultStore(s)
    /\ UNCHANGED <<clientVars, channelVars>>

\* stream.Receive reports the broken link; unread messages are lost.
ReceiveFails(s) ==
    /\ link[s] = "broken"
    /\ StreamCloses(s)
    /\ up' = [up EXCEPT ![s] = <<>>]
    /\ UNCHANGED <<clientVars, down>>

\* Everything else in the dispatcher runs beside the streams.
DispatcherStep ==
    /\ \/ \E s \in Sessions : ReapIdleSession(s) \/ teardownAgentSession(s)
       \/ \E ms \in MachineSessions, m \in Machines : RegisterMachine(ms, m)
       \/ \E ms \in MachineSessions : MachineStreamCloses(ms)
       \/ \E m \in Machines : UnregisterMachine(m)
       \/ \E c \in Commands : GraceStep(c) \/ CancelCheck(c) \/ CancelStore(c)
    /\ UNCHANGED <<clientVars, channelVars>>

\* A restart of the manager breaks every connection.
RestartBreaksLinks ==
    /\ ManagerRestart
    /\ link' = [s \in Sessions |-> IF link[s] = "none" THEN "none" ELSE "broken"]
    /\ up' = [s \in Sessions |-> <<>>]
    /\ UNCHANGED <<down, runner, main, drain, turn, localState>>

-----------------------------------------------------------------------------
DrainReply(s) == DrainIdle(s) \/ DrainStart(s) \/ DrainStartFails(s)

TurnDone(s) == \E st \in {"COMPLETED", "FAILED"} : TurnEnds(s, st)

ReceiveStep(s) ==
    \/ ReceiveReady(s)
    \/ ReceiveBeginIdle(s) \/ (\E c \in Commands : ReceiveBegin(s, c)) \/ ReceiveBeginError(s)
    \/ \E st \in {"COMPLETED", "FAILED"} : ReceiveResult(s, st)

ChannelNext ==
    \/ \E s \in Sessions :
         \/ \E a \in Agents : OpenStream(s, a)
         \/ LinkBreaks(s) \/ MainLoopExits(s)
         \/ DrainBegin(s) \/ DrainReply(s) \/ TurnDone(s)
         \/ ClearLocalState(s) \/ DrainExits(s)
         \/ ReceiveStep(s) \/ BindAndReply(s) \/ OtherHandlerStep(s) \/ ReceiveFails(s)
    \/ MachineCrash
    \/ DispatcherStep
    \/ RestartBreaksLinks

ChannelSpec == ChannelInit /\ [][ChannelNext]_allVars

\* Running goroutines make progress: the manager reads what is buffered and
\* finishes the call it is in, the drain loop takes its reply, a turn ends (its
\* runtime exits or is killed), and the dispatcher's own goroutines run.
ChannelFairSpec ==
    /\ ChannelSpec
    /\ \A s \in Sessions :
         /\ WF_allVars(ReceiveStep(s)) /\ WF_allVars(BindAndReply(s))
         /\ WF_allVars(OtherHandlerStep(s)) /\ WF_allVars(ReceiveFails(s))
         /\ WF_allVars(DrainReply(s)) /\ WF_allVars(TurnDone(s))
         /\ WF_allVars(ClearLocalState(s)) /\ WF_allVars(DrainExits(s))
         /\ WF_allVars(teardownAgentSession(s) /\ UNCHANGED <<clientVars, channelVars>>)
    /\ \A c \in Commands : WF_allVars(GraceStep(c) /\ UNCHANGED <<clientVars, channelVars>>)

-----------------------------------------------------------------------------
(* Properties *)

\* A reply is always one the drain loop waits for: a BeginSession answered late
\* is never taken as the answer to a later one.
ReplyAwaited ==
    \A s \in Sessions :
        /\ Len(down[s]) <= 1
        /\ down[s] # <<>> => drain[s] \in {"begin", "exit"}

\* handleAgentReady marks a command FAILED as left over from an earlier stream
\* only if no connected drain loop is executing it, however late the AgentReady
\* is handled.
ReapsOnlyAbandoned ==
    \A s, t \in Sessions :
        pc[s] = "reap" /\ turn[t] = cmd[s] => main[t] = "down"

\* Two drain loops never execute the same command.
NoSharedTurn ==
    \A s, t \in Sessions :
        turn[s] # None /\ turn[s] = turn[t] => s = t

\* A command that HandleBeginSession has created does not stay RUNNING behind a
\* stream that stays up: it reaches the drain loop that asked, whichever session
\* it was bound to, and its turn or its failed start is reported.
CreatedReported ==
    \A s \in Sessions, c \in Commands :
        pc[s] \in {"created", "bind"} /\ cmd[s] = c
            ~> status[c] # "RUNNING" \/ link[s] = "broken"

\* A turn that is executing on a stream that stays up ends with its command out
\* of RUNNING.
TurnReported ==
    \A s \in Sessions, c \in Commands :
        turn[s] = c ~> status[c] # "RUNNING" \/ link[s] = "broken"

=============================================================================
