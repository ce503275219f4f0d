--------------------------- MODULE DispatcherProofs ---------------------------
(***************************************************************************)
(* The safety properties of Dispatcher for every number of agents,         *)
(* machines, streams and commands, with or without database errors.        *)
(***************************************************************************)
EXTENDS Dispatcher, TLAPS

\* A stream has a session exactly once its handler registered it, a session
\* waiting for its teardown still has its send, and a session's command was
\* created for that session's agent.
SessionsOK ==
    \A s \in Sessions :
        /\ pc[s] = "new" <=> agentID[s] = None
        /\ s \in send => agentID[s] # None
        /\ s \in detached => s \in send
        /\ currentCmdID[s] # None =>
             /\ agentID[s] # None
             /\ status[currentCmdID[s]] # "NONE"
             /\ cmdAgent[currentCmdID[s]] = agentID[s]

Creating(s) == pc[s] \in {"created", "bind"}

\* A command that a handler has created and not yet bound is bound nowhere,
\* has no timer, and belongs to no other handler; the session it is about to be
\* bound to is one of the same agent.
CreatingOK ==
    \A s \in Sessions : Creating(s) =>
        /\ cmd[s] # None
        /\ status[cmd[s]] # "NONE"
        /\ cmdAgent[cmd[s]] = agentID[s]
        /\ timer[cmd[s]] = "none"
        /\ \A t \in Sessions : currentCmdID[t] # cmd[s]
        /\ \A t \in Sessions : t # s /\ Creating(t) => cmd[t] # cmd[s]
        /\ pc[s] = "bind" /\ found[s] # None => agentID[found[s]] = agentID[s]

\* Handlers that are about to write a status have a command to write it to.
WritingOK ==
    /\ \A s \in Sessions : pc[s] \in {"reap", "COMPLETED", "FAILED"} =>
           cmd[s] # None /\ status[cmd[s]] # "NONE"
    /\ \A c \in cancelling : status[c] # "NONE"

\* Timers and cancellations only exist for created commands.
TimersOK ==
    \A c \in Commands :
        /\ timer[c] # "none" => status[c] # "NONE" /\ cmdAgent[c] # None
        /\ c \in cancelled => timer[c] # "none"

IInv ==
    /\ TypeOK
    /\ RegisteredIsLive /\ NoLeakedSession /\ LiveCommandHasNoTimer
    /\ GraceTracksTimers /\ BoundAtMostOnce
    /\ SessionsOK /\ CreatingOK /\ WritingOK /\ TimersOK

-----------------------------------------------------------------------------
(* Proofs *)

\* The initial states satisfy the inductive invariant: nothing is registered,
\* armed or created yet.
LEMMA InitIInv == Init => IInv
  BY DispatcherConstants DEF Init, IInv, TypeOK, Statuses, HandlerSteps, TimerSteps,
     RegisteredIsLive, NoLeakedSession, LiveCommandHasNoTimer, GraceTracksTimers,
     BoundAtMostOnce, SessionsOK, CreatingOK, Creating, WritingOK, TimersOK

\* Each action preserves it; one lemma per action, one step per conjunct.

\* A reconnect, which replaces the session and cancels the timers of the agent, preserves the inductive invariant.
LEMMA RegisterAgentStep ==
    ASSUME IInv, NEW s \in Sessions, NEW a \in Agents, NEW last \in Commands \cup
           {None}, RegisterAgent(s, a, last)
    PROVE  IInv'
<1> USE DispatcherConstants DEF IInv, TypeOK, RegisterAgent, cancelGraceForAgent,
      GraceOf, sessionVars, handlerVars, graceVars, dbVars
<1>1. TypeOK'
  BY DEF SessionsOK, Statuses, HandlerSteps, TimerSteps
<1>2. RegisteredIsLive'
  BY DEF RegisteredIsLive, SessionsOK
<1>3. NoLeakedSession'
  BY DEF NoLeakedSession, RegisteredIsLive, IsCurrent, SessionsOK
<1>4. LiveCommandHasNoTimer'
  BY DEF LiveCommandHasNoTimer, RegisteredIsLive, SessionsOK, BoundAtMostOnce,
      CreatingOK, Creating, TimersOK
<1>5. GraceTracksTimers'
  BY DEF GraceTracksTimers, TimersOK, LiveCommandHasNoTimer, SessionsOK
<1>6. BoundAtMostOnce'
  BY DEF BoundAtMostOnce, CreatingOK, Creating
<1>7. SessionsOK'
  BY DEF SessionsOK, CreatingOK, Creating, RegisteredIsLive
<1>8. CreatingOK'
  BY DEF CreatingOK, Creating, RegisteredIsLive, SessionsOK, TimersOK
<1>9. WritingOK'
  BY DEF WritingOK, CreatingOK, Creating
<1>10. TimersOK'
  BY DEF TimersOK, SessionsOK, GraceTracksTimers
<1>11. QED
  BY <1>1, <1>2, <1>3, <1>4, <1>5, <1>6, <1>7, <1>8, <1>9, <1>10

\* A repeated AgentReady preserves the inductive invariant.
LEMMA AgentReadyAgainStep ==
    ASSUME IInv, NEW s \in Sessions, NEW last \in Commands \cup {None},
           AgentReadyAgain(s, last)
    PROVE  IInv'
<1> USE DispatcherConstants DEF IInv, TypeOK, AgentReadyAgain, sessionVars,
      handlerVars, graceVars, dbVars
<1>1. TypeOK'
  BY DEF SessionsOK, Statuses, HandlerSteps, TimerSteps
<1>2. RegisteredIsLive'
  BY DEF RegisteredIsLive, SessionsOK
<1>3. SessionsOK'
  BY DEF SessionsOK, CreatingOK, Creating, RegisteredIsLive
<1>4. CreatingOK'
  BY DEF CreatingOK, Creating, RegisteredIsLive, SessionsOK, TimersOK
<1>5. WritingOK'
  BY DEF WritingOK, CreatingOK, Creating
<1>6. NoLeakedSession' /\ LiveCommandHasNoTimer' /\ GraceTracksTimers' /\
      BoundAtMostOnce' /\ TimersOK'
  BY DEF BoundAtMostOnce, GraceTracksTimers, IsCurrent, LiveCommandHasNoTimer,
      NoLeakedSession, TimersOK
<1>7. QED
  BY <1>1, <1>2, <1>3, <1>4, <1>5, <1>6

\* The status read of handleAgentReady preserves the inductive invariant.
LEMMA ReadyLookupStep ==
    ASSUME IInv, NEW s \in Sessions, ReadyLookup(s)
    PROVE  IInv'
<1> USE DispatcherConstants DEF IInv, TypeOK, ReadyLookup, StaleRunning,
      sessionVars, handlerVars, graceVars, dbVars
<1>1. TypeOK'
  BY DEF SessionsOK, Statuses, HandlerSteps, TimerSteps
<1>2. RegisteredIsLive'
  BY DEF RegisteredIsLive, SessionsOK
<1>3. SessionsOK'
  BY DEF SessionsOK, CreatingOK, Creating, RegisteredIsLive
<1>4. CreatingOK'
  BY DEF CreatingOK, Creating, RegisteredIsLive, SessionsOK, TimersOK
<1>5. WritingOK'
  BY DEF WritingOK, CreatingOK, Creating
<1>6. NoLeakedSession' /\ LiveCommandHasNoTimer' /\ GraceTracksTimers' /\
      BoundAtMostOnce' /\ TimersOK'
  BY DEF BoundAtMostOnce, GraceTracksTimers, IsCurrent, LiveCommandHasNoTimer,
      NoLeakedSession, TimersOK
<1>7. QED
  BY <1>1, <1>2, <1>3, <1>4, <1>5, <1>6

\* The FAILED write of handleAgentReady preserves the inductive invariant.
LEMMA ReadyReapStep ==
    ASSUME IInv, NEW s \in Sessions, ReadyReap(s)
    PROVE  IInv'
<1> USE DispatcherConstants DEF IInv, TypeOK, ReadyReap, UpdateCommandStatus,
      DbError, ClearCurrentCommand, sessionVars, handlerVars, graceVars, dbVars
<1>1. TypeOK'
  BY DEF SessionsOK, Statuses, HandlerSteps, TimerSteps
<1>2. RegisteredIsLive'
  BY DEF RegisteredIsLive, SessionsOK
<1>3. LiveCommandHasNoTimer'
  BY DEF LiveCommandHasNoTimer, RegisteredIsLive, SessionsOK, BoundAtMostOnce,
      CreatingOK, Creating, TimersOK
<1>4. BoundAtMostOnce'
  BY DEF BoundAtMostOnce, CreatingOK, Creating
<1>5. SessionsOK'
  BY DEF SessionsOK, CreatingOK, Creating, RegisteredIsLive
<1>6. CreatingOK'
  BY DEF CreatingOK, Creating, RegisteredIsLive, SessionsOK, TimersOK
<1>7. WritingOK'
  BY DEF WritingOK, CreatingOK, Creating
<1>8. TimersOK'
  BY DEF TimersOK, SessionsOK, GraceTracksTimers
<1>9. NoLeakedSession' /\ GraceTracksTimers'
  BY DEF GraceTracksTimers, IsCurrent, NoLeakedSession
<1>10. QED
  BY <1>1, <1>2, <1>3, <1>4, <1>5, <1>6, <1>7, <1>8, <1>9

\* Creating a command, new and bound nowhere, preserves the inductive invariant.
LEMMA BeginCreateStep ==
    ASSUME IInv, NEW s \in Sessions, NEW c \in Commands, BeginCreate(s, c)
    PROVE  IInv'
<1> USE DispatcherConstants DEF IInv, TypeOK, BeginCreate, UpdateCommandStatus,
      sessionVars, handlerVars, graceVars, dbVars
<1>1. TypeOK'
  BY DEF SessionsOK, Statuses, HandlerSteps, TimerSteps
<1>2. RegisteredIsLive'
  BY DEF RegisteredIsLive, SessionsOK
<1>3. SessionsOK'
  BY DEF SessionsOK, CreatingOK, Creating, RegisteredIsLive
<1>4. CreatingOK'
  BY DEF CreatingOK, Creating, RegisteredIsLive, SessionsOK, TimersOK
<1>5. WritingOK'
  BY DEF WritingOK, CreatingOK, Creating
<1>6. TimersOK'
  BY DEF TimersOK, SessionsOK, GraceTracksTimers
<1>7. NoLeakedSession' /\ LiveCommandHasNoTimer' /\ GraceTracksTimers' /\
      BoundAtMostOnce'
  BY DEF BoundAtMostOnce, GraceTracksTimers, IsCurrent, LiveCommandHasNoTimer,
      NoLeakedSession
<1>8. QED
  BY <1>1, <1>2, <1>3, <1>4, <1>5, <1>6, <1>7

\* The getAgent of HandleBeginSession preserves the inductive invariant.
LEMMA BeginLookupStep ==
    ASSUME IInv, NEW s \in Sessions, BeginLookup(s)
    PROVE  IInv'
<1> USE DispatcherConstants DEF IInv, TypeOK, BeginLookup, UpdateCommandStatus,
      DbError, sessionVars, handlerVars, graceVars, dbVars
<1>1. TypeOK'
  BY DEF SessionsOK, Statuses, HandlerSteps, TimerSteps
<1>2. RegisteredIsLive'
  BY DEF RegisteredIsLive, SessionsOK
<1>3. SessionsOK'
  BY DEF SessionsOK, CreatingOK, Creating, RegisteredIsLive
<1>4. CreatingOK'
  BY DEF CreatingOK, Creating, RegisteredIsLive, SessionsOK, TimersOK
<1>5. WritingOK'
  BY DEF WritingOK, CreatingOK, Creating
<1>6. TimersOK'
  BY DEF TimersOK, SessionsOK, GraceTracksTimers
<1>7. NoLeakedSession' /\ LiveCommandHasNoTimer' /\ GraceTracksTimers' /\
      BoundAtMostOnce'
  BY DEF BoundAtMostOnce, GraceTracksTimers, IsCurrent, LiveCommandHasNoTimer,
      NoLeakedSession
<1>8. QED
  BY <1>1, <1>2, <1>3, <1>4, <1>5, <1>6, <1>7

\* Binding a created command to the session found preserves the inductive invariant.
LEMMA BeginBindStep ==
    ASSUME IInv, NEW s \in Sessions, BeginBind(s)
    PROVE  IInv'
<1> USE DispatcherConstants DEF IInv, TypeOK, BeginBind, sessionVars, handlerVars,
      graceVars, dbVars
<1>1. TypeOK'
  BY DEF SessionsOK, Statuses, HandlerSteps, TimerSteps
<1>2. RegisteredIsLive'
  BY DEF RegisteredIsLive, SessionsOK
<1>3. LiveCommandHasNoTimer'
  BY DEF LiveCommandHasNoTimer, RegisteredIsLive, SessionsOK, BoundAtMostOnce,
      CreatingOK, Creating, TimersOK
<1>4. BoundAtMostOnce'
  BY DEF BoundAtMostOnce, CreatingOK, Creating
<1>5. SessionsOK'
  BY DEF SessionsOK, CreatingOK, Creating, RegisteredIsLive
<1>6. CreatingOK'
  BY DEF CreatingOK, Creating, RegisteredIsLive, SessionsOK, TimersOK
<1>7. WritingOK'
  BY DEF WritingOK, CreatingOK, Creating
<1>8. NoLeakedSession' /\ GraceTracksTimers' /\ TimersOK'
  BY DEF GraceTracksTimers, IsCurrent, NoLeakedSession, TimersOK
<1>9. QED
  BY <1>1, <1>2, <1>3, <1>4, <1>5, <1>6, <1>7, <1>8

\* Clearing the current command on a result preserves the inductive invariant.
LEMMA ResultClearStep ==
    ASSUME IInv, NEW s \in Sessions, NEW c \in Commands, NEW st \in {"COMPLETED",
           "FAILED"}, ResultClear(s, c, st)
    PROVE  IInv'
<1> USE DispatcherConstants DEF IInv, TypeOK, ResultClear, ClearCurrentCommand,
      sessionVars, handlerVars, graceVars, dbVars
<1>1. TypeOK'
  BY DEF SessionsOK, Statuses, HandlerSteps, TimerSteps
<1>2. RegisteredIsLive'
  BY DEF RegisteredIsLive, SessionsOK
<1>3. LiveCommandHasNoTimer'
  BY DEF LiveCommandHasNoTimer, RegisteredIsLive, SessionsOK, BoundAtMostOnce,
      CreatingOK, Creating, TimersOK
<1>4. BoundAtMostOnce'
  BY DEF BoundAtMostOnce, CreatingOK, Creating
<1>5. SessionsOK'
  BY DEF SessionsOK, CreatingOK, Creating, RegisteredIsLive
<1>6. CreatingOK'
  BY DEF CreatingOK, Creating, RegisteredIsLive, SessionsOK, TimersOK
<1>7. WritingOK'
  BY DEF WritingOK, CreatingOK, Creating
<1>8. NoLeakedSession' /\ GraceTracksTimers' /\ TimersOK'
  BY DEF GraceTracksTimers, IsCurrent, NoLeakedSession, TimersOK
<1>9. QED
  BY <1>1, <1>2, <1>3, <1>4, <1>5, <1>6, <1>7, <1>8

\* Writing the status of a result preserves the inductive invariant.
LEMMA ResultStoreStep ==
    ASSUME IInv, NEW s \in Sessions, ResultStore(s)
    PROVE  IInv'
<1> USE DispatcherConstants DEF IInv, TypeOK, ResultStore, UpdateCommandStatus,
      DbError, sessionVars, handlerVars, graceVars, dbVars
<1>1. TypeOK'
  BY DEF SessionsOK, Statuses, HandlerSteps, TimerSteps
<1>2. RegisteredIsLive'
  BY DEF RegisteredIsLive, SessionsOK
<1>3. SessionsOK'
  BY DEF SessionsOK, CreatingOK, Creating, RegisteredIsLive
<1>4. CreatingOK'
  BY DEF CreatingOK, Creating, RegisteredIsLive, SessionsOK, TimersOK
<1>5. WritingOK'
  BY DEF WritingOK, CreatingOK, Creating
<1>6. TimersOK'
  BY DEF TimersOK, SessionsOK, GraceTracksTimers
<1>7. NoLeakedSession' /\ LiveCommandHasNoTimer' /\ GraceTracksTimers' /\
      BoundAtMostOnce'
  BY DEF BoundAtMostOnce, GraceTracksTimers, IsCurrent, LiveCommandHasNoTimer,
      NoLeakedSession
<1>8. QED
  BY <1>1, <1>2, <1>3, <1>4, <1>5, <1>6, <1>7

\* The identity-aware cleanup of a closed stream preserves the inductive invariant.
LEMMA StreamClosesStep ==
    ASSUME IInv, NEW s \in Sessions, StreamCloses(s)
    PROVE  IInv'
<1> USE DispatcherConstants DEF IInv, TypeOK, StreamCloses, deleteAgentIf,
      IsCurrent, sessionVars, handlerVars, graceVars, dbVars
<1>1. TypeOK'
  BY DEF SessionsOK, Statuses, HandlerSteps, TimerSteps
<1>2. RegisteredIsLive'
  BY DEF RegisteredIsLive, SessionsOK
<1>3. NoLeakedSession'
  BY DEF NoLeakedSession, RegisteredIsLive, SessionsOK
<1>4. SessionsOK'
  BY DEF SessionsOK, CreatingOK, Creating, RegisteredIsLive
<1>5. CreatingOK'
  BY DEF CreatingOK, Creating, RegisteredIsLive, SessionsOK, TimersOK
<1>6. WritingOK'
  BY DEF WritingOK, CreatingOK, Creating
<1>7. LiveCommandHasNoTimer' /\ GraceTracksTimers' /\ BoundAtMostOnce' /\ TimersOK'
  BY DEF BoundAtMostOnce, GraceTracksTimers, LiveCommandHasNoTimer, TimersOK
<1>8. QED
  BY <1>1, <1>2, <1>3, <1>4, <1>5, <1>6, <1>7

\* The ping monitor preserves the inductive invariant.
LEMMA ReapIdleSessionStep ==
    ASSUME IInv, NEW s \in Sessions, ReapIdleSession(s)
    PROVE  IInv'
<1> USE DispatcherConstants DEF IInv, TypeOK, ReapIdleSession, deleteAgentIf,
      IsCurrent, sessionVars, handlerVars, graceVars, dbVars
<1>1. TypeOK'
  BY DEF SessionsOK, Statuses, HandlerSteps, TimerSteps
<1>2. RegisteredIsLive'
  BY DEF RegisteredIsLive, SessionsOK
<1>3. NoLeakedSession'
  BY DEF NoLeakedSession, RegisteredIsLive, SessionsOK
<1>4. SessionsOK'
  BY DEF SessionsOK, CreatingOK, Creating, RegisteredIsLive
<1>5. LiveCommandHasNoTimer' /\ GraceTracksTimers' /\ BoundAtMostOnce' /\
      CreatingOK' /\ WritingOK' /\ TimersOK'
  BY DEF BoundAtMostOnce, Creating, CreatingOK, GraceTracksTimers,
      LiveCommandHasNoTimer, TimersOK, WritingOK
<1>6. QED
  BY <1>1, <1>2, <1>3, <1>4, <1>5

\* A teardown, the only step that arms a timer, preserves the inductive invariant.
LEMMA TeardownAgentSessionStep ==
    ASSUME IInv, NEW s \in Sessions, teardownAgentSession(s)
    PROVE  IInv'
<1> USE DispatcherConstants DEF IInv, TypeOK, teardownAgentSession, startGracePeriod, sessionVars,
      handlerVars, graceVars, dbVars
<1>1. TypeOK'
  BY DEF SessionsOK, Statuses, HandlerSteps, TimerSteps
<1>2. RegisteredIsLive'
  BY DEF RegisteredIsLive, SessionsOK
<1>3. NoLeakedSession'
  BY DEF NoLeakedSession, RegisteredIsLive, IsCurrent, SessionsOK
<1>4. LiveCommandHasNoTimer'
  BY DEF LiveCommandHasNoTimer, RegisteredIsLive, SessionsOK, BoundAtMostOnce,
      CreatingOK, Creating, TimersOK
<1>5. GraceTracksTimers'
  BY DEF GraceTracksTimers, TimersOK, LiveCommandHasNoTimer, SessionsOK
<1>6. SessionsOK'
  BY DEF SessionsOK, CreatingOK, Creating, RegisteredIsLive
<1>7. CreatingOK'
  BY DEF CreatingOK, Creating, RegisteredIsLive, SessionsOK, TimersOK
<1>8. TimersOK'
  BY DEF TimersOK, SessionsOK, GraceTracksTimers
<1>9. BoundAtMostOnce' /\ WritingOK'
  BY DEF BoundAtMostOnce, WritingOK
<1>10. QED
  BY <1>1, <1>2, <1>3, <1>4, <1>5, <1>6, <1>7, <1>8, <1>9

\* Registering a machine preserves the inductive invariant.
LEMMA RegisterMachineStep ==
    ASSUME IInv, NEW ms \in MachineSessions, NEW m \in Machines, RegisterMachine(ms,
           m)
    PROVE  IInv'
<1> USE DispatcherConstants DEF IInv, TypeOK, RegisterMachine, sessionVars,
      handlerVars, graceVars, dbVars
<1>1. TypeOK'
  BY DEF SessionsOK, Statuses, HandlerSteps, TimerSteps
<1>2. RegisteredIsLive' /\ NoLeakedSession' /\ LiveCommandHasNoTimer' /\
      GraceTracksTimers' /\ BoundAtMostOnce' /\ SessionsOK' /\ CreatingOK' /\
      WritingOK' /\ TimersOK'
  BY DEF BoundAtMostOnce, Creating, CreatingOK, GraceTracksTimers, IsCurrent,
      LiveCommandHasNoTimer, NoLeakedSession, RegisteredIsLive, SessionsOK,
      TimersOK, WritingOK
<1>3. QED
  BY <1>1, <1>2

\* The end of a control stream preserves the inductive invariant.
LEMMA MachineStreamClosesStep ==
    ASSUME IInv, NEW ms \in MachineSessions, MachineStreamCloses(ms)
    PROVE  IInv'
<1> USE DispatcherConstants DEF IInv, TypeOK, MachineStreamCloses,
      deleteMachineWithAgents, OwnedAgents, sessionVars, handlerVars, graceVars,
      dbVars
<1>1. TypeOK'
  BY DEF SessionsOK, Statuses, HandlerSteps, TimerSteps
<1>2. RegisteredIsLive'
  BY DEF RegisteredIsLive, SessionsOK
<1>3. NoLeakedSession'
  BY DEF NoLeakedSession, RegisteredIsLive, IsCurrent, SessionsOK
<1>4. SessionsOK'
  BY DEF SessionsOK, CreatingOK, Creating, RegisteredIsLive
<1>5. LiveCommandHasNoTimer' /\ GraceTracksTimers' /\ BoundAtMostOnce' /\
      CreatingOK' /\ WritingOK' /\ TimersOK'
  BY DEF BoundAtMostOnce, Creating, CreatingOK, GraceTracksTimers,
      LiveCommandHasNoTimer, TimersOK, WritingOK
<1>6. QED
  BY <1>1, <1>2, <1>3, <1>4, <1>5

\* Detaching a machine with its agents preserves the inductive invariant.
LEMMA UnregisterMachineStep ==
    ASSUME IInv, NEW m \in Machines, UnregisterMachine(m)
    PROVE  IInv'
<1> USE DispatcherConstants DEF IInv, TypeOK, UnregisterMachine,
      deleteMachineWithAgents, OwnedAgents, sessionVars, handlerVars, graceVars,
      dbVars
<1>1. TypeOK'
  BY DEF SessionsOK, Statuses, HandlerSteps, TimerSteps
<1>2. RegisteredIsLive'
  BY DEF RegisteredIsLive, SessionsOK
<1>3. NoLeakedSession'
  BY DEF NoLeakedSession, RegisteredIsLive, IsCurrent, SessionsOK
<1>4. SessionsOK'
  BY DEF SessionsOK, CreatingOK, Creating, RegisteredIsLive
<1>5. LiveCommandHasNoTimer' /\ GraceTracksTimers' /\ BoundAtMostOnce' /\
      CreatingOK' /\ WritingOK' /\ TimersOK'
  BY DEF BoundAtMostOnce, Creating, CreatingOK, GraceTracksTimers,
      LiveCommandHasNoTimer, TimersOK, WritingOK
<1>6. QED
  BY <1>1, <1>2, <1>3, <1>4, <1>5

\* A timer that fires preserves the inductive invariant.
LEMMA GraceFiresStep ==
    ASSUME IInv, NEW c \in Commands, GraceFires(c)
    PROVE  IInv'
<1> USE DispatcherConstants DEF IInv, TypeOK, GraceFires, sessionVars, handlerVars,
      graceVars, dbVars
<1>1. TypeOK'
  BY DEF SessionsOK, Statuses, HandlerSteps, TimerSteps
<1>2. LiveCommandHasNoTimer'
  BY DEF LiveCommandHasNoTimer, RegisteredIsLive, SessionsOK, BoundAtMostOnce,
      CreatingOK, Creating, TimersOK
<1>3. GraceTracksTimers'
  BY DEF GraceTracksTimers, TimersOK, LiveCommandHasNoTimer, SessionsOK
<1>4. CreatingOK'
  BY DEF CreatingOK, Creating, RegisteredIsLive, SessionsOK, TimersOK
<1>5. TimersOK'
  BY DEF TimersOK, SessionsOK, GraceTracksTimers
<1>6. RegisteredIsLive' /\ NoLeakedSession' /\ BoundAtMostOnce' /\ SessionsOK' /\
      WritingOK'
  BY DEF BoundAtMostOnce, IsCurrent, NoLeakedSession, RegisteredIsLive, SessionsOK,
      WritingOK
<1>7. QED
  BY <1>1, <1>2, <1>3, <1>4, <1>5, <1>6

\* A timer that ends cancelled preserves the inductive invariant.
LEMMA GraceCancelledStep ==
    ASSUME IInv, NEW c \in Commands, GraceCancelled(c)
    PROVE  IInv'
<1> USE DispatcherConstants DEF IInv, TypeOK, GraceCancelled, finishGrace,
      sessionVars, handlerVars, graceVars, dbVars
<1>1. TypeOK'
  BY DEF SessionsOK, Statuses, HandlerSteps, TimerSteps
<1>2. LiveCommandHasNoTimer'
  BY DEF LiveCommandHasNoTimer, RegisteredIsLive, SessionsOK, BoundAtMostOnce,
      CreatingOK, Creating, TimersOK
<1>3. GraceTracksTimers'
  BY DEF GraceTracksTimers, TimersOK, LiveCommandHasNoTimer, SessionsOK
<1>4. CreatingOK'
  BY DEF CreatingOK, Creating, RegisteredIsLive, SessionsOK, TimersOK
<1>5. TimersOK'
  BY DEF TimersOK, SessionsOK, GraceTracksTimers
<1>6. RegisteredIsLive' /\ NoLeakedSession' /\ BoundAtMostOnce' /\ SessionsOK' /\
      WritingOK'
  BY DEF BoundAtMostOnce, IsCurrent, NoLeakedSession, RegisteredIsLive, SessionsOK,
      WritingOK
<1>7. QED
  BY <1>1, <1>2, <1>3, <1>4, <1>5, <1>6

\* The reconnect check of a timer preserves the inductive invariant.
LEMMA GraceCheckStep ==
    ASSUME IInv, NEW c \in Commands, GraceCheck(c)
    PROVE  IInv'
<1> USE DispatcherConstants DEF IInv, TypeOK, GraceCheck, finishGrace, sessionVars,
      handlerVars, graceVars, dbVars
<1>1. TypeOK'
  BY DEF SessionsOK, Statuses, HandlerSteps, TimerSteps
<1>2. LiveCommandHasNoTimer'
  BY DEF LiveCommandHasNoTimer, RegisteredIsLive, SessionsOK, BoundAtMostOnce,
      CreatingOK, Creating, TimersOK
<1>3. GraceTracksTimers'
  BY DEF GraceTracksTimers, TimersOK, LiveCommandHasNoTimer, SessionsOK
<1>4. CreatingOK'
  BY DEF CreatingOK, Creating, RegisteredIsLive, SessionsOK, TimersOK
<1>5. TimersOK'
  BY DEF TimersOK, SessionsOK, GraceTracksTimers
<1>6. RegisteredIsLive' /\ NoLeakedSession' /\ BoundAtMostOnce' /\ SessionsOK' /\
      WritingOK'
  BY DEF BoundAtMostOnce, IsCurrent, NoLeakedSession, RegisteredIsLive, SessionsOK,
      WritingOK
<1>7. QED
  BY <1>1, <1>2, <1>3, <1>4, <1>5, <1>6

\* The FAILED write of a timer preserves the inductive invariant.
LEMMA GraceFailStep ==
    ASSUME IInv, NEW c \in Commands, GraceFail(c)
    PROVE  IInv'
<1> USE DispatcherConstants DEF IInv, TypeOK, GraceFail, finishGrace,
      UpdateCommandStatus, DbError, sessionVars, handlerVars, graceVars, dbVars
<1>1. TypeOK'
  BY DEF SessionsOK, Statuses, HandlerSteps, TimerSteps
<1>2. LiveCommandHasNoTimer'
  BY DEF LiveCommandHasNoTimer, RegisteredIsLive, SessionsOK, BoundAtMostOnce,
      CreatingOK, Creating, TimersOK
<1>3. GraceTracksTimers'
  BY DEF GraceTracksTimers, TimersOK, LiveCommandHasNoTimer, SessionsOK
<1>4. SessionsOK'
  BY DEF SessionsOK, CreatingOK, Creating, RegisteredIsLive
<1>5. CreatingOK'
  BY DEF CreatingOK, Creating, RegisteredIsLive, SessionsOK, TimersOK
<1>6. WritingOK'
  BY DEF WritingOK, CreatingOK, Creating
<1>7. TimersOK'
  BY DEF TimersOK, SessionsOK, GraceTracksTimers
<1>8. RegisteredIsLive' /\ NoLeakedSession' /\ BoundAtMostOnce'
  BY DEF BoundAtMostOnce, IsCurrent, NoLeakedSession, RegisteredIsLive
<1>9. QED
  BY <1>1, <1>2, <1>3, <1>4, <1>5, <1>6, <1>7, <1>8

\* The status check of CancelCommand preserves the inductive invariant.
LEMMA CancelCheckStep ==
    ASSUME IInv, NEW c \in Commands, CancelCheck(c)
    PROVE  IInv'
<1> USE DispatcherConstants DEF IInv, TypeOK, CancelCheck, sessionVars, handlerVars,
      graceVars, dbVars
<1>1. TypeOK'
  BY DEF SessionsOK, Statuses, HandlerSteps, TimerSteps
<1>2. WritingOK'
  BY DEF WritingOK, CreatingOK, Creating
<1>3. RegisteredIsLive' /\ NoLeakedSession' /\ LiveCommandHasNoTimer' /\
      GraceTracksTimers' /\ BoundAtMostOnce' /\ SessionsOK' /\ CreatingOK' /\
      TimersOK'
  BY DEF BoundAtMostOnce, Creating, CreatingOK, GraceTracksTimers, IsCurrent,
      LiveCommandHasNoTimer, NoLeakedSession, RegisteredIsLive, SessionsOK, TimersOK
<1>4. QED
  BY <1>1, <1>2, <1>3

\* The CANCELLED write of CancelCommand preserves the inductive invariant.
LEMMA CancelStoreStep ==
    ASSUME IInv, NEW c \in Commands, CancelStore(c)
    PROVE  IInv'
<1> USE DispatcherConstants DEF IInv, TypeOK, CancelStore, UpdateCommandStatus,
      DbError, sessionVars, handlerVars, graceVars, dbVars
<1>1. TypeOK'
  BY DEF SessionsOK, Statuses, HandlerSteps, TimerSteps
<1>2. SessionsOK'
  BY DEF SessionsOK, CreatingOK, Creating, RegisteredIsLive
<1>3. CreatingOK'
  BY DEF CreatingOK, Creating, RegisteredIsLive, SessionsOK, TimersOK
<1>4. WritingOK'
  BY DEF WritingOK, CreatingOK, Creating
<1>5. TimersOK'
  BY DEF TimersOK, SessionsOK, GraceTracksTimers
<1>6. RegisteredIsLive' /\ NoLeakedSession' /\ LiveCommandHasNoTimer' /\
      GraceTracksTimers' /\ BoundAtMostOnce'
  BY DEF BoundAtMostOnce, GraceTracksTimers, IsCurrent, LiveCommandHasNoTimer,
      NoLeakedSession, RegisteredIsLive
<1>7. QED
  BY <1>1, <1>2, <1>3, <1>4, <1>5, <1>6

\* A restart of the manager preserves the inductive invariant.
LEMMA ManagerRestartStep ==
    ASSUME IInv, ManagerRestart
    PROVE  IInv'
<1> USE DispatcherConstants DEF IInv, TypeOK, ManagerRestart, sessionVars,
      handlerVars, graceVars, dbVars
<1>1. TypeOK'
  BY DEF SessionsOK, Statuses, HandlerSteps, TimerSteps
<1>2. RegisteredIsLive'
  BY DEF RegisteredIsLive, SessionsOK
<1>3. NoLeakedSession'
  BY DEF NoLeakedSession, RegisteredIsLive, IsCurrent, SessionsOK
<1>4. LiveCommandHasNoTimer'
  BY DEF LiveCommandHasNoTimer, RegisteredIsLive, SessionsOK, BoundAtMostOnce,
      CreatingOK, Creating, TimersOK
<1>5. GraceTracksTimers'
  BY DEF GraceTracksTimers, TimersOK, LiveCommandHasNoTimer, SessionsOK
<1>6. BoundAtMostOnce'
  BY DEF BoundAtMostOnce, CreatingOK, Creating
<1>7. SessionsOK'
  BY DEF SessionsOK, CreatingOK, Creating, RegisteredIsLive
<1>8. CreatingOK'
  BY DEF CreatingOK, Creating, RegisteredIsLive, SessionsOK, TimersOK
<1>9. WritingOK'
  BY DEF WritingOK, CreatingOK, Creating
<1>10. TimersOK'
  BY DEF TimersOK, SessionsOK, GraceTracksTimers
<1>11. QED
  BY <1>1, <1>2, <1>3, <1>4, <1>5, <1>6, <1>7, <1>8, <1>9, <1>10

\* Every step of the dispatcher, stuttering included, preserves the inductive
\* invariant.
LEMMA NextIInv == IInv /\ [Next]_vars => IInv'
<1> SUFFICES ASSUME IInv, [Next]_vars PROVE IInv'
  OBVIOUS
<1>1. CASE UNCHANGED vars
  BY <1>1 DEF vars, sessionVars, handlerVars, graceVars, dbVars, IInv, TypeOK,
     RegisteredIsLive, NoLeakedSession, IsCurrent, LiveCommandHasNoTimer,
     GraceTracksTimers, BoundAtMostOnce, SessionsOK, CreatingOK, Creating,
     WritingOK, TimersOK
<1>2. ASSUME NEW s \in Sessions, AgentMessage(s) PROVE IInv'
  BY <1>2, RegisterAgentStep, AgentReadyAgainStep, BeginCreateStep, ResultClearStep
     DEF AgentMessage
<1>3. ASSUME NEW s \in Sessions, HandlerStep(s) PROVE IInv'
  BY <1>3, ReadyLookupStep, ReadyReapStep, BeginLookupStep, BeginBindStep, ResultStoreStep
     DEF HandlerStep
<1>4. ASSUME NEW s \in Sessions,
             StreamCloses(s) \/ ReapIdleSession(s) \/ teardownAgentSession(s)
      PROVE  IInv'
  BY <1>4, StreamClosesStep, ReapIdleSessionStep, TeardownAgentSessionStep
<1>5. ASSUME NEW ms \in MachineSessions, NEW m \in Machines,
             RegisterMachine(ms, m)
      PROVE  IInv'
  BY <1>5, RegisterMachineStep
<1>6. ASSUME NEW ms \in MachineSessions, MachineStreamCloses(ms) PROVE IInv'
  BY <1>6, MachineStreamClosesStep
<1>7. ASSUME NEW m \in Machines, UnregisterMachine(m) PROVE IInv'
  BY <1>7, UnregisterMachineStep
<1>8. ASSUME NEW c \in Commands, GraceStep(c) \/ CancelCheck(c) \/ CancelStore(c)
      PROVE  IInv'
  BY <1>8, GraceFiresStep, GraceCancelledStep, GraceCheckStep, GraceFailStep,
     CancelCheckStep, CancelStoreStep DEF GraceStep
<1>9. CASE ManagerRestart
  BY <1>9, ManagerRestartStep
<1>10. QED
  BY <1>1, <1>2, <1>3, <1>4, <1>5, <1>6, <1>7, <1>8, <1>9 DEF Next

\* The inductive invariant holds throughout every behaviour.
THEOREM Invariance == Spec => []IInv
  BY InitIInv, NextIInv, PTL DEF Spec

\* Type correctness of the dispatcher's state, for every set of agents,
\* machines, streams and commands.
THEOREM TypeCorrect == Spec => []TypeOK
<1>1. IInv => TypeOK
  BY DEF IInv
<1>2. QED
  BY Invariance, <1>1, PTL

\* A registered session is live: late cleanups and teardowns of other streams never
\* leave a dead one in the registry.
THEOREM RegistryCorrect == Spec => []RegisteredIsLive
<1>1. IInv => RegisteredIsLive
  BY DEF IInv
<1>2. QED
  BY Invariance, <1>1, PTL

\* A session that can still be sent to is registered or awaits its teardown: none
\* is forgotten by the registry.
THEOREM NoSessionForgotten == Spec => []NoLeakedSession
<1>1. IInv => NoLeakedSession
  BY DEF IInv
<1>2. QED
  BY Invariance, <1>1, PTL

\* No grace timer ever runs against the in-flight command of a session that has
\* not been torn down.
THEOREM NoTimerOnLiveCommand == Spec => []LiveCommandHasNoTimer
<1>1. IInv => LiveCommandHasNoTimer
  BY DEF IInv
<1>2. QED
  BY Invariance, <1>1, PTL

\* d.grace holds exactly the running, uncancelled grace goroutines.
THEOREM GraceMapExact == Spec => []GraceTracksTimers
<1>1. IInv => GraceTracksTimers
  BY DEF IInv
<1>2. QED
  BY Invariance, <1>1, PTL

\* No command is ever bound to two sessions.
THEOREM SingleBinding == Spec => []BoundAtMostOnce
<1>1. IInv => BoundAtMostOnce
  BY DEF IInv
<1>2. QED
  BY Invariance, <1>1, PTL

\* A step other than a teardown puts no timer into its waiting state.
LEMMA OnlyTeardownArms ==
    ASSUME IInv, Next, NEW c \in Commands, timer'[c] = "waiting", timer[c] # "waiting"
    PROVE  \E s \in detached : currentCmdID[s] = c /\ teardownAgentSession(s)
<1> USE DEF IInv, TypeOK, sessionVars, handlerVars, graceVars, dbVars
<1>1. ASSUME NEW s \in Sessions, AgentMessage(s) PROVE FALSE
  BY <1>1 DEF AgentMessage, RegisterAgent, AgentReadyAgain, BeginCreate, ResultClear
<1>2. ASSUME NEW s \in Sessions, HandlerStep(s) PROVE FALSE
  BY <1>2 DEF HandlerStep, ReadyLookup, ReadyReap, BeginLookup, BeginBind, ResultStore
<1>3. ASSUME NEW s \in Sessions, StreamCloses(s) \/ ReapIdleSession(s) PROVE FALSE
  BY <1>3 DEF StreamCloses, ReapIdleSession
<1>4. ASSUME NEW ms \in MachineSessions,
             (\E m \in Machines : RegisterMachine(ms, m)) \/ MachineStreamCloses(ms)
      PROVE  FALSE
  BY <1>4 DEF RegisterMachine, MachineStreamCloses
<1>5. ASSUME NEW m \in Machines, UnregisterMachine(m) PROVE FALSE
  BY <1>5 DEF UnregisterMachine
<1>6. ASSUME NEW d \in Commands, GraceStep(d) \/ CancelCheck(d) \/ CancelStore(d)
      PROVE  FALSE
  BY <1>6 DEF GraceStep, GraceFires, GraceCancelled, GraceCheck, GraceFail, CancelCheck, CancelStore
<1>7. ASSUME ManagerRestart PROVE FALSE
  BY <1>7 DEF ManagerRestart
<1>8. ASSUME NEW s \in Sessions, teardownAgentSession(s)
      PROVE  s \in detached /\ currentCmdID[s] = c
  BY <1>8 DEF teardownAgentSession, startGracePeriod
<1>9. QED
  BY <1>1, <1>2, <1>3, <1>4, <1>5, <1>6, <1>7, <1>8 DEF Next

\* startGracePeriod never re-arms a command: the timer of a command that is armed
\* was never started before, because its session was not torn down before.
THEOREM NeverRearmed == Spec => ArmedAtMostOnce
<1>1. IInv /\ [Next]_vars =>
        [\A c \in Commands :
           timer'[c] = "waiting" /\ timer[c] # "waiting" => timer[c] = "none"]_vars
  <2> SUFFICES ASSUME IInv, Next, NEW c \in Commands,
                      timer'[c] = "waiting", timer[c] # "waiting"
               PROVE  timer[c] = "none"
    BY DEF vars
  <2>1. PICK s \in detached : currentCmdID[s] = c
    BY OnlyTeardownArms
  <2>2. s \in send
    BY <2>1 DEF IInv, TypeOK, SessionsOK
  <2>3. QED
    BY <2>1, <2>2, DispatcherConstants DEF IInv, LiveCommandHasNoTimer
<1>2. QED
  BY Invariance, <1>1, PTL DEF Spec, ArmedAtMostOnce

=============================================================================
