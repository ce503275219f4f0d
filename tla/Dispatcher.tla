----------------------------- MODULE Dispatcher -----------------------------
(***************************************************************************)
(* The manager's dispatcher: the registry of live agent and machine        *)
(* sessions, the AgentChannel stream handlers, the 60 s grace timers armed  *)
(* when a session with an in-flight command goes away, the ping monitor,    *)
(* the CancelCommand RPC, and the status column of the command table.       *)
(*                                                                         *)
(* The handlers, the ping monitor, the teardowns, the grace goroutines and  *)
(* the RPCs all run concurrently; one action is one critical section or one *)
(* database statement.  What the agents send is left free here (any message *)
(* at any time); module AgentChannel constrains it to the real client.      *)
(***************************************************************************)
EXTENDS Naturals, FiniteSets

CONSTANTS
    Agents,           \* agent ids
    Machines,         \* machine ids
    MachineOf,        \* agent.machine_id
    Sessions,         \* AgentSession pointers, one per AgentChannel stream
    MachineSessions,  \* MachineSession pointers, one per MachineChannel stream
    Commands,         \* command ids that BeginSession can create
    DbMayFail,        \* whether a database statement may return an error
    None              \* nil, "" or an absent map entry

ASSUME DispatcherConstants ==
    /\ MachineOf \in [Agents -> Machines]
    /\ DbMayFail \in BOOLEAN
    /\ None \notin Agents \cup Sessions \cup MachineSessions \cup Commands

VARIABLES
    registry,      \* registry.sessions: agent -> registered session
    machines,      \* registry.machines: machine -> registered session
    agentID,       \* AgentSession.agentID; None before RegisterAgent
    send,          \* the sessions whose send pointer is not nil
    currentCmdID,  \* AgentSession.currentCmdID
    detached,      \* deleted from the registry, teardown not yet run
    pc,            \* where the AgentChannel handler of the stream is
    cmd,           \* the command the handler is working on
    found,         \* the session HandleBeginSession got from getAgent
    mpc,           \* where the MachineChannel handler of the stream is
    grace,         \* commands with a cancel function in d.grace
    cancelled,     \* commands whose grace context has been cancelled
    timer,         \* the grace goroutine of a command
    status,        \* command.status; "NONE" before CreateCommand
    cmdAgent,      \* command.agent_id
    cancelling     \* CancelCommand RPCs past their status check

sessionVars == <<registry, machines, agentID, send, currentCmdID, detached>>
handlerVars == <<pc, cmd, found>>
graceVars   == <<grace, cancelled, timer>>
dbVars      == <<status, cmdAgent>>
vars == <<sessionVars, handlerVars, mpc, graceVars, dbVars, cancelling>>

-----------------------------------------------------------------------------
Statuses == {"NONE", "RUNNING", "COMPLETED", "FAILED", "CANCELLED"}

\* new: no stream yet; recv: blocked in stream.Receive; ready: in
\* handleAgentReady; reap: about to write FAILED; created, bind: in
\* HandleBeginSession before getAgent and before the assignment;
\* COMPLETED, FAILED: in HandleResult, about to write that status; done: exited.
HandlerSteps == {"new", "ready", "reap", "recv", "created", "bind",
                 "COMPLETED", "FAILED", "done"}

\* The grace goroutine: not started, in its select, past time.After, past the
\* getAgent check, exited, killed with the manager process.
TimerSteps == {"none", "waiting", "fired", "failing", "done", "lost"}

TypeOK ==
    /\ registry \in [Agents -> Sessions \cup {None}]
    /\ machines \in [Machines -> MachineSessions \cup {None}]
    /\ agentID \in [Sessions -> Agents \cup {None}]
    /\ send \subseteq Sessions
    /\ currentCmdID \in [Sessions -> Commands \cup {None}]
    /\ detached \subseteq Sessions
    /\ pc \in [Sessions -> HandlerSteps]
    /\ cmd \in [Sessions -> Commands \cup {None}]
    /\ found \in [Sessions -> Sessions \cup {None}]
    /\ mpc \in [MachineSessions -> {"new", "recv", "done"}]
    /\ grace \subseteq Commands
    /\ cancelled \subseteq Commands
    /\ timer \in [Commands -> TimerSteps]
    /\ status \in [Commands -> Statuses]
    /\ cmdAgent \in [Commands -> Agents \cup {None}]
    /\ cancelling \subseteq Commands

Init ==
    /\ registry = [a \in Agents |-> None]
    /\ machines = [m \in Machines |-> None]
    /\ agentID = [s \in Sessions |-> None]
    /\ send = {}
    /\ currentCmdID = [s \in Sessions |-> None]
    /\ detached = {}
    /\ pc = [s \in Sessions |-> "new"]
    /\ cmd = [s \in Sessions |-> None]
    /\ found = [s \in Sessions |-> None]
    /\ mpc = [m \in MachineSessions |-> "new"]
    /\ grace = {}
    /\ cancelled = {}
    /\ timer = [c \in Commands |-> "none"]
    /\ status = [c \in Commands |-> "NONE"]
    /\ cmdAgent = [c \in Commands |-> None]
    /\ cancelling = {}

-----------------------------------------------------------------------------
(* Building blocks *)

\* Store.UpdateCommandStatus: an unconditional UPDATE of the status column.
UpdateCommandStatus(c, st) == status' = [status EXCEPT ![c] = st]

\* The statement fails: nothing is written, the caller logs or returns.
DbError == DbMayFail /\ status' = status

\* d.cancelGraceForAgent: take the agent's whole d.grace entry and cancel
\* every context in it.
GraceOf(a) == {c \in grace : cmdAgent[c] = a}

\* Mutant: the contexts are cancelled, the entry stays.
cancelGraceKeepsEntry(a) ==
    /\ grace' = grace
    /\ cancelled' = cancelled \cup GraceOf(a)

cancelGraceForAgent(a) ==
    /\ grace' = grace \ GraceOf(a)
    /\ cancelled' = cancelled \cup GraceOf(a)

\* d.startGracePeriod: enter the cancel function and start the goroutine.
startGracePeriod(c) ==
    /\ grace' = grace \cup {c}
    /\ timer' = [timer EXCEPT ![c] = "waiting"]

\* d.finishGrace, deferred by the goroutine: delete this command's own entry.
finishGrace(c) == grace' = grace \ {c}

\* AgentSession.ClearCurrentCommand, also inlined in HandleResult.
ClearCurrentCommand(s, c) ==
    currentCmdID' = [currentCmdID EXCEPT ![s] = IF @ = c THEN None ELSE @]

\* registry.deleteAgentIf: delete the entry only if s is still the current one.
IsCurrent(s) == agentID[s] # None /\ registry[agentID[s]] = s

\* Mutant: UnregisterAgent(agentID), not checking which session is current.
deleteAgentAlways(s) ==
    /\ registry' = [registry EXCEPT ![agentID[s]] = None]
    /\ detached' = detached \cup {s}

deleteAgentIf(s) ==
    IF IsCurrent(s)
      THEN /\ registry' = [registry EXCEPT ![agentID[s]] = None]
           /\ detached' = detached \cup {s}
      ELSE UNCHANGED <<registry, detached>>

\* The agent sessions deleteMachineWithAgents takes along with the machine.
OwnedAgents(m) == {a \in Agents : MachineOf[a] = m /\ registry[a] # None}

deleteMachineWithAgents(m) ==
    /\ machines' = [machines EXCEPT ![m] = None]
    /\ registry' = [a \in Agents |-> IF a \in OwnedAgents(m) THEN None ELSE registry[a]]
    /\ detached' = detached \cup {registry[a] : a \in OwnedAgents(m)}

-----------------------------------------------------------------------------
(* AgentChannel: one handler per stream *)

\* A stream opens, its first message is AgentReady(last): RegisterAgent, all
\* under the registry lock, then handleAgentReady.
RegisterAgent(s, a, last) ==
    /\ pc[s] = "new"
    /\ registry' = [registry EXCEPT ![a] = s]
    /\ send' = (send \ {registry[a]}) \cup {s}
    /\ agentID' = [agentID EXCEPT ![s] = a]
    /\ cancelGraceForAgent(a)
    /\ pc' = [pc EXCEPT ![s] = "ready"]
    /\ cmd' = [cmd EXCEPT ![s] = last]
    /\ UNCHANGED <<machines, currentCmdID, detached, found, mpc, timer, dbVars, cancelling>>

\* A later AgentReady on an open stream re-runs handleAgentReady only.
AgentReadyAgain(s, last) ==
    /\ pc[s] = "recv"
    /\ pc' = [pc EXCEPT ![s] = "ready"]
    /\ cmd' = [cmd EXCEPT ![s] = last]
    /\ UNCHANGED <<sessionVars, found, mpc, graceVars, dbVars, cancelling>>

\* handleAgentReady reads the declared command of this agent ...
StaleRunning(s) ==
    cmd[s] # None /\ cmdAgent[cmd[s]] = agentID[s] /\ status[cmd[s]] = "RUNNING"

ReadyLookup(s) ==
    /\ pc[s] = "ready"
    /\ \/ /\ StaleRunning(s)
          /\ pc' = [pc EXCEPT ![s] = "reap"]
          /\ cmd' = cmd
       \/ /\ StaleRunning(s) => DbMayFail
          /\ pc' = [pc EXCEPT ![s] = "recv"]
          /\ cmd' = [cmd EXCEPT ![s] = None]
    /\ UNCHANGED <<sessionVars, found, mpc, graceVars, dbVars, cancelling>>

\* ... and, in a second statement, marks it FAILED and drops it from its own
\* session.
ReadyReap(s) ==
    /\ pc[s] = "reap"
    /\ UpdateCommandStatus(cmd[s], "FAILED") \/ DbError
    /\ ClearCurrentCommand(s, cmd[s])
    /\ pc' = [pc EXCEPT ![s] = "recv"]
    /\ cmd' = [cmd EXCEPT ![s] = None]
    /\ UNCHANGED <<registry, machines, agentID, send, detached, found, mpc, graceVars, cmdAgent, cancelling>>

\* Mutant: a BeginSession hands out an existing RUNNING command.
BeginReuse(s, c) ==
    /\ pc[s] = "recv"
    /\ status[c] \in {"NONE", "RUNNING"}
    /\ UpdateCommandStatus(c, "RUNNING")
    /\ cmdAgent' = [cmdAgent EXCEPT ![c] = agentID[s]]
    /\ pc' = [pc EXCEPT ![s] = "created"]
    /\ cmd' = [cmd EXCEPT ![s] = c]
    /\ UNCHANGED <<sessionVars, found, mpc, graceVars, cancelling>>

\* HandleBeginSession with work to do: CreateCommand(RUNNING).  The idle reply
\* and the error returns before this point change nothing.
BeginCreate(s, c) ==
    /\ pc[s] = "recv"
    /\ status[c] = "NONE"
    /\ UpdateCommandStatus(c, "RUNNING")
    /\ cmdAgent' = [cmdAgent EXCEPT ![c] = agentID[s]]
    /\ pc' = [pc EXCEPT ![s] = "created"]
    /\ cmd' = [cmd EXCEPT ![s] = c]
    /\ UNCHANGED <<sessionVars, found, mpc, graceVars, cancelling>>

\* The second write of RUNNING (started_at), then getAgent.
BeginLookup(s) ==
    /\ pc[s] = "created"
    /\ UpdateCommandStatus(cmd[s], "RUNNING") \/ DbError
    /\ found' = [found EXCEPT ![s] = registry[agentID[s]]]
    /\ pc' = [pc EXCEPT ![s] = "bind"]
    /\ UNCHANGED <<sessionVars, cmd, mpc, graceVars, cmdAgent, cancelling>>

\* sess.currentCmdID = cmd.ID on the session found, whatever became of it.
BeginBind(s) ==
    /\ pc[s] = "bind"
    /\ currentCmdID' = IF found[s] = None THEN currentCmdID
                       ELSE [currentCmdID EXCEPT ![found[s]] = cmd[s]]
    /\ pc' = [pc EXCEPT ![s] = "recv"]
    /\ cmd' = [cmd EXCEPT ![s] = None]
    /\ found' = [found EXCEPT ![s] = None]
    /\ UNCHANGED <<registry, machines, agentID, send, detached, mpc, graceVars, dbVars, cancelling>>

\* HandleResult, first half: clear currentCmdID of the registered session if it
\* names this command.  (getAgent and the clear are one step: a session
\* replaced between them never runs this command again, so clearing it or not
\* cannot be told apart.)
ResultClear(s, c, st) ==
    /\ pc[s] = "recv"
    /\ status[c] # "NONE"
    /\ st \in {"COMPLETED", "FAILED"}
    /\ IF registry[agentID[s]] # None
         THEN ClearCurrentCommand(registry[agentID[s]], c)
         ELSE currentCmdID' = currentCmdID
    /\ pc' = [pc EXCEPT ![s] = st]
    /\ cmd' = [cmd EXCEPT ![s] = c]
    /\ UNCHANGED <<registry, machines, agentID, send, detached, found, mpc, graceVars, dbVars, cancelling>>

\* HandleResult, second half: write the terminal status.
ResultStore(s) ==
    /\ pc[s] \in {"COMPLETED", "FAILED"}
    /\ UpdateCommandStatus(cmd[s], pc[s]) \/ DbError
    /\ pc' = [pc EXCEPT ![s] = "recv"]
    /\ cmd' = [cmd EXCEPT ![s] = None]
    /\ UNCHANGED <<sessionVars, found, mpc, graceVars, cmdAgent, cancelling>>

\* Mutant: the handler returns without its deferred cleanup.
StreamClosesNoCleanup(s) ==
    /\ pc[s] = "recv"
    /\ pc' = [pc EXCEPT ![s] = "done"]
    /\ UNCHANGED <<sessionVars, cmd, found, mpc, graceVars, dbVars, cancelling>>

\* stream.Receive returns an error: the deferred UnregisterAgentIf runs.
StreamCloses(s) ==
    /\ pc[s] = "recv"
    /\ deleteAgentIf(s)
    /\ pc' = [pc EXCEPT ![s] = "done"]
    /\ UNCHANGED <<machines, agentID, send, currentCmdID, cmd, found, mpc, graceVars, dbVars, cancelling>>

\* checkSessionLiveness: a session idle for longer than pingTimeout is
\* unregistered; its stream and handler stay open.
ReapIdleSession(s) ==
    /\ s \in send /\ IsCurrent(s)
    /\ deleteAgentIf(s)
    /\ UNCHANGED <<machines, agentID, send, currentCmdID, handlerVars, mpc, graceVars, dbVars, cancelling>>

\* Mutant: the command is read from the agent's current session.
teardownByAgentID(s) ==
    LET cur == IF registry[agentID[s]] = None THEN s ELSE registry[agentID[s]]
    IN  /\ s \in detached
        /\ detached' = detached \ {s}
        /\ send' = send \ {s}
        /\ IF currentCmdID[cur] = None
             THEN UNCHANGED <<grace, timer>>
             ELSE startGracePeriod(currentCmdID[cur])
        /\ UNCHANGED <<registry, machines, agentID, currentCmdID, handlerVars, mpc, cancelled, dbVars, cancelling>>

\* Mutant: no check that the session has a command.
teardownArmsAlways(s) ==
    /\ s \in detached
    /\ detached' = detached \ {s}
    /\ send' = send \ {s}
    /\ startGracePeriod(currentCmdID[s])
    /\ UNCHANGED <<registry, machines, agentID, currentCmdID, handlerVars, mpc, cancelled, dbVars, cancelling>>

\* teardownAgentSession / one iteration of teardownMachineSession, outside the
\* registry lock: read currentCmdID, invalidate send, startGracePeriod.
teardownAgentSession(s) ==
    /\ s \in detached
    /\ detached' = detached \ {s}
    /\ send' = send \ {s}
    /\ IF currentCmdID[s] = None
         THEN UNCHANGED <<grace, timer>>
         ELSE startGracePeriod(currentCmdID[s])
    /\ UNCHANGED <<registry, machines, agentID, currentCmdID, handlerVars, mpc, cancelled, dbVars, cancelling>>

-----------------------------------------------------------------------------
(* MachineChannel.  RegisterMachine also drops the machine's self-upgrade       *)
(* progress, display data that nothing here reads.                             *)

RegisterMachine(ms, m) ==
    /\ mpc[ms] = "new"
    /\ machines' = [machines EXCEPT ![m] = ms]
    /\ mpc' = [mpc EXCEPT ![ms] = "recv"]
    /\ UNCHANGED <<registry, agentID, send, currentCmdID, detached, handlerVars, graceVars, dbVars, cancelling>>

\* The control stream ends: the deferred UnregisterMachineIf.
MachineStreamCloses(ms) ==
    /\ mpc[ms] = "recv"
    /\ mpc' = [mpc EXCEPT ![ms] = "done"]
    /\ \/ \E m \in Machines : machines[m] = ms /\ deleteMachineWithAgents(m)
       \/ /\ \A m \in Machines : machines[m] # ms
          /\ UNCHANGED <<machines, registry, detached>>
    /\ UNCHANGED <<agentID, send, currentCmdID, handlerVars, graceVars, dbVars, cancelling>>

\* UnregisterMachine: MachineDisconnect, RevokeMachineToken, ForceDisconnect,
\* and the ping monitor's UnregisterMachineIf on the current session.  The
\* stream handler itself stays in its receive loop.
UnregisterMachine(m) ==
    /\ machines[m] # None
    /\ deleteMachineWithAgents(m)
    /\ UNCHANGED <<agentID, send, currentCmdID, handlerVars, mpc, graceVars, dbVars, cancelling>>

-----------------------------------------------------------------------------
(* handleCommandGracePeriod, one goroutine per armed command *)

\* The 60 s pass.  A context cancelled at the same moment does not prevent
\* this: select picks either ready case.
GraceFires(c) ==
    /\ timer[c] = "waiting"
    /\ timer' = [timer EXCEPT ![c] = "fired"]
    /\ UNCHANGED <<sessionVars, handlerVars, mpc, grace, cancelled, dbVars, cancelling>>

GraceCancelled(c) ==
    /\ timer[c] = "waiting" /\ c \in cancelled
    /\ timer' = [timer EXCEPT ![c] = "done"]
    /\ finishGrace(c)
    /\ UNCHANGED <<sessionVars, handlerVars, mpc, cancelled, dbVars, cancelling>>

\* Mutant: the check is inverted.
GraceCheckInverted(c) ==
    /\ timer[c] = "fired"
    /\ IF registry[cmdAgent[c]] = None
         THEN timer' = [timer EXCEPT ![c] = "done"] /\ finishGrace(c)
         ELSE timer' = [timer EXCEPT ![c] = "failing"] /\ grace' = grace
    /\ UNCHANGED <<sessionVars, handlerVars, mpc, cancelled, dbVars, cancelling>>

\* The getAgent check: leave the command alone if the agent is back.
GraceCheck(c) ==
    /\ timer[c] = "fired"
    /\ IF registry[cmdAgent[c]] # None
         THEN timer' = [timer EXCEPT ![c] = "done"] /\ finishGrace(c)
         ELSE timer' = [timer EXCEPT ![c] = "failing"] /\ grace' = grace
    /\ UNCHANGED <<sessionVars, handlerVars, mpc, cancelled, dbVars, cancelling>>

\* The write, under a context that cancelGraceForAgent does not cancel.
GraceFail(c) ==
    /\ timer[c] = "failing"
    /\ UpdateCommandStatus(c, "FAILED") \/ DbError
    /\ timer' = [timer EXCEPT ![c] = "done"]
    /\ finishGrace(c)
    /\ UNCHANGED <<sessionVars, handlerVars, mpc, cancelled, cmdAgent, cancelling>>

-----------------------------------------------------------------------------
(* CommandService.CancelCommand: status check, best-effort push, write *)

CancelCheck(c) ==
    /\ c \notin cancelling
    /\ status[c] = "RUNNING"
    /\ cancelling' = cancelling \cup {c}
    /\ UNCHANGED <<sessionVars, handlerVars, mpc, graceVars, dbVars>>

CancelStore(c) ==
    /\ c \in cancelling
    /\ cancelling' = cancelling \ {c}
    /\ UpdateCommandStatus(c, "CANCELLED") \/ DbError
    /\ UNCHANGED <<sessionVars, handlerVars, mpc, graceVars, cmdAgent>>

\* The manager process stops and starts again: everything but the command
\* table is in memory and gone; open streams die with it.
ManagerRestart ==
    /\ registry' = [a \in Agents |-> None]
    /\ machines' = [m \in Machines |-> None]
    /\ send' = {}
    /\ currentCmdID' = [s \in Sessions |-> None]
    /\ detached' = {}
    /\ pc' = [s \in Sessions |-> IF pc[s] = "new" THEN "new" ELSE "done"]
    /\ cmd' = [s \in Sessions |-> None]
    /\ found' = [s \in Sessions |-> None]
    /\ mpc' = [ms \in MachineSessions |-> IF mpc[ms] = "new" THEN "new" ELSE "done"]
    /\ grace' = {}
    /\ timer' = [c \in Commands |-> IF timer[c] \in {"none", "done"} THEN timer[c] ELSE "lost"]
    /\ cancelling' = {}
    /\ UNCHANGED <<agentID, cancelled, dbVars>>

-----------------------------------------------------------------------------
HandlerStep(s) ==
    \/ ReadyLookup(s) \/ ReadyReap(s)
    \/ BeginLookup(s) \/ BeginBind(s)
    \/ ResultStore(s)

AgentMessage(s) ==
    \/ \E a \in Agents, last \in Commands \cup {None} : RegisterAgent(s, a, last)
    \/ \E last \in Commands \cup {None} : AgentReadyAgain(s, last)
    \/ \E c \in Commands : BeginCreate(s, c)
    \/ \E c \in Commands, st \in {"COMPLETED", "FAILED"} : ResultClear(s, c, st)

GraceStep(c) ==
    GraceFires(c) \/ GraceCancelled(c) \/ GraceCheck(c) \/ GraceFail(c)

Next ==
    \/ \E s \in Sessions :
         \/ AgentMessage(s) \/ HandlerStep(s)
         \/ StreamCloses(s) \/ ReapIdleSession(s) \/ teardownAgentSession(s)
    \/ \E ms \in MachineSessions :
         \/ \E m \in Machines : RegisterMachine(ms, m)
         \/ MachineStreamCloses(ms)
    \/ \E m \in Machines : UnregisterMachine(m)
    \/ \E c \in Commands : GraceStep(c) \/ CancelCheck(c) \/ CancelStore(c)
    \/ ManagerRestart

Spec == Init /\ [][Next]_vars

\* Goroutines that are not blocked on a message keep running: the handlers
\* inside a call, the teardowns and the grace timers.
FairSpec ==
    /\ Spec
    /\ \A s \in Sessions : WF_vars(HandlerStep(s)) /\ WF_vars(teardownAgentSession(s))
    /\ \A c \in Commands : WF_vars(GraceStep(c)) /\ WF_vars(CancelStore(c))

-----------------------------------------------------------------------------
(* Safety *)

\* A registered session belongs to its agent, can be sent to, is not about to be
\* torn down, and its stream handler is running: no reconnect, machine teardown
\* or late cleanup leaves a dead session in the registry.
RegisteredIsLive ==
    \A a \in Agents : registry[a] # None =>
        /\ agentID[registry[a]] = a
        /\ registry[a] \in send
        /\ registry[a] \notin detached
        /\ pc[registry[a]] \notin {"new", "done"}

\* Conversely, a session that can still be sent to is registered or has its
\* teardown pending: no session escapes the registry with a usable send.
NoLeakedSession ==
    \A s \in send : IsCurrent(s) \/ s \in detached

\* A grace timer never runs against the in-flight command of a session that has
\* not been torn down (UnregisterAgentIf: the old stream's teardown does not
\* "arm a grace timer against its in-flight command").
LiveCommandHasNoTimer ==
    \A s \in send : currentCmdID[s] # None => timer[currentCmdID[s]] = "none"

\* d.grace holds exactly the grace goroutines that run and have not been
\* cancelled, so a reconnect can always find and cancel the pending ones.
GraceTracksTimers ==
    \A c \in Commands :
        c \in grace <=> timer[c] \in {"waiting", "fired", "failing"} /\ c \notin cancelled

\* A command is armed at most once: startGracePeriod never overwrites the cancel
\* function of a goroutine that still runs, nor restarts one that ended.
ArmedAtMostOnce ==
    [][\A c \in Commands :
         timer'[c] = "waiting" /\ timer[c] # "waiting" => timer[c] = "none"]_vars

\* No two sessions have the same command as their current one, although
\* HandleBeginSession binds to whichever session is registered when it looks.
BoundAtMostOnce ==
    \A s, t \in Sessions :
        currentCmdID[s] # None /\ currentCmdID[s] = currentCmdID[t] => s = t

(* Liveness *)

\* Without database errors, a command whose grace timer was armed does not stay
\* RUNNING unless the agent came back (its timer was cancelled or a session is
\* registered when it fires) or the manager restarted and forgot the timer.
DisconnectResolves ==
    \A c \in Commands :
        timer[c] = "waiting" ~>
            \/ status[c] # "RUNNING"
            \/ c \in cancelled
            \/ registry[cmdAgent[c]] # None
            \/ timer[c] = "lost"

-----------------------------------------------------------------------------
(* What the comments say, and the code does not do *)

\* session_lifecycle.go: an "agent with an in-flight command" gets a grace period
\* that ends in FAILED; a command that has its COMPLETED result is not in flight.
GraceSparesFinished ==
    [][\A c \in Commands :
         timer[c] = "failing" /\ timer'[c] = "done" /\ status[c] = "COMPLETED"
           => status'[c] = "COMPLETED"]_vars

=============================================================================
