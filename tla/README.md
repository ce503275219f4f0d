# A TLA+ model of 888a2a

This directory specifies and checks the part of 888a2a that carries its
distributed behaviour: the Manager's dispatcher and its streams to machines and
agents, the durable outbox, the machine assignment log, A2A work records, approvals,
reminders, and conversations with the cursors of their readers.  Modules are written
from the Go source under `backend/`; `PROJECT.json` maps every definition to the
lines it models and lists components, runs, hazards, findings and theorems.

## 1. The system

A **Manager** (Go server, Postgres) serves users and owns agents.  A **Machine**
runs a client process that hosts agents.  Three kinds of long-lived connection
matter:

| connection | who | carries |
|---|---|---|
| `MachineChannel` | machine client - manager | roster pushes, assignment events, replay requests, acknowledgements, pings |
| `AgentChannel` | one runner per agent - manager | AgentReady, BeginSession and its reply, results, progress, cancel, pings |
| SQL | manager - Postgres | commands, outbox, assignment log, A2A work, approvals, reminders |

### Inventory

| component | state | operations | interacts through | hard part | what makes it correct |
|---|---|---|---|---|---|
| dispatcher (`manager/component/dispatcher`) | `registry.sessions`, `registry.machines`, each session's `send` and `currentCmdID`, `d.grace` | register, unregister, teardown, ping monitor, grace goroutines, BeginSession, Result | stream handlers, `command.status` | all of them run concurrently; teardown is outside the registry lock; the grace write is check-then-act | registry holds only live sessions, timers are tracked exactly and never run against a live command |
| stream handlers (`manager/api/v1/agent_command.go`, `machine_command.go`) | position in the receive loop | one case per message | dispatcher, store | late cleanup of an old stream, delayed AgentReady | the current session survives the old one's cleanup |
| agent runner and drain loop (`agent/client`) | `wakeCh`, `beginRespCh`, in-flight turn, `LocalState` file | start, stop, drain, run, result | AgentChannel, runtime process | replies vs. retries, drain goroutine outliving its stream, crash between save and clear | one turn per command, replies matched, a turn's end is reported |
| outbox (`manager/store/outbox*.go`) | status, attempts, worker, lease per event | enqueue, claim, ack, retry, replay; worker loop | handlers, several manager processes | lease expiry during delivery, crash between delivery and ack, one error ends the loop | delivered means sent, DELIVERED is final, budget kept, no claim forgotten, every event resolved |
| assignment log (`manager/store/machine_assignment.go`, `agent/assignment`, `agent/client/assignment_controller.go`) | log, acknowledged cursor, reducer, cursor file, runners | record, push, replay, ack, reconcile | outbox, MachineChannel | push races replay, lost acks, restart with an empty reducer and an old cursor file | reducer is a prefix of the log, nothing is skipped, runners converge |
| A2A work (`a2a/store.go`, `recovery.go`, `events.go`, `manager/store/a2a_work.go`) | work state and version, event sequence, subscribers' channels | send, update, cancel, reply, recover, append, subscribe | task tools, task store adapter | optimistic versions, recovery racing live writers, the sequence is read before the insert, overflowing channels | no lost update, terminal states spared, events gapless, streams in order |
| approvals (`manager/component/approval`, `manager/store/approval*.go`) | request state and count, decisions | create, decide, expire, cancel, supersede, execute, poll | permission checks of tools | transition evaluated on snapshots, polling waiter, expiry against quorum | an action runs only on an undenied quorum, a quorum resolves the request, what is resolved stays so, a resolved request ends the wait |
| reminders (`manager/component/scheduler`, `manager/store/reminder.go`) | status, fire time, retry time and count | scan due, scan retry, edit, cancel, complete, fail | wakes of the agent | two scans working on copies, crash between two statements | no stray retry timer, a fired reminder reaches its agent or is missed |
| conversations (`manager/api/v1/message_create.go`, `channel_message.go`, `command_message.go`, `manager/component/roomhub`, `manager/store/chat_message.go`, `agent_channel_cursor.go`) | room version, messages, hub subscriptions, agents' processed versions | send, post, long poll, notify, acknowledge | room hub, dispatcher wakes, drain loop | subscribe racing post, wakes that coalesce, versions read apart from the rows | no lost wake-up, a message opens a session, a cursor covers what was shown |
| A2A orchestration and budgets (`a2a/orchestration`, `a2a/budget.go`) | work tree, used children and tokens | delegate, fan out, cancel | work store | check-then-act on budgets, cancel racing completion | limits hold, cancel reaches every descendant |
| tenant queue, command bus, pending replies | in-memory queues and maps | enqueue/dequeue, publish, register/complete | outbox, stream handlers, RPCs | limits, late replies | fair order, one reply per waiter |
| executors, providers, supervisor, daemon, connectors, IAM, tokens, message plane, frontend | - | - | - | external programs and I/O | not modelled, see section 5 and `PROJECT.json` |

## 2. Modules

| module | role |
|---|---|
| `Dispatcher` | the dispatcher with arbitrary messages on its streams: the abstract specification |
| `AgentChannel` | extends it with the real client, its files, FIFO links and failures |
| `Outbox` | the outbox table and its workers |
| `AssignmentLog` | the assignment log of one machine, end to end |
| `WorkStore` | one A2A work record, its event log and its subscribers |
| `ApprovalLifecycle` | an approval request as one step per decision: the abstract specification |
| `Approval` | the request as the code handles it, with reads, transaction and polling; implements `ApprovalLifecycle` while calls do not overlap |
| `Reminder` | one reminder row, the two scans, the API calls, the agent's wake |
| `Inbox` | one conversation with posters, long-polling watchers and agents |
| `DispatcherProofs`, `AgentChannelProofs`, `OutboxProofs`, `ApprovalProofs`, `WorkStoreProofs`, `ReminderProofs`, `InboxProofs`, `AssignmentLogProofs` | theorems |
| `MC*` | constants for TLC |

**Dispatcher.**  An action is one critical section or one SQL statement, so every
point where another goroutine can get in between is a state.  `registry`,
`machines`, `send`, `currentCmdID` and `grace` are the Go fields of these names;
`detached` are sessions deleted from the registry whose `teardownAgentSession` has
not run yet; `pc`, `cmd` and `found` are the position and locals of an
`AgentChannel` handler; `timer` is the goroutine of `handleCommandGracePeriod`.
`UpdateCommandStatus` is an unconditional UPDATE, as in the store.  With
`DbMayFail` any statement may fail; the code then logs and goes on.  A manager
restart forgets everything but the command table.  Not represented because no
modelled state depends on it: progress and event forwarding, steering, wakes,
discovery and workspace requests, self-upgrade progress.

**AgentChannel.**  Adds `mainLoop` and the drain loop of each stream, the two FIFO
directions of the link, and the `LocalState` file.  A link breaks at any time; each
side notices on its own.  A send on a broken link is lost.  A turn is a step that
ends in success or failure, which includes a turn stopped by a Cancel message.
Wakes are not modelled: the drain loop may start a BeginSession at any time.  A
BeginSession may also fail without a failed statement (`HandleBeginSession` errs for an agent
that is gone), so `ReceiveBeginError`, which sends no reply, is always possible.  A
runner may reopen a stream whenever its previous `mainLoop` has returned; the
reasons for which a client does so are not distinguished.

**Outbox.**  One action per SQL statement.  Time is free: a lease may run out and a
delay may end at any moment.  A handler succeeds or fails; a refusal by the tenant
queue or limiter is a failure.  Any statement may fail, which ends its worker; the
history variable `failed` remembers the workers this happened to.  `MaxReplays` bounds
operator replays and process restarts.

**AssignmentLog.**  The receive pump of the machine handles one message completely
before the next, so a message is one action and the machine is a record that the
handlers transform (`ApplyAssignmentEvent`, `Replayed`, ...).  A config is named by the
sequence of the event that carried it.  `pushed` says how callers fill in events: the
outbox payload is the caller's event and not the stored one, so its copy may equal the
stored event, differ from it in `created_at`, or be invalid.  One control stream at a
time.  The store checks no roster, so any event may be recorded: one that the reducer refuses
(a CREATE of an existing agent, an UPDATE or DELETE of an absent one) is refused on every
replay and stops the log there.  `Converges` is stated of logs without such an event
(`SensibleLog`); the safety properties hold of all.

**WorkStore.**  One row and its log.  An operation reads the row, writes it with
`WHERE version = $n` (`UpdateWorkState`), reads the latest sequence, appends its event
and publishes it to the subscribers; each of these is a step and each may fail, which
leaves what was done before.  `op[w]` holds what the operation read.  TaskSend inserts
under an idempotency key, TaskCancel and recovery refuse terminal states on the row they
read, TaskReply and the adapter's Update do not.  A subscriber registers, replays at most `ReplayLimit`
rows, then filters its channel by the last sequence it yielded; a full channel drops
the event.  COMPLETED and CANCELED stand for the four terminal states, WORKING for the
ones in between.  Contexts, artifacts and usage counters are left out.

**Approval.**  `ApplyTransition` resolves who may decide (the policy names principals
through groups and roles that change between calls, so the set is an input), reads the
request, reads the decisions, evaluates the transition on these snapshots, and commits a
transaction that compares the state column only; the table's CHECK refuses a count above
`required_approvals` (`CountAllowed`).  An approver has one spelling here, while the
evaluation takes `users/x` and `x` for one approver and the unique index has the id as
given.  A permission check creates or finds the
request by the hash of its intent and polls.  `ApprovalLifecycle` records a decision and moves the state in
one step: an approval that makes the quorum makes the request APPROVED.  `ImplementsLifecycle`
is the refinement; it holds while calls do not overlap, and two at once break it.  The checker's own EXECUTE passes a nil
policy, which the evaluation refuses, so a poll that finds APPROVED allows the action and
changes nothing; other callers of EXECUTE are an input.

**Reminder.**  The row is abstracted to whether its fire time has passed, whether it
recurs, its status, its retry count and its retry timer.  Each scan lists rows and then
works on its copy, one statement per step.  Conditions in the WHERE clauses are guards;
where the code has none, a stale scan writes.  `MarkMissedAndPostNotification` is the
statement sequence of the code, whose version bump is called with one argument for two
parameters: the transaction fails (`VersionBumps`), as does a completion.
COMPLETED stands for FAILED too.

**Inbox.**  A message is its room version.  `Insert` is the transaction that bumps the
version and inserts; notification of the hub, of the agents and, for an agent's post, the
cursor are later steps of the handler (`post`), which go on when the agent disconnects or its
session ends meanwhile; a fault may skip the second or the third.  An agent has one post
under way at a time.  The hub's channel and `wakeCh` hold one signal each.  A
watcher lists, reads the version in a second statement, subscribes, lists again, and waits.  An agent's
drain loop takes a wake, asks for a session, which is refused when there is nothing beyond
its cursor, lists one page (`PageSize`) but keeps the room's version, works, and posts with the version check
before the insert, or acknowledges; a version conflict shows it `ConflictPage` messages.  A
watcher's listing is not paged.  A "reply" is anything that bumps the version and that readers do not list.

The `\* Mutant` definitions are plausible bugs; each property is shown to fail when one
of them replaces the definition it precedes.

## 3. Runs

| run | result | shows |
|---|---|---|
| `channel_safety` | pass, 4.4 M states | under every interleaving of two streams of an agent, two control streams, failing statements, machine teardowns, crashes and restarts: registry, send pointers and `d.grace` stay consistent, replies are awaited, turns not shared, only abandoned commands reaped |
| `channel_live` | pass, 55 k states | a command that BeginSession creates, and the command of a turn, leave RUNNING unless the stream breaks; a grace timer resolves its command |
| `outbox` | pass, 312 k states | deliveries are real and final, the budget is kept, no claim is forgotten, some worker survives unless a statement fails, every event is resolved while a worker runs |
| `assignment` | pass, 586 k states | the reducer is a prefix of the log, nothing is skipped, runners converge if the log fits its roster |
| `work` | pass, 3.9 M states | an operation writes only over the state it read, cancel and recovery spare terminal states, the log has no gap, streams move forward |
| `approval` | pass, 1.8 M states | decisions and resolutions are final, an action needs an undenied quorum, a resolved request ends the wait |
| `reminder` | pass, 461 k states | no retry timer outlives DUE, a fired reminder reaches a connected agent unless a fault hit |
| `inbox` | pass, 1.3 M states | no wake-up of a long poll is lost, a message beyond an idle agent's cursor opens a session unless a notification was not sent |
| `dispatcher_grace` | violation | a grace timer turns COMPLETED into FAILED |
| `reminder_miss` | violation | an exhausted backoff never ends in MISSED: its transaction always fails and is retried for ever |
| `approval_quorum` | violation | two approvals decided on the same snapshot leave a request PENDING although its quorum has approved |
| `inbox_skip` | violation | an agent's cursor moves past a message it was never shown |

The violations are disagreements between the code and its comments or requirements, quoted
under `findings`.  A quorum lost as in `approval_quorum` is lost for good: a further approval would
count one more than the table's CHECK allows, so the request can only be denied, cancelled,
superseded or expire.

Further observations the models reach, listed as hazards: a reconnect cancels the timers of
all the agent's commands and leaves those RUNNING that AgentReady does not name; a
BeginSession that fails gets no reply, as the handler drops the error, and leaves the drain loop
waiting for one, so that the retry described in `drain_runner.go` is never reached; one failed statement ends an outbox worker; a late duplicate
of an assignment event with another `created_at` ends the control stream; with
`SaveMayFail`, a request after a failed cursor write starts beyond what the reducer has: no
replay brings the events in between, and later events are refused as a gap; the checker's EXECUTE is
always refused, so an approval can be used again; one event that does not fit the roster stops
a machine's log; a crash between MarkDue and the wake leaves a DUE reminder that no scan
picks up.

**Bounds.**  Two streams of one agent give every replacement race: old against new,
in any order of registration, cleanup, teardown and timer, and two control streams the same
for the machine; one command is enough to be bound, armed, reaped and reported twice.  More
streams, commands and agents, and streams that carry arbitrary messages, are covered by the
proofs: the invariants of the registry are theorems about `Spec`, which `ChannelSpec`
implements.  `channel_live` uses one stream, since its properties
excuse a stream that broke.  Two workers and two events, a budget of two attempts and one
restart give take-over, double delivery, dead letter and replay.  Three events of one
agent give create, update and remove in a log and let a push be older than the last
acknowledgement; one fault gives a disconnect, a restart or a redelivery.
`work`: two operations collide in every pair of statements; a buffer of one overflows; a replay
limit of two and a log that may grow past it let a replay be cut off; version 3 allows a
create, a change and an overwrite.  `approval`: a quorum of two of three principals, of whom
one is the requester and one the agent's owner; two calls hold snapshots at a time
and any number follow each other.  `reminder`: two retries make a first, a last and an exhausted one; two callers edit and
complete at once; one failed statement or crash.  `inbox`: three messages after the first, by
a user and the agent, so that one can land in each gap of the other's post or of a poll, and
pages of one message, so that a page is not all there is; `inbox_skip` has pages that hold
everything, so that its trace is due to the two statements and not to the page.
Streams, commands and writers are symmetric in the safety runs.  `CHECK_DEADLOCK FALSE` in
the runs of `Dispatcher`, `AgentChannel`, `Outbox` and `AssignmentLog`: their streams,
commands, events and faults are finite, so they may come to rest.  The other runs check
deadlock.

**Fairness.**  Weak fairness of goroutines that are not waiting for a message: handlers
inside a call, receive loops with something buffered, teardowns, grace timers, the drain
loop with a reply, a turn (its runtime exits or is killed), the outbox ticker and the
clock, the client's reconnect loop, the ticker of an approval check, the two scans of the
scheduler and the retry time, the notifications of a poster, and the drain loop of a
connected agent up to the start of its session.
Nothing is assumed of users, operators, approvers, links, crashes, connecting agents or new events.
Only `channel_live` assumes that statements do not fail.

## 4. Proofs

TLAPS proves, for every value of the constants allowed by the modules' ASSUMEs:

* `DispatcherProofs`: `TypeOK`, `RegisteredIsLive`, `NoLeakedSession`,
  `LiveCommandHasNoTimer`, `GraceTracksTimers`, `BoundAtMostOnce` and `ArmedAtMostOnce`.
  None of them is inductive alone: that a timer is armed once needs that no two
  sessions have the same command, which needs that a handler's created command is bound
  nowhere and belongs to no other handler (`CreatingOK`), that a session has its agent's
  commands (`SessionsOK`), and that timers exist only for created commands (`TimersOK`,
  `WritingOK`).  `IInv` is their conjunction; there is one lemma per action.
  `ArmedAtMostOnce` follows because only a teardown arms (`OnlyTeardownArms`) and the
  session still has its send, so by `LiveCommandHasNoTimer` there was no timer.
* `AgentChannelProofs`: `ChannelSpec => Spec`.  Every step of the composition is a step
  of the dispatcher or leaves it unchanged, given `ClientOK` (messages are well formed
  and come from an opened stream).  All theorems above therefore hold of the composition.
  Its own invariants `ChannelTypeOK`, `ReplyAwaited`, `ReapsOnlyAbandoned` and
  `NoSharedTurn` follow from `ChannelInv`, for any number of streams, agents and commands:
  * `BeginInv`: BeginSession and its reply take turns.  Nothing is behind a request in the
    channel, a request is not answered twice, and what is left of an exchange is awaited or
    belongs to a drain loop that has ended.
  * `CommandInv`: a command belongs to the stream it was created on; it is in the handler,
    in the reply, or in the turn of at most one (`Holds`).  `LocalState` names commands of
    the agent's own streams only.  So when an AgentReady is built from it, the streams that
    hold the command have no `mainLoop` (`agentRunner.stop` waited for it), and a `mainLoop`
    does not come back: whatever a delayed AgentReady reaps is abandoned (`Declares`).
    `ReapsOnlyAbandoned` alone is not inductive, as it says nothing of the message before it
    is handled nor of the file it was built from.
  * `UnopenedInv`: a stream that is not open yet is untouched.

  A step changes one stream, so the lemma `OtherStreams` disposes of the others, and
  `CommandInvKept` and `QuietHandler` of the steps that hand no command over.
* `OutboxProofs`: `TypeOK`, `DeliveredWasSent`, `BudgetKept` and `DeliveredFinal` from the
  invariant that a worker about to ack has sent its current event and no longer has it in its
  batch.  `ClaimsHeld` needs in addition that a worker claims with empty hands (`HandsFree`).  `SomeWorkerRuns` (unless a statement has failed)
  from `SomeSafeWorker`: some running worker owns all it holds.  A claim makes its
  claimant such a worker, and nobody else touches an owned row except by a claim.

* `ApprovalProofs`: `TypeOK`, `AllowedByQuorum` and `ResolvedFinal`, for any
  policy, quorum and number of calls and checks, and `ImplementsLifecycle` for one caller
  (`SerialStoreImplementsLifecycle`).  The invariant says what a stale snapshot
  is still good for: the approvals a call saw have not gone away (`CallInv`), so the count
  it computes can only be too small; and APPROVED implies a quorum and no denial
  (`StateInv`), and is left for EXECUTED only (`AllowedInv`).  With one caller a snapshot is
  still what the row holds when the call commits (`SerialInv`), so its count is exact and every
  commit is one step of the lifecycle; that is what two calls at once lack.
* `WorkStoreProofs`: `TypeOK`, `LogGapless`, `NoLostUpdate`, `DoneSpared`,
  `StreamOrdered`.  Two operations may compute the same sequence; the one that loses the
  insert fails, and the sequence before an operation's own is in the log (`OpInv`), so the log
  stays an interval (`LogInv`).  An operation whose version is still the row's has read the row's state
  (`OpInv` again), which gives the action properties; `SubInv` says that a stream's filter
  covers what it yielded.
* `ReminderProofs`: `TypeOK` with the bound on the retry count, and `TimerOnlyWhileDue`.
  Both need `RetryLeft`: a scan that is about to schedule a retry has one left in its copy.
* `InboxProofs`: `TypeOK` and `NoLostWakeup`, for any numbers of posters and watchers.
  `PollInv` says that a poll that reads again or waits is subscribed; `WakeInv` extends
  the property to the second reading: from the subscription on, a message the poll has not
  found has left a signal or its poster is about to notify.  `PostInv` and `AgentInv` bound
  the versions held by posts and by sessions.
* `AssignmentLogProofs`: `TypeOK` and `ReducerMatchesLog`, for any log, any number of
  agents and of faults, and whether or not the cursor file can be written; `NoEventSkipped`
  under `~SaveMayFail`, which it needs: with `SaveMayFail` TLC finds a replay that starts
  beyond the reducer.  The invariant says that each message names sequences of the log as
  it is by now (`StreamOK`), that the reducer is a prefix of the log with the roster of that
  prefix (`Reduces`), and that a reducer that holds something has a cursor within it
  (`MachineOK`).  A replay applies any number of events in one action.  `AppliedThrough` is
  a recursive function, so the proof shows that its table exists (`AppliedTable`) and that every
  entry is a machine as in the invariant (`AppliedKeeps`), both by `RangeInduction`: a set
  that has the start of a range and every successor has the range.  That lemma takes a set
  where the library's induction theorems take an operator, and follows from the
  well-foundedness of `<`.  `RosterStep` and `RosterOfPrefix` relate the rosters of
  a prefix, of the next one, and of the same one in a longer log.

Only model-checked: liveness, since fairness and ENABLED are out of the prover's reach
(`DisconnectResolves`, `CreatedReported`, `TurnReported`, `ResolvedWhileRunning`, `Converges`,
`ResolvedEndsWait`, `FireNoticed`, `MessageOpensSession`).  Every invariant and every action
property of a passing run is stated by a theorem.

## 5. Plan and what is not modelled

Done: the modules above, in the order of importance for losing or duplicating work, and
theorems for all their invariants and action properties.
Next, in this order:

1. Overlapping control streams in `AssignmentLog` (a straggling receive pump, a replay sent
   to a newer session); composition with `Outbox` in place of `Push` and `GiveUp`.
2. The life cycle of the machine's runners, with the reasons for which a stream is reopened.
3. `TenantQueue`: per-tenant limits and round-robin order, as a module that `Outbox`
   abstracts; command bus and pending replies.
4. `Delegation`: the work tree with depth, child and token limits, fan-out and cascading
   cancel on top of `WorkStore`, once the orchestration package is wired: it has no
   caller outside tests, so which of its calls interleave is open.

Not modelled:

* generated code (`generated-go`), which is most of the repository's lines, and the
  frontend, deployment and scripts: no behaviour of their own;
* executors, ACP and Pi sessions, providers, runtimes, connectors, vault, mailer, web push,
  MCP, storage, devices: drivers of external programs and services; what they report is a
  free choice of the modules that use them;
* IAM, policy, directory, cards and other request validation: lookups without state;
* the message plane: a second storage path that is off by default;
* nonces, heartbeat buffer, machine tokens: small caches with expiry, of which only the
  effect on the registry is an action of `Dispatcher`;
* the content of turns, prompts and messages: text, which no modelled control depends on.

## 6. Running

    tlc -workers 2 -config AgentChannel_safety.cfg MCAgentChannel
    tlapm DispatcherProofs.tla
