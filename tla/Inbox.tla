-------------------------------- MODULE Inbox --------------------------------
(***************************************************************************)
(* One conversation: its room version and messages, the people who post, the   *)
(* long-polling watchers of the frontend with the room hub that wakes them,    *)
(* and the member agents with their durable cursors, wakes and drain loops.    *)
(*                                                                         *)
(* Every statement and every notification is a step of its own.  A message is  *)
(* its room version.  "root" messages are what watchers list and agents work   *)
(* on; a "reply" stands for what bumps the version and neither of them reads   *)
(* (replies in threads the agent does not follow, for an agent also system     *)
(* messages).                                                                  *)
(***************************************************************************)
EXTENDS Naturals, Sequences, FiniteSets

CONSTANTS
    Users,        \* people posting concurrently (SendMessage)
    Watchers,     \* frontend watchers of the conversation
    Agents,       \* agent members
    PageSize,     \* messages an agent's read returns (20, 100 at most)
    ConflictPage, \* messages a version conflict returns (50)
    MaxVersion,   \* bound on the room version
    MaxFaults,    \* bound on notifications not sent and failed upserts
    None

ASSUME InboxConstants ==
    /\ PageSize \in Nat \ {0} /\ ConflictPage \in Nat \ {0}
    /\ MaxVersion \in Nat \ {0}
    /\ MaxFaults \in Nat
    /\ Users \cap Agents = {} /\ Watchers \cap Agents = {}

VARIABLES
    msgs,     \* the messages: kind and author, by room version
    post,     \* per poster: what its SendMessage or PostMessage call has still to do
    posted,   \* per poster: the version of its latest message, 0 for none
    poll,     \* per watcher: the ListConversationMessages call
    signal,   \* per watcher: its hub channel, which holds one signal
    agent,    \* per agent: its drain loop and session
    wake,     \* per agent: wakeCh, which holds one wake
    cursor,   \* per reader: chatCurrentVersion, or processed_version
    shown,    \* per reader: the messages it was given
    faults

vars == <<msgs, post, posted, poll, signal, agent, wake, cursor, shown, faults>>

Posters  == Users \cup Agents
Readers  == Watchers \cup Agents
Versions == 1..MaxVersion

PostSteps == {"idle", "hub", "agents", "cursor"}

Message   == [kind : {"root", "reply"}, by : Posters \cup {None}]
PollType  == [pc : {"read", "version", "subscribe", "reread", "reversion", "select"}, subscribed : BOOLEAN,
              found : SUBSET Versions, version : 0..MaxVersion]
AgentType == [pc : {"off", "wait", "begin", "read", "version", "work", "commit", "posting", "upsert"},
              base : 0..MaxVersion]

TypeOK ==
    /\ msgs \in Seq(Message) /\ Len(msgs) \in Versions
    /\ post \in [Posters -> PostSteps]
    /\ posted \in [Posters -> 0..Len(msgs)]
    /\ poll \in [Watchers -> PollType]
    /\ signal \in [Watchers -> BOOLEAN]
    /\ agent \in [Agents -> AgentType]
    /\ wake \in [Agents -> BOOLEAN]
    /\ cursor \in [Readers -> 1..Len(msgs)]
    /\ shown \in [Readers -> SUBSET Versions]
    /\ faults \in 0..MaxFaults

NewPoll   == [pc |-> "read", subscribed |-> FALSE, found |-> {}, version |-> 0]
Agent(pc) == [pc |-> pc, base |-> 0]

\* A conversation with one message, which the watchers have loaded and at which
\* the cursors of the agents were seeded.
Init ==
    /\ msgs = <<[kind |-> "root", by |-> None]>>
    /\ post = [p \in Posters |-> "idle"]
    /\ posted = [p \in Posters |-> 0]
    /\ poll = [w \in Watchers |-> NewPoll]
    /\ signal = [w \in Watchers |-> FALSE]
    /\ agent = [a \in Agents |-> Agent("off")]
    /\ wake = [a \in Agents |-> FALSE]
    /\ cursor = [r \in Readers |-> 1]
    /\ shown = [r \in Readers |-> {1}]
    /\ faults = 0

Version      == Len(msgs)
Roots(after) == {v \in 1..Version : v > after /\ msgs[v].kind = "root"}

\* A page of the listing: the oldest n of them.
Page(after, n) == {v \in Roots(after) : Cardinality({u \in Roots(after) : u < v}) < n}

-----------------------------------------------------------------------------
(* createMessage *)

\* CreateChatMessageBumpVersion: the bump and the insert in one transaction.
Insert(p, kind) ==
    /\ Version < MaxVersion
    /\ msgs' = Append(msgs, [kind |-> kind, by |-> p])
    /\ posted' = [posted EXCEPT ![p] = Version + 1]

SendMessage(u, kind) ==
    /\ post[u] = "idle"
    /\ Insert(u, kind)
    /\ post' = [post EXCEPT ![u] = "hub"]
    /\ UNCHANGED <<poll, signal, agent, wake, cursor, shown, faults>>

\* createMessage is done; PostMessage has the poster's own cursor to move.
AfterNotify(p) == IF p \in Agents THEN "cursor" ELSE "idle"

\* Hub.NotifyConversation, after the commit: every registered channel.  The agents
\* come next; a reply goes to the participants of its thread, which are not modelled.
NotifyConversation(p) ==
    /\ post[p] = "hub"
    /\ signal' = [w \in Watchers |-> signal[w] \/ poll[w].subscribed]
    /\ post' = [post EXCEPT ![p] = IF msgs[posted[p]].kind = "root" THEN "agents" ELSE AfterNotify(p)]
    /\ UNCHANGED <<msgs, posted, poll, agent, wake, cursor, shown, faults>>

\* A wake reaches the connected agents but the poster.
WakeAgents(p) == [a \in Agents |-> wake[a] \/ (agent[a].pc # "off" /\ a # p)]

\* notifyConversationAgents.
NotifyConversationAgents(p) ==
    /\ post[p] = "agents"
    /\ wake' = WakeAgents(p)
    /\ post' = [post EXCEPT ![p] = AfterNotify(p)]
    /\ UNCHANGED <<msgs, posted, poll, signal, agent, cursor, shown, faults>>

\* The members cannot be listed: nobody is woken, and the handler goes on.
NotifyAgentsFails(p) ==
    /\ post[p] = "agents" /\ faults < MaxFaults
    /\ post' = [post EXCEPT ![p] = AfterNotify(p)]
    /\ faults' = faults + 1
    /\ UNCHANGED <<msgs, posted, poll, signal, agent, wake, cursor, shown>>

\* Mutant: the cursor is the next version to process.
UpsertCursorNext(a, v) == cursor' = [cursor EXCEPT ![a] = IF v > @ THEN v + 1 ELSE @]

\* UpsertCursor: GREATEST keeps the cursor from going back.
UpsertCursor(a, v) == cursor' = [cursor EXCEPT ![a] = IF v > @ THEN v ELSE @]

\* PostMessage, after the notifications: the cursor moves to the version of the post.
AdvancePostingCursor(a) ==
    /\ post[a] = "cursor"
    /\ UpsertCursor(a, posted[a])
    /\ post' = [post EXCEPT ![a] = "idle"]
    /\ UNCHANGED <<msgs, posted, poll, signal, agent, wake, shown, faults>>

\* The upsert fails: a warning, and the post is still reported as committed.
AdvancePostingFails(a) ==
    /\ post[a] = "cursor" /\ faults < MaxFaults
    /\ post' = [post EXCEPT ![a] = "idle"]
    /\ faults' = faults + 1
    /\ UNCHANGED <<msgs, posted, poll, signal, agent, wake, cursor, shown>>

-----------------------------------------------------------------------------
(* ListConversationMessages with wait_ms, and the watcher that calls it again *)

\* The store's listing, its first statement ...
ListRoots(w) ==
    /\ poll[w].pc \in {"read", "reread"}
    /\ poll' = [poll EXCEPT ![w].pc = IF @ = "read" THEN "version" ELSE "reversion",
                            ![w].found = Roots(cursor[w])]
    /\ UNCHANGED <<msgs, post, posted, signal, agent, wake, cursor, shown, faults>>

\* The call returns: the watcher merges what was found, takes the version as its
\* cursor and polls again.
PollReturns(w, version) ==
    /\ cursor' = [cursor EXCEPT ![w] = version]
    /\ shown' = [shown EXCEPT ![w] = @ \cup poll[w].found]
    /\ poll' = [poll EXCEPT ![w] = NewPoll]
    /\ signal' = [signal EXCEPT ![w] = FALSE]

\* ... and its second, the current version.
ReadVersion(w) ==
    /\ poll[w].pc \in {"version", "reversion"}
    /\ IF poll[w].found # {}
       THEN PollReturns(w, Version)
       ELSE /\ poll' = [poll EXCEPT ![w].pc = IF @ = "version" THEN "subscribe" ELSE "select",
                                    ![w].version = Version]
            /\ UNCHANGED <<signal, cursor, shown>>
    /\ UNCHANGED <<msgs, post, posted, agent, wake, faults>>

\* Mutant: longPollDelta registers after its read, and not before.
SubscribeLate(w) ==
    /\ poll[w].pc = "subscribe"
    /\ poll' = [poll EXCEPT ![w].pc = "select", ![w].subscribed = TRUE]
    /\ UNCHANGED <<msgs, post, posted, signal, agent, wake, cursor, shown, faults>>

\* longPollDelta: register, and read again.
Subscribe(w) ==
    /\ poll[w].pc = "subscribe"
    /\ poll' = [poll EXCEPT ![w].pc = "reread", ![w].subscribed = TRUE]
    /\ UNCHANGED <<msgs, post, posted, signal, agent, wake, cursor, shown, faults>>

Wakes(w) ==
    /\ poll[w].pc = "select" /\ signal[w]
    /\ signal' = [signal EXCEPT ![w] = FALSE]
    /\ poll' = [poll EXCEPT ![w].pc = "reread"]
    /\ UNCHANGED <<msgs, post, posted, agent, wake, cursor, shown, faults>>

\* The timer: the call returns empty, with the version it read last.
PollTimesOut(w) ==
    /\ poll[w].pc = "select"
    /\ PollReturns(w, poll[w].version)
    /\ UNCHANGED <<msgs, post, posted, agent, wake, faults>>

-----------------------------------------------------------------------------
(* Agents: connection, drain loop and session *)

\* The drain loop gives itself a wake, and AgentReady causes one.
Connect(a) ==
    /\ agent[a].pc = "off"
    /\ agent' = [agent EXCEPT ![a] = Agent("wait")]
    /\ wake' = [wake EXCEPT ![a] = TRUE]
    /\ UNCHANGED <<msgs, post, posted, poll, signal, cursor, shown, faults>>

\* The stream or the agent's process ends; a post that was committed goes on.
Disconnect(a) ==
    /\ agent[a].pc # "off"
    /\ agent' = [agent EXCEPT ![a] = Agent("off")]
    /\ wake' = [wake EXCEPT ![a] = FALSE]
    /\ UNCHANGED <<msgs, post, posted, poll, signal, cursor, shown, faults>>

Session(a, pc) == agent' = [agent EXCEPT ![a].pc = pc]

TakeWake(a) ==
    /\ agent[a].pc = "wait" /\ wake[a]
    /\ wake' = [wake EXCEPT ![a] = FALSE]
    /\ Session(a, "begin")
    /\ UNCHANGED <<msgs, post, posted, poll, signal, cursor, shown, faults>>

\* Mutant: off by one at the cursor.
HasUpdatesOffByOne(a) == Roots(cursor[a] + 1) # {}

\* A root message beyond the cursor, the agent's own included.
HasUpdates(a) == Roots(cursor[a]) # {}

\* BeginSession, again after every session until the reply is idle.
BeginSession(a) ==
    /\ agent[a].pc = "begin"
    /\ Session(a, IF HasUpdates(a) THEN "read" ELSE "wait")
    /\ UNCHANGED <<msgs, post, posted, poll, signal, wake, cursor, shown, faults>>

\* message read: the same two statements, one page; the agent keeps current_version,
\* which is the room's and not the page's.
ReadMessages(a) ==
    /\ agent[a].pc = "read"
    /\ shown' = [shown EXCEPT ![a] = @ \cup Page(cursor[a], PageSize)]
    /\ Session(a, "version")
    /\ UNCHANGED <<msgs, post, posted, poll, signal, wake, cursor, faults>>

ReadCurrentVersion(a) ==
    /\ agent[a].pc = "version"
    /\ agent' = [agent EXCEPT ![a] = [pc |-> "work", base |-> Version]]
    /\ UNCHANGED <<msgs, post, posted, poll, signal, wake, cursor, shown, faults>>

\* PostMessage: GetConversation and the comparison with base_version.  On a conflict
\* the agent gets the new messages and the version it read.
CheckBaseVersion(a) ==
    /\ agent[a].pc = "work"
    /\ IF agent[a].base = Version
       THEN Session(a, "commit") /\ UNCHANGED shown
       ELSE /\ agent' = [agent EXCEPT ![a].base = Version]
            /\ shown' = [shown EXCEPT ![a] = @ \cup Page(agent[a].base, ConflictPage)]
    /\ UNCHANGED <<msgs, post, posted, poll, signal, wake, cursor, faults>>

\* The insert does not compare the version again.  An agent has one post under way.
CommitPost(a) ==
    /\ agent[a].pc = "commit" /\ post[a] = "idle"
    /\ Insert(a, "root")
    /\ post' = [post EXCEPT ![a] = "hub"]
    /\ agent' = [agent EXCEPT ![a] = [pc |-> "posting", base |-> Version + 1]]
    /\ shown' = [shown EXCEPT ![a] = @ \cup {Version + 1}]
    /\ UNCHANGED <<poll, signal, wake, cursor, faults>>

\* The answer, with the version of the post.
PostReturns(a) ==
    /\ agent[a].pc = "posting" /\ post[a] = "idle"
    /\ Session(a, "upsert")
    /\ UNCHANGED <<msgs, post, posted, poll, signal, wake, cursor, shown, faults>>

\* message ack with the current_version of the read, or of the post.
AckProcessedVersion(a) ==
    /\ agent[a].pc \in {"work", "upsert"}
    /\ UpsertCursor(a, agent[a].base)
    /\ agent' = [agent EXCEPT ![a] = Agent("begin")]
    /\ UNCHANGED <<msgs, post, posted, poll, signal, wake, shown, faults>>

\* The session ends without an ack.
SessionEnds(a) ==
    /\ agent[a].pc \in {"read", "version", "work", "commit", "posting", "upsert"}
    /\ agent' = [agent EXCEPT ![a] = Agent("begin")]
    /\ UNCHANGED <<msgs, post, posted, poll, signal, wake, cursor, shown, faults>>

-----------------------------------------------------------------------------
PostStep(p) ==
    \/ NotifyConversation(p) \/ NotifyConversationAgents(p) \/ NotifyAgentsFails(p)
    \/ AdvancePostingCursor(p) \/ AdvancePostingFails(p)

WatcherStep(w) == ListRoots(w) \/ ReadVersion(w) \/ Subscribe(w) \/ Wakes(w) \/ PollTimesOut(w)

DrainStep(a) == TakeWake(a) \/ BeginSession(a)

SessionStep(a) ==
    \/ ReadMessages(a) \/ ReadCurrentVersion(a) \/ CheckBaseVersion(a) \/ CommitPost(a)
    \/ PostReturns(a) \/ AckProcessedVersion(a) \/ SessionEnds(a)

Next ==
    \/ \E u \in Users, kind \in {"root", "reply"} : SendMessage(u, kind)
    \/ \E p \in Posters : PostStep(p)
    \/ \E w \in Watchers : WatcherStep(w)
    \/ \E a \in Agents : Connect(a) \/ Disconnect(a) \/ DrainStep(a) \/ SessionStep(a)

Spec == Init /\ [][Next]_vars

\* The handlers finish what they have still to do and the drain loops of connected agents
\* run; nobody is assumed to connect, to read or to acknowledge.
FairSpec ==
    /\ Spec
    /\ \A p \in Posters : WF_vars(PostStep(p))
    /\ \A a \in Agents : WF_vars(DrainStep(a))

-----------------------------------------------------------------------------
(* Properties *)

\* No wake-up of a long poll is lost: a watcher that waits although there is a
\* message for it has a signal in its channel, or the poster of the message is about
\* to notify the hub, whatever was posted while it read, subscribed and read again.
NoLostWakeup ==
    \A w \in Watchers :
        poll[w].pc = "select" /\ Roots(cursor[w]) # {} =>
            signal[w] \/ \E p \in Posters : post[p] = "hub"

\* A message beyond an idle agent's cursor opens a session, although wakes coalesce
\* and the idle reply of BeginSession races with the post; a notification that was
\* not sent is not made up for before the next one.
MessageOpensSession ==
    \A a \in Agents :
        agent[a].pc = "wait" /\ Roots(cursor[a]) # {} ~>
            agent[a].pc \in {"off", "read"} \/ Roots(cursor[a]) = {} \/ faults > 0

-----------------------------------------------------------------------------
(* What a comment says, and the code does not do *)

\* "The posting agent has produced this message, so it has processed up to and
\* including newVersion": when a post has moved an agent's cursor, every message up to
\* the cursor has been shown to the agent.
CursorCoversShown ==
    \A a \in Agents : agent[a].pc = "upsert" => Roots(0) \cap 1..cursor[a] \subseteq shown[a]

=============================================================================
