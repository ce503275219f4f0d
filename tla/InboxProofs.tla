----------------------------- MODULE InboxProofs -----------------------------
(***************************************************************************)
(* Inbox, for any people, watchers and agents: no wake-up of a long poll is    *)
(* lost, and no cursor passes the room version.                                *)
(***************************************************************************)
EXTENDS Inbox, SequenceTheorems, TLAPS

\* What a long poll has done when it is at its second statement again or waits.
PollInv ==
    \A w \in Watchers :
        /\ poll[w].pc \in {"reread", "reversion", "select"} => poll[w].subscribed
        /\ poll[w].pc = "select" => poll[w].found = {} /\ poll[w].version \in 1..Version

\* An agent that may post or acknowledge holds a version the room has reached.
AgentInv ==
    \A a \in Agents :
        agent[a].pc \in {"work", "commit", "posting", "upsert"} => agent[a].base \in 1..Version

\* A call that is under way has posted; only agents have a cursor to move after it.
PostInv ==
    \A p \in Posters :
        /\ post[p] # "idle" => posted[p] \in 1..Version
        /\ post[p] = "cursor" => p \in Agents

\* A message that is not in the empty delta just read, by a registered poll, came
\* after the read: its poster has still to notify, or the signal is there.
Covered(w) ==
    poll[w].pc \in {"reversion", "select"} /\ poll[w].found = {} /\ Roots(cursor[w]) # {} =>
        signal[w] \/ \E p \in Posters : post[p] = "hub"

WakeInv == \A w \in Watchers : Covered(w)

IInv == TypeOK /\ PollInv /\ PostInv /\ AgentInv /\ WakeInv

-----------------------------------------------------------------------------

LEMMA RootsFacts ==
    ASSUME TypeOK, NEW after
    PROVE  Version \in 1..MaxVersion /\ Roots(after) \in SUBSET Versions
<1>1. Version \in 1..MaxVersion
  BY DEF TypeOK, Versions, Version
<1>2. 1..Version \subseteq Versions
  BY <1>1, InboxConstants DEF Versions
<1> QED BY <1>1, <1>2 DEF Roots

\* A message is appended, by a poster that has then to notify the hub.
LEMMA InsertFacts ==
    ASSUME TypeOK, NEW p \in Posters, NEW kind \in {"root", "reply"}, Insert(p, kind)
    PROVE  /\ msgs' \in Seq(Message) /\ Len(msgs') \in Versions
           /\ Version' = Version + 1 /\ Version \in Nat
           /\ 1..Version \subseteq 1..Version'
           /\ posted' \in [Posters -> 0..Version']
           /\ \A q \in Posters : q = p \/ (post[q] # "idle" /\ PostInv) => posted'[q] \in 1..Version'
<1>1. msgs \in Seq(Message) /\ Version \in 1..MaxVersion
  BY RootsFacts DEF TypeOK
<1>2. [kind |-> kind, by |-> p] \in Message
  BY DEF Message
<1>3. msgs' = Append(msgs, [kind |-> kind, by |-> p]) /\ Version < MaxVersion
  BY DEF Insert
<1>4. msgs' \in Seq(Message) /\ Len(msgs') = Len(msgs) + 1
  BY <1>1, <1>2, <1>3, AppendProperties
<1>5. Version' = Version + 1 /\ Version' \in Versions
  BY <1>1, <1>3, <1>4, InboxConstants DEF Version, Versions
<1>6. /\ posted \in [Posters -> 0..Version]
      /\ posted' = [posted EXCEPT ![p] = Version + 1]
  BY DEF TypeOK, Version, Insert
<1>7. posted' \in [Posters -> 0..Version']
  BY <1>1, <1>5, <1>6
<1>8. \A q \in Posters : q = p \/ (post[q] # "idle" /\ PostInv) => posted'[q] \in 1..Version'
  BY <1>1, <1>5, <1>6 DEF PostInv
<1> QED BY <1>1, <1>4, <1>5, <1>7, <1>8 DEF Version

\* While one poster is to notify the hub every poll is covered.
LEMMA HubCovers ==
    ASSUME NEW p \in Posters, post'[p] = "hub"
    PROVE  WakeInv'
  BY DEF WakeInv, Covered

-----------------------------------------------------------------------------
(* Posting *)

LEMMA SendPreservesIInv ==
    ASSUME IInv, NEW u \in Users, NEW kind \in {"root", "reply"}, SendMessage(u, kind)
    PROVE  IInv'
<1>0. TypeOK /\ PollInv /\ PostInv /\ AgentInv
  BY DEF IInv
<1>1. u \in Posters /\ Insert(u, kind)
  BY DEF Posters, SendMessage
<1>2. /\ msgs' \in Seq(Message) /\ Len(msgs') \in Versions
      /\ 1..Version \subseteq 1..Version' /\ posted' \in [Posters -> 0..Version']
      /\ \A q \in Posters : q = u \/ post[q] # "idle" => posted'[q] \in 1..Version'
  BY <1>0, <1>1, InsertFacts
<1>3. post' \in [Posters -> PostSteps] /\ post'[u] = "hub"
  BY <1>0, <1>1 DEF SendMessage, TypeOK, PostSteps
<1>p. PostInv'
  BY <1>0, <1>1, <1>2 DEF PostInv, SendMessage, TypeOK
<1>4. WakeInv'
  BY <1>1, <1>3, HubCovers
<1>5. cursor' \in [Readers -> 1..Version']
  BY <1>0, <1>2 DEF SendMessage, TypeOK, Version
<1>6. PollInv' /\ AgentInv'
  BY <1>0, <1>2 DEF PollInv, AgentInv, SendMessage
<1> QED BY <1>0, <1>2, <1>3, <1>4, <1>5, <1>6, <1>p DEF IInv, TypeOK, SendMessage, Version

LEMMA NotifyPreservesIInv ==
    ASSUME IInv, NEW p \in Posters,
           NotifyConversation(p) \/ NotifyConversationAgents(p) \/ NotifyAgentsFails(p)
    PROVE  IInv'
<1>0. TypeOK /\ PollInv /\ PostInv /\ AgentInv /\ WakeInv
  BY DEF IInv
<1>n. AfterNotify(p) \in PostSteps /\ AfterNotify(p) # "hub" /\ (AfterNotify(p) = "cursor" => p \in Agents)
  BY DEF AfterNotify, PostSteps
<1>p. PostInv' /\ posted' = posted
  BY <1>0, <1>n DEF NotifyConversation, NotifyConversationAgents, NotifyAgentsFails, PostInv, TypeOK, Version
<1>1. CASE NotifyConversation(p)
  <2>1. signal' \in [Watchers -> BOOLEAN] /\ post' \in [Posters -> PostSteps]
    BY <1>0, <1>1, <1>n DEF NotifyConversation, TypeOK, PostSteps
  <2>2. ASSUME NEW w \in Watchers PROVE Covered(w)'
    <3>1. poll[w].pc \in {"reversion", "select"} => signal'[w]
      BY <1>0, <1>1 DEF NotifyConversation, PollInv
    <3> QED BY <1>1, <3>1 DEF Covered, NotifyConversation
  <2>3. PollInv' /\ AgentInv'
    BY <1>0, <1>1 DEF PollInv, AgentInv, NotifyConversation, Version
  <2> QED BY <1>0, <1>1, <1>p, <2>1, <2>2, <2>3 DEF IInv, TypeOK, WakeInv, NotifyConversation
<1>2. CASE NotifyConversationAgents(p) \/ NotifyAgentsFails(p)
  <2>1. post' \in [Posters -> PostSteps]
    BY <1>0, <1>2, <1>n DEF NotifyConversationAgents, NotifyAgentsFails, TypeOK
  <2>2. \A r \in Posters : post[r] = "hub" => post'[r] = "hub"
    BY <1>0, <1>2 DEF NotifyConversationAgents, NotifyAgentsFails, TypeOK
  <2>3. UNCHANGED <<msgs, poll, signal, agent, cursor, shown>>
    BY <1>2 DEF NotifyConversationAgents, NotifyAgentsFails
  <2>4. WakeInv'
    BY <1>0, <2>2, <2>3 DEF WakeInv, Covered, Roots, Version
  <2>5. PollInv' /\ AgentInv'
    BY <1>0, <2>3 DEF PollInv, AgentInv, Version
  <2>6. wake' \in [Agents -> BOOLEAN]
    BY <1>0, <1>2 DEF NotifyConversationAgents, NotifyAgentsFails, WakeAgents, TypeOK
  <2>7. faults' \in 0..MaxFaults
    BY <1>0, <1>2, InboxConstants DEF NotifyConversationAgents, NotifyAgentsFails, TypeOK
  <2> QED BY <1>0, <1>p, <2>1, <2>3, <2>4, <2>5, <2>6, <2>7 DEF IInv, TypeOK
<1> QED BY <1>1, <1>2

-----------------------------------------------------------------------------
(* Watchers *)

\* A step of one long poll, to a record c, a signal g and a cursor v.
LEMMA PollStep ==
    ASSUME IInv, NEW w \in Watchers, NEW c \in PollType, NEW g \in BOOLEAN, NEW v \in 1..Version,
           poll' = [poll EXCEPT ![w] = c], signal' = [signal EXCEPT ![w] = g],
           cursor' = [cursor EXCEPT ![w] = v], shown' \in [Readers -> SUBSET Versions],
           UNCHANGED <<msgs, post, posted, agent, wake, faults>>,
           c.pc \in {"reread", "reversion", "select"} => c.subscribed,
           c.pc = "select" => c.found = {} /\ c.version \in 1..Version,
           c.pc \in {"reversion", "select"} /\ c.found = {} /\ Roots(v) # {} =>
              g = TRUE \/ \E p \in Posters : post[p] = "hub"
    PROVE  IInv'
<1>0. TypeOK /\ PollInv /\ PostInv /\ AgentInv /\ WakeInv
  BY DEF IInv
<1>1. /\ poll' \in [Watchers -> PollType] /\ signal' \in [Watchers -> BOOLEAN]
      /\ cursor' \in [Readers -> 1..Version] /\ w \in Readers /\ Version' = Version
  BY <1>0 DEF TypeOK, Readers, Version
<1>2. ASSUME NEW d \in Watchers
      PROVE  /\ poll'[d].pc \in {"reread", "reversion", "select"} => poll'[d].subscribed
             /\ poll'[d].pc = "select" => poll'[d].found = {} /\ poll'[d].version \in 1..Version'
             /\ Covered(d)'
  <2>1. CASE d = w
    <3>1. poll'[d] = c /\ signal'[d] = g /\ cursor'[d] = v
      BY <1>0, <1>1, <2>1 DEF TypeOK
    <3>2. Roots(cursor[d])' = Roots(v)
      BY <3>1 DEF Roots, Version
    <3> QED BY <1>1, <3>1, <3>2 DEF Covered
  <2>2. CASE d # w
    <3>1. poll'[d] = poll[d] /\ signal'[d] = signal[d] /\ cursor'[d] = cursor[d]
      BY <1>0, <2>2 DEF TypeOK, Readers
    <3>2. Roots(cursor[d])' = Roots(cursor[d])
      BY <3>1 DEF Roots, Version
    <3>3. Covered(d)
      BY <1>0 DEF WakeInv
    <3> QED BY <1>0, <1>1, <3>1, <3>2, <3>3 DEF Covered, PollInv
  <2> QED BY <2>1, <2>2
<1>3. PollInv' /\ WakeInv'
  BY <1>2 DEF PollInv, WakeInv
<1>4. AgentInv' /\ PostInv'
  BY <1>0, <1>1 DEF AgentInv, PostInv
<1> QED BY <1>0, <1>1, <1>3, <1>4 DEF IInv, TypeOK, Version

LEMMA WatcherPreservesIInv ==
    ASSUME IInv, NEW w \in Watchers, WatcherStep(w)
    PROVE  IInv'
<1>0. TypeOK /\ PollInv /\ WakeInv
  BY DEF IInv
<1>t. /\ poll[w] \in PollType /\ signal[w] \in BOOLEAN /\ cursor[w] \in 1..Version
      /\ shown \in [Readers -> SUBSET Versions] /\ w \in Readers
      /\ signal = [signal EXCEPT ![w] = signal[w]] /\ cursor = [cursor EXCEPT ![w] = cursor[w]]
  BY <1>0 DEF TypeOK, Readers, Version
<1>v. Version \in 1..MaxVersion /\ Version \in 1..Version /\ Version \in 0..MaxVersion
  BY <1>0, RootsFacts, InboxConstants
<1>p. /\ poll[w].pc \in {"reread", "reversion", "select"} => poll[w].subscribed
      /\ poll[w].pc = "select" => poll[w].found = {} /\ poll[w].version \in 1..Version
      /\ Covered(w)
  BY <1>0 DEF PollInv, WakeInv
<1>1. CASE ListRoots(w)
  <2> DEFINE c == [poll[w] EXCEPT !.pc = IF @ = "read" THEN "version" ELSE "reversion",
                                  !.found = Roots(cursor[w])]
  <2>1. Roots(cursor[w]) \in SUBSET Versions
    BY <1>0, RootsFacts
  <2>2. /\ c \in PollType /\ c.found = Roots(cursor[w]) /\ c.subscribed = poll[w].subscribed
        /\ c.pc = IF poll[w].pc = "read" THEN "version" ELSE "reversion"
    BY <1>t, <2>1 DEF PollType
  <2>3. poll' = [poll EXCEPT ![w] = c] /\ UNCHANGED <<msgs, post, posted, signal, agent, wake, cursor, shown, faults>>
    BY <1>1 DEF ListRoots
  <2>4. c.pc # "version" => c.pc = "reversion" /\ c.subscribed
    BY <1>1, <1>p, <2>2 DEF ListRoots
  <2>5. signal' = [signal EXCEPT ![w] = signal[w]] /\ cursor' = [cursor EXCEPT ![w] = cursor[w]]
    BY <1>t, <2>3
  <2> HIDE DEF c
  <2>6. shown' \in [Readers -> SUBSET Versions]
    BY <1>t, <2>3
  <2>7. /\ c.pc \in {"reread", "reversion", "select"} => c.subscribed
        /\ c.pc = "select" => c.found = {} /\ c.version \in 1..Version
        /\ c.pc \in {"reversion", "select"} /\ c.found = {} /\ Roots(cursor[w]) # {} =>
              signal[w] = TRUE \/ \E p \in Posters : post[p] = "hub"
    BY <2>2, <2>4
  <2>8. UNCHANGED <<msgs, post, posted, agent, wake, faults>>
    BY <2>3
  <2>9. c \in PollType /\ poll' = [poll EXCEPT ![w] = c]
    BY <2>2, <2>3
  <2>10. signal[w] \in BOOLEAN /\ cursor[w] \in 1..Version
    BY <1>t
  <2> QED BY <2>5, <2>6, <2>7, <2>8, <2>9, <2>10, PollStep, Zenon
<1>2. ASSUME NEW v \in 1..Version, PollReturns(w, v), UNCHANGED <<msgs, post, posted, agent, wake, faults>>
      PROVE  IInv'
  <2>1. NewPoll \in PollType /\ NewPoll.pc = "read"
    BY InboxConstants DEF NewPoll, PollType
  <2>2. shown' \in [Readers -> SUBSET Versions]
    BY <1>2, <1>t DEF PollReturns, PollType
  <2>3. /\ poll' = [poll EXCEPT ![w] = NewPoll] /\ signal' = [signal EXCEPT ![w] = FALSE]
        /\ cursor' = [cursor EXCEPT ![w] = v]
    BY <1>2 DEF PollReturns
  <2> QED BY <1>2, <2>1, <2>2, <2>3, PollStep
<1>3. CASE ReadVersion(w) /\ poll[w].found # {}
  BY <1>2, <1>3, <1>v DEF ReadVersion
<1>4. CASE ReadVersion(w) /\ poll[w].found = {}
  <2> DEFINE c == [poll[w] EXCEPT !.pc = IF @ = "version" THEN "subscribe" ELSE "select",
                                  !.version = Version]
  <2>1. /\ c \in PollType /\ c.found = {} /\ c.version = Version /\ c.subscribed = poll[w].subscribed
        /\ c.pc = IF poll[w].pc = "version" THEN "subscribe" ELSE "select"
    BY <1>4, <1>t, <1>v DEF PollType
  <2>2. /\ poll' = [poll EXCEPT ![w] = c]
        /\ UNCHANGED <<msgs, post, posted, signal, agent, wake, cursor, shown, faults>>
    BY <1>4 DEF ReadVersion
  <2>3. c.pc # "subscribe" => c.pc = "select" /\ poll[w].pc = "reversion" /\ c.subscribed
    BY <1>4, <1>p, <2>1 DEF ReadVersion
  <2>4. signal' = [signal EXCEPT ![w] = signal[w]] /\ cursor' = [cursor EXCEPT ![w] = cursor[w]]
    BY <1>t, <2>2
  <2>5. c.pc \in {"reversion", "select"} /\ Roots(cursor[w]) # {} =>
           signal[w] = TRUE \/ \E p \in Posters : post[p] = "hub"
    BY <1>4, <1>p, <1>t, <2>3 DEF Covered
  <2> HIDE DEF c
  <2>6. shown' \in [Readers -> SUBSET Versions]
    BY <1>t, <2>2
  <2>7. /\ c.pc \in {"reread", "reversion", "select"} => c.subscribed
        /\ c.pc = "select" => c.found = {} /\ c.version \in 1..Version
    BY <1>v, <2>1, <2>3
  <2>8. UNCHANGED <<msgs, post, posted, agent, wake, faults>>
    BY <2>2
  <2>9. c \in PollType /\ poll' = [poll EXCEPT ![w] = c]
    BY <2>1, <2>2
  <2>10. signal[w] \in BOOLEAN /\ cursor[w] \in 1..Version
    BY <1>t
  <2> QED BY <2>4, <2>5, <2>6, <2>7, <2>8, <2>9, <2>10, PollStep, Zenon
<1>5. CASE Subscribe(w)
  <2> DEFINE c == [poll[w] EXCEPT !.pc = "reread", !.subscribed = TRUE]
  <2>1. c \in PollType /\ c.pc = "reread" /\ c.subscribed
    BY <1>t DEF PollType
  <2>2. poll' = [poll EXCEPT ![w] = c] /\ UNCHANGED <<msgs, post, posted, signal, agent, wake, cursor, shown, faults>>
    BY <1>5 DEF Subscribe
  <2>3. signal' = [signal EXCEPT ![w] = signal[w]] /\ cursor' = [cursor EXCEPT ![w] = cursor[w]]
    BY <1>t, <2>2
  <2> HIDE DEF c
  <2> QED BY <1>t, <2>1, <2>2, <2>3, PollStep
<1>6. CASE Wakes(w)
  <2> DEFINE c == [poll[w] EXCEPT !.pc = "reread"]
  <2>1. c \in PollType /\ c.pc = "reread" /\ c.subscribed
    BY <1>6, <1>t, <1>p DEF PollType, Wakes
  <2>2. /\ poll' = [poll EXCEPT ![w] = c] /\ signal' = [signal EXCEPT ![w] = FALSE]
        /\ UNCHANGED <<msgs, post, posted, agent, wake, cursor, shown, faults>>
    BY <1>6 DEF Wakes
  <2>3. cursor' = [cursor EXCEPT ![w] = cursor[w]]
    BY <1>t, <2>2
  <2> HIDE DEF c
  <2> QED BY <1>t, <2>1, <2>2, <2>3, PollStep
<1>7. CASE PollTimesOut(w)
  BY <1>2, <1>7, <1>p DEF PollTimesOut
<1> QED BY <1>1, <1>3, <1>4, <1>5, <1>6, <1>7 DEF WatcherStep, ReadVersion

-----------------------------------------------------------------------------
(* Agents *)

\* A step of one agent, to a record c, a cursor v and a step q of its post, which leaves
\* the messages and the polls alone and does not take the hub's notification away.
LEMMA AgentStep ==
    ASSUME IInv, NEW a \in Agents, NEW c \in AgentType, NEW v \in 1..Version, NEW q \in PostSteps,
           agent' = [agent EXCEPT ![a] = c], cursor' = [cursor EXCEPT ![a] = v],
           post' = [post EXCEPT ![a] = q], q = post[a] \/ (q = "idle" /\ post[a] # "hub"),
           wake' \in [Agents -> BOOLEAN], shown' \in [Readers -> SUBSET Versions],
           faults' \in 0..MaxFaults, UNCHANGED <<msgs, posted, poll, signal>>,
           c.pc \in {"work", "commit", "posting", "upsert"} => c.base \in 1..Version
    PROVE  IInv'
<1>0. TypeOK /\ PollInv /\ PostInv /\ AgentInv /\ WakeInv
  BY DEF IInv
<1>1. /\ agent' \in [Agents -> AgentType] /\ cursor' \in [Readers -> 1..Version]
      /\ post' \in [Posters -> PostSteps] /\ Version' = Version
  BY <1>0 DEF TypeOK, Readers, Version
<1>p. /\ \A r \in Posters : post[r] = "hub" => post'[r] = "hub"
      /\ \A r \in Posters : post'[r] \in {"idle", post[r]}
  BY <1>0 DEF TypeOK
<1>2. ASSUME NEW w \in Watchers PROVE Covered(w)'
  <2>1. w # a /\ w \in Readers
    BY InboxConstants DEF Readers
  <2>2. cursor'[w] = cursor[w]
    BY <1>0, <2>1 DEF TypeOK
  <2>3. Roots(cursor[w])' = Roots(cursor[w])
    BY <2>2 DEF Roots, Version
  <2>4. Covered(w)
    BY <1>0 DEF WakeInv
  <2> QED BY <1>p, <2>3, <2>4 DEF Covered
<1>3. ASSUME NEW d \in Agents, agent'[d].pc \in {"work", "commit", "posting", "upsert"}
      PROVE  agent'[d].base \in 1..Version
  <2>1. CASE d = a
    BY <1>0, <1>3, <2>1 DEF TypeOK
  <2>2. CASE d # a
    BY <1>0, <1>3, <2>2 DEF TypeOK, AgentInv
  <2> QED BY <2>1, <2>2
<1>4. PollInv' /\ PostInv' /\ WakeInv' /\ AgentInv'
  BY <1>0, <1>1, <1>p, <1>2, <1>3 DEF PollInv, PostInv, WakeInv, AgentInv
<1> QED BY <1>0, <1>1, <1>4 DEF IInv, TypeOK, Version

\* The same for the steps that leave the posts and the cursors alone.
LEMMA QuietAgentStep ==
    ASSUME IInv, NEW a \in Agents, NEW c \in AgentType, agent' = [agent EXCEPT ![a] = c],
           wake' \in [Agents -> BOOLEAN], shown' \in [Readers -> SUBSET Versions],
           faults' \in 0..MaxFaults, UNCHANGED <<msgs, post, posted, poll, signal, cursor>>,
           c.pc \in {"work", "commit", "posting", "upsert"} => c.base \in 1..Version
    PROVE  IInv'
<1>1. /\ cursor \in [Readers -> 1..Version] /\ a \in Readers
      /\ post \in [Posters -> PostSteps] /\ a \in Posters
  BY DEF IInv, TypeOK, Readers, Posters, Version
<1>2. PICK v \in 1..Version : cursor' = [cursor EXCEPT ![a] = v]
  <2>1. cursor[a] \in 1..Version /\ cursor' = [cursor EXCEPT ![a] = cursor[a]]
    BY <1>1
  <2> QED BY <2>1
<1>3. PICK q \in PostSteps : post' = [post EXCEPT ![a] = q] /\ q = post[a]
  <2>1. post[a] \in PostSteps /\ post' = [post EXCEPT ![a] = post[a]]
    BY <1>1
  <2> QED BY <2>1
<1>4. UNCHANGED <<msgs, posted, poll, signal>>
  OBVIOUS
<1> QED BY <1>2, <1>3, <1>4, AgentStep

LEMMA AgentFacts ==
    ASSUME IInv, NEW a \in Agents
    PROVE  /\ agent[a] \in AgentType /\ wake \in [Agents -> BOOLEAN]
           /\ shown \in [Readers -> SUBSET Versions] /\ faults \in 0..MaxFaults
           /\ cursor \in [Readers -> 1..Version] /\ a \in Readers /\ a \in Posters
           /\ Version \in 1..MaxVersion /\ Version \in 1..Version /\ Version \in 0..MaxVersion
           /\ agent[a].pc \in {"work", "commit", "posting", "upsert"} => agent[a].base \in 1..Version
<1>1. TypeOK /\ AgentInv
  BY DEF IInv
<1>2. Version \in 1..MaxVersion
  BY <1>1, RootsFacts
<1>3. Version \in 1..Version /\ Version \in 0..MaxVersion
  BY <1>2, InboxConstants
<1> QED BY <1>1, <1>2, <1>3 DEF TypeOK, AgentInv, Readers, Posters, Version

\* Agent(pc), for the steps outside a session.
LEMMA FreshAgent ==
    ASSUME NEW pc \in {"off", "wait", "begin"}
    PROVE  Agent(pc) \in AgentType /\ Agent(pc).pc = pc
  BY InboxConstants DEF Agent, AgentType

\* Connection and drain loop, and the steps of a session that move neither message
\* nor cursor.
LEMMA ControlPreservesIInv ==
    ASSUME IInv, NEW a \in Agents,
           \/ Connect(a) \/ Disconnect(a) \/ DrainStep(a)
           \/ ReadMessages(a) \/ ReadCurrentVersion(a) \/ CheckBaseVersion(a)
           \/ PostReturns(a) \/ SessionEnds(a)
    PROVE  IInv'
<1>f. /\ agent[a] \in AgentType /\ wake \in [Agents -> BOOLEAN]
      /\ shown \in [Readers -> SUBSET Versions] /\ faults \in 0..MaxFaults /\ a \in Readers
      /\ Version \in 1..MaxVersion /\ Version \in 1..Version /\ Version \in 0..MaxVersion
      /\ agent[a].pc \in {"work", "commit", "posting", "upsert"} => agent[a].base \in 1..Version
  BY AgentFacts
<1>r. TypeOK /\ \A after, n : Page(after, n) \in SUBSET Versions
  BY RootsFacts DEF IInv, Page
<1>s. ASSUME NEW pc \in {"begin", "wait", "read", "version", "commit", "upsert"}, Session(a, pc),
             pc \in {"commit", "upsert"} => agent[a].pc \in {"work", "posting"},
             wake' \in [Agents -> BOOLEAN], shown' \in [Readers -> SUBSET Versions],
             faults' \in 0..MaxFaults, UNCHANGED <<msgs, post, posted, poll, signal, cursor>>
      PROVE  IInv'
  <2> DEFINE c == [agent[a] EXCEPT !.pc = pc]
  <2>1. c \in AgentType /\ c.pc = pc /\ c.base = agent[a].base
    BY <1>f DEF AgentType
  <2>2. agent' = [agent EXCEPT ![a] = c]
    BY <1>s DEF Session
  <2> HIDE DEF c
  <2>3. c.pc \in {"work", "commit", "posting", "upsert"} => c.base \in 1..Version
    BY <1>f, <1>s, <2>1
  <2> QED BY <1>s, <2>1, <2>2, <2>3, QuietAgentStep
<1>1. CASE Connect(a) \/ Disconnect(a) \/ SessionEnds(a)
  <2>1. PICK pc \in {"off", "wait", "begin"} : agent' = [agent EXCEPT ![a] = Agent(pc)]
    BY <1>1 DEF Connect, Disconnect, SessionEnds
  <2>2. /\ wake' \in [Agents -> BOOLEAN]
        /\ UNCHANGED <<msgs, post, posted, poll, signal, cursor, shown, faults>>
    BY <1>1, <1>f DEF Connect, Disconnect, SessionEnds
  <2> QED BY <1>f, <2>1, <2>2, FreshAgent, QuietAgentStep
<1>2. CASE TakeWake(a)
  <2>1. wake' \in [Agents -> BOOLEAN] /\ Session(a, "begin")
        /\ UNCHANGED <<msgs, post, posted, poll, signal, cursor, shown, faults>>
    BY <1>2, <1>f DEF TakeWake
  <2> QED BY <1>f, <1>s, <2>1
<1>3. CASE BeginSession(a)
  <2>1. PICK pc \in {"read", "wait"} : Session(a, pc)
    BY <1>3 DEF BeginSession
  <2> QED BY <1>3, <1>f, <1>s, <2>1 DEF BeginSession
<1>4. CASE ReadMessages(a)
  <2>1. shown' \in [Readers -> SUBSET Versions]
    BY <1>4, <1>f, <1>r DEF ReadMessages
  <2> QED BY <1>4, <1>f, <1>s, <2>1 DEF ReadMessages
<1>5. CASE ReadCurrentVersion(a)
  <2> DEFINE c == [pc |-> "work", base |-> Version]
  <2>1. c \in AgentType /\ c.base = Version
    BY <1>f DEF AgentType
  <2>2. agent' = [agent EXCEPT ![a] = c] /\ UNCHANGED <<msgs, post, posted, poll, signal, wake, cursor, shown, faults>>
    BY <1>5 DEF ReadCurrentVersion
  <2> HIDE DEF c
  <2> QED BY <1>f, <2>1, <2>2, QuietAgentStep
<1>6. CASE CheckBaseVersion(a) /\ agent[a].base = Version
  BY <1>6, <1>f, <1>s DEF CheckBaseVersion
<1>7. CASE CheckBaseVersion(a) /\ agent[a].base # Version
  <2> DEFINE c == [agent[a] EXCEPT !.base = Version]
  <2>1. c \in AgentType /\ c.base = Version
    BY <1>f DEF AgentType
  <2>2. agent' = [agent EXCEPT ![a] = c] /\ UNCHANGED <<msgs, post, posted, poll, signal, wake, cursor, faults>>
    BY <1>7 DEF CheckBaseVersion
  <2>3. shown' \in [Readers -> SUBSET Versions]
    BY <1>7, <1>f, <1>r DEF CheckBaseVersion
  <2> HIDE DEF c
  <2> QED BY <1>f, <2>1, <2>2, <2>3, QuietAgentStep
<1>8. CASE PostReturns(a)
  BY <1>8, <1>f, <1>s DEF PostReturns
<1> QED BY <1>1, <1>2, <1>3, <1>4, <1>5, <1>6, <1>7, <1>8 DEF DrainStep, CheckBaseVersion

\* The cursor moves to the version of an acknowledgement.
LEMMA AckPreservesIInv ==
    ASSUME IInv, NEW a \in Agents, AckProcessedVersion(a)
    PROVE  IInv'
<1>f. /\ agent[a] \in AgentType /\ wake \in [Agents -> BOOLEAN]
      /\ shown \in [Readers -> SUBSET Versions] /\ faults \in 0..MaxFaults /\ a \in Readers
      /\ cursor \in [Readers -> 1..Version] /\ Version \in 1..MaxVersion
      /\ agent[a].base \in 1..Version
  BY AgentFacts DEF AckProcessedVersion
<1>p. post[a] \in PostSteps /\ post = [post EXCEPT ![a] = post[a]]
  BY AgentFacts DEF IInv, TypeOK
<1> DEFINE v == IF agent[a].base > cursor[a] THEN agent[a].base ELSE cursor[a]
<1>1. v \in 1..Version
  BY <1>f
<1>2. cursor' = [cursor EXCEPT ![a] = v]
  BY DEF AckProcessedVersion, UpsertCursor
<1> HIDE DEF v
<1>3. /\ agent' = [agent EXCEPT ![a] = Agent("begin")]
      /\ UNCHANGED <<msgs, post, posted, poll, signal, wake, shown, faults>>
  BY DEF AckProcessedVersion
<1>4. post' = [post EXCEPT ![a] = post[a]]
  BY <1>3, <1>p
<1> QED BY <1>1, <1>2, <1>3, <1>4, <1>f, <1>p, FreshAgent, AgentStep

\* The end of PostMessage: the cursor moves to the version of the post, or the upsert
\* fails.
LEMMA AdvancePreservesIInv ==
    ASSUME IInv, NEW a \in Agents, AdvancePostingCursor(a) \/ AdvancePostingFails(a)
    PROVE  IInv'
<1>f. /\ agent[a] \in AgentType /\ wake \in [Agents -> BOOLEAN]
      /\ shown \in [Readers -> SUBSET Versions] /\ faults \in 0..MaxFaults /\ a \in Readers
      /\ cursor \in [Readers -> 1..Version] /\ Version \in 1..MaxVersion /\ a \in Posters
      /\ agent[a].pc \in {"work", "commit", "posting", "upsert"} => agent[a].base \in 1..Version
  BY AgentFacts
<1>p. posted[a] \in 1..Version /\ post[a] = "cursor"
  BY <1>f DEF IInv, PostInv, AdvancePostingCursor, AdvancePostingFails
<1>1. /\ post' = [post EXCEPT ![a] = "idle"] /\ "idle" \in PostSteps
      /\ UNCHANGED <<msgs, posted, poll, signal, agent, wake, shown>>
  BY DEF AdvancePostingCursor, AdvancePostingFails, PostSteps
<1>2. agent' = [agent EXCEPT ![a] = agent[a]]
  BY <1>1 DEF IInv, TypeOK
<1>3. faults' \in 0..MaxFaults
  BY <1>f, InboxConstants DEF AdvancePostingCursor, AdvancePostingFails
<1>4. PICK v \in 1..Version : cursor' = [cursor EXCEPT ![a] = v]
  <2>1. CASE AdvancePostingCursor(a)
    <3> DEFINE u == IF posted[a] > cursor[a] THEN posted[a] ELSE cursor[a]
    <3>1. u \in 1..Version
      BY <1>f, <1>p
    <3>2. cursor' = [cursor EXCEPT ![a] = u]
      BY <2>1 DEF AdvancePostingCursor, UpsertCursor
    <3> HIDE DEF u
    <3> QED BY <3>1, <3>2
  <2>2. CASE AdvancePostingFails(a)
    <3>1. cursor[a] \in 1..Version /\ cursor' = [cursor EXCEPT ![a] = cursor[a]]
      BY <1>f, <2>2 DEF AdvancePostingFails
    <3> QED BY <3>1
  <2> QED BY <2>1, <2>2
<1> QED BY <1>f, <1>p, <1>1, <1>2, <1>3, <1>4, AgentStep

LEMMA CommitPreservesIInv ==
    ASSUME IInv, NEW a \in Agents, CommitPost(a)
    PROVE  IInv'
<1>0. TypeOK /\ PollInv /\ PostInv /\ AgentInv
  BY DEF IInv
<1>1. a \in Posters /\ Insert(a, "root")
  BY DEF Posters, CommitPost
<1>2. /\ msgs' \in Seq(Message) /\ Len(msgs') \in Versions
      /\ Version' = Version + 1 /\ Version \in Nat /\ 1..Version \subseteq 1..Version'
      /\ posted' \in [Posters -> 0..Version']
      /\ \A q \in Posters : q = a \/ post[q] # "idle" => posted'[q] \in 1..Version'
  BY <1>0, <1>1, InsertFacts
<1>3. post' \in [Posters -> PostSteps] /\ post'[a] = "hub"
  BY <1>0, <1>1 DEF CommitPost, TypeOK, PostSteps
<1>p. PostInv'
  BY <1>0, <1>1, <1>2 DEF PostInv, CommitPost, TypeOK
<1>s. shown' \in [Readers -> SUBSET Versions]
  <2>1. Version + 1 \in Versions
    BY <1>2 DEF Version
  <2> QED BY <1>0, <2>1 DEF CommitPost, TypeOK
<1>4. WakeInv'
  BY <1>1, <1>3, HubCovers
<1>5. cursor' \in [Readers -> 1..Version']
  BY <1>0, <1>2 DEF CommitPost, TypeOK, Version
<1> DEFINE c == [pc |-> "posting", base |-> Version + 1]
<1>6. c \in AgentType /\ c.base \in 1..Version'
  <2>1. Version + 1 \in 0..MaxVersion
    BY <1>1, <1>2, InboxConstants DEF Insert
  <2> QED BY <1>2, <2>1 DEF AgentType
<1>7. agent' = [agent EXCEPT ![a] = c]
  BY DEF CommitPost
<1> HIDE DEF c
<1>8. agent' \in [Agents -> AgentType]
  BY <1>0, <1>6, <1>7 DEF TypeOK
<1>9. ASSUME NEW d \in Agents, agent'[d].pc \in {"work", "commit", "posting", "upsert"}
      PROVE  agent'[d].base \in 1..Version'
  <2>1. CASE d = a
    BY <1>0, <1>6, <1>7, <2>1 DEF TypeOK
  <2>2. CASE d # a
    BY <1>0, <1>2, <1>7, <1>9, <2>2 DEF TypeOK, AgentInv
  <2> QED BY <2>1, <2>2
<1>10. PollInv' /\ AgentInv'
  BY <1>0, <1>2, <1>9 DEF PollInv, AgentInv, CommitPost
<1> QED BY <1>0, <1>2, <1>3, <1>4, <1>5, <1>8, <1>10, <1>p, <1>s DEF IInv, TypeOK, CommitPost, Version

-----------------------------------------------------------------------------
(* The theorems *)

LEMMA InitIInv == Init => IInv
<1> SUFFICES ASSUME Init PROVE IInv
  OBVIOUS
<1>1. msgs \in Seq(Message) /\ Len(msgs) = 1 /\ 1 \in Versions
  BY InboxConstants DEF Init, Message, Versions
<1>2. poll \in [Watchers -> PollType] /\ PollInv /\ WakeInv
  BY InboxConstants DEF Init, NewPoll, PollType, PollInv, WakeInv, Covered
<1>3. agent \in [Agents -> AgentType] /\ AgentInv
  BY FreshAgent DEF Init, AgentInv
<1>4. signal \in [Watchers -> BOOLEAN] /\ wake \in [Agents -> BOOLEAN]
  BY DEF Init
<1>5. /\ cursor \in [Readers -> 1..Len(msgs)] /\ shown \in [Readers -> SUBSET Versions]
      /\ post \in [Posters -> PostSteps] /\ faults \in 0..MaxFaults
      /\ posted \in [Posters -> 0..Len(msgs)] /\ PostInv
  BY <1>1, InboxConstants DEF Init, PostSteps, PostInv
<1> QED BY <1>1, <1>2, <1>3, <1>4, <1>5 DEF IInv, TypeOK

LEMMA NextIInv == IInv /\ [Next]_vars => IInv'
<1> SUFFICES ASSUME IInv, [Next]_vars PROVE IInv'
  OBVIOUS
<1>1. ASSUME NEW a \in Agents, Connect(a) \/ Disconnect(a) \/ DrainStep(a) \/ SessionStep(a)
      PROVE  IInv'
  BY <1>1, ControlPreservesIInv, AckPreservesIInv, CommitPreservesIInv DEF SessionStep
<1>3. ASSUME NEW p \in Posters, PostStep(p) PROVE IInv'
  <2>1. CASE AdvancePostingCursor(p) \/ AdvancePostingFails(p)
    <3>1. p \in Agents
      BY <2>1 DEF IInv, PostInv, AdvancePostingCursor, AdvancePostingFails
    <3> QED BY <2>1, <3>1, AdvancePreservesIInv
  <2> QED BY <1>3, <2>1, NotifyPreservesIInv DEF PostStep
<1>2. CASE UNCHANGED vars
  BY <1>2 DEF vars, IInv, TypeOK, PollInv, PostInv, AgentInv, WakeInv, Covered, Roots, Version
<1> QED BY <1>1, <1>2, <1>3, SendPreservesIInv, WatcherPreservesIInv DEF Next

\* Messages, polls, sessions and cursors keep their types; no cursor is beyond the
\* room version, however posts, polls and acknowledgements interleave.
THEOREM TypeCorrect == Spec => []TypeOK
<1>1. IInv => TypeOK
  BY DEF IInv
<1> QED BY <1>1, InitIInv, NextIInv, PTL DEF Spec

\* No wake-up of a long poll is lost.
THEOREM WakeupsNotLost == Spec => []NoLostWakeup
<1>1. IInv => NoLostWakeup
  BY DEF IInv, PollInv, WakeInv, Covered, NoLostWakeup
<1> QED BY <1>1, InitIInv, NextIInv, PTL DEF Spec

=============================================================================
