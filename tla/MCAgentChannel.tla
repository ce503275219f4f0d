--------------------------- MODULE MCAgentChannel ---------------------------
(* Instances of AgentChannel for TLC: one agent on one machine. *)
EXTENDS AgentChannel, TLC

CONSTANTS a1, m1, s1, s2, w1, w2, c1, c2

MCMachineOf == [a \in Agents |-> m1]

\* Streams and commands are interchangeable; only used for safety runs.
MCSymmetry == Permutations(Sessions) \cup Permutations(Commands) \cup Permutations(MachineSessions)

=============================================================================
