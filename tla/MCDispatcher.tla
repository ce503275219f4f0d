---------------------------- MODULE MCDispatcher ----------------------------
(* Instances of Dispatcher for TLC. *)
EXTENDS Dispatcher, TLC

CONSTANTS a1, a2, m1, s1, s2, s3, w1, w2, c1, c2

\* Every agent lives on the one machine of the instance.
MCMachineOf == [a \in Agents |-> m1]

\* Streams and commands are interchangeable; only used for safety runs.
MCSymmetry == Permutations(Sessions) \cup Permutations(Commands) \cup Permutations(MachineSessions)

=============================================================================
