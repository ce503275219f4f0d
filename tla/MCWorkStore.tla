----------------------------- MODULE MCWorkStore -----------------------------
(* Instances of WorkStore for TLC. *)
EXTENDS WorkStore, TLC

CONSTANTS w1, w2, s1

\* Writers are interchangeable; the run checks no liveness.
WriterSymmetry == Permutations(Writers)

=============================================================================
