---------------------------- MODULE MC_LiveAuto ----------------------------
(* Instances of LiveAuto for TLC. *)
EXTENDS LiveAuto, TLC

CONSTANTS r1, r2, t1, t2

Symmetry == Permutations(Runtimes) \cup Permutations(Threads)
=============================================================================
