---------------------------- MODULE RecoveryLock ----------------------------
(***************************************************************************)
(* What the recovery lock of an account promises (broker/recovery.py),     *)
(* whoever uses it: an account becomes READY only through a reconciliation *)
(* that was the last to begin and that nothing has locked since. The       *)
(* generation in the row is how complete() knows; here it only counts.     *)
(***************************************************************************)
EXTENDS Naturals

VARIABLES status, generation

lock == <<status, generation>>

Init == status = "locked" /\ generation = 0

\* begin(): a reconciliation takes a new generation.
Begin == status' = "reconciling" /\ generation' = generation + 1

\* force_lock(): whatever reconciliation is under way has lost its generation.
Lock == status' = "locked" /\ generation' = generation + 1

\* complete() by the holder of the current generation.
Complete ==
    /\ status = "reconciling"
    /\ status' \in {"ready", "locked"}
    /\ generation' = generation

Next == Begin \/ Lock \/ Complete

Spec == Init /\ [][Next]_lock
=============================================================================
