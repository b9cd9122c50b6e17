-------------------------- MODULE ExecutionService --------------------------
(***************************************************************************)
(* The execution service process: it is built for the one active execution *)
(* target it is configured for (execution_service/runtime.py), starts the  *)
(* account's worker, and is restarted by its container when it ends.       *)
(* ExecutionTargets has the targets, which an operator changes meanwhile,  *)
(* and BrokerSession the worker.                                           *)
(***************************************************************************)
EXTENDS ExecutionTargets, BrokerSession

CONSTANTS Owner, Account   \* LIVE_EXECUTION_OWNER_USER_ID and the target's account

ASSUME ConfiguredAssumption == Owner \in Owners /\ Account \in Accounts

vars == <<targets, session>>

\* PerTargetSecretResolver.resolve: both files of the target's directory.
SecretsResolve == dirs[<<Owner, Account>>] = "full"

\* build_execution_service composes a worker only for the configured target,
\* when it is the only active one and its secrets resolve.
Eligible ==
    Active = {Account} /\ rows[Account].owner = Owner /\ SecretsResolve

Build ==
    /\ service = "down"
    /\ service' = IF Eligible THEN "built" ELSE "disabled"
    /\ UNCHANGED <<targets, worker, startup, recovery, client, lost, seen,
                   queue, consumer, attempt, stale, ledger, truth, link,
                   earned, faults>>

Init == TargetsInit /\ SessionInit

Next ==
    \/ TargetsNext /\ UNCHANGED session
    \/ SessionNext /\ UNCHANGED targets
    \/ Build

Spec == Init /\ [][Next]_vars

\* The container restarts the process (restart: unless-stopped), and the event
\* loop runs every task that is ready.
FairSpec ==
    /\ Spec
    /\ WF_vars(Build) /\ WF_vars(Heartbeat /\ UNCHANGED targets)
    /\ WF_vars(WorkerStep /\ UNCHANGED targets)
    /\ WF_vars(Consume /\ UNCHANGED targets)
------------------------------------------------------------------------------
(* Properties *)

\* Once the worker has been started, an account is READY only because a
\* reconciliation of the broker session it is connected with made it so: not
\* the READY that a killed process left in the database, nor one from before
\* a reconnection.
ReadyIsEarned == service = "running" /\ Ready => earned

\* While the account is READY the heartbeat's checks are awake: they look only
\* at a worker that is ready_read_only, which attempts, callbacks and the
\* dispatcher change behind its back.
ReadyIsWatched ==
    service = "running" /\ Ready
        => worker = "ready_read_only" \/ attempt.pc = "conclude"

\* Every order event at the broker reaches the local database, its callback
\* lost or not, as long as the session with the broker is not broken and the
\* service finds its target.
EventsArrive ==
    \A n \in 1..MaxEvents :
        truth = n ~> ledger >= n \/ link = "broken" \/ service = "disabled"

\* A lost callback locks the account (docs/architecture.md:211-214: callback
\* overflow writes a new locked generation).
LossLocks ==
    \A l \in Losses : lost[l] > seen[l] ~> recovery.status = "locked"

\* A broken session is connected again
\* (docs/live-production-canary-acceptance.md:77).
BrokenIsReconnected == link = "broken" ~> link = "up"

\* Orders go out only for a target that is active: a locked one is blocked
\* (docs/execution-targets.md:14-15, 56).
CanDispatch == service = "running" /\ ~startup /\ Ready /\ ClientReady
DispatchesActive == CanDispatch => Resolves(Owner, Account)
=============================================================================
