---------------------------- MODULE BrokerSession ----------------------------
(***************************************************************************)
(* The worker of one broker account and its Shioaji client: how they       *)
(* connect, reconcile, receive callbacks, watch themselves and lock        *)
(* (broker/worker.py, broker/shioaji_production.py).                       *)
(*                                                                         *)
(* The tasks of the worker run on one event loop, so a step is what a task *)
(* does between two awaits; callbacks come from a thread of the SDK. What  *)
(* the broker holds for the account is the number of its order events, and *)
(* what the local database knows of it the number it has caught up with:   *)
(* LiveExecution has the orders. The generation of the recovery lock is    *)
(* reduced to whether the attempt under way still holds it: the worker     *)
(* runs one attempt at a time.                                             *)
(***************************************************************************)
EXTENDS Naturals

CONSTANTS
    QueueSize,  \* callback_queue_size
    MaxEvents,  \* bound on order events at the broker
    MaxFaults   \* bound on failures, of the broker, its link or the process

ASSUME SessionAssumption ==
    QueueSize \in Nat \ {0} /\ MaxEvents \in Nat /\ MaxFaults \in Nat

VARIABLES
    service,   \* the process: "down", "disabled", "built", "running"
    worker,    \* BrokerAccountWorker.state
    startup,   \* start() has not returned: no periodic task, no dispatcher
    recovery,  \* live_recovery_lock: status, and whether the attempt holds it
    client,    \* _state, the three readiness flags, and start() under way
    lost,      \* counters of the callback bridge, by kind of loss
    seen,      \* the worker's last reading of them
    queue,     \* callbacks in the queue
    consumer,  \* the callback task exists
    attempt,   \* reconcile_now
    stale,     \* the last snapshot is older than snapshot_stale_seconds
    ledger,    \* order events the local database knows of
    truth,     \* external: order events at the broker
    link,      \* external: the SDK's session is "none", "up" or "broken"
    earned,    \* ghost: READY was granted within this broker session
    faults     \* failures so far

session == <<service, worker, startup, recovery, client, lost, seen, queue,
             consumer, attempt, stale, ledger, truth, link, earned, faults>>

Losses == {"dropped", "normalization_failed"}
NoLoss == [l \in Losses |-> 0]
Idle == [pc |-> "idle", local |-> 0, clean |-> FALSE, ready |-> FALSE]
At(pc) == attempt.pc = pc
Goto(pc) == attempt' = [attempt EXCEPT !.pc = pc]

Fault == faults < MaxFaults /\ faults' = faults + 1

Ready == recovery.status = "ready"
\* force_lock: the attempt under way, if any, has lost its generation.
ForceLock == recovery' = [status |-> "locked", held |-> FALSE]
\* _persist_lock.
PersistLock == ForceLock /\ worker' = "locked"

\* _client_ready: the flags are set by start() and cleared by close() and by
\* a failed start(), by nothing else.
ClientReady == client.flags

\* _require_ready, and an SDK session that answers.
CanRead == link = "up" /\ client.state \in {"ready", "degraded"}

Client(state, flags, dialing) ==
    [state |-> state, flags |-> flags, dialing |-> dialing]
Closed == Client("disconnected", FALSE, FALSE)
------------------------------------------------------------------------------
(* Starting and reconnecting *)

\* Mutant: the READY of an earlier process is trusted until reconciliation.
StartTrusting ==
    /\ service = "built"
    /\ service' = "running" /\ worker' = "broker_connecting" /\ startup' = TRUE
    /\ client' = Client("connecting", FALSE, TRUE)
    /\ UNCHANGED <<recovery, lost, seen, queue, consumer, attempt, stale,
                   ledger, truth, link, earned, faults>>

\* start(): a new lock is its first effect, then client.start() begins.
Start ==
    /\ service = "built"
    /\ ForceLock
    /\ service' = "running" /\ worker' = "broker_connecting" /\ startup' = TRUE
    /\ client' = Client("connecting", FALSE, TRUE)
    /\ UNCHANGED <<lost, seen, queue, consumer, attempt, stale, ledger, truth,
                   link, earned, faults>>

\* _reconnect, by the periodic task, while the client is not ready.
Reconnect ==
    /\ service = "running" /\ ~startup /\ At("idle")
    /\ ~ClientReady /\ ~client.dialing
    /\ ForceLock /\ worker' = "broker_connecting"
    /\ client' = Client("connecting", FALSE, TRUE)
    /\ UNCHANGED <<service, startup, lost, seen, queue, consumer, attempt,
                   stale, ledger, truth, link, earned, faults>>

\* client.start() succeeds: a new session, a new bridge whose counters are
\* zero. start() goes on with reconcile_now; _reconnect returns to the
\* periodic task, which does the same.
Connected ==
    /\ service = "running" /\ client.dialing
    /\ client' = Client("ready", TRUE, FALSE)
    /\ link' = "up" /\ lost' = NoLoss
    /\ worker' = "broker_read_only_ready" /\ consumer' = TRUE
    /\ Goto("begin")
    /\ earned' = FALSE
    /\ UNCHANGED <<service, startup, recovery, seen, queue, stale, ledger,
                   truth, faults>>

\* client.start() raises: logged out and locked; the periodic task tries again.
ConnectFails ==
    /\ service = "running" /\ client.dialing /\ Fault
    /\ client' = Client("locked", FALSE, FALSE)
    /\ PersistLock /\ startup' = FALSE
    /\ UNCHANGED <<service, lost, seen, queue, consumer, attempt, stale,
                   ledger, truth, link, earned>>
------------------------------------------------------------------------------
(* reconcile_now *)

\* Mutant: an account that is ready is left alone.
PeriodicUnlessReady ==
    /\ service = "running" /\ ~startup /\ At("idle") /\ ClientReady /\ ~Ready
    /\ Goto("begin")
    /\ UNCHANGED <<service, worker, startup, recovery, client, lost, seen,
                   queue, consumer, stale, ledger, truth, link, earned, faults>>

\* The periodic task wakes up.
Periodic ==
    /\ service = "running" /\ ~startup /\ At("idle") /\ ClientReady
    /\ Goto("begin")
    /\ UNCHANGED <<service, worker, startup, recovery, client, lost, seen,
                   queue, consumer, stale, ledger, truth, link, earned, faults>>

Begin ==
    /\ service = "running" /\ At("begin")
    /\ worker' = "reconciling"
    /\ recovery' = [status |-> "reconciling", held |-> TRUE]
    /\ Goto("refresh")
    /\ UNCHANGED <<service, startup, client, lost, seen, queue, consumer,
                   stale, ledger, truth, link, earned, faults>>

\* A read of the broker that fails degrades the client and gives the attempt an
\* issue (a session that fails the refresh fails the snapshot after it too);
\* one that succeeds makes the client ready.
Read(pc, next) ==
    /\ service = "running" /\ At(pc)
    /\ IF CanRead
       THEN /\ client' = [client EXCEPT !.state = "ready"]
            /\ next
       ELSE /\ client' = [client EXCEPT !.state = "degraded"]
            /\ attempt' = [attempt EXCEPT !.pc = "complete", !.clean = FALSE]
            /\ UNCHANGED ledger
    /\ UNCHANGED <<service, worker, startup, recovery, lost, seen, queue,
                   consumer, stale, truth, link, earned, faults>>

\* reconcile_broker_orders, then the local orders are read.
Refresh ==
    Read("refresh", /\ ledger' = truth
                    /\ attempt' = [attempt EXCEPT !.pc = "snapshot",
                                                  !.local = truth])

\* reconciliation_snapshot: an event since the refresh is an issue.
Snapshot ==
    Read("snapshot", /\ attempt' = [attempt EXCEPT !.pc = "complete",
                                       !.clean = (attempt.local = truth)]
                     /\ UNCHANGED ledger)

\* complete(): a stale attempt raises, and reconcile_now locks.
Complete ==
    /\ service = "running" /\ At("complete")
    /\ IF recovery.held
       THEN LET ok == attempt.clean
            IN  /\ recovery' = [status |-> IF ok THEN "ready" ELSE "locked",
                                held |-> FALSE]
                /\ attempt' = [attempt EXCEPT !.pc = "conclude", !.ready = ok]
                /\ earned' = (earned \/ ok)
                /\ UNCHANGED <<worker, startup>>
       ELSE /\ PersistLock /\ attempt' = Idle /\ startup' = FALSE
            /\ UNCHANGED earned
    /\ UNCHANGED <<service, client, lost, seen, queue, consumer, stale,
                   ledger, truth, link, faults>>

\* Mutant: a degraded client puts the worker, not the account, out of service.
ConcludeWithoutLock ==
    /\ service = "running" /\ At("conclude")
    /\ worker' = IF attempt.ready /\ client.state = "ready"
                 THEN "ready_read_only" ELSE "locked"
    /\ attempt' = Idle /\ startup' = FALSE
    /\ stale' = FALSE
    /\ UNCHANGED <<service, recovery, client, lost, seen, queue, consumer,
                   ledger, truth, link, earned, faults>>

\* reconcile_now resumes after complete(); before Python 3.12 wait_for runs
\* the attempt as a task of its own, so that others run in between. Then the
\* guardian synchronises, which PositionGuardian has.
Conclude ==
    /\ service = "running" /\ At("conclude")
    /\ IF attempt.ready /\ ClientReady
       THEN worker' = "ready_read_only" /\ UNCHANGED recovery
       ELSE IF attempt.ready THEN PersistLock
       ELSE worker' = "locked" /\ UNCHANGED recovery
    /\ attempt' = Idle /\ startup' = FALSE /\ stale' = FALSE
    /\ UNCHANGED <<service, client, lost, seen, queue, consumer, ledger,
                   truth, link, earned, faults>>

\* reconciliation_timeout cancels the attempt.
Timeout ==
    /\ service = "running" /\ attempt.pc \in {"refresh", "snapshot", "complete"}
    /\ Fault
    /\ PersistLock /\ attempt' = Idle /\ startup' = FALSE
    /\ UNCHANGED <<service, client, lost, seen, queue, consumer, stale,
                   ledger, truth, link, earned>>

\* The dispatcher, the guardian or its synchronisation fails or meets an
\* UNKNOWN order; they run once start() has returned.
TaskLocks ==
    /\ service = "running" /\ ~startup /\ Ready /\ ClientReady /\ Fault
    /\ PersistLock
    /\ UNCHANGED <<service, startup, client, lost, seen, queue, consumer,
                   attempt, stale, ledger, truth, link, earned>>
------------------------------------------------------------------------------
(* Callbacks and the heartbeat *)

MarkDegraded == client' = [client EXCEPT !.state = IF @ = "ready"
                                                   THEN "degraded" ELSE @]

\* External: an order event. The bridge of a working session gets a callback,
\* which finds room in the queue, or none, or cannot be normalised (odd).
OrderEvent(odd) ==
    /\ truth < MaxEvents
    /\ truth' = truth + 1
    /\ LET l == IF odd THEN "normalization_failed" ELSE "dropped"
       IN  IF service # "running" \/ ~client.flags \/ link # "up"
           THEN UNCHANGED <<client, lost, queue>>
           ELSE IF odd \/ queue = QueueSize
           THEN /\ lost' = [lost EXCEPT ![l] = @ + 1]
                /\ MarkDegraded /\ UNCHANGED queue
           ELSE queue' = queue + 1 /\ UNCHANGED <<client, lost>>
    /\ UNCHANGED <<service, worker, startup, recovery, seen, consumer, attempt,
                   stale, ledger, link, earned, faults>>

\* _run_callbacks and consume_one: the order is refreshed from the broker.
Consume ==
    /\ service = "running" /\ consumer /\ queue > 0
    /\ queue' = queue - 1
    /\ IF CanRead
       THEN /\ ledger' = truth
            /\ client' = [client EXCEPT !.state = "ready"]
            /\ UNCHANGED <<recovery, worker>>
       ELSE /\ client' = [client EXCEPT !.state = "degraded"]
            /\ PersistLock /\ UNCHANGED ledger
    /\ UNCHANGED <<service, startup, lost, seen, consumer, attempt, stale,
                   truth, link, earned, faults>>

\* The callback names no order of the local database.
Unmatched ==
    /\ service = "running" /\ consumer /\ queue > 0 /\ Fault
    /\ queue' = queue - 1
    /\ PersistLock
    /\ UNCHANGED <<service, startup, client, lost, seen, consumer, attempt,
                   stale, ledger, truth, link, earned>>

\* The checks of one heartbeat, in the order it makes them; each asks for the
\* state that the ones before it may have changed, and all of them lock.
HeartbeatLocks ==
    /\ worker = "ready_read_only"
    /\ \/ ~ClientReady
       \/ \E l \in Losses : lost[l] > seen[l]
       \/ stale

Heartbeat ==
    /\ service = "running" /\ ~startup
    /\ seen' = lost
    /\ IF HeartbeatLocks THEN PersistLock ELSE UNCHANGED <<recovery, worker>>
    /\ UNCHANGED <<service, startup, client, lost, queue, consumer, attempt,
                   stale, ledger, truth, link, earned, faults>>
------------------------------------------------------------------------------
(* The environment *)

\* The interval between two snapshots outlasts snapshot_stale_seconds.
SnapshotAges ==
    /\ service = "running" /\ worker = "ready_read_only" /\ ~stale /\ Fault
    /\ stale' = TRUE
    /\ UNCHANGED <<service, worker, startup, recovery, client, lost, seen,
                   queue, consumer, attempt, ledger, truth, link, earned>>

\* The SDK's session breaks. Nothing tells the client.
LinkBreaks ==
    /\ link = "up" /\ Fault
    /\ link' = "broken"
    /\ UNCHANGED <<service, worker, startup, recovery, client, lost, seen,
                   queue, consumer, attempt, stale, ledger, truth, earned>>

\* The process ends: on a signal too, since the entry point does not call
\* close(). The database keeps the recovery lock as it was.
Crash ==
    /\ service # "down" /\ Fault
    /\ service' = "down" /\ worker' = "stopped" /\ startup' = FALSE
    /\ client' = Closed /\ lost' = NoLoss /\ seen' = NoLoss /\ queue' = 0
    /\ consumer' = FALSE /\ attempt' = Idle /\ stale' = FALSE
    /\ earned' = FALSE /\ link' = "none"
    /\ UNCHANGED <<recovery, ledger, truth>>

SessionInit ==
    /\ service = "down" /\ worker = "stopped" /\ startup = FALSE
    /\ recovery = [status |-> "locked", held |-> FALSE]
    /\ client = Closed /\ lost = NoLoss /\ seen = NoLoss /\ queue = 0
    /\ consumer = FALSE /\ attempt = Idle /\ stale = FALSE
    /\ ledger = 0 /\ truth = 0 /\ link = "none"
    /\ earned = FALSE /\ faults = 0

\* What the process does by itself; the heartbeat and the callbacks aside.
WorkerStep ==
    \/ Start \/ Reconnect \/ Connected
    \/ Periodic \/ Begin \/ Refresh \/ Snapshot \/ Complete \/ Conclude

SessionNext ==
    \/ WorkerStep \/ ConnectFails \/ Timeout \/ TaskLocks
    \/ \E odd \in BOOLEAN : OrderEvent(odd)
    \/ Consume \/ Unmatched \/ Heartbeat
    \/ SnapshotAges \/ LinkBreaks \/ Crash
=============================================================================
