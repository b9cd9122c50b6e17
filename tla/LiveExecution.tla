---------------------------- MODULE LiveExecution ----------------------------
(***************************************************************************)
(* The Live order path of one broker account: the durable order rows and   *)
(* the two outboxes (broker/repository.py), the recovery lock              *)
(* (broker/recovery.py), the tasks of the canary worker that dispatch,     *)
(* reconcile and consume callbacks (broker/worker.py, manager.py,          *)
(* reconciliation.py, callback_consumer.py), the API process that reserves *)
(* orders and cancels, crashes and restarts, and the external broker.      *)
(*                                                                         *)
(* The tasks share one event loop: a task runs alone between two awaits.   *)
(* The API process and the guardian thread interleave anywhere.            *)
(***************************************************************************)
EXTENDS OrderLifecycle, FiniteSets, FiniteSetsExt

CONSTANTS
    Entries,         \* client order ids that open exposure (buy)
    Exits,           \* client order ids that reduce it (sell, reduce-only)
    GuardianEnabled, \* is a position guardian composed into the worker?
    MaxGeneration    \* bound on the recovery generation, for new work only

Orders == Entries \cup Exits

ASSUME OrdersAssumption ==
    Entries \cap Exits = {} /\ IsFiniteSet(Orders) /\ "none" \notin Orders
ASSUME GuardianAssumption == GuardianEnabled \in BOOLEAN
ASSUME GenerationAssumption == MaxGeneration \in Nat

VARIABLES
    row,        \* live_orders
    outbox,     \* live_order_outbox.state ("none": no row)
    cancelbox,  \* live_cancel_outbox.state
    ledger,     \* lots recorded in live_fills, per order
    truth,      \* last saved broker snapshot: filled lots, per order
    recovery,   \* live_recovery_lock: status and generation
    service,    \* execution service: "down", "composed" or "running"
    disp,       \* _run_canary_dispatch: claimed order, its copy, the answer
    recon,      \* reconcile(): attempt generation, candidates, rows it read
    callb,      \* consume_one: order looked up and its copy
    broker,     \* external: the broker's own order records
    calls,      \* history: place_order calls made per client order id
    lateCalls,  \* history: calls made while not READY, since the last READY
    renewal     \* history: a cancel blocked at boot, and requested again

store  == <<row, outbox, cancelbox, ledger, truth>>
tasks  == <<disp, recon, callb>>
ghosts == <<calls, lateCalls, renewal>>
vars   == <<store, recovery, service, tasks, broker, ghosts>>

NoOrder == "none"
Error   == [status |-> "error", filled |-> 0]   \* the awaited call raised

IdleDispatch  == [pc |-> "idle", order |-> NoOrder, base |-> AbsentRow,
                  report |-> Error]
IdleReconcile == [pc |-> "idle", gen |-> 0, todo |-> {},
                  rows |-> [o \in Orders |-> AbsentRow]]
IdleCallback  == [pc |-> "idle", order |-> NoOrder, base |-> AbsentRow]

BoxState == {"none", "pending", "processing", "blocked", "completed",
             "resolved"}
DispatchPc == {"idle", "claimed", "admitted", "placed", "answered", "lock",
               "cancel_claimed", "cancel_admitted", "cancel_answered",
               "cancel_lock"}

BrokerOrder == [status : ReportStatus \cup {"none"}, filled : 0..Quantity,
                listed : BOOLEAN]
NoBrokerOrder == [status |-> "none", filled |-> 0, listed |-> FALSE]
------------------------------------------------------------------------------
\* Mutant: anything but LOCKED counts as ready.
ReadyWhileReconciling == recovery.status # "locked"

\* RecoveryState.ready, as assert_ready and every gate reads it.
Ready == recovery.status = "ready"

\* RecoveryLockStore.force_lock: a new locked generation.
ForceLock ==
    recovery' = [status |-> "locked", generation |-> recovery.generation + 1]

\* New work is only started below the bound; locks it entails always happen.
Budget == recovery.generation < MaxGeneration

\* Net position of filled lots per order: entries buy, exits sell.
Position(filled) ==
    LET lots(o) == filled[o]
    IN  MapThenSumSet(lots, Entries) - MapThenSumSet(lots, Exits)

\* Between a synchronous claim and its admission, and between a cancel's
\* UNKNOWN result and its lock, the dispatcher does not yield the event loop.
\* After a submit's UNKNOWN result it yields only to notify the guardian.
LoopFree ==
    /\ service = "running"
    /\ disp.pc \notin {"claimed", "cancel_claimed", "cancel_lock"}
    /\ disp.pc = "lock" => GuardianEnabled

\* ShioajiProductionExecutionClient._call: one SDK call at a time.
SdkFree == disp.pc \notin {"placed", "answered", "cancel_answered"}

\* The parts of the admission gates this module keeps: recovery lock, no
\* UNKNOWN order, reduce-only against the saved truth. ARM, kill switch and
\* connection may refuse as well: every admission has a refusing alternative.
Admissible(o) ==
    /\ Ready
    /\ \A p \in Orders : row[p].status # "unknown"
    /\ o \in Exits => Position(truth) >= Quantity
------------------------------------------------------------------------------
(* API process *)

\* LiveOrderManager.create, first call for this client order id. A repeated
\* call finds the row and changes nothing.
Create(o) ==
    /\ row[o].status = "absent"
    /\ Admissible(o)
    /\ row' = [row EXCEPT ![o] = ReservedRow]
    /\ outbox' = [outbox EXCEPT ![o] = "pending"]
    /\ UNCHANGED <<cancelbox, ledger, truth, recovery, service, tasks, broker,
                   ghosts>>

\* LiveOrderManager.request_cancel on an order that is not terminal and has
\* a broker id: reserve the cancel, or find that a cancel row exists.
RequestCancel(o) ==
    /\ Ready
    /\ row[o].status \notin Terminal /\ row[o].bid
    /\ \/ /\ cancelbox[o] = "none"
          /\ CanTransition(row[o], "cancel_pending", row[o].filled)
          /\ row' = [row EXCEPT ![o] =
                TransitionOrder(@, "cancel_pending", FALSE, @.filled)]
          /\ cancelbox' = [cancelbox EXCEPT ![o] = "pending"]
       \/ /\ cancelbox[o] # "none"
          /\ UNCHANGED <<row, cancelbox>>
    /\ renewal' = [renewal EXCEPT ![o] =
          IF @ = "blocked" THEN "again" ELSE @]
    /\ UNCHANGED <<outbox, ledger, truth, recovery, service, tasks, broker,
                   calls, lateCalls>>
------------------------------------------------------------------------------
(* Dispatch task: submit *)

\* dispatch_once up to the claim; the loop tries a cancel first.
ClaimNext(o) ==
    /\ service = "running" /\ disp.pc = "idle" /\ Ready
    /\ \A p \in Orders : cancelbox[p] # "pending"
    /\ outbox[o] = "pending"
    /\ outbox' = [outbox EXCEPT ![o] = "processing"]
    /\ disp' = [pc |-> "claimed", order |-> o, base |-> row[o],
                report |-> Error]
    /\ UNCHANGED <<row, cancelbox, ledger, truth, recovery, service, recon,
                   callb, broker, ghosts>>

\* _assert_order_admitted accepts; the broker call is awaited next.
AdmitOrder ==
    /\ disp.pc = "claimed"
    /\ Admissible(disp.order)
    /\ disp' = [disp EXCEPT !.pc = "admitted"]
    /\ UNCHANGED <<store, recovery, service, recon, callb, broker, ghosts>>

\* _assert_order_admitted raises: block_dispatch.
BlockDispatch ==
    /\ disp.pc = "claimed"
    /\ row' = [row EXCEPT ![disp.order] = disp.base]
    /\ outbox' = [outbox EXCEPT ![disp.order] = "blocked"]
    /\ disp' = IdleDispatch
    /\ UNCHANGED <<cancelbox, ledger, truth, recovery, service, recon, callb,
                   broker, ghosts>>

\* api.place_order runs: the broker takes the order, rejects it, or never
\* sees it.
PlaceOrder ==
    /\ disp.pc = "admitted"
    /\ calls' = [calls EXCEPT ![disp.order] = @ + 1]
    /\ lateCalls' = IF recovery.status = "ready" THEN lateCalls
                    ELSE lateCalls + 1
    /\ \/ /\ disp' = [disp EXCEPT !.pc = "answered"]
          /\ UNCHANGED broker
       \/ /\ disp' = [disp EXCEPT !.pc = "placed"]
          /\ \E s \in {"accepted", "rejected"} :
                broker' = [broker EXCEPT ![disp.order] =
                    [status |-> s, filled |-> 0, listed |-> TRUE]]
    /\ UNCHANGED <<store, recovery, service, recon, callb, renewal>>

\* What the broker says of an order now.
ReportOf(o) == [status |-> broker[o].status, filled |-> broker[o].filled]

\* The answer of place_order: the trade as it was when it was taken or as it
\* is now, or an exception although the order reached the broker.
SubmitAnswers(o) ==
    {Error, ReportOf(o)}
        \cup {r \in {[status |-> "accepted", filled |-> 0]} :
                 broker[o].status # "rejected"}

AnswerSubmit ==
    /\ disp.pc = "placed"
    /\ \E r \in SubmitAnswers(disp.order) :
          disp' = [disp EXCEPT !.pc = "answered", !.report = r]
    /\ UNCHANGED <<store, recovery, service, recon, callb, broker, ghosts>>

\* submit_order starts from a fresh SUBMITTING record; an exception, or a
\* report that record cannot take, becomes UNKNOWN without a broker id.
SubmittingRow == [status |-> "submitting", bid |-> FALSE, filled |-> 0]

SubmitResult ==
    IF disp.report # Error /\ CanApply(SubmittingRow, disp.report)
    THEN ApplyReport(SubmittingRow, disp.report)
    ELSE ToUnknown(disp.base)

\* Mutant: the outbox row stays queued until the order is terminal.
RecordSubmitKeepsPending(r) ==
    /\ row' = [row EXCEPT ![disp.order] = r]
    /\ outbox' = [outbox EXCEPT ![disp.order] =
          IF r.status = "unknown" THEN "blocked"
          ELSE IF r.status \in Terminal THEN "completed" ELSE "pending"]
    /\ disp' = IF r.status = "unknown"
               THEN [IdleDispatch EXCEPT !.pc = "lock"] ELSE IdleDispatch
    /\ UNCHANGED <<cancelbox, ledger, truth, recovery, service, recon, callb,
                   broker, ghosts>>

\* finish_dispatch with the result r; an UNKNOWN one blocks the outbox row.
RecordSubmit(r) ==
    /\ row' = [row EXCEPT ![disp.order] = r]
    /\ outbox' = [outbox EXCEPT ![disp.order] =
          IF r.status = "unknown" THEN "blocked" ELSE "completed"]
    /\ disp' = IF r.status = "unknown"
               THEN [IdleDispatch EXCEPT !.pc = "lock"] ELSE IdleDispatch
    /\ UNCHANGED <<cancelbox, ledger, truth, recovery, service, recon, callb,
                   broker, ghosts>>

FinishDispatch == disp.pc = "answered" /\ RecordSubmit(SubmitResult)

\* The client refuses before any SDK call (readiness, source policy): the
\* exception is recorded without an await in between.
RefuseSubmit ==
    /\ disp.pc = "claimed"
    /\ Admissible(disp.order)
    /\ RecordSubmit(ToUnknown(disp.base))

\* Mutant: the lock after an UNKNOWN result is forgotten.
PersistUnknownLockForgotten ==
    /\ disp.pc \in {"lock", "cancel_lock"}
    /\ disp' = IdleDispatch
    /\ UNCHANGED <<store, recovery, service, recon, callb, broker, ghosts>>

\* The loop persists the lock that an UNKNOWN result requires.
PersistUnknownLock ==
    /\ disp.pc \in {"lock", "cancel_lock"}
    /\ ForceLock
    /\ disp' = IdleDispatch
    /\ UNCHANGED <<store, service, recon, callb, broker, ghosts>>
------------------------------------------------------------------------------
(* Dispatch task: cancel *)

Working(o) == broker[o].status \in {"accepted", "partially_filled"}

\* cancel_order sends nothing for a terminal or an UNKNOWN record.
CancelPossible ==
    /\ disp.base.status \notin Terminal
    /\ CanTransition(disp.base, "cancel_pending", disp.base.filled)

\* dispatch_cancel_once up to the claim.
ClaimNextCancel(o) ==
    /\ service = "running" /\ disp.pc = "idle" /\ Ready
    /\ cancelbox[o] = "pending"
    /\ cancelbox' = [cancelbox EXCEPT ![o] = "processing"]
    /\ disp' = [pc |-> "cancel_claimed", order |-> o, base |-> row[o],
                report |-> Error]
    /\ UNCHANGED <<row, outbox, ledger, truth, recovery, service, recon,
                   callb, broker, ghosts>>

\* assert_cancel_allowed accepts and the cancel call is awaited.
AdmitCancel ==
    /\ disp.pc = "cancel_claimed" /\ Ready /\ CancelPossible
    /\ disp' = [disp EXCEPT !.pc = "cancel_admitted"]
    /\ UNCHANGED <<store, recovery, service, recon, callb, broker, ghosts>>

\* The task state after an order came back from the cancel path.
AfterCancel(r) == IF r.status = "unknown"
                  THEN [IdleDispatch EXCEPT !.pc = "cancel_lock"]
                  ELSE IdleDispatch

\* assert_cancel_allowed raises: block_cancel.
BlockCancel ==
    /\ disp.pc = "cancel_claimed"
    /\ row' = [row EXCEPT ![disp.order] = disp.base]
    /\ cancelbox' = [cancelbox EXCEPT ![disp.order] = "blocked"]
    /\ renewal' = [renewal EXCEPT ![disp.order] = "none"]
    /\ disp' = AfterCancel(disp.base)
    /\ UNCHANGED <<outbox, ledger, truth, recovery, service, recon, callb,
                   broker, calls, lateCalls>>

\* api.cancel_order runs: the broker may cancel a working order, and the call
\* raises or reports the broker's state.
CallCancel ==
    /\ disp.pc = "cancel_admitted"
    /\ \/ UNCHANGED broker
       \/ /\ Working(disp.order)
          /\ broker' = [broker EXCEPT ![disp.order].status = "cancelled"]
    /\ \E r \in {Error, [status |-> broker'[disp.order].status,
                         filled |-> broker'[disp.order].filled]} :
          disp' = [disp EXCEPT !.pc = "cancel_answered", !.report = r]
    /\ UNCHANGED <<store, recovery, service, recon, callb, ghosts>>

\* The report is applied to a CANCEL_PENDING copy of the claimed record; an
\* exception, or a report that copy cannot take, is UNKNOWN.
PendingCopy == TransitionOrder(disp.base, "cancel_pending", FALSE,
                               disp.base.filled)

CancelResult ==
    IF disp.report # Error /\ CanApply(PendingCopy, disp.report)
    THEN ApplyReport(PendingCopy, disp.report)
    ELSE ToUnknown(disp.base)

\* finish_cancel with the result r.
RecordCancel(r) ==
    /\ row' = [row EXCEPT ![disp.order] = r]
    /\ cancelbox' = [cancelbox EXCEPT ![disp.order] =
          IF r.status = "unknown" THEN "blocked" ELSE "completed"]
    /\ renewal' = [renewal EXCEPT ![disp.order] = "none"]
    /\ disp' = AfterCancel(r)
    /\ UNCHANGED <<outbox, ledger, truth, recovery, service, recon, callb,
                   broker, calls, lateCalls>>

FinishCancel == disp.pc = "cancel_answered" /\ RecordCancel(CancelResult)

\* Nothing is sent: a terminal record is returned as it is; an UNKNOWN one, or
\* a client that refuses, ends in UNKNOWN. No await in between.
SkipCancel ==
    /\ disp.pc = "cancel_claimed" /\ Ready
    /\ RecordCancel(IF disp.base.status \in Terminal THEN disp.base
                    ELSE ToUnknown(disp.base))
------------------------------------------------------------------------------
(* Refresh from broker truth, shared by reconciliation and callbacks *)

\* refresh_order(base) when the read succeeds: without an id, or when the
\* broker no longer lists the order, the status becomes UNKNOWN.
Found(base, o)      == base.bid /\ broker[o].listed
CanRefresh(base, o) == IF Found(base, o) THEN CanApply(base, ReportOf(o))
                       ELSE CanTransition(base, "unknown", base.filled)

\* Mutant: an order the broker no longer lists is taken for cancelled.
RefreshedAsCancelled(base, o) ==
    IF Found(base, o) THEN ApplyReport(base, ReportOf(o))
    ELSE [base EXCEPT !.status = "cancelled"]

Refreshed(base, o)  == IF Found(base, o) THEN ApplyReport(base, ReportOf(o))
                       ELSE ToUnknown(base)

\* save_reconciliation: overwrite the row, resolve a blocked submit.
SaveReconciliation(o, r) ==
    /\ row' = [row EXCEPT ![o] = r]
    /\ outbox' = [outbox EXCEPT ![o] =
          IF r.status # "unknown" /\ @ = "blocked" THEN "resolved" ELSE @]
    /\ UNCHANGED <<cancelbox, ledger, truth>>
------------------------------------------------------------------------------
(* Reconciliation task *)

\* reconciliation_candidates: orders that may have reached the broker.
Candidates == {o \in Orders : row[o].status \in
    {"submitting", "accepted", "partially_filled", "cancel_pending",
     "unknown"}}

\* recovery_lock.begin and the candidate list, copies of the rows.
BeginReconcile ==
    /\ LoopFree /\ recon.pc = "idle" /\ Budget
    /\ recovery' = [status |-> "reconciling",
                    generation |-> recovery.generation + 1]
    /\ recon' = [pc |-> "refresh", gen |-> recovery.generation + 1,
                 todo |-> Candidates, rows |-> row]
    /\ UNCHANGED <<store, service, disp, callb, broker, ghosts>>

\* Mutant: the refreshed order stays in the work list.
RefreshCandidateAgain(o) ==
    /\ LoopFree /\ SdkFree
    /\ recon.pc = "refresh" /\ o \in recon.todo
    /\ \/ /\ CanRefresh(recon.rows[o], o)
          /\ SaveReconciliation(o, Refreshed(recon.rows[o], o))
       \/ SaveReconciliation(o, ToUnknown(recon.rows[o]))
    /\ UNCHANGED <<recovery, service, tasks, broker, ghosts>>

\* One iteration of reconcile_broker_orders: a failed read or an impossible
\* transition is saved as UNKNOWN.
RefreshCandidate(o) ==
    /\ LoopFree /\ SdkFree
    /\ recon.pc = "refresh" /\ o \in recon.todo
    /\ \/ /\ CanRefresh(recon.rows[o], o)
          /\ SaveReconciliation(o, Refreshed(recon.rows[o], o))
       \/ SaveReconciliation(o, ToUnknown(recon.rows[o]))
    /\ recon' = [recon EXCEPT !.todo = @ \ {o}]
    /\ UNCHANGED <<recovery, service, disp, callb, broker, ghosts>>

\* order_store.orders(): the rows the snapshot will be compared with.
ReadLocalOrders ==
    /\ LoopFree /\ recon.pc = "refresh" /\ recon.todo = {}
    /\ recon' = [recon EXCEPT !.pc = "snapshot", !.rows = row]
    /\ UNCHANGED <<store, recovery, service, disp, callb, broker, ghosts>>

\* Mutants: one half of the comparison is left out.
NoOrderIssuesLocalOnly(local) ==
    \A o \in Orders :
        /\ local[o].status = "unknown" => local[o].bid
        /\ local[o].bid /\ local[o].status \notin Terminal
              => broker[o].listed

NoOrderIssuesIdsOnly(local) ==
    \A o \in Orders :
        /\ local[o].bid /\ local[o].status \notin Terminal
              => broker[o].listed
        /\ broker[o].listed /\ local[o].bid =>
              /\ local[o].status = broker[o].status
              /\ local[o].filled = broker[o].filled

\* _issues(local, snapshot) is empty. Snapshots that contradict themselves
\* (identity, duplicates, orphan deals) count as failed reads.
NoOrderIssues(local) ==
    \A o \in Orders :
        /\ local[o].status = "unknown" => local[o].bid
        /\ local[o].bid /\ local[o].status \notin Terminal
              => broker[o].listed
        /\ broker[o].listed =>
              /\ local[o].bid
              /\ local[o].status = broker[o].status
              /\ local[o].filled = broker[o].filled

\* The fills behind the positions the broker reports.
BrokerFills == [o \in Orders |-> broker[o].filled]

NoPositionIssues(local) ==
    Position([o \in Orders |-> local[o].filled]) = Position(BrokerFills)

NoIssues(local) == NoOrderIssues(local) /\ NoPositionIssues(local)

\* Mutant: complete does not compare generations.
CompleteAnyGeneration(clean) ==
    recovery' = [recovery EXCEPT !.status =
                    IF clean THEN "ready" ELSE "locked"]

\* recovery_lock.complete(expected_generation). A stale attempt raises and
\* reconcile_now persists a new lock.
Complete(clean) ==
    IF recon.gen = recovery.generation
    THEN recovery' = [recovery EXCEPT !.status =
                        IF clean THEN "ready" ELSE "locked"]
    ELSE ForceLock

\* Mutants: fills are added again, or the ledger is rebuilt from the snapshot.
RecordFillsAgain(o) ==
    IF broker[o].listed THEN ledger[o] + broker[o].filled ELSE ledger[o]
RecordFillsFromScratch(o) == IF broker[o].listed THEN broker[o].filled ELSE 0

\* apply_reconciled_snapshot: insert the listed fills that are not there yet.
RecordFills(o) == IF broker[o].listed THEN broker[o].filled ELSE ledger[o]

\* The snapshot is read, saved as truth and compared; its fills are recorded
\* when nothing is wrong; the attempt completes.
CompleteReconcile ==
    /\ LoopFree /\ SdkFree /\ recon.pc = "snapshot"
    /\ truth' = BrokerFills
    /\ ledger' = IF NoIssues(recon.rows)
                 THEN [o \in Orders |-> RecordFills(o)] ELSE ledger
    /\ Complete(NoIssues(recon.rows))
    /\ lateCalls' = IF recovery'.status = "ready" THEN 0 ELSE lateCalls
    /\ recon' = IdleReconcile
    /\ UNCHANGED <<row, outbox, cancelbox, service, disp, callb, broker,
                   calls, renewal>>

\* The snapshot read raises: reconciliation_failed.
FailReconcile ==
    /\ LoopFree /\ SdkFree /\ recon.pc = "snapshot"
    /\ Complete(FALSE)
    /\ recon' = IdleReconcile
    /\ UNCHANGED <<store, service, disp, callb, broker, ghosts>>

\* wait_for cancels the attempt: reconciliation_timeout.
TimeoutReconcile ==
    /\ LoopFree /\ recon.pc # "idle"
    /\ ForceLock
    /\ recon' = IdleReconcile
    /\ UNCHANGED <<store, service, disp, callb, broker, ghosts>>
------------------------------------------------------------------------------
(* Callback task: an event names a broker order; it may be early, late,      *)
(* repeated or lost, and its content is never used.                          *)

\* consume_one up to the lookup by broker order id. Unmatched events lock.
TakeCallback(o) ==
    /\ LoopFree /\ callb.pc = "idle" /\ Budget
    /\ broker[o].status # "none"
    /\ \/ /\ row[o].bid
          /\ callb' = [pc |-> "refresh", order |-> o, base |-> row[o]]
          /\ UNCHANGED recovery
       \/ /\ ~row[o].bid
          /\ ForceLock
          /\ UNCHANGED callb
    /\ UNCHANGED <<store, service, disp, recon, broker, ghosts>>

\* reconcile_by_broker_order_id resumes with the broker's state.
RefreshCallback ==
    /\ LoopFree /\ SdkFree /\ callb.pc = "refresh"
    /\ CanRefresh(callb.base, callb.order)
    /\ SaveReconciliation(callb.order, Refreshed(callb.base, callb.order))
    /\ callb' = IdleCallback
    /\ UNCHANGED <<recovery, service, disp, recon, broker, ghosts>>

\* The refresh raises: the event is FAILED and the worker locks.
FailCallback ==
    /\ LoopFree /\ SdkFree /\ callb.pc = "refresh"
    /\ ForceLock
    /\ callb' = IdleCallback
    /\ UNCHANGED <<store, service, disp, recon, broker, ghosts>>
------------------------------------------------------------------------------
(* Other locks, crash and restart *)

\* _persist_lock from the heartbeat, the reconnect path, the guardian thread
\* or an orderly stop.
PersistLock ==
    /\ service = "running" /\ Budget
    /\ ForceLock
    /\ UNCHANGED <<store, service, tasks, broker, ghosts>>

\* The execution service dies; only the database survives. (Dying between
\* Compose and Start only repeats Compose, which is idempotent.)
Crash ==
    /\ service = "running" /\ Budget
    /\ service' = "down"
    /\ disp' = IdleDispatch
    /\ recon' = IdleReconcile
    /\ callb' = IdleCallback
    /\ UNCHANGED <<store, recovery, broker, ghosts>>

\* Composition at boot: block_pending_dispatches, then the manager's
\* recover_interrupted_dispatches.
InFlight == {"pending", "processing"}

\* Mutant: work claimed before the crash is not picked up at boot.
BootBoxPendingOnly(s) == IF s = "pending" THEN "blocked" ELSE s

BootBox(s) == IF s \in InFlight THEN "blocked" ELSE s
BootRow(o) ==
    IF outbox[o] = "processing" \/ cancelbox[o] = "processing"
    THEN [row[o] EXCEPT !.status = "unknown"] ELSE row[o]

Compose ==
    /\ service = "down"
    /\ service' = "composed"
    /\ row' = [o \in Orders |-> BootRow(o)]
    /\ outbox' = [o \in Orders |-> BootBox(outbox[o])]
    /\ cancelbox' = [o \in Orders |-> BootBox(cancelbox[o])]
    /\ renewal' = [o \in Orders |->
          IF cancelbox[o] = "pending" THEN "blocked" ELSE renewal[o]]
    /\ UNCHANGED <<ledger, truth, recovery, tasks, broker, calls, lateCalls>>

\* BrokerAccountWorker.start: the lock is its first side effect.
Start ==
    /\ service = "composed"
    /\ ForceLock
    /\ service' = "running"
    /\ UNCHANGED <<store, tasks, broker, ghosts>>
------------------------------------------------------------------------------
(* External broker *)

\* One lot of a working order trades.
BrokerFill(o) ==
    /\ Working(o)
    /\ broker[o].filled < Quantity
    /\ broker' = [broker EXCEPT ![o] =
          [status |-> IF @.filled + 1 = Quantity
                      THEN "filled" ELSE "partially_filled",
           filled |-> @.filled + 1,
           listed |-> @.listed]]
    /\ UNCHANGED <<store, recovery, service, tasks, ghosts>>

\* The broker or the exchange ends a working order.
BrokerEnd(o) ==
    /\ Working(o)
    /\ \E s \in {"cancelled", "expired"} :
          broker' = [broker EXCEPT ![o].status = s]
    /\ UNCHANGED <<store, recovery, service, tasks, ghosts>>

\* A finished order of an earlier session leaves the broker's listing; its
\* fills stay in the position.
BrokerDelist(o) ==
    /\ broker[o].status \in Terminal /\ broker[o].listed
    /\ disp.order # o
    /\ broker' = [broker EXCEPT ![o] =
          [status |-> @.status, filled |-> @.filled, listed |-> FALSE]]
    /\ UNCHANGED <<store, recovery, service, tasks, ghosts>>
------------------------------------------------------------------------------
Init ==
    /\ row = [o \in Orders |-> AbsentRow]
    /\ outbox = [o \in Orders |-> "none"]
    /\ cancelbox = [o \in Orders |-> "none"]
    /\ ledger = [o \in Orders |-> 0]
    /\ truth = [o \in Orders |-> 0]
    /\ recovery = [status |-> "locked", generation |-> 0]
    /\ service = "down"
    /\ disp = IdleDispatch /\ recon = IdleReconcile /\ callb = IdleCallback
    /\ broker = [o \in Orders |-> NoBrokerOrder]
    /\ calls = [o \in Orders |-> 0]
    /\ lateCalls = 0
    /\ renewal = [o \in Orders |-> "none"]

Api == \E o \in Orders : Create(o) \/ RequestCancel(o)

Dispatcher ==
    \/ \E o \in Orders : ClaimNext(o) \/ ClaimNextCancel(o)
    \/ AdmitOrder \/ BlockDispatch \/ RefuseSubmit \/ PlaceOrder
    \/ AnswerSubmit \/ FinishDispatch \/ PersistUnknownLock
    \/ AdmitCancel \/ BlockCancel \/ SkipCancel \/ CallCancel
    \/ FinishCancel

Reconciler ==
    \/ BeginReconcile
    \/ \E o \in Orders : RefreshCandidate(o)
    \/ ReadLocalOrders \/ CompleteReconcile \/ FailReconcile
    \/ TimeoutReconcile

Callbacks ==
    (\E o \in Orders : TakeCallback(o)) \/ RefreshCallback \/ FailCallback

Broker == \E o \in Orders : BrokerFill(o) \/ BrokerEnd(o) \/ BrokerDelist(o)

Next == Api \/ Dispatcher \/ Reconciler \/ Callbacks \/ Broker
        \/ PersistLock \/ Crash \/ Compose \/ Start

Spec == Init /\ [][Next]_vars

\* The event loop keeps running its tasks, SDK calls end (they carry their own
\* timeout) and the supervisor restarts a dead service. Operators, callbacks
\* and the broker owe nothing.
Fairness ==
    /\ WF_vars(AdmitOrder \/ BlockDispatch \/ RefuseSubmit \/ PlaceOrder
               \/ AnswerSubmit \/ FinishDispatch \/ PersistUnknownLock
               \/ AdmitCancel \/ BlockCancel \/ SkipCancel \/ CallCancel
               \/ FinishCancel)
    /\ WF_vars((\E o \in Orders : RefreshCandidate(o)) \/ ReadLocalOrders
               \/ CompleteReconcile \/ FailReconcile)
    /\ WF_vars(RefreshCallback \/ FailCallback)
    /\ WF_vars(Compose) /\ WF_vars(Start)

FairSpec == Spec /\ Fairness
------------------------------------------------------------------------------
(* Properties *)

\* Every variable keeps to the values its table, task or record can hold.
TypeOK ==
    /\ row \in [Orders -> Row]
    /\ outbox \in [Orders -> BoxState]
    /\ cancelbox \in [Orders -> BoxState]
    /\ ledger \in [Orders -> 0..Quantity]
    /\ truth \in [Orders -> 0..Quantity]
    /\ recovery \in [status : {"locked", "reconciling", "ready"},
                     generation : Nat]
    /\ service \in {"down", "composed", "running"}
    /\ disp \in [pc : DispatchPc, order : Orders \cup {NoOrder}, base : Row,
                 report : Report \cup {Error}]
    /\ recon \in [pc : {"idle", "refresh", "snapshot"}, gen : Nat,
                  todo : SUBSET Orders, rows : [Orders -> Row]]
    /\ callb \in [pc : {"idle", "refresh"}, order : Orders \cup {NoOrder},
                  base : Row]
    /\ broker \in [Orders -> BrokerOrder]
    /\ calls \in [Orders -> Nat]
    /\ lateCalls \in Nat
    /\ renewal \in [Orders -> {"none", "blocked", "again"}]

\* A client order id reaches api.place_order at most once, whatever crashes,
\* restarts, ambiguous answers and reconciliations happen in between
\* (docs/order-lifecycle.md, Live safety rule 3).
AtMostOneSubmission == \A o \in Orders : calls[o] <= 1

\* The platform never records an order as finished unless the broker finished
\* it the same way, with the same filled quantity: no stale copy, lost answer
\* or restart makes a working order look closed.
TerminalIsBrokerTruth ==
    \A o \in Orders : row[o].status \in Terminal =>
        /\ row[o].status = broker[o].status
        /\ row[o].filled = broker[o].filled

\* While an order's submission is ambiguous (UNKNOWN without a broker id) the
\* account is locked, except until the dispatcher that produced it persists
\* its lock or, if it died first, until the restarted worker does.
Ambiguous(o) == row[o].status = "unknown" /\ ~row[o].bid

AmbiguousIsLocked ==
    (\E o \in Orders : Ambiguous(o)) /\ Ready =>
        disp.pc = "lock" \/ service # "running"

\* An outbox row in 'processing' always has its owner: the running dispatcher
\* holds exactly that order, or the service is down and boot will block it.
ClaimsHaveOwner ==
    \A o \in Orders :
        outbox[o] = "processing" \/ cancelbox[o] = "processing" =>
            service = "down" \/ disp.order = o

\* Once the lock is persisted, at most one order, the one already admitted,
\* still reaches the broker before a reconciliation unlocks the account.
AtMostOneLateCall == lateCalls <= 1

\* The fill ledger never claims a fill the broker does not have.
LedgerBehindBroker == \A o \in Orders : ledger[o] <= broker[o].filled

\* The fill ledger never loses a fill, although the tasks record fills from
\* copies of any age.
FillsAreKept == [][\A o \in Orders : ledger'[o] >= ledger[o]]_vars

\* A reconciliation that unlocks has attributed the broker's whole listing:
\* every listed order is a local order with a known id, whose recorded and
\* ledgered fills are the broker's, in the database as it is at that moment.
Unlocks == recovery.status # "ready" /\ recovery'.status = "ready"

UnlockMatchesBroker ==
    [][Unlocks => \A o \in Orders : broker[o].listed =>
          /\ row'[o].bid
          /\ row'[o].filled = broker[o].filled
          /\ ledger'[o] = broker[o].filled]_vars

\* The worker, its dispatcher and its callbacks use the lock as RecoveryLock
\* says: whoever they interleave with, an account becomes READY only through
\* the reconciliation that began last, with no lock since (the guarded UPDATE
\* of recovery.py:231-269).
Abstract == INSTANCE RecoveryLock
                WITH status <- recovery.status,
                     generation <- recovery.generation

RefinesRecoveryLock == Abstract!Spec

\* No reconciliation unlocks the account while some order is UNKNOWN without
\* a broker id in the database (docs/order-lifecycle.md:133-134). It holds of a
\* worker without a guardian; with one, the dispatcher yields the event loop
\* between recording the UNKNOWN result and locking.
UnlockNeverOverAmbiguous ==
    [][Unlocks => \A o \in Orders : ~Ambiguous(o)]_vars

\* The answer to a cancel never replaces a FILLED row: the fill that raced it
\* wins.
FilledSurvivesCancel ==
    [][\A o \in Orders :
          /\ cancelbox[o] = "processing" /\ cancelbox'[o] # "processing"
          /\ service = "running"
          /\ row[o].status = "filled"
          => row'[o].status = "filled"]_vars

\* A cancel that was blocked at a restart can be requested again: once the new
\* request returned for a working order, its outbox row is dispatchable.
BlockedCancelIsRenewable ==
    \A o \in Orders :
        renewal[o] = "again" /\ row[o].status \notin Terminal
            => cancelbox[o] # "blocked"

\* A claimed submission or cancel is eventually answered, blocked or handed
\* to reconciliation, whatever crashes.
ClaimEnds ==
    \A o \in Orders :
        /\ outbox[o] = "processing" ~> outbox[o] # "processing"
        /\ cancelbox[o] = "processing" ~> cancelbox[o] # "processing"

\* An account that is READY over an ambiguous order is eventually locked.
AmbiguityLocks == ((\E o \in Orders : Ambiguous(o)) /\ Ready) ~> ~Ready

\* Every reconciliation attempt comes to an end.
AttemptEnds == recon.pc # "idle" ~> recon.pc = "idle"
=============================================================================
