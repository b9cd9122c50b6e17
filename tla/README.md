# TLA+ models of the Taiwan futures trading platform

Specifications, model-checking configurations and machine-checked proofs for
the Python platform in `tw_quant/` (a Taiwan index futures research, paper and
live trading system). They cover the path of a *real* order from a strategy's
decision to the broker and back, the guardian that closes real positions, the
service around them, the paper account and its runtimes, the market feed, and
the stores of users and strategies.

## 1. The system

| Part | State it keeps | Operations | Hard behaviour |
|---|---|---|---|
| Live order store (`broker/repository.py`) | SQLite tables `live_orders`, `live_order_outbox`, `live_cancel_outbox`, `live_fills`, `live_positions` | reserve, claim, finish, block, cancel reserve/claim/finish, save_reconciliation, boot recovery, fill recording | crash between claim and finish, unconditional overwrites |
| Order lifecycle (`broker/lifecycle.py`, `models.py`) | none (immutable record) | `transition_order` | the transition table against what a broker really answers |
| Recovery lock (`broker/recovery.py`) | status, generation per account | begin, force_lock, complete (compare generation), assert_ready | late completion of an overtaken attempt |
| Live order manager and Shioaji adapter (`broker/manager.py`, `shioaji.py`) | copies of records held across awaits | create, request_cancel, dispatch_once, dispatch_cancel_once, three refreshes | stale copies, exceptions as UNKNOWN |
| Reconciliation, callbacks (`broker/reconciliation.py`, `callback_consumer.py`) | rows read before the snapshot | reconcile, consume_one | interleaving with the dispatcher, early and repeated callbacks |
| Account worker (`broker/worker.py`) | task set, worker state | start, reconcile_now, periodic reconciliation, dispatch loop, heartbeat, reconnect | await points, timeouts, who locks when |
| Production client (`broker/shioaji_production.py`) | SDK lock, session flags, callback bridge | connect, close, submit, cancel, order, snapshot | ambiguous calls, lost callbacks, broken session |
| Execution targets and service (`broker/execution_target*.py`, `execution_service/`) | target rows, secret directories | migrate, rollback, build, start | command killed between its steps |
| Position guardian (`execution/guardian.py`, `broker/guardian_*.py`) | managed positions with one exit reservation | synchronize, evaluate quotes, request_exit, process_kill_switches | one exit at a time, retry after an unfilled exit, restart |
| Canary ARM and Live Auto (`broker/canary*.py`, `live/application/live_canary.py`, `live_auto.py`) | ARM in memory and in the database, kill switches | arm, disarm, stop, on_decision, reserve | expiry between check and use, two owners of one row |
| Shadow execution (`execution/shadow.py`, `live/application/live_shadow.py`) | queue, reservations, answers | evaluate, save, answer, stop | stale reservations, unanswered decisions, a thread that dies |
| Paper account (`paper/`, `execution/simulated_broker.py`, `risk/account.py`, `events/`) | orders, position, risk state, event store | submit, bars, kill switch, roll, recover | threads in one unlocked engine, crash before commit |
| Trading runtimes (`live/application/trading_runtime.py`, `paper_auto.py`) | status, cursor, decisions | create, arm, pause, stop, evaluate | restart, listener errors |
| Market feed (`live/service.py`, `aggregator.py`, `hub.py`, `market/timeframes.py`) | tick queue, current bar, bars, client queues | take, aggregate, save, announce, backfill, stream | late, repeated and dropped ticks, slow clients |
| Users (`auth/`) | accounts, requests, audit | visit, request, approve, update | last administrator, reassigned addresses |
| Strategies and backtests (`live/storage.py`, `strategies.py`, `research.py`) | versions, archive, runs | save, archive, purge, backtest | requests validated before they write |
| Database upgrade (`live/storage.py`) | tables of earlier releases | rename, create, copy, drop | crash between statements, rewritten foreign keys |
| Strategy engine, backtest, replay, rate limits, HTTP routes, dashboard | - | - | numeric, sequential or presentation code: not modelled |

How the live parts interact: the API process reserves orders and cancels in
SQLite and never talks to the broker. The execution service, a second process,
runs one worker per account. Its asyncio tasks (dispatch, callbacks, periodic
reconciliation, heartbeat, guardian) share the event loop, so a task runs alone
between two awaits; guardian work and SDK calls run in threads, and all SDK
calls go through one lock. Every task reads and writes the same tables, and the
recovery lock is the only thing that tells them all to stop. In the API process
the market feed announces closed bars to the runtimes, which decide and hand
their decisions to the paper account, to the shadow controller or to Live Auto.

What must hold of it: a client order id reaches the broker at most once,
whatever crashes; a row never claims an end the broker did not reach; an
ambiguous submission locks the account; a lock cannot be undone by an attempt
that began before it; READY is earned by a reconciliation of the current session;
automatic orders are sent only under the consent they were made under; limits
count what is reserved; what memory did can be recovered from the store; no
trade is counted twice; claims, ambiguities, attempts and decisions come to an
end.

## 2. Modules

Operators whose comment begins with "Mutant" are variants with a bug; no
action uses them, they show that each property can fail. A module's `TypeOK`
records the types of its variables.

* `OrderLifecycle`: the order record and `transition_order`, as operators. A
  record keeps status, whether the broker id is known, and the filled lots.
* `LiveExecution` (extends it): the state machine.
  * `row`, `outbox`, `cancelbox`, `ledger` are the tables; `truth` is the last
    saved snapshot; `recovery` the lock row; `service` the process.
  * `disp`, `recon`, `callb` are the locals of the three tasks across their
    awaits: program counter, the order and the *copy* of its record, the answer.
    One action is one stretch of code between awaits.
  * `LoopFree` says when other tasks can run: not between a claim and its
    admission, nor between a cancel's UNKNOWN result and its lock, which the code
    does without awaiting. After a submit's UNKNOWN result the loop is released
    only if a guardian is composed (`asyncio.to_thread(mark_order_unknown)`).
    `SdkFree` is the client's SDK lock.
  * `Create` and `RequestCancel` belong to the API process, `PersistLock` stands
    for every other caller of `_persist_lock` (heartbeat, reconnect, guardian
    failure, orderly stop), `Crash`, `Compose` and `Start` for the life of the
    service: composition blocks pending work and marks claimed work UNKNOWN, the
    start persists a lock before anything else.
  * The broker is external: it accepts, rejects or never sees an order, fills,
    ends and eventually delists it. A read returns its state or fails.
  * `calls`, `lateCalls` and `renewal` are history variables.
* `PositionGuardian`: the guardian of one account and contract.
  * `pos` is the row of `live_managed_positions`: state, quantity, average price
    (an exact fraction, as the code's 1e-9 tolerance intends), generation, active
    exit (the record of generation and reason that `_exit_id` hashes) and
    deferred reason. `ord` and `queue` are the orders and the outbox, `truth` the
    saved snapshot, `recovery`, `service` and `kill` what their tables hold.
  * `req` is a `request_exit` in progress, one in the worker's guardian loop and
    one in the API process: `Ask`, `GetPosition`, `ReserveExit`, then
    `CreateExit` or `ReleaseExit`, each one transaction. `sync` is
    `reconcile_now`: the reconciliation, then `synchronize()` with its read
    (`SyncRead`) and its write (`SyncWrite`) apart. `mark` is the dispatcher
    between an UNKNOWN result, the guardian's mark and the lock.
  * `CreateEntry`, `CreateClose` and `ActivateFlatten` are the API's requests,
    with the checks of risk service and gate that depend on this state; each of
    them may as well not happen, which stands for every other refusal.
  * A dispatch is one step and a cancel is the broker ending an order:
    `LiveExecution` has those interleavings.
* `RecoveryLock`: what the recovery row promises to whoever uses it: READY is
  reached only by the attempt that began last and that no lock has overtaken.
  `LiveExecution` instantiates it with its `recovery` record
  (`RefinesRecoveryLock`).
* `ExecutionTargets`: target rows, secret directories and the migration command,
  one action per step that reaches disk or database; a command may fail or be
  killed before any of them.
* `BrokerSession`: the account worker and its client with the orders left out.
  `worker`, `startup`, `recovery` and `client` are the states of the code,
  `attempt` is `reconcile_now` between its awaits, `lost` and `seen` the callback
  bridge's counters and the worker's reading of them. The account's truth is the
  number of its order events (`truth`), the database's knowledge the number it
  has caught up with (`ledger`).
* `ExecutionService` composes the two: `Build` is `build_execution_service`, which
  looks for the one active target and its secrets; the operator's commands and
  the worker run beside each other.
* `LiveAuto`: runtimes' statuses, the ARM in memory (`arms`) and in the database
  (`shared`), API threads in `arm`, `disarm` and `stop` (`ops`), the market thread
  in `on_decision` (`route`), the outbox and the dispatcher of the other process.
  `status()` reads, checks the expiry and locks in three steps; the dispatcher
  claims an order and submits it later, and its boot makes a claimed order unknown.
* `ShadowExecution`: the queue, the daemon thread's evaluation, save and answer
  (`work`), reservations with expiry, `stop` with its later release. What an
  evaluation reads of the account's position and working orders is any of `Held`,
  of either side. `alive` is the thread: an exception of `shadow.evaluate` becomes a
  refusal, one outside it ends the thread, since `_run` has `finally` and no `except`.
* `PaperAccount`: `events` is the engine's heap, `orders`, `pos`, `risk`, `clock` are
  the memory of one paper account, `keys`, `saved`, `book` its three tables. The
  engine has no lock: synchronous endpoints run in the thread pool and bars on the
  event loop. A thread (`call`) publishes, takes the earliest event whoever queued it
  (`Pop`), handles it (`Handle...`, all that the handlers of one event do), and
  commits the events it took (`AppendEvents`); between any two of these another
  thread or a crash may come. An event that another thread's clock has passed is
  refused and ends the run. `Restart` replays the tables. Histories: `held` is
  whether an operator's kill switch is on or was replaced by a loss, `overlap` whether
  two runs were ever under way at once, `raised` whether a run raised since the
  start, `forgot` whether such a run had applied fills.
* `TradingRuntime`: runtimes, decisions and the closed-bar listeners step by step
  (`loop`), `arm` and `pause` with their read and write apart (`api`). An evaluation
  gives an exit, an entry, both or neither; new decisions are announced one by one.
  An exception after the order was committed (`AnswerRaises`) writes "skipped" over
  it. The paper account appears by its answers.
* `MarketFeed`: tick queue, worker, aggregator, bars, backfill and restart; the
  hub and one client with a longer timeframe (`client`). A tick is remembered,
  processed, its bars saved and announced in steps of their own, each of which may
  raise; the backfill may fail, before or after it wrote rows. `taken` and `late` are
  histories: what this process took in hand, and what of it came too late.
* `UserAccess`: accounts and requests by e-mail, the identity provider that may
  reassign an address, requests in three transactions (check, change, audit).
* `StrategyStore`: versions, archive and runs; a request is several repository
  calls and keeps what it read in `work`. A definition's tree is the set of its
  reference paths.
* `StoreUpgrade`: the four table rebuilds as rename, create, copy and drop; a crash
  after any of them and a second start. The columns added for owner and target and
  the dependency table of composites are left out: they drop and rename nothing.
* `MC_*`: what TLC runs, where constants need definitions or symmetry sets.
* `LiveExecutionProofs`, `PositionGuardianProofs`, `ServiceProofs`, `AutoProofs`,
  `RuntimeProofs`, `FeedProofs`, `StoreProofs` and `PaperProofs`: inductive
  invariants and theorems about the modules they extend. `StoreProofs` is about
  `StrategyStore` and `UserAccess`, `PaperProofs` about `PaperAccount` and
  `ShadowExecution`; that is why the specifications of `UserAccess` and
  `ShadowExecution` have names of their own (`AccessSpec`, `ShadowSpec`,
  `ShadowFairSpec`).

Abstractions of the live path: ARM, kill switch and connection checks may refuse at any
admission (each admitting action has a refusing alternative). A snapshot is one
read, although the SDK reads orders and positions one after the other; a
snapshot torn by a fill shows a position mismatch and counts as unclean.
Snapshots that contradict themselves count as failed reads. Prices, times and
reasons are left out; the code forces its times to be monotonic. The production
client cannot look an order up by client id (it returns None), so an UNKNOWN
row without a broker id stays so. Callback audit rows are not kept: an event
carries only a broker order id and may come any number of times, early or late.

## 3. Runs

| Run | Instance | What holds |
|---|---|---|
| `two` | an entry and an exit order, guardian, generation 5 (enough to buy, reconcile, sell, and restart) | `TypeOK`, `AtMostOneSubmission`, `TerminalIsBrokerTruth`, `AmbiguousIsLocked`, `AtMostOneLateCall`, `FillsAreKept`, `UnlockMatchesBroker`, and the refinement `RefinesRecoveryLock` (823 188 states) |
| `liveness` | one order, no guardian, generation 5, `FairSpec` | `ClaimEnds`, `AmbiguityLocks`, `AttemptEnds`, `UnlockNeverOverAmbiguous` (47 251 states) |
| `guardian_full` | an entry, a manual close, strategy exit (from the API process) and FLATTEN (from the worker), one session change, `FairSpec` | `ProtectionMatchesTruth`, `PendingOutranksActive`, `NeverReversed`, `FlattenEndsLocked` (417 257 states) |
| `service` | two accounts, two operator commands, two events, two faults, callback queue of one, `FairSpec` | `ActiveHasSecrets`, `ReadyIsEarned`, `ReadyIsWatched`, `EventsArrive` (226 626 states) |
| `live_auto` | two runtimes with a decision each, two API threads, two ARM sessions | `SharedArmBacked`, `OneAutoEntry`, `SubmitsUnderConsent` (2 468 028 states) |
| `shadow` | two runtimes with two decisions each, entries that buy, an account that may be short and work orders to sell, limit one, queue of one, a restart, `ShadowFairSpec` | `ReservationFits`, `QueuedIsAnswered` (342 598 states) |
| `paper` | three orders of four kinds, two contracts, two dates, a crash; two orders of one date once runs have overlapped (`OverlapBriefly`) | `OpenWithinLimit`, `StoreMatchesMemory`, `ReduceOnlyReduces`, `RestartKeepsKill` (2 398 854 states) |
| `auto` | one runtime, three bars with three signals, a restart | `OneEntryAtATime`, `DecisionMatchesOrder`, `EntryFillsOnlyArmed` (5 860 214 states) |
| `feed` | four trades in three minutes, one of them delivered twice, queue of one, client queue of two, a crash | `VolumeIsTraded`, `NoSilentLoss`, `StreamIsExact` (2 234 946 states) |
| `access` | two addresses, three subjects, two requests at a time, a crash | `SubjectFixed`, `AdminLostOnlyByStale` (18 712 states) |
| `strategies` | two strategies of two versions, two requests at a time | `ReferencesResolve`, `TreesBounded`, `ArchivedFrozen` (916 926 states) |
| `upgrade_decisions` | every old database with one row per table | `DecisionsRecordable` is violated |

Why these bounds are enough. In the live path `Quantity = 1` is the only quantity
`submit` accepts. `MaxGeneration` bounds the recovery generation below which *new*
attempts, callbacks, crashes and spontaneous locks start; locks that follow from
something already begun are never bounded. In the guardian's instance entries are
one-lot buys (a short position is the mirror image); `MaxAttempts` counts
reconciliations, spontaneous locks and crashes together, and two of its three
are needed to buy and to be managed, so one is left to restart, lock or reconcile
during an exit. `MaxPosition` bounds the generation and lies above what the
orders can reach, except that a synchronisation that would pass it can only
fail; a session is assumed to end after its orders were reconciled. In `service`
two events let one callback fill the queue and the next be lost, and two faults
let a reconnection fail or break again. In `live_auto` two sessions allow an order
of the first to meet the second. In `shadow` the account's exposure may be the
opposite of the entries, where a net limit would let them exceed it on their own
side. In `paper` a limit of one lot with three orders makes entries compete;
`OverlapBriefly` bounds what follows once a second thread has begun to run the engine
before the first had committed: two orders of one date, without an operator's kill
switch. `OpenWithinLimit` and `ReduceOnlyReduces` claim nothing then, `RestartKeepsKill`
is proved without the bound, and `StoreMatchesMemory` needs two orders that are
committed in either order. `PaperAccount_threads` checks it by itself, with kill
switches too (1 633 501 states). In `auto`
three bars are one to enter, one to be evaluated twice and one to follow, and
`FewSignals` (at most three) leaves room for an exit and an entry of one bar and an
entry of another. In `feed` two trades in one minute update a forming bar, dropped
or late ones leave gaps, and `OneAgain` has any one trade delivered again.
In `access` two addresses and two requests are a pair of
administrators who act on each other. In `strategies` two ids can refer to each
other and a depth of three is the first a cycle would pass; with two ids only cycles
can make a tree too deep, the depth of longer chains is covered by the proof. Runs that stop at
their bounds do not check for deadlock; in the others (`live_auto`,
`strategies`, `access`) some action is always possible.

Fairness. `LiveExecution`: weak fairness of the dispatcher's steps after a claim, of
a running attempt, of a callback being handled, and of `Compose` and `Start`.
The event loop runs every ready task, SDK calls return or raise (the SDK has its
own time limits; this is an assumption about the SDK) and the container restarts
a dead process (`restart: unless-stopped` in `docker-compose.yml`).
`PositionGuardian`: the steps of a request in the worker, the review of a flat
position, `Compose` and `Start`. `ExecutionService`: `Build`, the heartbeat, the
worker's own steps (an attempt, the periodic task) and the callback task.
`ShadowExecution`: the daemon thread is scheduled while it lives; an exception that
ends it is one of its steps, so that fairness does not exclude it, and
`QueuedIsAnswered` names that end. Nothing is assumed of operators, of API
requests, of callbacks being delivered, of faults or of the broker.

### Where the code and its documents disagree

`upgrade_decisions` is the listed disagreement. `_upgrade_live_auto_runtime_schema`
promises in its docstring to preserve all decisions. It renames
`strategy_runtimes`, and SQLite rewrites the foreign key of `trading_decisions` to
the renamed table, which is then dropped: the old decisions are there, and every
INSERT of a new one fails. The other configurations below check one
property each, which TLC finds violated (two of them by replacing the property of
a configuration that has another):

| Configuration (module) | Property | What the code does |
|---|---|---|
| `LiveExecution_cancel_race` | `FilledSurvivesCancel` (docs/order-lifecycle.md:273-274) | A failed cancel call makes the record claimed before the await UNKNOWN and writes it over a row a callback has set to FILLED. The next reconciliation repairs it. |
| `LiveExecution_cancel_race` with the property replaced | `BlockedCancelIsRenewable`, an invariant (broker/repository.py:414) | `reserve_cancel` does nothing once a cancel row exists, blocked or not. |
| `PositionGuardian_exit_race` | `OneActiveExit` (docs/live-position-guardian.md:22) | `synchronize()` writes a row prepared from an earlier read; a reservation made in between is lost and a second exit is reserved beside the first. |
| `PositionGuardian_dead_exit` | `RequestedExitCanTrade` (docs/live-production-canary-acceptance.md:63-66) | An exit that ended unfilled is found again under the same client order id and nothing is sent. |
| `PositionGuardian_halt_entry` | `FlattenHaltsEntry` (docs/live-canary-runbook.md:85) | FLATTEN is stored for the execution target, a scope the worker's gate does not read. |
| `PositionGuardian_second_entry` | `OneLotOnly` (docs/strategy-auto-live-runbook.md:70) | Between a fill's callback and the next snapshot the filled entry is neither working nor in the position. |
| `ExecutionService_loss` (`ExecutionService`) | `LossLocks` (docs/architecture.md:211-214) | A callback lost while the worker reconciles is counted as observed (worker.py:435-443). |
| `ExecutionService_reconnect` (`ExecutionService`) | `BrokenIsReconnected` (docs/live-production-canary-acceptance.md:77) | The client's readiness does not include the session's health, so the heartbeat never reconnects (worker.py:373). |
| `ExecutionService_locked_target` (`ExecutionService`) | `DispatchesActive` (docs/execution-targets.md) | The target is read when the service is built; a rollback does not stop a running worker. |
| `LiveAuto_unknown` (`MC_LiveAuto`) | `UnknownEndsArm` (docs/strategy-auto-live-runbook.md) | `lock_unknown` has no caller; an order that becomes UNKNOWN leaves the ARM. |
| `ShadowExecution_stopped` (`MC_ShadowExecution`) | `StoppedHoldsNothing` (docs/architecture.md:244) | The daemon thread checks the status before it evaluates and not when it saves: a runtime stopped in between keeps a reservation until it expires. |
| `PaperAccount_closes` (`MC_PaperAccount`) | `ExitsNeverReverse` (docs/account-risk.md:43-44) | The broker cuts an exit to the position when it makes the fill event; the ledger applies it when the event is taken from the queue. A manual close of an API thread and a protective exit of the event loop are cut to the same position, and the second reverses it. |
| `PaperAccount_manual_kill` (`MC_PaperAccount`) | `ManualKillHolds` (docs/account-risk.md:40) | A loss overwrites the manual flag (account.py:536) and the next date clears the switch. |
| `PaperAccount_roll` (`MC_PaperAccount`) | `RollLeavesNothing` (docs/event-engine.md:39) | After a restart the simulated broker has no last price, and the roll's order raises. |
| `TradingRuntime_recovered_entry` (`TradingRuntime`) | `RecoveredEntryNeverFills` (docs/order-lifecycle.md:82-83) | An approved entry restored at boot fills once its runtime is armed again. |
| `TradingRuntime_recovered_entry` with the property replaced | `StoppedIsFinal` (trading_runtime.py, live_auto.py:82) | `arm` checks the status before it writes it without a condition. |
| `StrategyStore_snapshot` (`MC_StrategyStore`) | `SnapshotIsUsed` (README.md:26) | An atomic backtest stores parameters that it reads after the run (research.py:399-405). |
| `StoreUpgrade_lost` (`StoreUpgrade`) | `NothingLost` (live/storage.py:729) | A crash after the rename leaves the rows in a table that the next start does not look at. |

More behaviours of the models that are worth knowing:

* `UnlockNeverOverAmbiguous` needs a worker without a guardian. With one, a
  reconciliation that read the rows before an UNKNOWN result was recorded may
  complete READY while the dispatcher waits for the guardian's mark. Admission
  still refuses because it counts UNKNOWN rows, and the lock follows
  (`AmbiguousIsLocked`, `AmbiguityLocks`).
* `NeverReversed` names the two ways in which the position can be reversed: a
  manual close beside an exit, and exits of two reasons. Exits of one reason
  have one id until the generation changes.
* An exit blocked at restart, or by the gate, is not terminal, so every
  synchronisation keeps the position EXIT_PENDING and nothing is sent.
* `SUBMITTING` has no transition to CANCELLED or EXPIRED, which an
  immediate-or-cancel order can be when `place_order` returns: the answer is
  recorded as UNKNOWN, its broker id is lost and the account stays locked.
* The paper engine has no lock. When runs overlap, two entries are approved against
  the same position, and two exits are cut to the same position:
  `OpenWithinLimit` and `ReduceOnlyReduces` are stated of an account whose runs have
  not overlapped, and `PaperAccount_closes` shows what happens otherwise.
  `StoreMatchesMemory` and `RestartKeepsKill` hold with overlapping runs.
* A run that raises leaves in memory what its handlers did and commits nothing
  (`raised`, `forgot`): the roll after a restart finds no last price
  (`PaperAccount_roll`), or another thread has moved the clock past a queued event.
  Memory and store then differ until the next restart. An exception of
  the database in `append_events` would do the same and is not modelled.
* Shadow reservations are netted. With entries of both sides, the reservation that
  made room for another may be released before that one is saved; `ReservationFits`
  is stated, checked and proved for entries of one side, with a position and
  working orders of either.
* An exception outside the evaluation (the store when the runtime is read or the
  answer is written) ends the shadow thread; nothing starts it again, and every
  decision queued after it stays pending.
* An exception after a paper order was committed is caught by `on_decision`, which
  writes "skipped" over the order's row (paper_auto.py:338). The order waits and may
  fill; nothing corrects the row. `DecisionMatchesOrder` claims nothing of skipped
  rows.
* After a crash between remembering a tick and saving its bar the tick counts as
  seen, its volume is gone and nothing is reported; `NoSilentLoss` speaks of what was
  taken since the last start. A late tick is dropped and counted as late, which is
  not an error.
* A loss makes the operator's kill switch an automatic one, in memory or only in
  the order in which fills and control records were committed;
  `RestartKeepsKill` is stated of a switch that was not replaced (`held`).
* A client that lost a message, or found a backfilled bar ahead of the feed when
  it connected, may be sent a wrong closed bar that nothing corrects;
  `StreamIsExact` excludes both.
* The migration is described as idempotent (target_migration.py:20), but a command
  killed after the row was created leaves a locked target that a second one does
  not activate.

Properties that hold on the same instances and can be added to the configurations:
`ClaimsHaveOwner`, `LedgerBehindBroker`, `OneAccountPerSubject`,
`NamesUnique`, every `TypeOK`, and `DecidedOnce`,
`KillStopsWaitingEntries` and `FillRecordedOnce`, which section 4 proves.

## 4. Proofs

`LiveExecutionProofs` proves, for every finite set of orders, every quantity,
with or without a guardian and for every generation bound:

* `TypeCorrect`: `Spec => []TypeOK`;
* `AtMostOnce`: `Spec => []AtMostOneSubmission`;
* `TerminalTruth`: `Spec => []TerminalIsBrokerTruth`.

They follow from one inductive invariant, `IInv`, the conjunction of

* `TypeOK`;
* `TaskInv`: a task that works on an order names it; a submit in progress owns
  a `processing` outbox row; nothing is in progress unless the service runs;
* `CallsInv`: an outbox row that is missing or pending has never been submitted,
  and the dispatcher has not yet submitted what it has only admitted. This is
  why a claimed row must never become pending again;
* `CopyInv`: every copy of a record, in the table, with the dispatcher, with the
  reconciler or with the callback task, and every answer still held, is true of
  the broker *whenever it is finally written*: an id only of an order the broker
  has, a terminal status only if the broker's order ended so.

`TerminalIsBrokerTruth` is not inductive on its own because rows are overwritten
from old copies. The key fact is `BrokerEvolves`: the broker's record only moves
forward, so a true copy stays true (`EvolvesKeeps`) however late it is written.
That an order is not placed twice is needed there, too: a second submission
would give the id a new broker record. Lemmas on the record operators
(`UnknownFacts`, `ApplyFacts`, `PendingFacts`) say what each task may write;
`StepType`, `StepTask`, `StepCalls` and `StepCopy` take the actions one by one.

`AmbiguityLocked` (`Spec => []AmbiguousIsLocked`) needs two more invariants on
top of `IInv`:

* `IdInv`: broker ids are never lost. An order that is queued or claimed is as
  it was reserved, a record past submission has an id or is UNKNOWN, whoever
  cancels or refreshes by id holds a copy with the id. It shows that only a
  submit can make an order ambiguous, and that no other task can hide it;
* `LockInv`: while an attempt runs the account is not READY, and an attempt
  whose generation is still current has every ambiguous order among the rows it
  will compare, or the dispatcher that made it ambiguous has not locked yet.
  This is why `complete` must compare generations: a lock that falls into the
  attempt outdates it, and one that has not fallen yet still follows.

`ImplementsRecoveryLock` (`Spec => RefinesRecoveryLock`) is the refinement that run `two` checks on one instance. `StepIsLockStep` takes the
actions one by one and shows that each is one of four things to the recovery row:
nothing, a forced lock, the begin of an attempt, or the end of one. `HolderInv`
(the attempt whose generation is current finds the row RECONCILING) makes the
last of them a `Complete` of the abstract lock or no change at all.

`OneLateCall` (`Spec => []AtMostOneLateCall`) needs `LateInv`: no call is counted
as late while the account is READY or a submit is admitted, since a submit is
admitted only when READY and the dispatcher makes one call at a time.
`UnlockUnambiguous` proves `UnlockNeverOverAmbiguous` under the assumption the
property needs, that there is no guardian (see section 3 for the behaviour with
one).

`FillsKept` (`Spec => FillsAreKept`) and `UnlockMatches` (`Spec =>
UnlockMatchesBroker`) are about quantities and rest on `FillInv`:

* `BrokerInv`: the broker lists only orders it has, and what it has only accepted
  is not filled;
* `BehindInv`: every copy of a record, every answer and the ledger have at most the
  broker's fills, and a reserved order has none;
* `HeldInv`: the record of a claimed cancel has the row's fills, and the answer to
  a cancel is not behind the row;
* `ReadInv`: while an attempt may still complete, the row of a listed order has
  not fallen behind what the attempt read of it. Rows *can* lose fills (a failed
  cancel overwrites one with an older copy), and the exception in `ReadInv` is that
  moment: the lock that follows it outdates the attempt. Without this one an
  unlock could find a ledger that matches rows which no longer match.

`PositionGuardianProofs` proves `ProtectionTruth` (`Spec =>
[]ProtectionMatchesTruth`) and `DeferredOutranks` (`Spec =>
[]PendingOutranksActive`), for any orders, reasons, prices and bounds. Neither is
inductive, because `synchronize()` writes a row it prepared from an earlier read.
The invariant is `ShapeInv` (both rows are records of the table), `RankInv` (the
prepared row is ordered as the stored one is) and `TruthInv` (a row prepared
without an exception has the saved position, and nobody replaces the snapshot
between preparation and write: reconciliations are serialised by the worker).
What the average price is does not matter to it.

`ExitsOnlyReduce` (`Spec => []NeverReversed`) proves the property that counts lots.
What the broker holds is what its orders bought less what they sold (`CountInv`), so
it is enough that not more was sold than bought. An exit is identified by the
generation of the position it closes and a reason; with one exit per generation,
the exits that traded are no more than the generations with one lot that an exit
order, a request or the row holds (`SellGens`). `BuiltInv` bounds these by the one-lot positions the deals of the
session passed through, at the time the row was built and at the time
`synchronize()` read it, which is why a stale write gives no lot a second
generation. `OrderInv` and `GenerationInv` say that an order is sent once and
that every exit names the generation it was requested under. Positions over
sequences of deals are recursive functions of the length; each fact about them
is proved at the first length at which it could fail.

`ServiceProofs` proves, for any owners, accounts, commands, events and faults,
`SecretsBacked` (`Spec => []ActiveHasSecrets` of `ExecutionService`), `EarnedReady`
(`Spec => []ReadyIsEarned`) and `WatchedReady` (`Spec => []ReadyIsWatched`). For the
first, `TargetsInv` adds what the command has secured at each of its steps: the
directory is complete before the row is made, the row belongs to the command's
owner before it is activated, and the row is not active when the directory is
about to move. For the others `SessionInv` says that while the client connects
nothing is READY and no attempt is under way that could make it so (`DialInv`), and
that an attempt which completed without success finds the account not READY
(`WatchInv`).

`AutoProofs` proves `ArmBacked` (`Spec => []SharedArmBacked`), `SingleEntry` (`Spec =>
[]OneAutoEntry`) and `ConsentedSubmits` (`Spec => SubmitsUnderConsent`) for any
runtimes, threads, decisions and ARMs. `ArmInv`: ids of ARMs are never used twice.
`ConsentInv`: an order, or a decision on its way to be one, carries an ARM that was
opened for its own runtime, so that the row with this id cannot be another's.
`EntryInv`: the one market thread looked for a working entry and nobody else makes
one, so that a decision past the check still finds none when it is reserved.

`RuntimeProofs` proves `SingleRuntimeEntry` (`Spec => []OneEntryAtATime`),
`DecisionsTruthful` (`Spec => []DecisionMatchesOrder`), `ArmedFills` (`Spec =>
EntryFillsOnlyArmed`) and `ExecutedOnce` (`Spec => DecidedOnce`) for any number of
runtimes, bars and restarts. `RuntimeInv` adds that the decision being executed is
pending and has an order exactly when the account answered, that the ones still to
be announced are pending and have none (`AtInv`), and that what the store calls armed
was armed in this process (`ArmedInv`). `DecisionSteps` lists what any step may do to a decision and its
order; the two action properties follow from it.

`FeedProofs` proves `CountedOnce` (`Spec => []VolumeIsTraded`) and `LossIsLoud` (`Spec
=> []NoSilentLoss`) for any finite set of trades, any minutes, queue and number of
crashes. `VolumeInv` bounds each bar, current, on its way to the store or stored, by
the number of trades of its minute that are in `processed_ticks` and not in the
worker's hand: a tick is remembered before it is processed, so that a crash in
between loses it and never counts it twice. Rows from history are the exception and
have every trade; they are closed, so a restart never continues one. `LossInv` is
the converse, while no error is counted: the bar in hand, each row on its way to
the store and each stored row counts all trades of its minute that this process
took in time (`OnTime`), for every minute and not only the current one. A row of a
minute is either still to be saved (`Pends`) or complete (`Complete`), which says also
that a backfill of this start has no row to purge that has such a trade.

`ExactStream` (`Spec => []StreamIsExact`) is about what a WebSocket client makes of
the stream. `StreamInv` says that announcements follow the rows (`RowsInv`), that
they are ordered by minute with each minute's last word last (`OrderInv`), that
nothing the client holds is ahead of what was announced (`AheadInv`), and that of
every minute not behind the client's bucket the row's last word was received or
is on its way (`AgreeInv`). A bucket is closed by the first bar of a later one, and
by then everything about its minutes has arrived (`ClosedInv`).

`StoreProofs` proves `References` (`Spec => []ReferencesResolve`), `BoundedTrees`
(`Spec => []TreesBounded`) and `FrozenArchive` (`Spec => ArchivedFrozen`), which is all
that run `strategies` checks, for any ids, names, threads and bounds. `WalkInv`
carries the result of the validation along with the request that will save: the
walk is about the embedded paths and the id alone, so no other request can make it
false. `ReferencesResolve` itself is inductive with it, because the save looks its
children up again and the purge looks at every version that stays.

About `UserAccess` it proves `SubjectStays` (`AccessSpec => SubjectFixed`) and
`AdminStays` (`AccessSpec => AdminLostOnlyByStale`) for any people and addresses. The invariant
`AccessInv` (`AccessSafe`) says that the tables keep their shape and that an
administrator's request knows its caller; both properties are about steps and
follow from it action by action. In `AdminStays` only a role or status change can
take an administrator away, and `UpdateRefused` lets it do so only when the caller
is an active administrator no longer.

`PaperProofs` proves six theorems, for any
keys, callers, kinds, quantities, limits, contracts, dates and number of restarts,
with any number of threads in the unlocked engine. A position after some fills is
a recursive function of their number, so that the prover can follow it. Facts about
a listing of fills of any length are proved by its first counterexample (`Climb`).
The invariants are:

* `TypeOK` (`PaperTypes`);
* `KillInv`, an operator's switch is in memory and in the committed book. With it,
  `KillSurvivesRestart` (`Spec => RestartKeepsKill`);
* `FlowInv`: an order is in one place at most (`PlaceOK`): a thread has reserved its
  key, an event of it is queued or held, it waits for its bar, or its end is among
  rows about to be committed; and it is in none once an end is committed. Events
  move between threads because whoever runs the engine takes the earliest.
  `FillCommittedOnce` (`Spec => FillRecordedOnce`) follows from it;
* `NoWaitingEntryUnderKill` (`Spec => KillStopsWaitingEntries`) needs only types: a bar
  asks the risk gate again before it fills a waiting entry;
* `PosInv`: memory and store balance while no run has raised. For each contract the
  position in memory is the committed one plus what the threads in the engine have
  applied and not committed (`Balanced`), the sum over a set of threads being an
  additive function on its subsets, because they commit in any order. With no run
  in flight the two are equal: `PositionsAreStored`.

`PositionsAreStored` is the half of `StoreMatchesMemory` about positions. The other
half, about waiting orders, and the limits of an account whose runs do not overlap
(`OpenWithinLimit`, `ReduceOnlyReduces`) are model-checked only.

`ReservationsFit` (`ShadowSpec => ReservationFits`) assumes that all entries have one
side and nothing of the account's position and working orders. `ShadowInv` says what a
save will find: the rows that stops and expiries leave are among those that the
evaluation counted, so that the room it found is still there.

Assumptions on the constants. `LiveExecution`: `QuantityAssumption` (a positive
number), `OrdersAssumption` (entries and exits disjoint and finite, none of them the
mark for no order), `GuardianAssumption`, `GenerationAssumption`. `LiveAuto`:
`RuntimesAssumption` (a runtime id is neither the mark of a manual ARM nor the mark
for nobody). `MarketFeed`: `FeedAssumption` (finitely many trades, each in a minute;
sizes are numbers). `StrategyStore`: `StoreAssumption` (bounds are numbers).
`PositionGuardian`: `ReasonsAssumption` and `BoundsAssumption`. `PaperAccount`:
`PaperAssumption` (finitely many keys; limits are numbers, lots, times and contracts
positive ones; `"loop"` is no caller and no key is a contract). `ShadowExecution`:
`ShadowAssumption` (sides are 1 or -1, limits positive, positions integers with 0 among
them, bounds numbers).
TLC evaluates all of them.

Every inductive invariant was checked with TLC on the instance of its run before
it was proved.

Of the safety properties that passing runs check all but three are proved. Only
model-checked:

* `OpenWithinLimit`, `ReduceOnlyReduces` and the waiting orders of
  `StoreMatchesMemory`, see above;
* the liveness properties `ClaimEnds`, `AmbiguityLocks`, `AttemptEnds`,
  `FlattenEndsLocked`, `EventsArrive` and `QueuedIsAnswered`: fairness is out of the
  prover's reach;
* what the other configurations of section 3 show. That a crash during an upgrade
  loses rows is shown by `StoreUpgrade_lost` only.

## 5. Not modelled, and what could follow

* Indicator arithmetic, backtest and replay metrics: floating-point computation
  without concurrency. A runtime's signal is an input of `TradingRuntime`.
* HTTP request parsing, settings, credentials, the dashboard; the rate limiter
  and the request size limit, which are a list under one lock and a counter.
* The session calendar, the execution quote writer, prices, costs and notional
  limits: amounts appear as refusals that may happen.
* Code that only tests call: the generic `ExecutionWorker`,
  `bootstrap_legacy_execution_target`, `OwnedExecutionTargetResolver`,
  `BrokerAccountWorker.stop` (the entry point is killed and never closes).
* The shared SQLite connection as a component: an exception inside a transaction
  leaves it open. `StrategyStore` has it (`inTransaction`), the others take
  transactions as atomic.

Next theorems: `OneAccountPerSubject`, `NamesUnique` and `LedgerBehindBroker` (which
is part of `BehindInv`), which hold on the checked instances, and
`OpenWithinLimit` and `ReduceOnlyReduces` for runs that do not overlap.
