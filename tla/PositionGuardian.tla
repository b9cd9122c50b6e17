-------------------------- MODULE PositionGuardian --------------------------
(***************************************************************************)
(* The live position guardian of one account and contract: the managed     *)
(* position with its single exit reservation (broker/guardian_models.py,   *)
(* guardian_repository.py), the service that rebuilds it from reconciled   *)
(* fills and requests exits (execution/guardian.py), the worker tasks that *)
(* run it (broker/worker.py) and the copy of it the API process uses for   *)
(* strategy exits (live/shadow_context.py).                                *)
(*                                                                         *)
(* The steps of a thread are the transactions it makes on the database:    *)
(* the worker's guardian thread, its synchronisation thread and the API    *)
(* process interleave between them. The order path is coarse here (a       *)
(* dispatch is one step): LiveExecution has its interleavings.             *)
(***************************************************************************)
EXTENDS Integers, Sequences

CONSTANTS
    Entries,        \* client order ids of one-lot buys
    Closes,         \* client order ids of manual reduce-only closes
    Reasons,        \* the exit reasons that occur
    Prices,         \* prices a lot may trade at
    MaxPosition,    \* bound on the generation of the managed position
    MaxAttempts,    \* bound on reconciliations, spontaneous locks, crashes
    MaxSessions     \* bound on changes of trading session

\* GuardianExitReason.priority.
Priority(r) ==
    CASE r = "emergency_flatten" -> 50
      [] r = "stop_loss"         -> 40
      [] r = "take_profit"       -> 30
      [] r = "strategy_exit"     -> 20
      [] OTHER                   -> 10   \* session_end, contract_roll

ASSUME ReasonsAssumption ==
    Reasons \subseteq {"emergency_flatten", "stop_loss", "take_profit",
                       "strategy_exit", "session_end", "contract_roll"}
ASSUME BoundsAssumption ==
    /\ Prices \subseteq Nat \ {0}
    /\ MaxPosition \in Nat \ {0} /\ MaxAttempts \in Nat /\ MaxSessions \in Nat

VARIABLES
    pos,       \* the row of live_managed_positions
    ord,       \* live_orders with its outbox state, and the side
    queue,     \* pending outbox rows in the order they were created
    truth,     \* saved snapshot: deals of the session, net position
    recovery,  \* status of the recovery lock
    service,   \* execution service: "down", "composed" or "running"
    kill,      \* FLATTEN kill switch of the execution target
    req,       \* request_exit in progress, per process
    sync,      \* reconcile_now: reconciliation, then synchronize()
    mark,      \* dispatcher between an UNKNOWN result and its lock
    bro,       \* external: the broker's orders
    deals,     \* external: the session's fills, in order
    carried,   \* external: net position from earlier sessions
    attempts, sessions   \* bounds

orders   == <<ord, queue>>
external == <<bro, deals, carried>>
bounds   == <<attempts, sessions>>
vars     == <<pos, orders, truth, recovery, service, kill, req, sync, mark,
              external, bounds>>

\* _exit_id: position, generation and reason; the position is fixed here.
ExitIds == [gen : 1..MaxPosition, reason : Reasons]
NoExit  == [gen |-> 0, reason |-> "none"]
OrderIds == Entries \cup Closes \cup ExitIds

Workers == {"worker", "api"}

\* RISK_APPROVED is "pending" or "blocked" by its outbox row; "ended" is
\* CANCELLED, REJECTED or EXPIRED with nothing filled.
OrderState == {"absent", "pending", "blocked", "accepted", "filled", "ended",
               "unknown"}
Done == {"filled", "ended"}

NoPosition == [state |-> "absent", qty |-> 0, avg |-> <<0, 1>>, gen |-> 0,
               exit |-> NoExit, pending |-> "none"]

IdleRequest == [pc |-> "idle", reason |-> "none", exit |-> NoExit, qty |-> 0]
IdleSync    == [pc |-> "idle", row |-> NoPosition, clean |-> FALSE]
IdleMark    == [pc |-> "idle", order |-> NoExit]
------------------------------------------------------------------------------
(* Positions *)

Abs(n)  == IF n < 0 THEN -n ELSE n
Sign(n) == IF n < 0 THEN -1 ELSE IF n = 0 THEN 0 ELSE 1

\* Net quantity of a sequence of one-lot deals.
Net(ds) ==
    LET net[n \in 0..Len(ds)] ==
            IF n = 0 THEN 0 ELSE net[n - 1] + ds[n].side
    IN  net[Len(ds)]

\* One step of _open_position; the average is an exact fraction. With one-lot
\* deals a deal against the position never exceeds it.
AddDeal(p, d) ==
    IF p.qty = 0 \/ Sign(p.qty) = d.side
    THEN [qty |-> p.qty + d.side,
          avg |-> << p.avg[1] * Abs(p.qty) + d.price * p.avg[2],
                     p.avg[2] * (Abs(p.qty) + 1) >>]
    ELSE [qty |-> p.qty + d.side,
          avg |-> IF p.qty + d.side = 0 THEN <<0, 1>> ELSE p.avg]

OpenPosition(ds) ==
    LET open[n \in 0..Len(ds)] ==
            IF n = 0 THEN [qty |-> 0, avg |-> <<0, 1>>]
            ELSE AddDeal(open[n - 1], ds[n])
    IN  open[Len(ds)]

SameAverage(a, b) == a[1] * b[2] = b[1] * a[2]

BrokerPosition == carried + Net(deals)
------------------------------------------------------------------------------
(* Gates *)

Ready    == recovery = "ready"
ForceLock == recovery' = "locked"
Budget   == attempts < MaxAttempts

Unknown == \E o \in OrderIds : ord[o].st = "unknown"

\* Orders not terminal: what the risk context and the guardian call working.
Working(S) == {o \in S : ord[o].st \notin {"absent"} \cup Done}

Reduces(side) == Sign(truth.position) = -side

\* CanaryOrderAdmissionGate in the worker. A kill switch activated for the
\* execution target is not among the scopes this gate reads. ARM and
\* connection may refuse as well.
Admissible(o) ==
    Ready /\ ~Unknown /\ (o \notin Entries => Reduces(ord[o].side))

\* An order row and its outbox row, unless the client order id exists.
Reserve(o, side) ==
    IF ord[o].st = "absent"
    THEN /\ ord' = [ord EXCEPT ![o] = [st |-> "pending", side |-> side]]
         /\ queue' = Append(queue, o)
    ELSE UNCHANGED orders
------------------------------------------------------------------------------
(* API process: manual entries and closes, the kill switch *)

\* The checks of LiveRiskService.evaluate on a one-lot buy that depend on the
\* state here: READY, nothing pending, no fill today (the daily loss is
\* unavailable otherwise), the saved position plus this lot within one lot.
RiskApproved ==
    /\ Ready
    /\ Working(OrderIds) = {} /\ truth.deals = <<>>
    /\ Abs(truth.position + 1) <= 1

\* reserve_order, with the kill switch and UNKNOWN checks of the API's gate. A
\* Live Auto entry asks for a flat position besides.
CreateEntry(e) ==
    /\ ord[e].st = "absent"
    /\ RiskApproved /\ ~Unknown /\ kill = "none"
    /\ Reserve(e, 1)
    /\ UNCHANGED <<pos, truth, recovery, service, kill, req, sync, mark,
                   external, bounds>>

\* reserve_close: one lot against the saved position; it does not look at the
\* guardian's reservation.
CreateClose(c) ==
    /\ ord[c].st = "absent"
    /\ Ready /\ ~Unknown /\ kill = "none"
    /\ Abs(truth.position) = 1
    /\ Reserve(c, -truth.position)
    /\ UNCHANGED <<pos, truth, recovery, service, kill, req, sync, mark,
                   external, bounds>>

\* activate_kill_switch(FLATTEN).
ActivateFlatten ==
    /\ "emergency_flatten" \in Reasons /\ kill = "none"
    /\ kill' = "flatten"
    /\ UNCHANGED <<pos, orders, truth, recovery, service, req, sync, mark,
                   external, bounds>>
------------------------------------------------------------------------------
(* request_exit, in the worker's guardian thread and in the API process *)

\* on_quote: a fresh quote beyond the stop or the target of an ACTIVE position.
QuoteTriggers(r) ==
    r \in {"stop_loss", "take_profit"} /\ pos.state = "active"

\* process_kill_switches: an open position without a working entry.
FlattenTriggers(r) ==
    /\ r = "emergency_flatten" /\ kill = "flatten"
    /\ pos.qty # 0 /\ Working(Entries) = {}

\* request_strategy_exit of a Live Auto runtime: a position that is not flat.
StrategyTriggers(r) == r = "strategy_exit" /\ pos.state # "flat"

\* The guardian loop, while READY, or the API process starts a request.
Ask(w, r) ==
    /\ req[w].pc = "idle" /\ pos.state # "absent"
    /\ IF w = "api" THEN StrategyTriggers(r)
       ELSE /\ service = "running" /\ Ready
            /\ QuoteTriggers(r) \/ FlattenTriggers(r)
    /\ req' = [req EXCEPT ![w] = [IdleRequest EXCEPT !.pc = "asked",
                                                     !.reason = r]]
    /\ UNCHANGED <<pos, orders, truth, recovery, service, kill, sync, mark,
                   external, bounds>>

\* An exception ends the request; the worker's loop persists a lock for it,
\* the API process only records it.
Raise(w) ==
    /\ req' = [req EXCEPT ![w] = IdleRequest]
    /\ IF w = "worker" THEN ForceLock ELSE UNCHANGED recovery

\* _assert_ready, store.get and the exit id from what was read; or one of the
\* checks raises (a broker that is not connected among them).
GetPosition(w) ==
    /\ req[w].pc = "asked"
    /\ \/ /\ Ready /\ pos.state \in {"active", "exit_pending"}
          /\ req' = [req EXCEPT ![w] =
                [pc |-> "got", reason |-> req[w].reason, qty |-> pos.qty,
                 exit |-> [gen |-> pos.gen, reason |-> req[w].reason]]]
          /\ UNCHANGED recovery
       \/ Raise(w)
    /\ UNCHANGED <<pos, orders, truth, service, kill, sync, mark, external,
                   bounds>>

\* Mutant: an exit of the same priority is deferred as well.
ReserveExitEqualPriority(w) ==
    /\ req[w].pc = "got"
    /\ \/ /\ pos.state = "flat"
          /\ Raise(w) /\ UNCHANGED pos
       \/ /\ pos.state # "flat" /\ pos.exit # NoExit
          /\ pos' = IF Priority(req[w].reason) >= Priority(pos.exit.reason)
                    THEN [pos EXCEPT !.pending = req[w].reason] ELSE pos
          /\ IF ord[pos.exit].st = "absent" THEN Raise(w)
             ELSE /\ req' = [req EXCEPT ![w] = IdleRequest]
                  /\ UNCHANGED recovery
       \/ /\ pos.state # "flat" /\ pos.exit = NoExit
          /\ pos' = [pos EXCEPT !.state = "exit_pending",
                                !.exit = req[w].exit, !.pending = "none"]
          /\ req' = [req EXCEPT ![w].pc = "reserved"]
          /\ UNCHANGED recovery
    /\ UNCHANGED <<orders, truth, service, kill, sync, mark, external, bounds>>

\* The transaction of reserve_exit, and what request_exit makes of its result.
ReserveExit(w) ==
    /\ req[w].pc = "got"
    /\ \/ /\ pos.state = "flat"
          /\ Raise(w) /\ UNCHANGED pos
       \/ /\ pos.state # "flat" /\ pos.exit # NoExit
          /\ pos' = IF Priority(req[w].reason) > Priority(pos.exit.reason)
                    THEN [pos EXCEPT !.pending = req[w].reason] ELSE pos
          /\ IF ord[pos.exit].st = "absent" THEN Raise(w)
             ELSE /\ req' = [req EXCEPT ![w] = IdleRequest]
                  /\ UNCHANGED recovery
       \/ /\ pos.state # "flat" /\ pos.exit = NoExit
          /\ pos' = [pos EXCEPT !.state = "exit_pending",
                                !.exit = req[w].exit, !.pending = "none"]
          /\ req' = [req EXCEPT ![w].pc = "reserved"]
          /\ UNCHANGED recovery
    /\ UNCHANGED <<orders, truth, service, kill, sync, mark, external, bounds>>

\* The policy accepts the quote and LiveOrderManager.create its request, which
\* is for the whole position: the canary limit refuses more than one lot. Only
\* the worker's gate compares it with the saved position.
CreateExit(w) ==
    /\ req[w].pc = "reserved"
    /\ Ready /\ ~Unknown /\ Abs(req[w].qty) = 1
    /\ w = "worker" => Reduces(-Sign(req[w].qty))
    /\ Reserve(req[w].exit, -Sign(req[w].qty))
    /\ req' = [req EXCEPT ![w] = IdleRequest]
    /\ UNCHANGED <<pos, truth, recovery, service, kill, sync, mark, external,
                   bounds>>

\* The policy or the gate refuses: release_exit, if the reservation is still
\* this one, and the exception goes on.
ReleaseExit(w) ==
    /\ req[w].pc = "reserved"
    /\ pos' = IF pos.exit = req[w].exit
              THEN [pos EXCEPT !.state = "active", !.exit = NoExit] ELSE pos
    /\ Raise(w)
    /\ UNCHANGED <<orders, truth, service, kill, sync, mark, external, bounds>>

\* Mutant: a flat position needs no review.
FlattenReviewWithoutLock ==
    /\ service = "running" /\ Ready /\ req["worker"].pc = "idle"
    /\ kill = "flatten" /\ pos.state # "absent" /\ pos.qty = 0
    /\ UNCHANGED vars

\* process_kill_switches on a position that is flat: lock for review.
FlattenReview ==
    /\ service = "running" /\ Ready /\ req["worker"].pc = "idle"
    /\ kill = "flatten" /\ pos.state # "absent" /\ pos.qty = 0
    /\ ForceLock
    /\ UNCHANGED <<pos, orders, truth, service, kill, req, sync, mark,
                   external, bounds>>
------------------------------------------------------------------------------
(* Dispatcher and callbacks, coarse *)

\* claim_next takes the oldest pending row. The broker never sees the order,
\* rejects it or takes it; the answer may be lost. An UNKNOWN result is
\* notified to the guardian before the lock.
Dispatch ==
    /\ service = "running" /\ mark.pc = "idle" /\ Ready /\ queue # <<>>
    /\ Admissible(Head(queue))
    /\ queue' = Tail(queue)
    /\ \E b \in {"none", "ended", "working"}, lost \in BOOLEAN :
          /\ b = "none" => lost
          /\ bro' = [bro EXCEPT ![Head(queue)] = b]
          /\ ord' = [ord EXCEPT ![Head(queue)].st =
                IF lost THEN "unknown"
                ELSE IF b = "ended" THEN "ended" ELSE "accepted"]
          /\ mark' = IF lost THEN [pc |-> "mark", order |-> Head(queue)]
                     ELSE mark
    /\ UNCHANGED <<pos, truth, recovery, service, kill, req, sync, deals,
                   carried, bounds>>

\* The gate refuses what was claimed: block_dispatch.
BlockDispatch ==
    /\ service = "running" /\ mark.pc = "idle" /\ Ready /\ queue # <<>>
    /\ ord' = [ord EXCEPT ![Head(queue)].st = "blocked"]
    /\ queue' = Tail(queue)
    /\ UNCHANGED <<pos, truth, recovery, service, kill, req, sync, mark,
                   external, bounds>>

\* mark_order_unknown in a thread, then the lock in the event loop.
MarkOrderUnknown ==
    /\ mark.pc = "mark"
    /\ pos' = IF pos.exit = mark.order
              THEN [pos EXCEPT !.state = "unknown"] ELSE pos
    /\ mark' = [mark EXCEPT !.pc = "lock"]
    /\ UNCHANGED <<orders, truth, recovery, service, kill, req, sync,
                   external, bounds>>

LockUnknown ==
    /\ mark.pc = "lock"
    /\ ForceLock
    /\ mark' = IdleMark
    /\ UNCHANGED <<pos, orders, truth, service, kill, req, sync, external,
                   bounds>>

\* The row of an order the broker has finished.
Finished(o) == ord[o].st = "accepted" /\ bro[o] \in Done

\* consume_one refreshes the order a callback names.
Callback(o) ==
    /\ service = "running" /\ Finished(o)
    /\ ord' = [ord EXCEPT ![o].st = bro[o]]
    /\ UNCHANGED <<pos, queue, truth, recovery, service, kill, req, sync,
                   mark, external, bounds>>
------------------------------------------------------------------------------
(* reconcile_now: reconciliation, then synchronize() in a thread *)

BeginReconcile ==
    /\ service = "running" /\ sync.pc = "idle" /\ Budget
    /\ recovery' = "reconciling"
    /\ sync' = [IdleSync EXCEPT !.pc = "reconcile"]
    /\ attempts' = attempts + 1
    /\ UNCHANGED <<pos, orders, truth, service, kill, req, mark, external,
                   sessions>>

\* Orders are refreshed, the snapshot is saved and the attempt completes; an
\* UNKNOWN order, or a lock persisted meanwhile, keeps the account locked.
CompleteReconcile ==
    /\ sync.pc = "reconcile"
    /\ ord' = [o \in OrderIds |->
          IF Finished(o) THEN [ord[o] EXCEPT !.st = bro[o]] ELSE ord[o]]
    /\ truth' = [deals |-> deals, position |-> BrokerPosition]
    /\ IF recovery = "reconciling" /\ ~Unknown
       THEN /\ recovery' = "ready"
            /\ sync' = [sync EXCEPT !.pc = "read"]
       ELSE ForceLock /\ sync' = IdleSync
    /\ UNCHANGED <<pos, queue, service, kill, req, mark, external, bounds>>

FailReconcile ==
    /\ sync.pc = "reconcile"
    /\ ForceLock
    /\ sync' = IdleSync
    /\ UNCHANGED <<pos, orders, truth, service, kill, req, mark, external,
                   bounds>>

\* Mutant: a row that names an active exit is left to that exit.
FlatUnlessExiting(p) ==
    IF p.state = "absent" \/ p.exit # NoExit THEN p
    ELSE [p EXCEPT !.qty = 0, !.state = "flat", !.pending = "none"]

\* mark_flat on an existing row.
Flat(p) == IF p.state = "absent" THEN p
           ELSE [p EXCEPT !.qty = 0, !.state = "flat", !.exit = NoExit,
                          !.pending = "none"]

\* Mutant: every synchronisation is a new generation.
NextGenerationAlways(p) == pos.gen + 1

\* The generation changes with the quantity or the average price.
NextGeneration(p) ==
    IF pos.qty = p.qty /\ SameAverage(pos.avg, p.avg) /\ pos.state # "absent"
    THEN pos.gen ELSE pos.gen + 1

\* The state of a position whose row names an active exit.
StateFromExit(st) ==
    CASE st = "absent"  -> "locked"
      [] st = "unknown" -> "unknown"
      [] st \in Done    -> "active"
      [] OTHER          -> "exit_pending"

\* The row synchronize() builds from the open position p, the row it read
\* and the exit order it read.
Rebuilt(p) ==
    LET st   == ord[pos.exit].st
        free == pos.exit = NoExit
    IN  [qty |-> p.qty, avg |-> p.avg, gen |-> NextGeneration(p),
         state   |-> IF free THEN "active" ELSE StateFromExit(st),
         exit    |-> IF free \/ st \in Done THEN NoExit ELSE pos.exit,
         pending |-> IF free THEN "none" ELSE pos.pending]

\* synchronize() up to its write: the saved deals give no open position and
\* the row is marked flat, or they give one and its row is prepared. It
\* raises when recovery is not ready any more or positions disagree.
SyncRead ==
    /\ sync.pc = "read"
    /\ LET p     == OpenPosition(truth.deals)
           agree == p.qty = truth.position
       IN  \/ /\ Ready /\ p.qty = 0
              /\ pos' = IF truth.deals # <<>> \/ agree THEN Flat(pos) ELSE pos
              /\ sync' = IdleSync
              /\ IF agree THEN UNCHANGED recovery ELSE ForceLock
           \/ /\ Ready /\ p.qty # 0 /\ NextGeneration(p) <= MaxPosition
              /\ sync' = [pc |-> "write", row |-> Rebuilt(p), clean |-> agree]
              /\ UNCHANGED <<pos, recovery>>
           \/ /\ ForceLock
              /\ sync' = IdleSync
              /\ UNCHANGED pos
    /\ UNCHANGED <<orders, truth, service, kill, req, mark, external, bounds>>

\* store.synchronize overwrites the row with what was prepared.
SyncWrite ==
    /\ sync.pc = "write"
    /\ pos' = sync.row
    /\ sync' = IdleSync
    /\ IF sync.clean THEN UNCHANGED recovery ELSE ForceLock
    /\ UNCHANGED <<orders, truth, service, kill, req, mark, external, bounds>>
------------------------------------------------------------------------------
(* Other locks, crash and restart *)

PersistLock ==
    /\ service = "running" /\ Budget
    /\ ForceLock
    /\ attempts' = attempts + 1
    /\ UNCHANGED <<pos, orders, truth, service, kill, req, sync, mark,
                   external, sessions>>

Crash ==
    /\ service = "running" /\ Budget
    /\ service' = "down"
    /\ req' = [req EXCEPT !["worker"] = IdleRequest]
    /\ sync' = IdleSync /\ mark' = IdleMark
    /\ attempts' = attempts + 1
    /\ UNCHANGED <<pos, orders, truth, recovery, kill, external, sessions>>

ApiCrash ==
    /\ req["api"].pc # "idle" /\ Budget
    /\ req' = [req EXCEPT !["api"] = IdleRequest]
    /\ attempts' = attempts + 1
    /\ UNCHANGED <<pos, orders, truth, recovery, service, kill, sync, mark,
                   external, sessions>>

\* block_pending_dispatches at composition.
Compose ==
    /\ service = "down"
    /\ service' = "composed"
    /\ ord' = [o \in OrderIds |->
          IF ord[o].st = "pending" THEN [ord[o] EXCEPT !.st = "blocked"]
          ELSE ord[o]]
    /\ queue' = <<>>
    /\ UNCHANGED <<pos, truth, recovery, kill, req, sync, mark, external,
                   bounds>>

Start ==
    /\ service = "composed"
    /\ service' = "running"
    /\ ForceLock
    /\ UNCHANGED <<pos, orders, truth, kill, req, sync, mark, external,
                   bounds>>
------------------------------------------------------------------------------
(* External broker *)

BrokerFill(o) ==
    /\ bro[o] = "working"
    /\ bro' = [bro EXCEPT ![o] = "filled"]
    /\ \E price \in Prices :
          deals' = Append(deals, [side |-> ord[o].side, price |-> price])
    /\ UNCHANGED <<pos, orders, truth, recovery, service, kill, req, sync,
                   mark, carried, bounds>>

BrokerEnd(o) ==
    /\ bro[o] = "working"
    /\ bro' = [bro EXCEPT ![o] = "ended"]
    /\ UNCHANGED <<pos, orders, truth, recovery, service, kill, req, sync,
                   mark, deals, carried, bounds>>

\* A session ends after its orders were reconciled: the next one lists no
\* deals, positions are carried over.
NewSession ==
    /\ sessions < MaxSessions
    /\ \A o \in OrderIds : bro[o] # "working" /\ ~Finished(o)
    /\ deals # <<>>
    /\ deals' = <<>> /\ carried' = BrokerPosition
    /\ sessions' = sessions + 1
    /\ UNCHANGED <<pos, orders, truth, recovery, service, kill, req, sync,
                   mark, bro, attempts>>
------------------------------------------------------------------------------
Init ==
    /\ pos = NoPosition
    /\ ord = [o \in OrderIds |-> [st |-> "absent", side |-> 0]]
    /\ queue = <<>>
    /\ truth = [deals |-> <<>>, position |-> 0]
    /\ recovery = "locked" /\ service = "down" /\ kill = "none"
    /\ req = [w \in Workers |-> IdleRequest]
    /\ sync = IdleSync /\ mark = IdleMark
    /\ bro = [o \in OrderIds |-> "none"]
    /\ deals = <<>> /\ carried = 0
    /\ attempts = 0 /\ sessions = 0

Api == (\E e \in Entries : CreateEntry(e)) \/ (\E c \in Closes : CreateClose(c))
       \/ ActivateFlatten \/ ApiCrash

RequestStep(w) ==
    GetPosition(w) \/ ReserveExit(w) \/ CreateExit(w) \/ ReleaseExit(w)

Guardian == FlattenReview \/ \E w \in Workers :
                RequestStep(w) \/ \E r \in Reasons : Ask(w, r)

Dispatcher == Dispatch \/ BlockDispatch \/ MarkOrderUnknown \/ LockUnknown
              \/ \E o \in OrderIds : Callback(o)

Reconciler == BeginReconcile \/ CompleteReconcile \/ FailReconcile
              \/ SyncRead \/ SyncWrite

Broker == NewSession \/ \E o \in OrderIds : BrokerFill(o) \/ BrokerEnd(o)

Next == Api \/ Guardian \/ Dispatcher \/ Reconciler \/ Broker
        \/ PersistLock \/ Crash \/ Compose \/ Start

Spec == Init /\ [][Next]_vars

\* The worker's loops keep running and the supervisor restarts the service.
Fairness ==
    /\ WF_vars(RequestStep("worker")) /\ WF_vars(FlattenReview)
    /\ WF_vars(Compose) /\ WF_vars(Start)

FairSpec == Spec /\ Fairness
------------------------------------------------------------------------------
(* Properties *)

Position == [state : {"absent", "active", "exit_pending", "unknown", "locked",
                      "flat"},
             qty : Int, avg : Nat \X Nat, gen : 0..MaxPosition,
             exit : ExitIds \cup {NoExit}, pending : Reasons \cup {"none"}]

\* Every variable keeps to the values its row, task or record can hold.
TypeOK ==
    /\ pos \in Position
    /\ ord \in [OrderIds -> [st : OrderState, side : -1..1]]
    /\ queue \in Seq(OrderIds)
    /\ truth.deals \in Seq([side : {-1, 1}, price : Prices])
    /\ truth.position \in Int
    /\ recovery \in {"locked", "reconciling", "ready"}
    /\ service \in {"down", "composed", "running"}
    /\ kill \in {"none", "flatten"}
    /\ req \in [Workers -> [pc : {"idle", "asked", "got", "reserved"},
                            reason : Reasons \cup {"none"}, qty : Int,
                            exit : ExitIds \cup {NoExit}]]
    /\ sync \in [pc : {"idle", "reconcile", "read", "write"}, row : Position,
                  clean : BOOLEAN]
    /\ mark \in [pc : {"idle", "mark", "lock"},
                  order : OrderIds \cup {NoExit}]
    /\ bro \in [OrderIds -> {"none", "working"} \cup Done]
    /\ deals \in Seq([side : {-1, 1}, price : Prices])
    /\ carried \in Int

\* Whenever the account is READY and no synchronisation is under way, the
\* managed position is the saved broker position: what the guardian protects
\* is what reconciliation confirmed, across locks, restarts and exits that
\* fill while it is being rebuilt.
ProtectionMatchesTruth ==
    Ready /\ service = "running" /\ sync.pc = "idle"
        => pos.qty = truth.position

\* A deferred exit reason always outranks the active one (reserve_exit),
\* although synchronize() rewrites the row from what it read before.
PendingOutranksActive ==
    pos.exit # NoExit /\ pos.pending # "none"
        => Priority(pos.pending) > Priority(pos.exit.reason)

\* The broker's position changes sign only when two closes of the same
\* position both trade: a manual one, or exits for two reasons. Repeated
\* requests for one reason name the same order, whatever locks, restarts and
\* synchronisations come between them (docs/live-position-guardian.md:12:
\* exits only reduce exposure).
Traded(o) == bro[o] = "filled"
NeverReversed ==
    BrokerPosition < 0 =>
        \/ \E c \in Closes : Traded(c)
        \/ \E x, y \in ExitIds : x.gen = y.gen /\ x # y /\ Traded(x) /\ Traded(y)

\* The account never holds more than the one lot it is limited to: a non-flat
\* position blocks new exposure (docs/strategy-auto-live-runbook.md:70).
OneLotOnly == BrokerPosition <= 1

\* After FLATTEN has left the position flat, the account does not stay READY:
\* the guardian locks it for review (docs/live-position-guardian.md:24-26).
FlattenEndsLocked ==
    (kill = "flatten" /\ pos.state = "flat" /\ Ready)
        ~> (~Ready \/ pos.state # "flat")

\* One managed position never has two active exits
\* (docs/live-position-guardian.md:22).
OneActiveExit ==
    \A x, y \in Working(ExitIds) : x = y

\* An exit request that succeeds has an order that may still trade, so that
\* no managed quantity stays unprotected
\* (docs/live-production-canary-acceptance.md:63-66).
RequestedExitCanTrade ==
    [][\A w \in Workers : CreateExit(w) => ord'[req[w].exit].st # "ended"]_vars

\* No entry reaches the broker once FLATTEN is active: new entry is halted
\* immediately (docs/live-canary-runbook.md:85).
FlattenHaltsEntry ==
    [][kill = "flatten" =>
          \A e \in Entries : bro[e] = "none" => bro'[e] = "none"]_vars
=============================================================================
