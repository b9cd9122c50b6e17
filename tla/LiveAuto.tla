------------------------------ MODULE LiveAuto ------------------------------
(***************************************************************************)
(* Real-money automatic entries: the ARM that lets a live_auto runtime     *)
(* trade, and the path of an entry from a strategy decision to the broker  *)
(* (LiveAutoService, SQLiteCanaryArmRepository, the manual canary's ARM,   *)
(* LiveOrderManager.create and the worker's admission).                    *)
(*                                                                         *)
(* Three processes or threads share the state.  API threads run arm,       *)
(* disarm, stop and status, each of which touches the ARM under a lock and *)
(* writes the runtime's status afterwards; the market thread of the same   *)
(* process routes decisions; the execution service, another process,       *)
(* dispatches orders.  The ARM is kept twice: in the memory of             *)
(* LiveAutoService (arms) and in the database (shared), where the manual   *)
(* canary keeps its own ARM in the same row.                               *)
(*                                                                         *)
(* Left out: one owner and one account, as the canary configuration        *)
(* allows; prices, quotes, the amounts of Live Risk and the execution      *)
(* policy (they may refuse any entry); strategy exits, which the position  *)
(* guardian owns (PositionGuardian); what happens after the submission     *)
(* (LiveExecution).                                                        *)
(***************************************************************************)
EXTENDS Naturals, FiniteSets

CONSTANTS
    Runtimes,      \* live_auto runtimes of the one owner
    Threads,       \* concurrent API requests
    MaxDecisions,  \* bound: entry decisions of each runtime
    MaxArms        \* bound: ARM sessions ever opened

ASSUME BoundsAssumption == MaxDecisions \in Nat /\ MaxArms \in Nat

NoArm == 0
Manual == "manual"     \* created_by of an ARM opened by the manual canary
Nobody == "nobody"

\* Runtimes have ids of their own.
ASSUME RuntimesAssumption == Manual \notin Runtimes /\ Nobody \notin Runtimes

Decisions == Runtimes \X (1..MaxDecisions)
Arms == 1..MaxArms

VARIABLES
    status,    \* durable status of each runtime
    arms,      \* LiveAutoService._arms: the ARM of each runtime, in memory
    shared,    \* the row of live_canary_arms: [id, by]
    opened,    \* number of ARM sessions opened so far; their ids are 1..opened
    expired,   \* ARM ids whose lease has run out
    ops,       \* what each API thread is doing: [kind, rt]
    route,     \* the market thread: [stage, decision, arm]
    orders,    \* live_orders and their outbox: [state, arm] of each decision
    answer,    \* execution_status recorded on each decision
    ready,     \* recovery READY, broker connected, market healthy, guardian well
    apiUp      \* the API process runs

vars == <<status, arms, shared, opened, expired, ops, route, orders, answer,
          ready, apiUp>>

RuntimeStatus == {"paused", "armed", "recovery_locked", "stopped"}
OrderState == {"none", "pending", "claimed", "blocked", "submitted",
               "unknown", "done", "resolved"}
Outstanding == {"pending", "claimed", "blocked", "submitted", "unknown"}
OpKind == {"idle", "arm", "armed", "disarm", "stop", "stopping", "status",
           "checking", "locking", "lock"}
Idle == [kind |-> "idle", rt |-> Nobody]
NoRoute == [stage |-> "idle", decision |-> <<>>, arm |-> NoArm]
NoShared == [id |-> NoArm, by |-> Nobody]

TypeOK ==
    /\ status \in [Runtimes -> RuntimeStatus]
    /\ arms \in [Runtimes -> Arms \cup {NoArm}]
    /\ shared \in [id : Arms \cup {NoArm}, by : Runtimes \cup {Manual, Nobody}]
    /\ opened \in 0..MaxArms
    /\ expired \subseteq 1..opened
    /\ ops \in [Threads -> [kind : OpKind, rt : Runtimes \cup {Nobody}]]
    /\ route.stage \in {"idle", "read", "approved", "admitted"}
    /\ orders \in [Decisions -> [state : OrderState, arm : Arms \cup {NoArm}]]
    /\ answer \in [Decisions -> {"none", "pending", "live_rejected",
                                 "live_order_reserved"}]
    /\ ready \in BOOLEAN /\ apiUp \in BOOLEAN

Init ==
    /\ status = [r \in Runtimes |-> "paused"]
    /\ arms = [r \in Runtimes |-> NoArm]
    /\ shared = NoShared /\ opened = 0 /\ expired = {}
    /\ ops = [t \in Threads |-> Idle]
    /\ route = NoRoute
    /\ orders = [d \in Decisions |-> [state |-> "none", arm |-> NoArm]]
    /\ answer = [d \in Decisions |-> "none"]
    /\ ready = TRUE /\ apiUp = TRUE

---------------------------------------------------------------------------
(* What the services read.                                                 *)

\* active(): the row if its lease still runs
SharedActive == shared.id # NoArm /\ shared.id \notin expired

\* _active_arm: the memory ARM, only while the database row is that very ARM
ActiveArm(r) ==
    IF /\ arms[r] # NoArm /\ arms[r] \notin expired
       /\ SharedActive /\ shared.id = arms[r] /\ shared.by = r
    THEN arms[r] ELSE NoArm

\* the memory entry is popped as soon as _active_arm finds it dead
Checked(r) == [arms EXCEPT ![r] = ActiveArm(r)]

UnknownOrder == \E d \in Decisions : orders[d].state = "unknown"

\* every check of the preflight holds
Preflight == ready /\ ~UnknownOrder

\* a working, blocked or unknown entry order of the account
ActiveEntry ==
    \E d \in Decisions : orders[d].state \in Outstanding

\* Mutant: any live auto ARM in force admits the order
GateAnyArm(a) ==
    ready /\ ~UnknownOrder /\ SharedActive /\ shared.by \in Runtimes

\* assert_order_allowed for an entry of strategy_live_auto carrying ARM a
Gate(a) ==
    /\ ready /\ ~UnknownOrder
    /\ SharedActive /\ shared.id = a
    /\ shared.by \in Runtimes

---------------------------------------------------------------------------
(* API threads.                                                            *)

Start(t, kind, r) ==
    apiUp /\ ops[t] = Idle /\ ops' = [ops EXCEPT ![t] = [kind |-> kind, rt |-> r]]
Step(t, kind) == ops' = [ops EXCEPT ![t].kind = kind]
Finish(t) == ops' = [ops EXCEPT ![t] = Idle]

\* Mutant: only the memory ARM is dropped, as lock_unknown does
DisarmMemoryOnly == UNCHANGED shared

\* the shared row of the account is deleted, whoever opened it
DisarmShared == shared' = NoShared

\* arm: read the runtime, run the preflight
ArmStart(t, r) ==
    /\ status[r] # "stopped" /\ Preflight
    /\ Start(t, "arm", r)
    /\ UNCHANGED <<status, arms, shared, opened, expired, route, orders,
                   answer, ready, apiUp>>

OtherArmed(r) == \E s \in Runtimes \ {r} : arms[s] # NoArm /\ arms[s] \notin expired

\* arm: under the lock, refuse beside another runtime's ARM, else open one
ArmOpen(t) ==
    LET r == ops[t].rt IN
    /\ ops[t].kind = "arm" /\ opened < MaxArms
    /\ IF OtherArmed(r)
       THEN Finish(t) /\ UNCHANGED <<arms, shared, opened>>
       ELSE /\ opened' = opened + 1
            /\ arms' = [arms EXCEPT ![r] = opened']
            /\ shared' = [id |-> opened', by |-> r]
            /\ Step(t, "armed")
    /\ UNCHANGED <<status, expired, route, orders, answer, ready, apiUp>>

\* disarm and stop: under the lock, drop the ARM of the runtime and the row
DisarmStart(t, kind, r) ==
    /\ Start(t, kind, r)
    /\ arms' = [arms EXCEPT ![r] = NoArm]
    /\ DisarmShared
    /\ UNCHANGED <<status, opened, expired, route, orders, answer, ready,
                   apiUp>>

\* the status the operation writes after the lock, and what it does next
Written == [armed |-> "armed", disarm |-> "paused", stop |-> "paused",
            stopping |-> "stopped", lock |-> "recovery_locked"]
After == [armed |-> "status", disarm |-> "status", stop |-> "stopping",
          stopping |-> "status", lock |-> "idle"]

WriteStatus(t) ==
    LET kind == ops[t].kind IN
    /\ kind \in DOMAIN Written
    /\ status' = [status EXCEPT ![ops[t].rt] = Written[kind]]
    /\ IF After[kind] = "idle" THEN Finish(t) ELSE Step(t, After[kind])
    /\ UNCHANGED <<arms, shared, opened, expired, route, orders, answer,
                   ready, apiUp>>

\* status: the ARM, then the preflight; an armed runtime is locked when an
\* order is UNKNOWN
StatusRead(t, r) ==
    /\ apiUp /\ ops[t] \in {Idle, [kind |-> "status", rt |-> r]}
    /\ arms' = Checked(r)
    /\ IF ActiveArm(r) # NoArm
       THEN ops' = [ops EXCEPT ![t] = [kind |-> "checking", rt |-> r]]
       ELSE Finish(t)
    /\ UNCHANGED <<status, shared, opened, expired, route, orders, answer,
                   ready, apiUp>>

StatusCheck(t) ==
    /\ ops[t].kind = "checking"
    /\ IF UnknownOrder THEN Step(t, "locking") ELSE Finish(t)
    /\ UNCHANGED <<status, arms, shared, opened, expired, route, orders,
                   answer, ready, apiUp>>

\* the operational lock drops the ARM of the runtime and the row, whichever
\* they are by now
StatusLock(t) ==
    /\ ops[t].kind = "locking" /\ Step(t, "lock")
    /\ arms' = [arms EXCEPT ![ops[t].rt] = NoArm]
    /\ DisarmShared
    /\ UNCHANGED <<status, opened, expired, route, orders, answer, ready,
                   apiUp>>

\* the manual canary opens an ARM in the same row, or drops what is there
ManualArm ==
    /\ apiUp /\ Preflight /\ opened < MaxArms
    /\ opened' = opened + 1
    /\ shared' = [id |-> opened', by |-> Manual]
    /\ UNCHANGED <<status, arms, expired, ops, route, orders, answer, ready,
                   apiUp>>

ManualDisarm ==
    /\ apiUp /\ shared # NoShared
    /\ DisarmShared
    /\ UNCHANGED <<status, arms, opened, expired, ops, route, orders, answer,
                   ready, apiUp>>

---------------------------------------------------------------------------
(* The market thread: on_decision for one entry decision at a time.        *)

\* live_rejected is recorded and nothing else
Refuse(d) ==
    /\ answer' = [answer EXCEPT ![d] = "live_rejected"]
    /\ route' = NoRoute

\* the decision is durable; the runtime is read again
ReadRuntime(d) ==
    /\ apiUp /\ route.stage = "idle" /\ answer[d] = "none"
    /\ \A n \in 1..(d[2] - 1) : answer[<<d[1], n>>] # "none"
    /\ IF status[d[1]] = "armed"
       THEN /\ answer' = [answer EXCEPT ![d] = "pending"]
            /\ route' = [stage |-> "read", decision |-> d, arm |-> NoArm]
       ELSE Refuse(d)
    /\ UNCHANGED <<status, arms, shared, opened, expired, ops, orders, ready,
                   apiUp>>

\* Mutant: working entries are not looked at
EntryAllowedBesideEntry(r) == ActiveArm(r) # NoArm /\ Preflight

EntryAllowed(r) == ActiveArm(r) # NoArm /\ ~ActiveEntry /\ Preflight

\* ARM, position, working entries, preflight, risk and policy: the position,
\* risk and the policy may refuse whatever the rest says
ApproveEntry ==
    LET r == route.decision[1] IN
    /\ apiUp /\ route.stage = "read"
    /\ \/ /\ EntryAllowed(r)
          /\ route' = [route EXCEPT !.stage = "approved", !.arm = ActiveArm(r)]
          /\ UNCHANGED answer
       \/ Refuse(route.decision)
    /\ arms' = Checked(r)
    /\ UNCHANGED <<status, shared, opened, expired, ops, orders, ready, apiUp>>

\* the second preflight, the ARM, then the gate of LiveOrderManager.create
AdmitEntry ==
    LET r == route.decision[1] IN
    /\ apiUp /\ route.stage = "approved"
    /\ IF Preflight /\ ActiveArm(r) # NoArm /\ Gate(route.arm)
       THEN route' = [route EXCEPT !.stage = "admitted"] /\ UNCHANGED answer
       ELSE Refuse(route.decision)
    /\ arms' = Checked(r)
    /\ UNCHANGED <<status, shared, opened, expired, ops, orders, ready, apiUp>>

\* reserve: the order and its outbox row, in one transaction; the decision is
\* answered right after it
ReserveEntry ==
    /\ apiUp /\ route.stage = "admitted"
    /\ orders' = [orders EXCEPT ![route.decision] =
                    [state |-> "pending", arm |-> route.arm]]
    /\ answer' = [answer EXCEPT ![route.decision] = "live_order_reserved"]
    /\ route' = NoRoute
    /\ UNCHANGED <<status, arms, shared, opened, expired, ops, ready, apiUp>>

---------------------------------------------------------------------------
(* The execution service, the broker and the operator.                     *)

SetOrder(d, s) == orders' = [orders EXCEPT ![d].state = s]

\* dispatch_once: ordering allowed, then the claim of the outbox row ...
Claim(d) ==
    /\ orders[d].state = "pending" /\ ready
    /\ SetOrder(d, "claimed")
    /\ UNCHANGED <<status, arms, shared, opened, expired, ops, route, answer,
                   ready, apiUp>>

\* ... then the admission of the very order, and the submission
Dispatch(d) ==
    /\ orders[d].state = "claimed"
    /\ SetOrder(d, IF Gate(orders[d].arm) THEN "submitted" ELSE "blocked")
    /\ UNCHANGED <<status, arms, shared, opened, expired, ops, route, answer,
                   ready, apiUp>>

\* the submission is answered, or its outcome is unknown and the account locks
Answered(d) ==
    /\ orders[d].state = "submitted"
    /\ \/ SetOrder(d, "done") /\ UNCHANGED ready
       \/ SetOrder(d, "unknown") /\ ready' = FALSE
    /\ UNCHANGED <<status, arms, shared, opened, expired, ops, route, answer,
                   apiUp>>

\* reconciliation: unknown orders are settled, the snapshot is saved
Reconcile ==
    /\ orders' = [d \in Decisions |-> IF orders[d].state = "unknown"
                    THEN [orders[d] EXCEPT !.state = "resolved"] ELSE orders[d]]
    /\ ready' = TRUE
    /\ UNCHANGED <<status, arms, shared, opened, expired, ops, route, answer,
                   apiUp>>

\* a callback, a disconnect or an unhealthy market
LoseReady ==
    /\ ready /\ ready' = FALSE
    /\ UNCHANGED <<status, arms, shared, opened, expired, ops, route, orders,
                   answer, apiUp>>

\* a lease runs out (the manual canary's TTL is configured apart)
Expire ==
    /\ \E a \in {shared.id} \cup {arms[r] : r \in Runtimes} :
          a \notin expired \cup {NoArm} /\ expired' = expired \cup {a}
    /\ UNCHANGED <<status, arms, shared, opened, ops, route, orders, answer,
                   ready, apiUp>>

\* boot of the execution service: ARM rows cleared, queued orders blocked,
\* interrupted ones unknown
Recovered(o) ==
    CASE o.state = "pending" -> [o EXCEPT !.state = "blocked"]
      [] o.state \in {"claimed", "submitted"} -> [o EXCEPT !.state = "unknown"]
      [] OTHER -> o

ClearArms == shared' = NoShared

ExecutorRestart ==
    /\ ClearArms
    /\ orders' = [d \in Decisions |-> Recovered(orders[d])]
    /\ ready' = FALSE
    /\ UNCHANGED <<status, arms, opened, expired, ops, route, answer, apiUp>>

\* the API process dies: its memory and its threads are gone, the row stays
ApiCrash ==
    /\ apiUp /\ apiUp' = FALSE
    /\ arms' = [r \in Runtimes |-> NoArm]
    /\ ops' = [t \in Threads |-> Idle]
    /\ route' = NoRoute
    /\ UNCHANGED <<status, shared, opened, expired, orders, answer, ready>>

\* create_app: ARM rows cleared, runtimes that are not stopped locked
ApiBoot ==
    /\ ~apiUp /\ apiUp' = TRUE
    /\ ClearArms
    /\ status' = [r \in Runtimes |-> IF status[r] = "stopped" THEN "stopped"
                                                              ELSE "recovery_locked"]
    /\ UNCHANGED <<arms, opened, expired, ops, route, orders, answer, ready>>

Next ==
    \/ \E t \in Threads, r \in Runtimes :
          ArmStart(t, r) \/ DisarmStart(t, "disarm", r)
             \/ DisarmStart(t, "stop", r) \/ StatusRead(t, r)
    \/ \E t \in Threads : ArmOpen(t) \/ WriteStatus(t)
                           \/ StatusCheck(t) \/ StatusLock(t)
    \/ ManualArm \/ ManualDisarm
    \/ \E d \in Decisions : ReadRuntime(d) \/ Claim(d) \/ Dispatch(d) \/ Answered(d)
    \/ ApproveEntry \/ AdmitEntry \/ ReserveEntry
    \/ Reconcile \/ LoseReady \/ Expire
    \/ ExecutorRestart \/ ApiCrash \/ ApiBoot

Spec == Init /\ [][Next]_vars

---------------------------------------------------------------------------
(* Properties.                                                             *)

\* Whenever an auto ARM in the database can still admit an order and the API
\* runs, LiveAutoService holds that very ARM for that runtime: disarm, stop,
\* the operational lock and both boots leave no live row behind that no
\* operator control of the runtime knows of (live_auto.py:94-118,
\* canary_repository.py:56-70).
SharedArmBacked ==
    apiUp /\ shared.by \in Runtimes /\ shared.id \notin expired
        => arms[shared.by] = shared.id

\* At most one automatic entry is outstanding on the account, over all
\* runtimes, ARM sessions, restarts and re-arms (live_auto.py:195-196).
OneAutoEntry ==
    \A d, e \in Decisions :
        orders[d].state \in Outstanding /\ orders[e].state \in Outstanding
            => d = e

Submitted(d) == orders[d].state = "claimed" /\ orders'[d].state = "submitted"

\* An entry is sent only under the ARM it was reserved under, while that ARM
\* is still the runtime's own: an order left in the outbox by a disarm, a
\* stop, an expiry, a manual ARM or a restart is not revived by arming again
\* (canary.py:160-172).  While the API is down the database row alone counts.
SubmitsUnderConsent ==
    [][\A d \in Decisions : Submitted(d) /\ apiUp =>
          arms[d[1]] = orders[d].arm /\ orders[d].arm \notin expired]_vars

\* docs/strategy-auto-live-runbook.md: an auto order that becomes UNKNOWN
\* removes its ARM, so nothing more is sent under that ARM.
UnknownEndsArm ==
    [][\A d, e \in Decisions :
          Submitted(d) /\ orders[e].state \in {"unknown", "resolved"}
              => orders[e].arm # orders[d].arm]_vars

\* live_auto.py:82: a stopped runtime cannot be armed; it stays stopped.
StoppedStays ==
    [][\A r \in Runtimes : status[r] = "stopped" => status'[r] = "stopped"]_vars
=============================================================================
