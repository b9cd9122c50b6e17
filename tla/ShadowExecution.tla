-------------------------- MODULE ShadowExecution --------------------------
(***************************************************************************)
(* Shadow execution: decisions of live_shadow runtimes are evaluated as if *)
(* they were to be sent, under the same risk limits, and nothing is sent   *)
(* (LiveShadowExecutionController, ShadowExecutionService, the shadow      *)
(* store, TradingRuntimeApplicationService.stop).                          *)
(*                                                                         *)
(* The market thread puts decisions into a bounded queue; one daemon       *)
(* thread takes them, evaluates, saves the result with a short-lived       *)
(* reservation of the exposure it would have opened and then answers the   *)
(* decision; API threads stop runtimes and release their reservations; a   *)
(* restart of the process loses the queue.  An exception outside the       *)
(* evaluation ends the daemon thread, and nothing starts it again before   *)
(* the process restarts.  One owner, account and contract, which is also   *)
(* traded by others: what an evaluation reads of its position and working  *)
(* orders may be anything, of either side.  Prices, amounts and the health *)
(* of broker and market are left out, so that risk and the policy may      *)
(* refuse anything.                                                        *)
(***************************************************************************)
EXTENDS Integers, Sequences, FiniteSets

CONSTANTS
    Runtimes,      \* live_shadow runtimes
    Sides,         \* signed quantities of entries: subset of {1, -1}
    QueueSize,     \* maxsize of the queue (256 in the code)
    Limit,         \* max_account_position_contracts
    MaxActive,     \* max_active_live_runtimes
    Held,          \* bound: positions of the account and quantities its orders
                   \* work
    MaxDecisions,  \* bound: decisions of each runtime
    MaxBoots       \* bound: restarts of the process

ASSUME ShadowAssumption ==
    /\ Sides \subseteq {1, -1}
    /\ QueueSize \in Nat \ {0} /\ Limit \in Nat \ {0} /\ MaxActive \in Nat \ {0}
    /\ Held \subseteq Int /\ 0 \in Held /\ MaxDecisions \in Nat /\ MaxBoots \in Nat

Decisions == Runtimes \X (1..MaxDecisions)

VARIABLES
    active,    \* runtimes that are not stopped
    stopping,  \* runtimes whose stop has not released the reservations yet
    queue,     \* decisions waiting for the daemon thread
    alive,     \* the daemon thread runs
    work,      \* what it holds: the decision, the reservations and the exposure
               \* it read for it, and its result
    results,   \* live_shadow_results
    reserved,  \* live_shadow_reservations: [decision, side]
    answer,    \* execution_status of each decision
    boots      \* restarts so far

runtimes   == <<active, stopping>>
shadowVars == <<runtimes, queue, alive, work, results, reserved, answer, boots>>

NoWork == [stage |-> "idle", decision |-> <<>>, side |-> 0, reserved |-> 0,
           exposure |-> 0, result |-> "none"]

ShadowTypeOK ==
    /\ active \subseteq Runtimes /\ stopping \subseteq Runtimes
    /\ queue \in Seq(Decisions) /\ Len(queue) <= QueueSize
    /\ alive \in BOOLEAN
    /\ work.stage \in {"idle", "read", "evaluate", "save", "record"}
    /\ results \in [Decisions -> {"none", "would_submit", "rejected"}]
    /\ reserved \subseteq [decision : Decisions, side : Sides]
    /\ answer \in [Decisions -> {"none", "pending", "shadow_would_submit",
                                 "shadow_rejected"}]
    /\ boots \in 0..MaxBoots

ShadowInit ==
    /\ active = Runtimes /\ stopping = {}
    /\ queue = <<>> /\ alive = TRUE /\ work = NoWork
    /\ results = [d \in Decisions |-> "none"]
    /\ reserved = {}
    /\ answer = [d \in Decisions |-> "none"]
    /\ boots = 0

---------------------------------------------------------------------------
\* on_decision: queued, or refused at once when the queue is full
OnDecision(d) ==
    /\ answer[d] = "none" /\ d[1] \in active
    /\ \A n \in 1..(d[2] - 1) : answer[<<d[1], n>>] # "none"
    /\ IF Len(queue) < QueueSize
       THEN /\ queue' = Append(queue, d)
            /\ answer' = [answer EXCEPT ![d] = "pending"]
       ELSE /\ answer' = [answer EXCEPT ![d] = "shadow_rejected"]
            /\ UNCHANGED queue
    /\ UNCHANGED <<runtimes, alive, work, results, reserved, boots>>

\* _run and the start of _process: a runtime stopped meanwhile is passed over,
\* one without a broker account is refused at once
Take ==
    /\ alive /\ work = NoWork /\ queue # <<>>
    /\ queue' = Tail(queue)
    /\ \/ /\ Head(queue)[1] \notin active
          /\ UNCHANGED work
       \/ /\ Head(queue)[1] \in active
          /\ \E stage \in {"read", "record"} :
                work' = [NoWork EXCEPT !.stage = stage, !.decision = Head(queue)]
    /\ UNCHANGED <<runtimes, alive, results, reserved, answer, boots>>

\* Signed sum of the quantities of one lot each.
NetOf(rows) == Cardinality({r \in rows : r.side = 1})
                 - Cardinality({r \in rows : r.side = -1})

\* Mutant: the reservations of other runtimes are not counted
ReservedOfOne(d) == NetOf({r \in reserved : r.decision[1] = d[1]})

\* active_reservation_quantity: signed sum over the owner's runtimes
ReservedQuantity(d) == NetOf(reserved)

\* evaluate up to the reservations: a decision that has a result is not
\* evaluated again
ReadReserved ==
    /\ work.stage = "read"
    /\ work' = IF results[work.decision] # "none"
               THEN [work EXCEPT !.stage = "record", !.result = results[work.decision]]
               ELSE [work EXCEPT !.stage = "evaluate",
                                 !.reserved = ReservedQuantity(work.decision)]
    /\ UNCHANGED <<runtimes, queue, alive, results, reserved, answer,
                   boots>>

Size(n) == IF n < 0 THEN -n ELSE n

\* LiveRiskService.evaluate on the position and the working orders read now
\* and the reservations read before; side 0 is an exit, which needs a position
\* to close
RiskApproves(side, position, working) ==
    IF side = 0 THEN position # 0
    ELSE /\ Cardinality(active) <= MaxActive
         /\ Size(position + working + work.reserved + side) <= Limit

\* MarketableLimitIOCPolicy.evaluate: spread and prices may refuse what risk
\* approved
PolicyResults(approved) ==
    {"rejected"} \cup (IF approved THEN {"would_submit"} ELSE {})

Evaluate ==
    /\ work.stage = "evaluate"
    /\ \E side \in Sides \cup {0}, position \in Held, working \in Held :
       \E o \in PolicyResults(RiskApproves(side, position, working)) :
          work' = [work EXCEPT !.stage = "save", !.side = side, !.result = o,
                               !.reserved = 0, !.exposure = position + working]
    /\ UNCHANGED <<runtimes, queue, alive, results, reserved, answer,
                   boots>>

\* an entry that would be submitted, saved for the first time, is reserved
Reserves ==
    work.result = "would_submit" /\ work.side # 0 /\ results[work.decision] = "none"

\* save: result and reservation in one transaction
Save ==
    /\ work.stage = "save"
    /\ results' = [results EXCEPT ![work.decision] =
                     IF @ = "none" THEN work.result ELSE @]
    /\ reserved' = IF Reserves
                   THEN reserved \cup {[decision |-> work.decision, side |-> work.side]}
                   ELSE reserved
    /\ work' = [NoWork EXCEPT !.stage = "record", !.decision = work.decision,
                              !.result = results'[work.decision]]
    /\ UNCHANGED <<runtimes, queue, alive, answer, boots>>

\* Mutant: an evaluation that fails ends the item without an answer
EvaluationFailsSilently ==
    /\ work.stage \in {"read", "evaluate", "save"}
    /\ work' = NoWork
    /\ UNCHANGED <<runtimes, queue, alive, results, reserved, answer,
                   boots>>

\* an exception inside evaluate, of the store for one, is a refusal
EvaluationFails ==
    /\ work.stage \in {"read", "evaluate", "save"}
    /\ work' = [NoWork EXCEPT !.stage = "record", !.decision = work.decision]
    /\ UNCHANGED <<runtimes, queue, alive, results, reserved, answer,
                   boots>>

AnswerOf(result) ==
    IF result = "would_submit" THEN "shadow_would_submit" ELSE "shadow_rejected"

\* update_decision_execution
Record ==
    /\ work.stage = "record"
    /\ answer' = [answer EXCEPT ![work.decision] = AnswerOf(work.result)]
    /\ work' = NoWork
    /\ UNCHANGED <<runtimes, queue, alive, results, reserved, boots>>

\* an exception outside evaluate: the runtime is read and the candidate built
\* before it, the answer is written after it; _run has no except
ThreadDies ==
    /\ alive /\ alive' = FALSE
    /\ \/ /\ work = NoWork /\ queue # <<>>
          /\ queue' = Tail(queue)
       \/ /\ work.stage \in {"read", "record"}
          /\ UNCHANGED queue
    /\ work' = NoWork
    /\ UNCHANGED <<runtimes, results, reserved, answer, boots>>

Worker == \/ Take \/ ReadReserved \/ Evaluate \/ Save \/ EvaluationFails
          \/ Record \/ ThreadDies

---------------------------------------------------------------------------
\* stop: the status first, the reservations after it
StopRuntime(r) ==
    /\ r \in active
    /\ active' = active \ {r} /\ stopping' = stopping \cup {r}
    /\ UNCHANGED <<queue, alive, work, results, reserved, answer, boots>>

ReleaseRuntime(r) ==
    /\ r \in stopping /\ stopping' = stopping \ {r}
    /\ reserved' = {x \in reserved : x.decision[1] # r}
    /\ UNCHANGED <<active, queue, alive, work, results, answer, boots>>

\* reservation_seconds have passed for a reservation
Expire ==
    /\ \E x \in reserved : reserved' = reserved \ {x}
    /\ UNCHANGED <<runtimes, queue, alive, work, results, answer, boots>>

\* the process ends and starts again: queue and threads are lost
Reboot ==
    /\ boots < MaxBoots /\ boots' = boots + 1
    /\ queue' = <<>> /\ alive' = TRUE /\ work' = NoWork /\ stopping' = {}
    /\ UNCHANGED <<active, results, reserved, answer>>

ShadowNext ==
    \/ \E d \in Decisions : OnDecision(d)
    \/ Worker
    \/ \E r \in Runtimes : StopRuntime(r) \/ ReleaseRuntime(r)
    \/ Expire \/ Reboot

ShadowSpec == ShadowInit /\ [][ShadowNext]_shadowVars

\* The daemon thread is scheduled while it lives. That it takes a step says
\* nothing of which: it may die at each.
ShadowFairSpec == ShadowSpec /\ WF_shadowVars(Worker)

---------------------------------------------------------------------------
(* Properties.                                                             *)

\* docs/architecture.md:243: no two runtimes both pass on the exposure of
\* before. A reservation enters the table only within the limit: the position
\* and the working orders it was judged against, of either side, and all
\* reservations that stand beside it when it is saved do not exceed the limit
\* on its own side, though stops and expiries come between the reading of
\* the reservations, the judgement and the save (shadow.py:194-303,
\* risk/live.py:223-229). This holds for entries of one side; with both in
\* Sides, the reservation that made room for another may go before its save.
ReservationFits ==
    [][\A x \in reserved' \ reserved :
          x.side * (work.exposure + NetOf(reserved')) <= Limit]_shadowVars

\* Once restarts are over, a queued decision is answered, or its runtime has
\* been stopped, or the daemon thread has died: neither a full queue, a
\* refusal, an evaluation that raises nor a lost reservation leaves it pending
\* (live_shadow.py:71-81). After an exception outside the evaluation nothing
\* is answered any more.
QueuedIsAnswered ==
    \A d \in Decisions :
        (boots = MaxBoots /\ answer[d] = "pending" /\ \E i \in DOMAIN queue : queue[i] = d)
            ~> (answer[d] # "pending" \/ d[1] \notin active \/ ~alive)

\* docs/architecture.md:244: stopping a runtime clears its reservations. The
\* daemon thread that read the runtime as active may save one afterwards.
StoppedHoldsNothing == \A x \in reserved : x.decision[1] \in active \cup stopping
=============================================================================
