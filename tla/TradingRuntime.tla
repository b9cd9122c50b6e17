--------------------------- MODULE TradingRuntime ---------------------------
(***************************************************************************)
(* Paper Auto runtimes: their lifecycle (live/application/                 *)
(* trading_runtime.py), the durable decisions they record per closed bar   *)
(* (live/storage.py) and the controller that turns decisions into paper    *)
(* orders (live/application/paper_auto.py).                                *)
(*                                                                         *)
(* Closed bars are handled on the event loop, listener by listener;        *)
(* create, arm, pause and stop run on API threads between any two of its   *)
(* steps. The paper account (PaperAccount) appears here by its answers; the *)
(* runtimes trade different strategies, so each has a position of its own.  *)
(***************************************************************************)
EXTENDS Naturals, FiniteSets

CONSTANTS
    Count,        \* paper_auto runtimes of one owner, in order of creation
    LastBar,      \* bound on closed bars
    Restarts      \* bound on crashes

Runtimes == 1..Count
Bars     == 1..LastBar
Runs     == Runtimes \X Bars     \* an evaluation of a runtime on a bar
Actions  == {"exit", "entry"}
Cells    == Runtimes \X Bars \X Actions   \* a decision of an evaluation

ASSUME RuntimeAssumption ==
    Count \in Nat /\ LastBar \in Nat /\ Restarts \in Nat

VARIABLES
    bars,     \* closed bars in the store
    signal,   \* the decisions the strategies ask for on the closed bars
    runtime,  \* strategy_runtimes: status, cursor (last_evaluated_bar), issue
    decision, \* trading_decisions: execution_status
    order,    \* the paper order of each decision
    open,     \* runtimes with an open position
    loop,     \* where the closed-bar listeners are
    api,      \* an arm or pause between its read and its write
    degraded, \* LiveMarketService.worker_errors > 0 since the last start
    dangling, \* an idempotency key without an order is in the store
    known,    \* was it there at the last start (issues_by_owner)
    restarts, \* crashes so far
    armed,    \* history: runtimes armed since their last pause, stop, restart
    stale     \* history: orders placed before the last restart

store == <<bars, signal, dangling>>
start == <<degraded, known, restarts, stale>>
vars  == <<store, runtime, decision, order, open, loop, api, start, armed>>

NoCell  == <<0, 0, "none">>
Idle    == [pc |-> "idle", bar |-> 0, todo |-> {}, tell |-> {}, at |-> NoCell]
NoCall  == [op |-> "none", runtime |-> 0, cursor |-> 0]
Live    == {"armed", "paused", "recovery_locked"}

IsEntry(c)   == c[3] = "entry"
Of(e)        == {c \in Cells : c[1] = e[1] /\ c[2] = e[2]}
Waiting      == {c \in Cells : order[c] = "approved"}
------------------------------------------------------------------------------
(* Lifecycle: API threads *)

Create(r) ==
    /\ runtime[r].status = "absent"
    /\ \A q \in 1..(r - 1) : runtime[q].status # "absent"
    /\ runtime' = [runtime EXCEPT ![r].status = "paused", ![r].cursor = bars]
    /\ UNCHANGED <<store, decision, order, open, loop, api, start, armed>>

\* arm reads the runtime and the latest closed bar ...
ArmRead(r) ==
    /\ api.op = "none"
    /\ runtime[r].status \in Live /\ ~runtime[r].issue
    /\ api' = [op |-> "arm", runtime |-> r,
               cursor |-> IF bars = 0 THEN runtime[r].cursor ELSE bars]
    /\ UNCHANGED <<store, runtime, decision, order, open, loop, start, armed>>

PauseRead(r) ==
    /\ api.op = "none"
    /\ runtime[r].status \in Live
    /\ api' = [op |-> "pause", runtime |-> r, cursor |-> 0]
    /\ UNCHANGED <<store, runtime, decision, order, open, loop, start, armed>>

\* ... and set_trading_runtime_status writes without looking again.
ArmWrite ==
    /\ api.op = "arm"
    /\ runtime' = [runtime EXCEPT ![api.runtime].status = "armed",
                                  ![api.runtime].cursor = api.cursor]
    /\ api' = NoCall
    /\ armed' = armed \cup {api.runtime}
    /\ UNCHANGED <<store, decision, order, open, loop, start>>

PauseWrite ==
    /\ api.op = "pause"
    /\ runtime' = [runtime EXCEPT ![api.runtime].status = "paused"]
    /\ api' = NoCall
    /\ armed' = armed \ {api.runtime}
    /\ UNCHANGED <<store, decision, order, open, loop, start>>

Stop(r) ==
    /\ runtime[r].status \in Live
    /\ runtime' = [runtime EXCEPT ![r].status = "stopped"]
    /\ armed' = armed \ {r}
    /\ UNCHANGED <<store, decision, order, open, loop, api, start>>
------------------------------------------------------------------------------
(* A closed bar: before_bar, paper.on_bar, after_bar, runtime.on_bar *)

\* A bar's strategy signals, an exit, an entry or both for each runtime, are
\* fixed: evaluating it again repeats them.
Signals(b) ==
    \E S \in SUBSET {c \in Cells : c[2] = b} : signal' = signal \cup S

\* The worker saves a closed bar and calls its listeners.
CloseBar ==
    /\ loop.pc = "idle" /\ bars < LastBar
    /\ bars' = bars + 1 /\ Signals(bars + 1)
    /\ loop' = [Idle EXCEPT !.pc = "before", !.bar = bars + 1]
    /\ UNCHANGED <<runtime, decision, order, open, api, dangling, start, armed>>

\* _protect_positions: the stop or the target of some positions is touched;
\* a protective exit fills at once, whatever the status of the runtime.
Protect ==
    /\ loop.pc \in {"before", "after"}
    /\ open' \in SUBSET open
    /\ loop' = [loop EXCEPT !.pc = IF @ = "before" THEN "fill" ELSE "eval"]
    /\ UNCHANGED <<store, runtime, decision, order, api, start, armed>>

\* _prefill_block_reason: a waiting entry is refused the open of a bar.
PrefillBlocked(r) ==
    \/ runtime[r].status # "armed" \/ runtime[r].issue
    \/ degraded \/ known

\* Orders placed before this bar are filled or rejected: entries as the guard
\* and the account's risk gate allow, exits while there is a position.
PaperOnBar ==
    LET due   == {c \in Waiting : c[2] < loop.bar}
        may   == {c \in due : IsEntry(c) /\ ~PrefillBlocked(c[1])}
        close == {c \in due : /\ ~IsEntry(c) /\ c[1] \in open
                              /\ \A d \in due : d[1] = c[1] /\ ~IsEntry(d)
                                                   => c[2] <= d[2]}
    IN  /\ loop.pc = "fill"
        /\ \E good \in SUBSET may :
             /\ order' = [c \in Cells |-> IF c \in good \cup close THEN "filled"
                                          ELSE IF c \in due THEN "rejected"
                                          ELSE order[c]]
             /\ open' = (open \ {c[1] : c \in close}) \cup {c[1] : c \in good}
        /\ loop' = [loop EXCEPT !.pc = "sync"]
        /\ UNCHANGED <<store, runtime, decision, api, start, armed>>

\* on_bar returns early when its clock has passed the bar: orders keep waiting.
PaperDropsBar ==
    /\ loop.pc = "fill"
    /\ loop' = [loop EXCEPT !.pc = "sync"]
    /\ UNCHANGED <<store, runtime, decision, order, open, api, start, armed>>

\* Mutant: an order that no longer waits counts as filled.
SyncAsFilled ==
    /\ loop.pc = "sync"
    /\ decision' = [c \in Cells |->
          IF decision[c] = "submitted" /\ order[c] # "approved"
          THEN "filled" ELSE decision[c]]
    /\ loop' = [loop EXCEPT !.pc = "after"]
    /\ UNCHANGED <<store, runtime, order, open, api, start, armed>>

\* after_bar: submitted decisions take the final status of their orders.
SyncDecisions ==
    /\ loop.pc = "sync"
    /\ decision' = [c \in Cells |->
          IF decision[c] = "submitted" /\ order[c] # "approved"
          THEN order[c] ELSE decision[c]]
    /\ loop' = [loop EXCEPT !.pc = "after"]
    /\ UNCHANGED <<store, runtime, order, open, api, start, armed>>

\* TradingRuntimeApplicationService.on_bar: the active runtimes and their
\* cursors are read once; every later bar is pending for them.
BeginEvaluation ==
    /\ loop.pc = "eval"
    /\ loop' = [loop EXCEPT !.pc = "record", !.todo =
          {e \in Runs : /\ runtime[e[1]].status \in Live
                        /\ runtime[e[1]].cursor < e[2] /\ e[2] <= bars}]
    /\ UNCHANGED <<store, runtime, decision, order, open, api, start, armed>>

\* The next evaluation: runtimes in order of creation, their bars in order.
NextRun == CHOOSE e \in loop.todo : \A d \in loop.todo :
               e[1] < d[1] \/ (e[1] = d[1] /\ e[2] <= d[2])

\* record_runtime_evaluation, one transaction: the status and the cursor are
\* checked again, INSERT OR IGNORE keeps the rows of an earlier evaluation,
\* signals of an older bar are skipped. New pending decisions are announced.
Record ==
    LET e    == NextRun
        r    == runtime[e[1]]
        new  == {c \in Of(e) \cap signal : decision[c] = "none"}
        live == e[2] = loop.bar
    IN  /\ loop.pc = "record" /\ loop.tell = {} /\ loop.todo # {}
        /\ IF r.status \in Live /\ r.cursor < e[2]
           THEN /\ runtime' = [runtime EXCEPT ![e[1]].cursor = e[2]]
                /\ decision' = [c \in Cells |->
                      IF c \notin new THEN decision[c]
                      ELSE IF live THEN "pending" ELSE "skipped"]
                /\ loop' = [loop EXCEPT !.todo = @ \ {e},
                                        !.tell = IF live THEN new ELSE {}]
           ELSE /\ loop' = [loop EXCEPT !.todo = @ \ {e}]
                /\ UNCHANGED <<runtime, decision>>
        /\ UNCHANGED <<store, order, open, api, start, armed>>

\* The decision listener is called with the next one, in the strategy's order.
Announce ==
    /\ loop.pc = "record"
    /\ \E c \in loop.tell :
          loop' = [loop EXCEPT !.pc = "decide", !.at = c, !.tell = @ \ {c}]
    /\ UNCHANGED <<store, runtime, decision, order, open, api, start, armed>>

\* Mutant: an earlier entry that still waits is not looked for.
EntryBlockedByPosition(c) ==
    \/ runtime[c[1]].status # "armed" \/ degraded \/ known \/ c[1] \in open

\* _block_reason of a new entry, as far as this module's state tells.
EntryBlocked(c) ==
    \/ runtime[c[1]].status # "armed" \/ degraded \/ known
    \/ c[1] \in open
    \/ \E d \in Waiting \ {c} : d[1] = c[1] /\ IsEntry(d)

\* Is the decision's order placed? An exit needs only the open position.
Wanted(c) == IF IsEntry(c) THEN ~EntryBlocked(c) ELSE c[1] \in open

\* on_decision up to the answer of paper.submit: placed (to wait for the next
\* open) or refused by the account's risk gate.
SubmitDecision ==
    /\ loop.pc = "decide" /\ Wanted(loop.at)
    /\ \E s \in {"approved", "rejected"} :
          order' = [order EXCEPT ![loop.at] = s]
    /\ loop' = [loop EXCEPT !.pc = "answer"]
    /\ UNCHANGED <<store, runtime, decision, open, api, start, armed>>

\* A submit that has reserved its key may be under way.
InSubmit == \/ loop.pc \in {"before", "after"}
            \/ loop.pc = "decide" /\ Wanted(loop.at)

\* _skip: not wanted, blocked by user, market, kill switch or direction, or
\* submit raised; it may have raised with its key reserved.
SkipDecision ==
    /\ loop.pc = "decide"
    /\ decision' = [decision EXCEPT ![loop.at] = "skipped"]
    /\ loop' = [loop EXCEPT !.pc = "record"]
    /\ dangling' \in {dangling, dangling \/ InSubmit}
    /\ UNCHANGED <<bars, signal, runtime, order, open, api, start, armed>>

\* update_decision_execution with the answer.
AnswerDecision ==
    /\ loop.pc = "answer"
    /\ decision' = [decision EXCEPT ![loop.at] =
          IF order[loop.at] = "approved" THEN "submitted" ELSE "rejected"]
    /\ loop' = [loop EXCEPT !.pc = "record"]
    /\ UNCHANGED <<store, runtime, order, open, api, start, armed>>

\* The except of on_decision also sees what raises after the order was
\* committed, in submit or in update_decision_execution: _skip is written over.
AnswerRaises ==
    /\ loop.pc = "answer"
    /\ decision' = [decision EXCEPT ![loop.at] = "skipped"]
    /\ loop' = [loop EXCEPT !.pc = "record"]
    /\ UNCHANGED <<store, runtime, order, open, api, start, armed>>

EndBar ==
    /\ loop.pc = "record" /\ loop.todo = {} /\ loop.tell = {}
    /\ loop' = Idle
    /\ UNCHANGED <<store, runtime, decision, order, open, api, start, armed>>

\* A listener raises: the worker counts the error and drops the rest of the
\* bar. A protective submit may have raised with its key reserved.
ListenerRaises ==
    /\ loop.pc # "idle"
    /\ loop' = Idle
    /\ degraded' = TRUE
    /\ dangling' \in {dangling, dangling \/ loop.pc \in {"before", "after"}}
    /\ UNCHANGED <<bars, signal, runtime, decision, order, open, api, known,
                   restarts, stale, armed>>
------------------------------------------------------------------------------
(* Crash and restart: PaperAutoExecutionController.recover *)

\* Mutant: durable statuses survive the restart as they are.
LockedKept == {}

\* lock_paper_auto_runtimes_for_recovery.
Locked == {r \in Runtimes : runtime[r].status \in {"armed", "recovery_locked"}}

\* Issues recover finds for a runtime: a key without an order, or an entry
\* that waits although the position is open.
Inconsistent(r, lost) ==
    \/ lost
    \/ r \in open /\ \E c \in Waiting : c[1] = r /\ IsEntry(c)

\* A crash inside a submit may leave its key without an order. Bars closed
\* while the service was down are backfilled without listeners. Locked
\* runtimes lose the entries that wait.
Restart ==
    LET gone == {c \in Waiting : IsEntry(c) /\ c[1] \in Locked}
    IN  /\ restarts < Restarts /\ restarts' = restarts + 1
        /\ dangling' \in {dangling, dangling \/ InSubmit}
        /\ known' = dangling' /\ degraded' = FALSE
        /\ \/ UNCHANGED <<bars, signal>>
           \/ bars < LastBar /\ bars' = bars + 1 /\ Signals(bars + 1)
        /\ runtime' = [r \in Runtimes |->
              IF runtime[r].status = "absent" THEN runtime[r]
              ELSE [runtime[r] EXCEPT
                      !.status = IF r \in Locked THEN "recovery_locked" ELSE @,
                      !.issue = Inconsistent(r, dangling')]]
        /\ order' = [c \in Cells |->
              IF c \in gone THEN "rejected" ELSE order[c]]
        /\ decision' = [c \in Cells |->
              IF c \in gone THEN "skipped" ELSE decision[c]]
        /\ loop' = Idle /\ api' = NoCall
        /\ armed' = {} /\ stale' = Waiting
        /\ UNCHANGED open
------------------------------------------------------------------------------
Init ==
    /\ bars = 0
    /\ signal = {}
    /\ runtime = [r \in Runtimes |->
                     [status |-> "absent", cursor |-> 0, issue |-> FALSE]]
    /\ decision = [c \in Cells |-> "none"]
    /\ order = [c \in Cells |-> "none"]
    /\ open = {}
    /\ loop = Idle /\ api = NoCall
    /\ degraded = FALSE /\ dangling = FALSE /\ known = FALSE
    /\ restarts = 0 /\ armed = {} /\ stale = {}

Bar ==
    \/ CloseBar \/ Protect \/ PaperOnBar \/ PaperDropsBar \/ SyncDecisions
    \/ BeginEvaluation \/ Record \/ Announce \/ SubmitDecision
    \/ SkipDecision \/ AnswerDecision \/ AnswerRaises \/ EndBar \/ ListenerRaises

Next ==
    \/ \E r \in Runtimes : Create(r) \/ ArmRead(r) \/ PauseRead(r) \/ Stop(r)
    \/ ArmWrite \/ PauseWrite
    \/ Bar \/ Restart

Spec == Init /\ [][Next]_vars

\* Bound of the runs: of the two decisions each bar may ask for, the bars
\* together ask for at most three.
FewSignals == Cardinality(signal) <= 3
------------------------------------------------------------------------------
(* Properties *)

\* Every variable keeps its type.
TypeOK ==
    /\ bars \in 0..LastBar
    /\ signal \subseteq Cells
    /\ runtime \in [Runtimes -> [status : Live \cup {"absent", "stopped"},
                                 cursor : 0..LastBar, issue : BOOLEAN]]
    /\ decision \in [Cells -> {"none", "pending", "skipped", "submitted",
                               "rejected", "filled"}]
    /\ order \in [Cells -> {"none", "approved", "filled", "rejected"}]
    /\ open \subseteq Runtimes
    /\ loop.pc \in {"idle", "before", "fill", "sync", "after", "eval",
                    "record", "decide", "answer"}
    /\ loop.bar \in 0..LastBar /\ loop.todo \subseteq Runs
    /\ loop.tell \subseteq Cells /\ loop.at \in Cells \cup {NoCell}
    /\ api \in [op : {"none", "arm", "pause"}, runtime : 0..Count,
                cursor : 0..LastBar]
    /\ {degraded, dangling, known} \subseteq BOOLEAN
    /\ restarts \in 0..Restarts /\ armed \subseteq Runtimes
    /\ stale \subseteq Cells

\* A runtime has one entry at a time: one that waits, or an open
\* position. Neither bars that were dropped, nor a restart, nor a
\* runtime paused and armed again in between lets it place a second one.
OneEntryAtATime ==
    \A c \in Waiting : IsEntry(c) =>
        /\ c[1] \notin open
        /\ \A d \in Waiting : d[1] = c[1] /\ IsEntry(d) => d = c

\* After a pause, a stop or a restart no waiting entry fills before the
\* runtime is armed again.
EntryFillsOnlyArmed ==
    [][\A c \in Waiting : IsEntry(c) /\ order'[c] = "filled"
                             => c[1] \in armed]_vars

\* A decision is executed at most once: an arm that moves the cursor back
\* evaluates its bar again and changes nothing that was decided.
DecidedOnce ==
    [][\A c \in Cells :
         /\ decision[c] \notin {"none", "pending"}
               => decision'[c] \notin {"none", "pending"}
         /\ order[c] \in {"filled", "rejected"}
               => order'[c] = order[c]]_vars

\* What the decision table reports of an order is what the paper account did,
\* even after crashes at any point and errors in listeners. A row that says
\* skipped claims nothing: an exception after the order was committed writes
\* it over an order that waits and may fill (on_decision, _skip).
DecisionMatchesOrder ==
    \A c \in Cells :
        /\ decision[c] = "filled" => order[c] = "filled"
        /\ decision[c] = "rejected" => order[c] = "rejected"
        /\ decision[c] = "submitted" => order[c] # "none"
        /\ decision[c] = "none" => order[c] = "none"

\* docs/order-lifecycle.md:82-83: an approved entry that had not filled is
\* not executed after a restart.
RecoveredEntryNeverFills ==
    [][\A c \in stale \cap Waiting :
         IsEntry(c) => order'[c] # "filled"]_vars

\* trading_runtime.py:264, live_auto.py:82: "a stopped runtime cannot be
\* armed".
StoppedIsFinal ==
    [][\A r \in Runtimes : runtime[r].status = "stopped"
                             => runtime'[r].status = "stopped"]_vars
=============================================================================
