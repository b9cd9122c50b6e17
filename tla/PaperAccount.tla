---------------------------- MODULE PaperAccount ----------------------------
(***************************************************************************)
(* One paper-trading account: PaperTradingService (paper/service.py), the  *)
(* event engine it drives (events/engine.py) with the handlers of          *)
(* execution/pipeline.py (the simulated broker, the risk gate, the         *)
(* position ledger, the contract-roll liquidator) and the SQLite store it  *)
(* recovers from (paper/repository.py).                                    *)
(*                                                                         *)
(* Submissions run on API threads and on the event loop, closed bars on    *)
(* the event loop.  The engine and its queue are shared and have no lock:  *)
(* a thread that runs the engine takes whatever event is due, its own or   *)
(* not, and commits the events it took.  A step takes one event, or is all *)
(* that the handlers of one event do.  A process crash loses everything    *)
(* but the three tables keys, saved and book.                              *)
(***************************************************************************)
EXTENDS Integers, Sequences, FiniteSets, FiniteSetsExt, TLC

CONSTANTS
    Keys,         \* idempotency keys: one paper order each
    Callers,      \* API threads that submit manual orders
    Kinds,        \* the kinds of order submitted
    Lots,         \* quantities they ask for
    EntrySides,   \* sides the entries take: 1 buys, -1 sells
    MaxPosition,  \* AccountRiskConfig.max_position_contracts
    MaxTrades,    \* max_trades_per_day
    MaxLoss,      \* max_daily_loss, in units of one losing trade
    MaxLosses,    \* max_consecutive_losses
    Cooldown,     \* cooldown_minutes, in clock ticks
    LastTime,     \* bound on the wall clock
    LastDay,      \* bound on the trading date
    LastContract, \* bound on the front contract
    Restarts      \* bound on crashes

OrderKinds == {"manual_entry", "manual_close", "auto_entry", "auto_exit",
               "auto_protect"}

Contracts == 1..LastContract
Threads   == Callers \cup {"loop"}   \* "loop": the closed-bar listener
Ids       == Keys \cup Contracts     \* orders: a contract's is its liquidation

ASSUME PaperAssumption ==
    /\ IsFiniteSet(Keys) /\ IsFiniteSet(Callers) /\ Kinds \subseteq OrderKinds
    /\ Lots \subseteq Nat \ {0} /\ EntrySides \subseteq {-1, 1}
    /\ {MaxPosition, MaxTrades, MaxLoss, MaxLosses, Cooldown} \subseteq Nat
    /\ {LastTime, LastDay, LastContract} \subseteq Nat \ {0}
    /\ Restarts \in Nat
    /\ "loop" \notin Callers /\ Keys \cap Contracts = {}

VARIABLES
    now,     \* wall clock; a closed bar carries the time now - 1
    bar,     \* "formed": a closed bar waits for the tick that lets the loop
             \* emit it; "emitted": its listeners run or have run
    day,     \* trading date of the latest bar
    front,   \* contract of the latest bar
    clock,   \* the engine's virtual clock (0: None)
    events,  \* the engine's heap of events
    orders,  \* SimulatedBroker.orders
    pos,     \* PositionLedger: signed lots per contract
    risk,    \* AccountRiskState
    priced,  \* contracts with a SimulatedBroker._last_close
    stuck,   \* PositionLiquidator._pending
    call,    \* the submission or bar each thread is in
    keys,    \* paper_idempotency: reserved keys
    saved,   \* paper_events: what is committed about each order
    book,    \* position and risk state that replaying the committed fills
             \* and controls rebuilds (_recover folds them in commit order)
    crashes, \* number of restarts so far
    held,    \* history: the operator's kill switch is on ("yes"), was reset
             \* ("no") or a loss made it an automatic one ("replaced")
    overlap, \* history: a thread began to run the engine while another ran it
             \* or had not committed yet
    raised,  \* history: since the last start a run raised
    forgot   \* history: a run that raised had applied fills, never committed

market == <<now, bar, day, front>>
engine == <<clock, events>>
memory == <<engine, orders, pos, risk, priced, stuck>>
store  == <<keys, saved, book>>
ghosts == <<held, overlap, raised, forgot>>
vars   == <<market, memory, call, store, crashes, ghosts>>
------------------------------------------------------------------------------
(* Orders and fills *)

\* PaperOrderCommand as the three kinds of caller fill it in.
IsReduce(kind) == kind \in {"manual_close", "auto_exit", "auto_protect", "roll"}
IsNextBar(kind) == kind \in {"auto_entry", "auto_exit"}
IsAuto(kind) == kind \in {"auto_entry", "auto_exit", "auto_protect"}
\* execution_timing "current_close": at the last known price of the contract
IsCurrentClose(kind) == kind \in {"manual_entry", "manual_close", "roll"}

NoOrder == [kind |-> "none", side |-> 1, qty |-> 0, at |-> 0, day |-> 0,
            contract |-> 1, status |-> "none", approved |-> 0]

\* The OrderIntent of a submission. A manual order is stamped with the wall
\* clock, an automatic one with the received time of the bar it follows.
Intent(kind, side, qty) ==
    [kind |-> kind, side |-> side, qty |-> qty,
     at |-> IF IsAuto(kind) THEN now - 1 ELSE now,
     day |-> day, contract |-> front, status |-> "pending_risk",
     approved |-> 0]

\* An order that ended: nothing reads its time and trading date again.
Ended(o, status) == [o EXCEPT !.at = 0, !.day = 0, !.status = status]

Abs(n) == IF n < 0 THEN -n ELSE n

\* Mutant: the side of a reduce-only order is not compared with the position.
ClosableAnySide(p, side, q) == Min({Abs(p), q})

\* Lots of position p that q lots on this side would close.
Closable(p, side, q) == IF p * side < 0 THEN Min({Abs(p), q}) ELSE 0

\* The open lots of position p, numbered within their contract.
OpenLots(p) == UNION {{c} \X (1..Abs(p[c])) : c \in Contracts}

\* AccountRiskGate._open_contracts.
OpenContracts == Cardinality(OpenLots(pos))

\* The lots of the orders ks, numbered within their order.
OrderLots(ks) == UNION {{k} \X (1..orders[k].qty) : k \in ks}

\* Lots of the entries that hold a risk reservation.
ReservedLots(r) == Cardinality(OrderLots(r.reserved))

\* Approved next-bar orders that wait for their bar.
Waiting == {k \in Keys : orders[k].status = "approved"
                            /\ IsNextBar(orders[k].kind)}
------------------------------------------------------------------------------
(* Risk state *)

NewRisk == [day |-> 0, pnl |-> 0, trades |-> 0, losses |-> 0, cool |-> 0,
            reserved |-> {}, kill |-> "off"]

\* AccountRiskGate._state: another trading date starts a fresh state that
\* keeps only a manual kill switch.
OnDate(r, d) ==
    IF r.day = d THEN r
    ELSE [NewRisk EXCEPT !.day = d,
              !.kill = IF r.kill = "manual" THEN "manual" ELSE "off"]

\* AccountRiskGate.on_fill for the trade a closing fill realises at time t.
OnTrade(r, t, pnl) ==
    LET streak == IF pnl < 0 THEN r.losses + 1 ELSE 0
        total  == r.pnl + pnl
    IN  [r EXCEPT !.pnl = total, !.losses = streak,
             !.cool = IF pnl >= 0 THEN 0
                      ELSE IF streak >= MaxLosses THEN t + Cooldown ELSE @,
             !.kill = IF total <= -MaxLoss THEN "auto" ELSE @]

\* What replaying a fill needs of it: order, contract, signed lots, whether it
\* is an entry, its trading date and time, and the profit of the trade if it
\* closes lots.
FillOf(e, pnl) ==
    [order |-> e.id, contract |-> e.order.contract,
     lots |-> e.order.side * e.qty, entry |-> ~IsReduce(e.order.kind),
     day |-> e.order.day, at |-> e.at, pnl |-> pnl]

\* PositionLedger.on_fill followed by AccountRiskGate.on_fill, live and in
\* recovery alike: acc is a record of a position and a risk state.
ApplyFill(acc, f) ==
    LET old == acc.pos[f.contract]
        r1  == OnDate(acc.risk, f.day)
        r2  == [r1 EXCEPT !.reserved = @ \ {f.order},
                          !.trades = IF f.entry THEN @ + 1 ELSE @]
    IN  [pos  |-> [acc.pos EXCEPT ![f.contract] = old + f.lots],
         risk |-> IF old * f.lots < 0 THEN OnTrade(r2, f.at, f.pnl) ELSE r2]

\* acc after each of the fills.
Replay(acc, fills) ==
    LET run[n \in 0..Len(fills)] ==
            IF n = 0 THEN acc ELSE ApplyFill(run[n - 1], fills[n])
    IN  run

ApplyFills(acc, fills) == Replay(acc, fills)[Len(fills)]

\* History: the automatic kill of a loss limit replaces the operator's.
HeldAfter(acc, fills) ==
    IF held = "yes" /\ \E n \in 1..Len(fills) :
                          Replay(acc, fills)[n].risk.kill = "auto"
    THEN "replaced" ELSE held

Outcomes == {-1, 1}   \* a realised trade loses or wins one unit
------------------------------------------------------------------------------
(* The engine: publish, run and the commit of what it processed *)

NoEvent == [kind |-> "none", id |-> 1, at |-> 0, seq |-> 0, order |-> NoOrder,
            ok |-> FALSE, qty |-> 0]

IdleCall == [pc |-> "idle", key |-> "none", order |-> NoOrder, ev |-> NoEvent,
             rows |-> {}, fills |-> <<>>]

\* heappush of the events evs, which are not before the clock, in their order.
Pushed(evs) ==
    LET last == Max({0} \cup {e.seq : e \in events})
    IN  events \cup {[evs[i] EXCEPT !.seq = last + i] : i \in DOMAIN evs}

\* Another thread is in the engine or about to commit what it did there.
Running(c) == call[c].pc \in {"run", "append"}
Overlaps(c) == overlap \/ \E d \in Threads \ {c} : Running(d)

\* engine.run: the earliest event, of equal times the one queued first. The
\* clock moves to its time.
Pop(c) ==
    /\ call[c].pc = "run" /\ call[c].ev = NoEvent
    /\ \E e \in events :
          /\ \A f \in events : e.at < f.at \/ (e.at = f.at /\ e.seq <= f.seq)
          /\ events' = events \ {e}
          /\ clock' = e.at
          /\ call' = [call EXCEPT ![c].ev = [e EXCEPT !.seq = 0]]
    /\ UNCHANGED <<market, orders, pos, risk, priced, stuck, store, crashes,
                   ghosts>>

\* Another thread has moved the clock past the event this one holds.
Stale(c) == call[c].ev.at < clock

\* The run raises: what it processed is in no store, what its handlers did
\* stays, the events still queued wait for the next run.
Raise(c, applied) ==
    /\ call' = [call EXCEPT ![c] = IdleCall]
    /\ raised' = TRUE
    /\ forgot' = (forgot \/ applied \/ call[c].fills # <<>>)
    /\ UNCHANGED events

\* The handlers are through with an event: they emitted the events evs, and
\* the run has rows and fills to commit.
Proceed(c, evs, rows, fills) ==
    /\ events' = Pushed(evs)
    /\ call' = [call EXCEPT ![c].ev = NoEvent, ![c].rows = @ \cup rows,
                            ![c].fills = @ \o fills]
    /\ UNCHANGED <<raised, forgot>>

\* publish refuses an event before the clock.
Emit(c, evs, rows) ==
    IF evs # <<>> /\ Stale(c) THEN Raise(c, FALSE) ELSE Proceed(c, evs, rows, <<>>)

\* advance_to refuses to go back: the event is gone and nothing handled it.
ClockRefuses(c) ==
    /\ call[c].ev # NoEvent /\ Stale(c)
    /\ Raise(c, FALSE)
    /\ UNCHANGED <<market, clock, orders, pos, risk, priced, stuck, store,
                   crashes, held, overlap>>

\* The queue is empty: the run is over and what it processed can be committed.
RunEnds(c) ==
    /\ call[c].pc = "run" /\ call[c].ev = NoEvent /\ events = {}
    /\ call' = [call EXCEPT ![c].pc = "append"]
    /\ UNCHANGED <<market, memory, store, crashes, ghosts>>

\* What is committed about an order.
Row(o, intent, decision, done) ==
    [order |-> o, intent |-> intent, decision |-> decision, done |-> done]
Unsaved == Row(NoOrder, FALSE, "none", "none")

\* The rows of an order once those of a run are added to them. The payload of
\* the order is the one memory holds.
AddRows(row, k, rows) ==
    LET Has(what) == <<k, what>> \in rows
    IN  Row(IF Has("intent") \/ Has("approved") \/ Has("filled") \/ Has("rejected")
            THEN orders[k] ELSE row.order,
            row.intent \/ Has("intent"),
            IF Has("approved") THEN "approved"
            ELSE IF Has("refused") THEN "refused" ELSE row.decision,
            IF Has("filled") THEN "filled"
            ELSE IF Has("rejected") THEN "rejected" ELSE row.done)

\* append_events: the run's events in one transaction. The caller's answer
\* follows.
AppendEvents(c) ==
    /\ call[c].pc = "append"
    /\ saved' = [k \in Ids |-> AddRows(saved[k], k, call[c].rows)]
    /\ book' = ApplyFills(book, call[c].fills)
    /\ held' = HeldAfter(book, call[c].fills)
    /\ call' = [call EXCEPT ![c] = IdleCall]
    /\ UNCHANGED <<market, memory, keys, crashes, overlap, raised, forgot>>
------------------------------------------------------------------------------
(* Submission: submit *)

\* submit up to reserve_key: the key is committed before the order exists.
\* Automatic orders follow a bar on the event loop.
ReserveKey(c, k, kind, side, qty) ==
    /\ call[c].pc = "idle"
    /\ k \notin keys
    /\ IsAuto(kind) = (c = "loop")
    /\ IsAuto(kind) => bar = "emitted"
    /\ keys' = keys \cup {k}
    /\ call' = [call EXCEPT ![c] =
          [IdleCall EXCEPT !.pc = "reserved", !.key = k,
                           !.order = Intent(kind, side, qty)]]
    /\ UNCHANGED <<market, memory, saved, book, crashes, ghosts>>

\* publish refuses an event before its clock: the request fails and the
\* reserved key keeps no order.
PublishRefused(c) ==
    /\ call[c].pc = "reserved"
    /\ call[c].order.at < clock
    /\ priced' = priced \cup {call[c].order.contract}
    /\ call' = [call EXCEPT ![c] = IdleCall]
    /\ UNCHANGED <<market, engine, orders, pos, risk, stuck, store, crashes,
                   ghosts>>

\* update_market_price and publish; the thread goes on to run the engine.
Publish(c) ==
    LET o == call[c].order
        e == [NoEvent EXCEPT !.kind = "intent", !.id = call[c].key, !.at = o.at,
                             !.order = o]
    IN  /\ call[c].pc = "reserved"
        /\ o.at >= clock
        /\ priced' = priced \cup {o.contract}
        /\ events' = Pushed(<<e>>)
        /\ call' = [call EXCEPT ![c] =
              [IdleCall EXCEPT !.pc = "run", !.key = call[c].key]]
        /\ overlap' = Overlaps(c)
        /\ UNCHANGED <<market, clock, orders, pos, risk, stuck, store, crashes,
                       held, raised, forgot>>

\* The risk state in which on_order meets an entry: today's, with an expired
\* cooldown and its loss streak dropped.
Refreshed(o) ==
    LET r == OnDate(risk, o.day)
    IN  IF r.kill = "off" /\ r.cool # 0 /\ o.at >= r.cool
        THEN [r EXCEPT !.cool = 0, !.losses = 0] ELSE r

\* on_order's checks on an entry after the account's own: kill switch,
\* cooldown, daily loss, trade count, projected position.
EntryAllowed(r, o) ==
    /\ r.kill = "off" /\ r.cool = 0 /\ r.pnl > -MaxLoss
    /\ r.trades + Cardinality(r.reserved) < MaxTrades
    /\ OpenContracts + ReservedLots(r) + o.qty <= MaxPosition

\* The risk state on_order leaves: an entry approved is reserved, a daily loss
\* kills.
RiskAfter(o, k, ok) ==
    LET r == Refreshed(o)
    IN  IF IsReduce(o.kind) THEN risk
        ELSE IF ok THEN [r EXCEPT !.reserved = @ \cup {k}]
        ELSE IF r.kill = "off" /\ r.cool = 0 /\ r.pnl <= -MaxLoss
        THEN [r EXCEPT !.kill = "auto"] ELSE r

\* The events of order k: the risk decision, a fill of q lots of the order o,
\* a rejection.
DecisionEvent(k, ok, q, t) ==
    [NoEvent EXCEPT !.kind = "decision", !.id = k, !.at = t, !.ok = ok, !.qty = q]
FillEvent(k, o, q, t) ==
    [NoEvent EXCEPT !.kind = "fill", !.id = k, !.at = t, !.order = o, !.qty = q]
StatusEvent(k, t) == [NoEvent EXCEPT !.kind = "status", !.id = k, !.at = t]

\* An order_intent event: broker.on_order, then AccountRiskGate.on_order, which
\* emits its decision. The account, the stop and the trade risk may refuse an
\* entry too.
HandleIntent(c) ==
    LET e == call[c].ev
        o == e.order
        q == IF IsReduce(o.kind) THEN Closable(pos[o.contract], o.side, o.qty)
             ELSE o.qty
    IN  /\ e.kind = "intent"
        /\ orders' = [orders EXCEPT ![e.id] = o]
        /\ \E ok \in BOOLEAN :
              /\ IsReduce(o.kind) => ok = (q > 0)
              /\ ok /\ ~IsReduce(o.kind) => EntryAllowed(Refreshed(o), o)
              /\ risk' = RiskAfter(o, e.id, ok)
              /\ Emit(c, <<DecisionEvent(e.id, ok, IF ok THEN q ELSE 0, e.at)>>,
                      {<<e.id, "intent">>})
        /\ UNCHANGED <<market, clock, pos, priced, stuck, store, crashes, held,
                       overlap>>

\* A risk_decision event, SimulatedBroker.on_risk_decision: a refused order
\* ends, a next-bar order waits, any other fills at a known price, a
\* reduce-only one only as far as there is a position left to close; without a
\* price the run raises.
HandleDecision(c) ==
    LET e == call[c].ev
        k == e.id
        o == [orders[k] EXCEPT !.status = "approved", !.approved = e.qty]
        q == IF IsReduce(o.kind) THEN Closable(pos[o.contract], o.side, e.qty)
             ELSE e.qty
    IN  /\ e.kind = "decision"
        /\ \/ /\ ~e.ok
              /\ orders' = [orders EXCEPT ![k] = Ended(@, "rejected")]
              /\ Emit(c, <<>>, {<<k, "refused">>})
           \/ /\ e.ok /\ IsNextBar(o.kind)
              /\ orders' = [orders EXCEPT ![k] = o]
              /\ Emit(c, <<>>, {<<k, "approved">>})
           \/ /\ e.ok /\ IsCurrentClose(o.kind) /\ o.contract \notin priced
              /\ orders' = [orders EXCEPT ![k] = o]
              /\ Raise(c, FALSE)
           \/ /\ e.ok /\ ~IsNextBar(o.kind)
              /\ IsCurrentClose(o.kind) => o.contract \in priced
              /\ \/ /\ q = 0
                    /\ orders' = [orders EXCEPT ![k] = Ended(o, "rejected")]
                    /\ Emit(c, <<StatusEvent(k, e.at)>>, {<<k, "approved">>})
                 \/ /\ q > 0
                    /\ orders' = [orders EXCEPT ![k] = Ended(o, "filled")]
                    /\ Emit(c, <<FillEvent(k, o, q, e.at)>>, {<<k, "approved">>})
        /\ UNCHANGED <<market, clock, pos, risk, priced, stuck, store, crashes,
                       held, overlap>>

\* AccountRiskGate.on_order_status drops the reservation.
Release(r, ks) == [r EXCEPT !.reserved = @ \ ks]

HandleStatus(c) ==
    LET e == call[c].ev
    IN  /\ e.kind = "status"
        /\ risk' = Release(risk, {e.id})
        /\ Emit(c, <<>>, {<<e.id, "rejected">>})
        /\ UNCHANGED <<market, clock, orders, pos, priced, stuck, store, crashes,
                       held, overlap>>

\* A fill event: the ledger, the liquidator and the risk gate in turn. The
\* ledger emits the position; if the clock refuses that event, the other two
\* never see the fill.
HandleFill(c) ==
    LET e == call[c].ev
    IN  /\ e.kind = "fill"
        /\ \E pnl \in Outcomes :
              LET f   == FillOf(e, pnl)
                  acc == ApplyFill([pos |-> pos, risk |-> risk], f)
              IN  /\ pos' = acc.pos
                  /\ IF Stale(c)
                     THEN Raise(c, TRUE) /\ UNCHANGED <<risk, stuck, held>>
                     ELSE /\ Proceed(c, <<>>, {<<e.id, "filled">>}, <<f>>)
                          /\ risk' = acc.risk
                          /\ stuck' = IF e.order.kind = "roll"
                                      THEN stuck \ {e.order.contract} ELSE stuck
                          /\ held' = HeldAfter([pos |-> pos, risk |-> risk], <<f>>)
        /\ UNCHANGED <<market, clock, orders, priced, store, crashes, overlap>>
------------------------------------------------------------------------------
(* Closed bars: on_bar *)

\* The last tick of a bar arrived; the next tick will let the loop emit it.
\* The bar may belong to a new trading date, and then to a new contract.
LastTick ==
    /\ bar # "formed" /\ now < LastTime
    /\ bar' = "formed"
    /\ now' = now + 1
    /\ day' \in {d \in {day, day + 1} : d <= LastDay}
    /\ front' \in {f \in {front, front + day' - day} : f <= LastContract}
    /\ UNCHANGED <<memory, call, store, crashes, ghosts>>

\* on_bar of a bar whose received time the engine clock has passed: only the
\* price is kept.
DropBar ==
    /\ bar = "formed" /\ call["loop"].pc = "idle"
    /\ now - 1 < clock
    /\ bar' = "emitted"
    /\ priced' = priced \cup {front}
    /\ UNCHANGED <<now, day, front, engine, orders, pos, risk, stuck, call,
                   store, crashes, ghosts>>

\* on_bar: the bar is published and the loop goes on to run the engine.
OnBar ==
    LET b == [NoOrder EXCEPT !.kind = "bar", !.at = now - 1, !.day = day,
                             !.contract = front]
    IN  /\ bar = "formed" /\ call["loop"].pc = "idle"
        /\ now - 1 >= clock
        /\ bar' = "emitted"
        /\ priced' = priced \cup {front}
        /\ events' = Pushed(<<[NoEvent EXCEPT !.kind = "bar", !.at = b.at,
                                             !.order = b]>>)
        /\ call' = [call EXCEPT !["loop"] =
              [IdleCall EXCEPT !.pc = "run", !.key = "bar", !.order = b]]
        /\ overlap' = Overlaps("loop")
        /\ UNCHANGED <<now, day, front, clock, orders, pos, risk, stuck, store,
                       crashes, held, raised, forgot>>

\* Waiting orders that bar b fills.
Due(b) == {k \in Waiting : orders[k].contract = b.contract /\ orders[k].at < b.at}

\* The ways to list a finite set.
Listings(S) == {s \in [1..Cardinality(S) -> S] :
                   \A i, j \in 1..Cardinality(S) : s[i] = s[j] => i = j}

\* The orders ks of the table os as they were placed: by their times, two of
\* one time either way; overlapping runs may have committed them in any order.
Placed(ks, os) == {s \in Listings(ks) : overlap \/
                      \A i, j \in DOMAIN s : i < j => os[s[i]].at <= os[s[j]].at}

\* Mutant: the executable open is filled without asking the risk gate again.
PrefillAllowedAlways(r, k, t) == TRUE

\* AccountRiskGate.recheck_before_fill of an automatic entry at time t; its
\* runtime, the account and the gap to the stop may refuse too.
PrefillAllowed(r, k, t) ==
    /\ r.kill = "off" /\ r.pnl > -MaxLoss
    /\ r.cool # 0 => t >= r.cool
    /\ k \in r.reserved
    /\ r.trades + Cardinality(r.reserved) <= MaxTrades
    /\ OpenContracts + ReservedLots(r) <= MaxPosition

\* SimulatedBroker.on_bar for one due order: an entry is rechecked, which
\* moves the risk state to its trading date; an exit closes what the earlier
\* exits of this bar left of the position. good: the entries let through by
\* what the model leaves out.
FillDue(s, k, good, b) ==
    LET o == orders[k]
        r == IF IsReduce(o.kind) THEN s.risk ELSE OnDate(s.risk, o.day)
        q == IF IsReduce(o.kind)
             THEN Max({0, Closable(pos[b.contract], o.side, o.approved) - s.left})
             ELSE IF k \in good /\ PrefillAllowed(r, k, b.at) THEN o.approved ELSE 0
    IN  [risk |-> r,
         left |-> IF IsReduce(o.kind) THEN s.left + q ELSE s.left,
         evs  |-> Append(s.evs, IF q = 0 THEN StatusEvent(k, b.at)
                                ELSE FillEvent(k, o, q, b.at))]

\* SimulatedBroker.on_bar after each of the due orders.
BarPass(list, good, b) ==
    LET pass[n \in 0..Len(list)] ==
            IF n = 0 THEN [risk |-> risk, left |-> 0, evs |-> <<>>]
            ELSE FillDue(pass[n - 1], list[n], good, b)
    IN  pass

\* Waiting orders of another contract than the bar's: the contract has rolled.
Outdated(b) == {k \in Waiting : orders[k].contract # b.contract}

\* SimulatedBroker.orders once the bar has rejected the orders in gone and was
\* through with the due ones.
OrdersAfter(evs, gone) ==
    [k \in Ids |->
        IF \E i \in DOMAIN evs : evs[i].id = k /\ evs[i].kind = "fill"
        THEN Ended(orders[k], "filled")
        ELSE IF k \in gone \/ \E i \in DOMAIN evs : evs[i].id = k
        THEN Ended(orders[k], "rejected") ELSE orders[k]]

\* Old contracts whose positions PositionLiquidator.on_bar closes now: it has
\* no exit of its own pending and no reduce-only order is on its way.
Rolled(b, os) ==
    {c \in Contracts \ {b.contract} : pos[c] # 0 /\ c \notin stuck
        /\ \A k \in Ids : ~(/\ IsReduce(os[k].kind) /\ os[k].contract = c
                            /\ os[k].status \in {"pending_risk", "approved"})}

\* PositionLiquidator._build_intent.
RollIntent(b, c) ==
    [NoEvent EXCEPT !.kind = "intent", !.id = c, !.at = b.at,
        !.order = [NoOrder EXCEPT !.kind = "roll", !.qty = Abs(pos[c]),
                      !.side = IF pos[c] > 0 THEN -1 ELSE 1, !.at = b.at,
                      !.day = b.day, !.contract = c, !.status = "pending_risk"]]

\* A bar_closed event: the broker, the marking to market, the liquidator in
\* turn. The first of them that emits something ends the run if the clock has
\* moved on: what it did stays, the others never see the bar.
HandleBar(c) ==
    LET b == call[c].ev.order
    IN  /\ call[c].ev.kind = "bar"
        /\ \E list \in Placed(Due(b), orders), gone \in Listings(Outdated(b)),
              good \in SUBSET {k \in Due(b) : ~IsReduce(orders[k].kind)} :
              LET pass   == BarPass(list, good, b)[Len(list)]
                  broker == [i \in DOMAIN gone |-> StatusEvent(gone[i], b.at)]
                               \o pass.evs
                  os     == OrdersAfter(pass.evs, Outdated(b))
                  old    == Rolled(b, os)
                  early  == Stale(c) /\ (broker # <<>> \/ pos[b.contract] # 0)
              IN  \E cs \in Listings(old) :
                     /\ orders' = os /\ risk' = pass.risk
                     /\ stuck' = IF early THEN stuck ELSE stuck \cup old
                     /\ IF early \/ (Stale(c) /\ old # {}) THEN Raise(c, FALSE)
                        ELSE Proceed(c, broker \o [i \in DOMAIN cs |->
                                                     RollIntent(b, cs[i])],
                                     {}, <<>>)
        /\ priced' = priced \cup {b.contract}
        /\ UNCHANGED <<market, clock, pos, store, crashes, held, overlap>>

\* engine.run of the event a thread holds.
Handle(c) == \/ HandleIntent(c) \/ HandleDecision(c) \/ HandleStatus(c)
             \/ HandleFill(c) \/ HandleBar(c) \/ ClockRefuses(c)
------------------------------------------------------------------------------
(* Kill switch and recovery *)

\* activate_kill_switch: in memory, then the control record.
ActivateKill ==
    /\ risk.kill # "manual"
    /\ risk' = [risk EXCEPT !.kill = "manual"]
    /\ book' = [book EXCEPT !.risk.kill = "manual"]
    /\ held' = "yes"
    /\ UNCHANGED <<market, engine, orders, pos, priced, stuck, call, keys,
                   saved, crashes, overlap, raised, forgot>>

\* reset_kill_switch clears a manual and an automatic kill alike.
ResetKill ==
    /\ risk.kill # "off"
    /\ risk' = [risk EXCEPT !.kill = "off"]
    /\ book' = [book EXCEPT !.risk.kill = "off"]
    /\ held' = "no"
    /\ UNCHANGED <<market, engine, orders, pos, priced, stuck, call, keys,
                   saved, crashes, overlap, raised, forgot>>

\* dangling_idempotency: keys whose order intent was never committed.
Dangling == {k \in keys : ~saved[k].intent}

\* Mutant: a committed fill does not end a waiting order.
PendingDespiteFill ==
    {k \in Ids : /\ saved[k].intent /\ saved[k].decision = "approved"
                 /\ IsNextBar(saved[k].order.kind) /\ saved[k].done # "rejected"}

\* Approved next-bar orders without a committed fill or status.
Pending ==
    {k \in Ids : /\ saved[k].intent /\ saved[k].decision = "approved"
                 /\ IsNextBar(saved[k].order.kind) /\ saved[k].done = "none"}

\* The committed rows contradict each other: a key without its order, an order
\* without its decision or its fill, a fill or status without its order.
Inconsistent ==
    \/ Dangling # {}
    \/ \E k \in Ids :
          \/ saved[k].intent /\ saved[k].decision = "none"
          \/ /\ saved[k].intent /\ saved[k].decision = "approved"
             /\ IsCurrentClose(saved[k].order.kind) /\ saved[k].done = "none"
          \/ saved[k].done # "none" /\ ~saved[k].intent

\* AccountRiskGate.restore_reservation.
RestoreReservation(r, k) ==
    IF IsReduce(saved[k].order.kind) THEN r
    ELSE [OnDate(r, saved[k].order.day) EXCEPT !.reserved = @ \cup {k}]

\* The risk state after each of the pending orders in the list.
Restored(list) ==
    LET run[n \in 0..Len(list)] ==
            IF n = 0 THEN book.risk ELSE RestoreReservation(run[n - 1], list[n])
    IN  run

\* Mutant: control records are skipped by the replay.
RecoveredRiskWithoutControls(list, issues) ==
    [Restored(list)[Len(list)] EXCEPT !.kill = "off"]

\* The risk state _recover rebuilds; an inconsistent account is killed.
RecoveredRisk(list, issues) ==
    LET r == Restored(list)[Len(list)]
    IN  IF issues THEN [r EXCEPT !.kill = "manual"] ELSE r

\* Crash and restart: PaperTradingService.__init__ runs _recover on the
\* committed rows. Runs that overlapped or raised may also have left positions
\* or rows in an order that it objects to.
Restart ==
    /\ crashes < Restarts
    /\ crashes' = crashes + 1
    /\ call' = [c \in Threads |-> IdleCall]
    /\ clock' = 0 /\ events' = {} /\ priced' = {} /\ stuck' = {}
    /\ orders' = [k \in Ids |->
                       IF k \in Pending THEN [saved[k].order EXCEPT !.status = "approved"]
                       ELSE NoOrder]
    /\ pos' = book.pos
    /\ \E list \in Placed(Pending, [k \in Ids |-> saved[k].order]),
          other \in {FALSE, overlap \/ raised} :
          risk' = RecoveredRisk(list, Inconsistent \/ other)
    /\ bar' = IF bar = "emitted" THEN "quiet" ELSE bar
    /\ raised' = FALSE
    /\ UNCHANGED <<now, day, front, store, held, overlap, forgot>>
------------------------------------------------------------------------------
Init ==
    /\ now = 1 /\ bar = "quiet" /\ day = 1 /\ front = 1
    /\ clock = 0 /\ events = {}
    /\ orders = [k \in Ids |-> NoOrder]
    /\ pos = [c \in Contracts |-> 0]
    /\ risk = NewRisk
    /\ priced = {} /\ stuck = {}
    /\ call = [c \in Threads |-> IdleCall]
    /\ keys = {}
    /\ saved = [k \in Ids |-> Unsaved]
    /\ book = [pos |-> [c \in Contracts |-> 0], risk |-> NewRisk]
    /\ crashes = 0
    /\ held = "no" /\ overlap = FALSE /\ raised = FALSE /\ forgot = FALSE

Submit(c) ==
    \/ \E k \in Keys, kind \in Kinds, side \in {-1, 1}, qty \in Lots :
          /\ ~IsReduce(kind) => side \in EntrySides
          /\ ReserveKey(c, k, kind, side, qty)
    \/ PublishRefused(c) \/ Publish(c)

Run(c) == Pop(c) \/ Handle(c) \/ RunEnds(c) \/ AppendEvents(c)

Next ==
    \/ \E c \in Threads : Submit(c) \/ Run(c)
    \/ LastTick \/ DropBar \/ OnBar
    \/ ActivateKill \/ ResetKill
    \/ Restart

Spec == Init /\ [][Next]_vars
------------------------------------------------------------------------------
(* Properties *)

\* What the variables hold.
Order == [kind : OrderKinds \cup {"none", "roll", "bar"}, side : {-1, 1},
          qty : Nat, at : Nat, day : Nat, contract : Contracts,
          status : {"none", "pending_risk", "approved", "filled", "rejected"},
          approved : Nat]
Event == [kind : {"none", "intent", "decision", "status", "fill", "bar"},
          id : Ids, at : Nat, seq : Nat, order : Order, ok : BOOLEAN, qty : Nat]
Rows  == Ids \X {"intent", "refused", "approved", "filled", "rejected"}
Stored == [order : Order, intent : BOOLEAN,
           decision : {"none", "refused", "approved"},
           done : {"none", "filled", "rejected"}]
Fill  == [order : Ids, contract : Contracts, lots : Int,
          entry : BOOLEAN, day : Nat, at : Nat, pnl : Outcomes]
Risk  == [day : Nat, pnl : Int, trades : Nat, losses : Nat, cool : Nat,
          reserved : SUBSET Ids, kill : {"off", "auto", "manual"}]
Account == [pos : [Contracts -> Int], risk : Risk]

CallOK(c) ==
    /\ c \in [pc : {"idle", "reserved", "run", "append"},
              key : Keys \cup {"none", "bar"}, order : Order, ev : Event,
              rows : SUBSET Rows, fills : Seq(Fill)]
    /\ c.pc = "reserved" => c.key \in Keys

TypeOK ==
    /\ now \in Nat \ {0} /\ bar \in {"quiet", "formed", "emitted"}
    /\ day \in Nat /\ front \in Contracts /\ clock \in Nat
    /\ events \subseteq Event /\ IsFiniteSet(events)
    /\ orders \in [Ids -> Order]
    /\ [pos |-> pos, risk |-> risk] \in Account
    /\ priced \subseteq Contracts /\ stuck \subseteq Contracts
    /\ DOMAIN call = Threads /\ \A c \in Threads : CallOK(call[c])
    /\ keys \subseteq Keys /\ saved \in [Ids -> Stored] /\ book \in Account
    /\ crashes \in Nat
    /\ held \in {"no", "yes", "replaced"}
    /\ {overlap, raised, forgot} \subseteq BOOLEAN

\* max_position_contracts: whatever is reserved, filled, cleared by a new
\* trading date, restored by recovery or rolled, and wherever the process
\* crashes, the open lots of the account stay within its limit while runs do
\* not overlap; after a run that raised had applied fills, a restart brings
\* back the position before them, and later entries were not counted against
\* it.
OpenWithinLimit == ~overlap /\ ~forgot => OpenContracts <= MaxPosition

\* The fills of thread c's run were all of reduce-only orders so far, and the
\* one it applies next is.
OnlyExits(c) ==
    /\ call[c].ev.kind = "fill" /\ IsReduce(call[c].ev.order.kind)
    /\ \A i \in DOMAIN call[c].fills : ~call[c].fills[i].entry

\* docs/account-risk.md:43: fills of closes and exits are cut to the position
\* there is, so that closes that race never reverse it.
ExitsNeverReverse ==
    [][\A c \in Threads, x \in Contracts :
         OnlyExits(c) /\ pos'[x] # pos[x] /\ crashes' = crashes
         => pos[x] * pos'[x] >= 0 /\ Abs(pos'[x]) < Abs(pos[x])]_vars

\* While runs do not overlap, a reduce-only order (a close, a strategy exit, a
\* protective exit, a roll) neither enlarges nor reverses a position, however
\* late it fills and however many exits share its bar.
ReduceOnlyReduces ==
    [][\A c \in Threads, x \in Contracts :
         ~overlap /\ OnlyExits(c) /\ pos'[x] # pos[x] /\ crashes' = crashes
         => pos[x] * pos'[x] >= 0 /\ Abs(pos'[x]) < Abs(pos[x])]_vars

\* While the kill switch is active only a submission that passed its risk
\* check before may still open exposure: no bar fills a waiting entry.
KillStopsWaitingEntries ==
    [][risk.kill # "off" =>
         \A k \in Waiting : IsReduce(orders[k].kind)
                            \/ orders'[k].status # "filled"]_vars

\* An order's fill is committed once: not again after a crash that made a
\* filled order look pending, nor by another thread.
FillRecordedOnce ==
    [][\A c \in Threads : \A i \in DOMAIN call[c].fills :
         /\ call[c].pc = "append" /\ call'[c].pc = "idle" /\ crashes' = crashes
         /\ call[c].fills[i].order \in Keys
         => saved[call[c].fills[i].order].done = "none"]_vars

Quiet == \A c \in Threads : call[c].pc = "idle"

\* With no thread in the engine and no run that raised since the start, memory
\* and store agree although runs overlap, take each other's events and commit
\* them in any order: a restart gives the same positions and the same waiting
\* orders.
StoreMatchesMemory ==
    Quiet /\ ~raised => pos = book.pos /\ Waiting = Pending

\* A restart at any point, in the middle of a run too, brings an operator's
\* kill switch back, whatever orders of whatever trading date still wait,
\* unless a loss had made it an automatic one, in memory or in the order in
\* which fills and control records were committed.
RestartKeepsKill ==
    [][crashes' # crashes /\ held = "yes" => risk'.kill = "manual"]_vars

\* docs/account-risk.md:40: a manual kill switch stays across trading dates
\* until it is reset.
ManualKillHolds == held # "no" => risk.kill # "off"

\* docs/event-engine.md:39: a contract roll closes the old contract's
\* position: none is left once the run of a bar is over, if no other run
\* overlapped it.
RollLeavesNothing ==
    [][/\ call["loop"].key = "bar" /\ call'["loop"].pc = "idle"
       /\ crashes' = crashes /\ ~overlap
       => \A c \in Contracts \ {call["loop"].order.contract} : pos'[c] = 0]_vars
=============================================================================
