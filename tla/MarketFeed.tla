----------------------------- MODULE MarketFeed -----------------------------
(***************************************************************************)
(* The market-data worker (live/service.py): ticks of one contract arrive  *)
(* from the provider's callback thread through a bounded queue, are        *)
(* deduplicated, aggregated into one-minute bars (live/aggregator.py),     *)
(* saved (live/storage.py) and announced to the listeners and, through the *)
(* hub (live/hub.py), to a WebSocket client that wants bars of a longer    *)
(* timeframe (live/api_routes/market.py, market/timeframes.py); history is *)
(* backfilled once per start.                                              *)
(*                                                                         *)
(* A bar is its minute, its volume (one per trade) and its status. All but *)
(* the provider runs on one event loop: the worker takes, processes, saves *)
(* and announces a tick without giving way, though it may crash, and any   *)
(* of its steps may raise.                                                 *)
(***************************************************************************)
EXTENDS Naturals, Sequences, FiniteSets, FiniteSetsExt, SequencesExt

CONSTANTS
    Ticks,       \* the trades of the contract
    MinuteOf,    \* the exchange minute of each trade
    LastMinute,  \* bound on the minutes
    QueueSize,   \* asyncio.Queue(maxsize=20_000)
    Deliveries,  \* bound on how often a tick is delivered
    Restarts,    \* bound on crashes
    Width,       \* minutes of the client's timeframe
    HubSize,     \* BroadcastHub.queue_size
    Connects     \* bound on the client's connections

Minutes == 1..LastMinute

ASSUME FeedAssumption ==
    /\ MinuteOf \in [Ticks -> Minutes]
    /\ IsFiniteSet(Ticks)
    /\ {LastMinute, QueueSize, Deliveries, Restarts, Connects} \subseteq Nat
    /\ {Width, HubSize} \subseteq Nat \ {0}

VARIABLES
    minute,    \* wall clock
    sent,      \* how often each tick was delivered by the provider
    queue,     \* ticks waiting for the worker
    worker,    \* the tick in hand and the bars it produced
    current,   \* MinuteBarAggregator.current
    seen,      \* processed_ticks (in the store)
    bars,      \* minute_bars
    errors,    \* dropped_ticks, worker_errors, history_error: degraded
    history,   \* is this start over: its history backfilled, or given up
    restarts,  \* crashes so far
    client,    \* the WebSocket: its queue in the hub and its aggregator
    connects,  \* connections so far
    taken,     \* history: ticks this process took in hand
    late       \* history: those of them that came too late (late_ticks)

vars == <<minute, sent, queue, worker, current, seen, bars, errors, history,
          restarts, client, connects, taken, late>>
socket == <<client, connects>>

NoBar   == [minute |-> 0, volume |-> 0]
Missing == [status |-> "none", volume |-> 0, origin |-> "none"]
Idle    == [pc |-> "idle", bars |-> <<>>]
Traded(m) == Cardinality({t \in Ticks : MinuteOf[t] = m})

Row(b, status, origin) ==
    [minute |-> b.minute, status |-> status, volume |-> b.volume,
     origin |-> origin]
------------------------------------------------------------------------------
(* The hub and its client *)

Bucket(m) == (m - 1) \div Width
Buckets == {Bucket(m) : m \in Minutes}

Status == [minute |-> 0, volume |-> 0]   \* a message that is not a bar

\* inbox: its queue in the hub; key, source: TimeframeStreamAggregator;
\* closed: the volume of each bar it was sent as closed; exact: history.
Offline == [on |-> FALSE, inbox |-> <<>>, key |-> 0, source |-> {},
            closed |-> [b \in Buckets |-> 0], exact |-> FALSE]

\* BroadcastHub.publish: a full queue loses its oldest message.
Published(msg) ==
    IF ~client.on THEN client
    ELSE IF Len(client.inbox) < HubSize
    THEN [client EXCEPT !.inbox = Append(@, msg)]
    ELSE [client EXCEPT !.inbox = Append(Tail(@), msg), !.exact = FALSE]

\* _aggregate_group
Volume(group) == MapThenSumSet(LAMBDA b : b.volume, group)

Stored(b) ==
    {[minute |-> m, volume |-> bars[m].volume] :
        m \in {n \in Minutes : Bucket(n) = b /\ bars[n] # Missing}}

\* Mutant: a bar is kept beside the earlier version of the same minute.
PushAppends(c, bar) ==
    LET b == Bucket(bar.minute)
        ends == c.source # {} /\ b # c.key
    IN  [c EXCEPT !.key = b,
                  !.source = (IF ends THEN {} ELSE @) \cup {bar},
                  !.closed = [k \in Buckets |-> IF ends /\ k = c.key
                                                THEN Volume(c.source)
                                                ELSE @[k]]]

\* TimeframeStreamAggregator.push: a bar of another bucket closes the one in
\* hand; a bar of the same minute replaces its earlier version.
Push(c, bar) ==
    LET b == Bucket(bar.minute)
        ends == c.source # {} /\ b # c.key
        kept == IF ends THEN {} ELSE c.source
    IN  [c EXCEPT !.key = b,
                  !.source = {x \in kept : x.minute # bar.minute} \cup {bar},
                  !.closed = [k \in Buckets |-> IF ends /\ k = c.key
                                                THEN Volume(c.source)
                                                ELSE @[k]]]

\* market_socket: subscribe and seed the aggregator with the newest bucket of
\* the store. The API serves clients once start has returned.
Connect ==
    LET kept == {m \in Minutes : bars[m] # Missing}
        b == IF kept = {} THEN 0 ELSE Bucket(Max(kept))
    IN  /\ worker = Idle /\ history
        /\ ~client.on /\ connects < Connects /\ connects' = connects + 1
        /\ client' = [Offline EXCEPT !.on = TRUE, !.key = b,
                        !.source = Stored(b),
                        !.exact = \A m \in kept : m <= current.minute]
        /\ UNCHANGED <<minute, sent, queue, worker, current, seen, bars,
                       errors, history, restarts, taken, late>>

\* The handler sends what the next message makes of its bar.
Receive ==
    /\ worker = Idle /\ client.inbox # <<>>
    /\ LET msg == Head(client.inbox)
           rest == [client EXCEPT !.inbox = Tail(@)]
       IN  client' = IF msg = Status THEN rest ELSE Push(rest, msg)
    /\ UNCHANGED <<minute, sent, queue, worker, current, seen, bars, errors,
                   history, restarts, connects, taken, late>>

\* _run_heartbeat, set_connection_status
Heartbeat ==
    /\ worker = Idle /\ client.on
    /\ client' = Published(Status)
    /\ UNCHANGED <<minute, sent, queue, worker, current, seen, bars, errors,
                   history, restarts, connects, taken, late>>

Disconnect ==
    /\ worker = Idle /\ client.on
    /\ client' = Offline
    /\ UNCHANGED <<minute, sent, queue, worker, current, seen, bars, errors,
                   history, restarts, connects, taken, late>>
------------------------------------------------------------------------------
(* Ticks *)

\* The wall clock enters the next minute.
Tock ==
    /\ minute < LastMinute
    /\ minute' = minute + 1
    /\ UNCHANGED <<sent, queue, worker, current, seen, bars, errors, history,
                   restarts, socket, taken, late>>

\* tick_callback and enqueue_tick: a trade of this or an earlier minute
\* arrives, late or again; a full queue drops it and the service degrades.
Deliver(t) ==
    /\ MinuteOf[t] <= minute /\ sent[t] < Deliveries
    /\ sent' = [sent EXCEPT ![t] = @ + 1]
    /\ IF Len(queue) < QueueSize
       THEN queue' = Append(queue, t) /\ UNCHANGED errors
       ELSE errors' = TRUE /\ UNCHANGED queue
    /\ UNCHANGED <<minute, worker, current, seen, bars, history,
                   restarts, socket, taken, late>>

\* _gap_bars: closed bars without trades between two minutes.
GapBars(from, to) ==
    [i \in 1..(to - from - 1) |->
        [minute |-> from + i, status |-> "closed", volume |-> 0,
         origin |-> "gap"]]

\* MinuteBarAggregator.process of a tick it has not seen: the bar it leaves
\* and the rows it hands out.
Process(c, t) ==
    LET m   == MinuteOf[t]
        new == [minute |-> m, volume |-> 1]
        add == [c EXCEPT !.volume = @ + 1]
    IN  IF c = NoBar
        THEN [current |-> new, bars |-> <<Row(new, "forming", "ticks")>>]
        ELSE IF m < c.minute THEN [current |-> c, bars |-> <<>>]
        ELSE IF m > c.minute
        THEN [current |-> new,
              bars |-> <<Row(c, "closed", "ticks")>> \o GapBars(c.minute, m)
                          \o <<Row(new, "forming", "ticks")>>]
        ELSE [current |-> add, bars |-> <<Row(add, "forming", "ticks")>>]

\* Mutant: the store is not asked whether the tick was processed.
TakeTickUnchecked ==
    LET t == Head(queue)
    IN  /\ worker.pc = "idle" /\ queue # <<>>
        /\ queue' = Tail(queue)
        /\ taken' = taken \cup {t}
        /\ seen' = seen \cup {t}
        /\ worker' = [pc |-> "process", bars |-> <<t>>]
        /\ UNCHANGED <<minute, sent, current, bars, errors, history,
                       restarts, socket, late>>

\* _run_worker: the next tick; one that is in the store is a duplicate, any
\* other is remembered there before it is processed.
TakeTick ==
    LET t == Head(queue)
    IN  /\ worker.pc = "idle" /\ queue # <<>>
        /\ queue' = Tail(queue)
        /\ IF t \in seen THEN UNCHANGED <<seen, worker, taken>>
           ELSE /\ seen' = seen \cup {t} /\ taken' = taken \cup {t}
                /\ worker' = [pc |-> "process", bars |-> <<t>>]
        /\ UNCHANGED <<minute, sent, current, bars, errors, history,
                       restarts, socket, late>>

\* A tick of a minute before the one in hand is late and in no bar.
ProcessTick ==
    LET t == worker.bars[1]
        r == Process(current, t)
    IN  /\ worker.pc = "process"
        /\ current' = r.current
        /\ late' = IF MinuteOf[t] < current.minute THEN late \cup {t} ELSE late
        /\ worker' = IF r.bars = <<>> THEN Idle
                     ELSE [pc |-> "save", bars |-> r.bars]
        /\ UNCHANGED <<minute, sent, queue, seen, bars, errors, history,
                       restarts, socket, taken>>

\* _save_bar: ON CONFLICT the row is written over.
SaveBar ==
    LET b == Head(worker.bars)
    IN  /\ worker.pc = "save"
        /\ bars' = [bars EXCEPT ![b.minute] =
              [status |-> b.status, volume |-> b.volume, origin |-> b.origin]]
        /\ worker' = [worker EXCEPT !.pc = "announce"]
        /\ UNCHANGED <<minute, sent, queue, current, seen, errors, history,
                       restarts, socket, taken, late>>

\* The bar goes to the hub and to every listener.
Announce ==
    LET b == Head(worker.bars)
    IN  /\ worker.pc = "announce"
        /\ client' = Published([minute |-> b.minute, volume |-> b.volume])
        /\ worker' = IF Len(worker.bars) = 1 THEN Idle
                     ELSE [pc |-> "save", bars |-> Tail(worker.bars)]
        /\ UNCHANGED <<minute, sent, queue, current, seen, bars, errors,
                       history, restarts, connects, taken, late>>

\* What the client has of the tick when it is given up: a listener raises
\* after the hub got the bar, the store and the aggregator before.
Reached == IF worker.pc # "announce" THEN client
         ELSE Published([minute |-> Head(worker.bars).minute,
                         volume |-> Head(worker.bars).volume])

\* Mutant: the exception is swallowed without being counted.
WorkerSwallows ==
    /\ worker.pc # "idle"
    /\ client' = Reached
    /\ worker' = Idle
    /\ UNCHANGED <<minute, sent, queue, current, seen, bars, history, errors,
                   restarts, connects, taken, late>>

\* process (which leaves its bar alone), the save or a listener raises: the
\* worker counts the error and goes on with the next tick; the bars it still
\* held are gone.
WorkerRaises ==
    /\ worker.pc # "idle"
    /\ client' = Reached
    /\ worker' = Idle
    /\ errors' = TRUE
    /\ UNCHANGED <<minute, sent, queue, current, seen, bars, history,
                   restarts, connects, taken, late>>

\* The store cannot be asked, or cannot remember the tick: it is gone.
TakeRaises ==
    /\ worker.pc = "idle" /\ queue # <<>>
    /\ queue' = Tail(queue)
    /\ errors' = TRUE
    /\ UNCHANGED <<minute, sent, worker, current, seen, bars, history,
                   restarts, socket, taken, late>>

\* The past minutes the provider can have a bar of, and the store when the
\* backfill of earlier starts is purged and the bars of S are saved.
Past == {m \in Minutes : m < minute /\ Traded(m) > 0}
Backfilled(S) ==
    [m \in Minutes |->
        IF m \in S
        THEN [status |-> "closed", volume |-> Traded(m), origin |-> "history"]
        ELSE IF bars[m].origin = "history" THEN Missing ELSE bars[m]]

\* start, after load_history: purge_backfill and one save per bar, in one turn
\* of the event loop; a provider that has nothing changes nothing.
Backfill ==
    /\ worker = Idle /\ ~history
    /\ history' = TRUE
    /\ \E S \in SUBSET Past : bars' = IF S = {} THEN bars ELSE Backfilled(S)
    /\ UNCHANGED <<minute, sent, queue, worker, current, seen, errors,
                   restarts, socket, taken, late>>

\* load_history raises, or the store does after the purge and some saves: the
\* start goes on without (history_error).
BackfillFails ==
    /\ worker = Idle /\ ~history
    /\ history' = TRUE /\ errors' = TRUE
    /\ \/ UNCHANGED bars
       \/ \E S \in SUBSET Past : bars' = Backfilled(S)
    /\ UNCHANGED <<minute, sent, queue, worker, current, seen, restarts,
                   socket, taken, late>>
------------------------------------------------------------------------------
\* latest_forming: the newest row that is still forming.
Restored ==
    LET F == {m \in Minutes : bars[m].status = "forming"}
    IN  IF F = {} THEN NoBar
        ELSE [minute |-> Max(F), volume |-> bars[Max(F)].volume]

\* The process dies and starts again; the store stays.
Restart ==
    /\ restarts < Restarts /\ restarts' = restarts + 1
    /\ queue' = <<>> /\ worker' = Idle
    /\ current' = Restored
    /\ errors' = FALSE /\ history' = FALSE
    /\ taken' = {} /\ late' = {}
    /\ client' = Offline
    /\ UNCHANGED <<minute, sent, seen, bars, connects>>

Init ==
    /\ minute = 1
    /\ sent = [t \in Ticks |-> 0]
    /\ queue = <<>> /\ worker = Idle /\ current = NoBar
    /\ seen = {}
    /\ bars = [m \in Minutes |-> Missing]
    /\ errors = FALSE /\ history = FALSE /\ restarts = 0
    /\ taken = {} /\ late = {} /\ client = Offline /\ connects = 0

Next ==
    \/ Tock \/ \E t \in Ticks : Deliver(t)
    \/ TakeTick \/ ProcessTick \/ SaveBar \/ Announce
    \/ TakeRaises \/ WorkerRaises
    \/ Backfill \/ BackfillFails
    \/ Connect \/ Receive \/ Heartbeat \/ Disconnect
    \/ Restart

Spec == Init /\ [][Next]_vars
------------------------------------------------------------------------------
(* Properties *)

\* Every variable keeps its type; the queues keep their size.
TypeOK ==
    /\ minute \in Minutes /\ sent \in [Ticks -> 0..Deliveries]
    /\ queue \in Seq(Ticks) /\ Len(queue) <= QueueSize
    /\ current.minute \in 0..LastMinute
    /\ seen \subseteq Ticks /\ taken \subseteq Ticks
    /\ late \subseteq taken
    /\ \A m \in Minutes : bars[m].status \in {"none", "forming", "closed"}

\* No trade is taken twice: delivered again, late, across crashes and after
\* a backfill, the volume of a stored bar never exceeds what was traded.
VolumeIsTraded == \A m \in Minutes : bars[m].volume <= Traded(m)

\* While the service does not call itself degraded, the stored bar of every
\* minute counts every trade of it that the worker took in hand since the
\* start and found in time, whatever raised, was dropped, came between or was
\* backfilled. (A crash forgets what was taken: the code is silent then.)
NoSilentLoss ==
    ~errors /\ worker = Idle =>
        \A m \in Minutes :
            Cardinality({t \in taken \ late : MinuteOf[t] = m})
                <= bars[m].volume

\* A client that lost no message, and found no stored bar ahead of the feed
\* when it connected, is sent closed bars of its timeframe that agree with the
\* one-minute bars in the store, though it was seeded from the store while the
\* bars kept changing and lags behind the hub.
StreamIsExact ==
    client.exact => \A b \in Buckets :
        client.closed[b] # 0 => client.closed[b] = Volume(Stored(b))
=============================================================================
