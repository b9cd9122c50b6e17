----------------------------- MODULE FeedProofs -----------------------------
(***************************************************************************)
(* Proofs about MarketFeed: every trade is counted once, none is lost in   *)
(* silence and a client's closed bars agree with the store, for any finite *)
(* set of trades, queue, deliveries, crashes, timeframe and connections.   *)
(***************************************************************************)
EXTENDS MarketFeed, FiniteSetTheorems, SequenceTheorems,
        WellFoundedInduction, TLAPS

Rows == [minute : Minutes, status : {"forming", "closed"}, volume : Nat,
         origin : {"ticks", "gap"}]

Kept == [status : {"none", "forming", "closed"}, volume : Nat,
         origin : {"none", "ticks", "gap", "history"}]

\* The tick the worker remembered in the store and has not processed.
InHand == {t \in Ticks : worker.pc = "process" /\ worker.bars = <<t>>}

\* The trades of a minute that were processed, or that a crash took from the
\* worker's hand: the most a bar may have counted.
Counted(m) == {t \in seen \ InHand : MinuteOf[t] = m}

\* What the worker does, from the tick to the last bar it produced.
WorkerInv ==
    \/ worker = Idle
    \/ \E t \in seen : worker = [pc |-> "process", bars |-> <<t>>]
    \/ /\ worker.pc \in {"save", "announce"}
       /\ worker = [pc |-> worker.pc, bars |-> worker.bars]
       /\ worker.bars \in Seq(Rows) /\ worker.bars # <<>>

FeedShape ==
    /\ minute \in Nat
    /\ queue \in Seq(Ticks)
    /\ seen \in SUBSET Ticks /\ taken \in SUBSET seen
    /\ \/ current = NoBar
       \/ current \in [minute : Minutes, volume : Nat]
    /\ bars \in [Minutes -> Kept]
    /\ WorkerInv

\* No bar, in hand, on its way to the store or stored, has counted a trade
\* that was not processed, except from history, which has every trade.
VolumeInv ==
    /\ current # NoBar => current.volume <= Cardinality(Counted(current.minute))
    /\ \A m \in Minutes :
          \/ bars[m].volume <= Cardinality(Counted(m))
          \/ /\ bars[m].status = "closed" /\ bars[m].origin = "history"
             /\ bars[m].volume = Traded(m)
    /\ worker.pc \in {"save", "announce"} =>
          \A j \in DOMAIN worker.bars :
             worker.bars[j].volume <= Cardinality(Counted(worker.bars[j].minute))

\* The trades of a minute that must be in its bar: taken by this process,
\* found in time and no longer in the worker's hand.
OnTime(m) == {t \in (taken \ late) \ InHand : MinuteOf[t] = m}

\* A row of the minute is still to be saved.
Pends(m) ==
    /\ worker.pc \in {"save", "announce"}
    /\ \E j \in DOMAIN worker.bars :
          /\ worker.bars[j].minute = m
          /\ worker.pc = "announce" => j > 1

\* The stored row has every trade of its minute that came in time, and before
\* the start is over it is not one that a backfill may purge.
Complete(m) ==
    /\ Cardinality(OnTime(m)) <= bars[m].volume
    /\ ~history /\ OnTime(m) # {} => bars[m].origin # "history"

\* Unless an error was counted, the bar in hand, the rows on their way to the
\* store and the rows in the store have every trade that came in time.
LossInv ==
    ~errors =>
       /\ \A t \in taken \ InHand : MinuteOf[t] <= current.minute
       /\ current # NoBar =>
             Cardinality(OnTime(current.minute)) <= current.volume
       /\ worker.pc \in {"save", "announce"} =>
             \A j \in DOMAIN worker.bars :
                Cardinality(OnTime(worker.bars[j].minute))
                   <= worker.bars[j].volume
       /\ \A m \in Minutes : Pends(m) \/ Complete(m)

FeedInv == FeedShape /\ VolumeInv /\ LossInv
------------------------------------------------------------------------------
(* Counting trades *)

\* What the proofs use of the constants.
LEMMA ConstantTypes ==
    /\ MinuteOf \in [Ticks -> Minutes] /\ IsFiniteSet(Ticks)
    /\ LastMinute \in Nat
    /\ \A m \in Minutes : m \in Nat /\ m > 0
  <1>1. LastMinute \in Nat
    BY FeedAssumption
  <1> QED
    BY <1>1, FeedAssumption DEF Minutes

\* A larger set of trades counts no less.
LEMMA CountMono ==
    ASSUME NEW S \in SUBSET Ticks, NEW T \in SUBSET S
    PROVE  /\ Cardinality(S) \in Nat /\ Cardinality(T) \in Nat
           /\ Cardinality(T) <= Cardinality(S)
           /\ IsFiniteSet(S) /\ IsFiniteSet(T)
  <1>1. IsFiniteSet(S)
    BY ConstantTypes, FS_Subset
  <1>2. IsFiniteSet(T) /\ Cardinality(T) <= Cardinality(S)
    BY <1>1, FS_Subset
  <1> QED
    BY <1>1, <1>2, FS_CardinalityType

\* The worker holds the tick it is about to process, or none.
LEMMA Hand ==
    /\ worker.pc # "process" => InHand = {}
    /\ \A t \in Ticks : worker = [pc |-> "process", bars |-> <<t>>] =>
          InHand = {t}
  <1>1. worker.pc # "process" => InHand = {}
    BY DEF InHand
  <1>2. ASSUME NEW t \in Ticks, worker = [pc |-> "process", bars |-> <<t>>]
        PROVE  InHand = {t}
    <2>1. worker.pc = "process" /\ worker.bars = <<t>>
      BY <1>2
    <2>2. \A u \in Ticks : <<u>> = <<t>> => u = t
      OBVIOUS
    <2> QED
      BY <2>1, <2>2 DEF InHand
  <1> QED
    BY <1>1, <1>2

\* The same of the next state.
LEMMA HandNext ==
    /\ worker'.pc # "process" => InHand' = {}
    /\ \A t \in Ticks : worker' = [pc |-> "process", bars |-> <<t>>] =>
          InHand' = {t}
  <1>1. worker'.pc # "process" => InHand' = {}
    BY DEF InHand
  <1>2. ASSUME NEW t \in Ticks, worker' = [pc |-> "process", bars |-> <<t>>]
        PROVE  InHand' = {t}
    <2>1. worker'.pc = "process" /\ worker'.bars = <<t>>
      BY <1>2
    <2>2. \A u \in Ticks : <<u>> = <<t>> => u = t
      OBVIOUS
    <2> QED
      BY <2>1, <2>2 DEF InHand
  <1> QED
    BY <1>1, <1>2

\* What the worker holds at each of its program counters.
LEMMA WorkerShape ==
    ASSUME WorkerInv
    PROVE  /\ worker.pc \in {"idle", "process", "save", "announce"}
           /\ worker.pc = "idle" => worker = Idle
           /\ worker.pc = "process" =>
                 \E t \in seen : worker = [pc |-> "process", bars |-> <<t>>]
           /\ worker.pc \in {"save", "announce"} =>
                 /\ worker = [pc |-> worker.pc, bars |-> worker.bars]
                 /\ worker.bars \in Seq(Rows) /\ worker.bars # <<>>
  BY DEF WorkerInv, Idle

\* A trade is among those of its minute.
LEMMA CountedTraded ==
    ASSUME FeedShape, NEW m \in Minutes
    PROVE  /\ Counted(m) \in SUBSET Ticks
           /\ Cardinality(Counted(m)) \in Nat /\ Traded(m) \in Nat
           /\ Cardinality(Counted(m)) <= Traded(m)
  <1> DEFINE T == {t \in Ticks : MinuteOf[t] = m}
  <1>1. Counted(m) \in SUBSET T /\ T \in SUBSET Ticks
    BY DEF Counted, FeedShape
  <1>2. Traded(m) = Cardinality(T)
    BY DEF Traded
  <1> QED
    BY <1>1, <1>2, CountMono

\* At the first start nothing was taken and nothing is stored.
LEMMA FeedInit == Init => FeedInv
  <1> SUFFICES ASSUME Init PROVE FeedInv
    OBVIOUS
  <1> USE ConstantTypes
  <1>1. worker = Idle /\ worker.pc = "idle"
    BY DEF Init, Idle
  <1>2. FeedShape
    <2>1. bars \in [Minutes -> Kept]
      BY DEF Init, Missing, Kept
    <2> QED
      BY <1>1, <2>1 DEF Init, FeedShape, WorkerInv
  <1>3. VolumeInv
    <2>1. \A m \in Minutes : bars[m].volume = 0
      BY DEF Init, Missing
    <2>2. \A m \in Minutes : Cardinality(Counted(m)) \in Nat
      BY <1>2, CountedTraded
    <2> QED
      BY <1>1, <2>1, <2>2 DEF VolumeInv, Init
  <1>4. LossInv
    <2>1. \A m : OnTime(m) = {}
      BY DEF OnTime, Init
    <2>2. Cardinality({}) = 0
      BY FS_EmptySet
    <2>4. \A m \in Minutes : Cardinality(OnTime(m)) = 0 /\ bars[m].volume = 0
      BY <2>1, <2>2 DEF Init, Missing
    <2>3. \A m \in Minutes : Complete(m)
      BY <2>1, <2>4 DEF Complete
    <2> QED
      BY <1>1, <2>3 DEF LossInv, Init
  <1> QED
    BY <1>2, <1>3, <1>4 DEF FeedInv

\* VolumeInv needs no more than that what was counted stays counted.
LEMMA CountedGrows ==
    ASSUME FeedShape, seen' \in SUBSET Ticks, seen \subseteq seen',
           \A t \in seen : t \in InHand' => t \in InHand,
           NEW m \in Minutes
    PROVE  /\ Cardinality(Counted(m)) <= Cardinality(Counted(m)')
           /\ Cardinality(Counted(m)) \in Nat /\ Cardinality(Counted(m)') \in Nat
  <1>1. Counted(m) \in SUBSET Counted(m)' /\ Counted(m)' \in SUBSET Ticks
    BY DEF Counted
  <1> QED
    BY <1>1, CountMono
\* The same of the trades a bar must have.
LEMMA OnTimeLess ==
    ASSUME FeedShape, NEW m, OnTime(m)' \in SUBSET OnTime(m)
    PROVE  /\ Cardinality(OnTime(m)') <= Cardinality(OnTime(m))
           /\ Cardinality(OnTime(m)) \in Nat /\ Cardinality(OnTime(m)') \in Nat
  <1>1. OnTime(m) \in SUBSET Ticks
    BY DEF OnTime, FeedShape
  <1> QED
    BY <1>1, CountMono

\* There are no more of them than were traded; none count nothing.
LEMMA OnTimeTraded ==
    ASSUME FeedShape, NEW m \in Minutes
    PROVE  /\ Cardinality(OnTime(m)) \in Nat
           /\ Cardinality(OnTime(m)) <= Traded(m)
           /\ OnTime(m) = {} => Cardinality(OnTime(m)) = 0
  <1> DEFINE T == {t \in Ticks : MinuteOf[t] = m}
  <1>1. OnTime(m) \in SUBSET T /\ T \in SUBSET Ticks
    BY DEF OnTime, FeedShape
  <1>2. Traded(m) = Cardinality(T)
    BY DEF Traded
  <1> QED
    BY <1>1, <1>2, CountMono, FS_EmptySet
------------------------------------------------------------------------------
(* Steps *)

\* The clock, the provider, the client: they do not touch what was counted.
LEMMA SideStep ==
    ASSUME FeedInv, UNCHANGED <<worker, current, seen, bars, taken, late>>,
           minute' \in Nat, queue' \in Seq(Ticks),
           ~errors' => ~errors, history => history'
    PROVE  FeedInv'
  <1>1. FeedShape'
    BY DEF FeedInv, FeedShape, WorkerInv
  <1>2. VolumeInv'
    BY DEF FeedInv, VolumeInv, Counted, InHand
  <1>3. LossInv'
    <2>1. \A m : OnTime(m)' = OnTime(m) /\ (Pends(m)' <=> Pends(m))
      BY DEF OnTime, InHand, Pends
    <2>2. \A m : Complete(m) => Complete(m)'
      BY <2>1 DEF Complete
    <2>3. \A m : Cardinality(OnTime(m))' = Cardinality(OnTime(m))
      BY <2>1
    <2>4. InHand' = InHand
      BY DEF InHand
    <2>5. ASSUME ~errors', current # NoBar
          PROVE  Cardinality(OnTime(current.minute))' <= current.volume
      BY <2>3, <2>5 DEF FeedInv, LossInv, OnTime, InHand
    <2>6. ASSUME ~errors', worker.pc \in {"save", "announce"},
                 NEW j \in DOMAIN worker.bars
          PROVE  Cardinality(OnTime(worker.bars[j].minute))'
                    <= worker.bars[j].volume
      BY <2>3, <2>6 DEF FeedInv, LossInv, OnTime, InHand
    <2> QED
      BY <2>1, <2>2, <2>4, <2>5, <2>6 DEF FeedInv, LossInv
  <1> QED
    BY <1>1, <1>2, <1>3 DEF FeedInv

\* The queue hands out what was put in.
LEMMA QueueShape ==
    ASSUME FeedShape, queue # <<>>
    PROVE  Head(queue) \in Ticks /\ Tail(queue) \in Seq(Ticks)
  BY DEF FeedShape

\* Fewer trades to answer for, the same bars and no row on its way.
LEMMA LossKept ==
    ASSUME FeedShape, LossInv, UNCHANGED <<current, bars, late>>,
           \A m : ~Pends(m), worker'.pc \notin {"save", "announce"},
           taken' \ InHand' \subseteq taken \ InHand,
           ~errors' => ~errors, history => history'
    PROVE  LossInv'
  <1> USE ConstantTypes
  <1>1. \A m : OnTime(m)' \in SUBSET OnTime(m)
    BY DEF OnTime
  <1>2. \A m : /\ Cardinality(OnTime(m)') <= Cardinality(OnTime(m))
               /\ Cardinality(OnTime(m)) \in Nat /\ Cardinality(OnTime(m)') \in Nat
    BY <1>1, OnTimeLess
  <1> SUFFICES ASSUME ~errors'
               PROVE  /\ \A t \in taken' \ InHand' : MinuteOf[t] <= current'.minute
                      /\ current' # NoBar =>
                            (Cardinality(OnTime(current.minute)) <= current.volume)'
                      /\ \A m \in Minutes : Complete(m)'
    BY DEF LossInv
  <1>3. \A m \in Minutes : bars[m].volume \in Nat
    BY DEF FeedShape, Kept
  <1>4. ASSUME NEW m \in Minutes PROVE Complete(m)'
    <2>1. Complete(m)
      BY DEF LossInv
    <2> QED
      BY <1>1, <1>2, <1>3, <2>1 DEF Complete
  <1>5. ASSUME current # NoBar
        PROVE  (Cardinality(OnTime(current.minute)) <= current.volume)'
    <2>1. PICK c \in Minutes : c = current.minute
      BY <1>5 DEF FeedShape
    <2>2. current.volume \in Nat /\ Cardinality(OnTime(c)) <= current.volume
      BY <1>5, <2>1 DEF FeedShape, LossInv
    <2>3. Cardinality(OnTime(c)') <= current.volume
      BY <1>2, <2>2
    <2> QED
      BY <2>1, <2>3 DEF OnTime, InHand
  <1> QED
    BY <1>4, <1>5 DEF LossInv

\* The tick that is remembered before it is processed is not counted yet.
LEMMA TakeStep ==
    ASSUME FeedInv, TakeTick PROVE FeedInv'
  <1> DEFINE t == Head(queue)
  <1>1. /\ worker.pc = "idle" /\ queue # <<>> /\ queue' = Tail(queue)
        /\ UNCHANGED <<minute, current, bars, errors, history, late>>
    BY DEF TakeTick
  <1>2. FeedShape
    BY DEF FeedInv
  <1>3. t \in Ticks /\ queue' \in Seq(Ticks) /\ minute \in Nat
    BY <1>1, <1>2, QueueShape DEF FeedShape
  <1>4. CASE UNCHANGED <<seen, worker, taken>>
    BY <1>1, <1>3, <1>4, SideStep
  <1>5. CASE /\ t \notin seen
             /\ seen' = seen \cup {t} /\ taken' = taken \cup {t}
             /\ worker' = [pc |-> "process", bars |-> <<t>>]
    <2> HIDE DEF t
    <2>1. InHand = {} /\ InHand' = {t}
      BY <1>1, <1>3, <1>5, Hand, HandNext
    <2>2. worker'.pc = "process"
      BY <1>5
    <2>3. FeedShape'
      BY <1>1, <1>2, <1>3, <1>5 DEF FeedShape, WorkerInv
    <2>4. \A m : Counted(m)' = Counted(m)
      BY <1>5, <2>1 DEF Counted
    <2>5. VolumeInv'
      BY <1>1, <2>2, <2>4 DEF FeedInv, VolumeInv
    <2>6. \A m : ~Pends(m)
      BY <1>1 DEF Pends
    <2>7. taken' \ InHand' \subseteq taken \ InHand
      BY <1>5, <2>1
    <2>8. LossInv'
      BY <1>1, <1>2, <2>2, <2>6, <2>7, LossKept DEF FeedInv
    <2> QED
      BY <2>3, <2>5, <2>8 DEF FeedInv
  <1> QED
    BY <1>4, <1>5 DEF TakeTick

\* The trades of a minute the store remembers, the one in hand included.
Remembered(m) == {t \in seen : MinuteOf[t] = m}

\* The trades of a minute its bar must have, the one in hand included.
Accepted(m) == {t \in taken \ late : MinuteOf[t] = m}

\* What a processed tick must leave: a bar and rows that count what is counted
\* now and have what they must, one of the rows for the current minute.
LEMMA ProcessedBars ==
    ASSUME FeedInv, NEW t \in seen, NEW B, NEW R,
           worker = [pc |-> "process", bars |-> <<t>>],
           UNCHANGED <<minute, queue, seen, bars, errors, history, taken, late>>,
           worker' = [pc |-> "save", bars |-> B], B # <<>>,
           R = {r \in Rows :
                  /\ r.volume <= Cardinality(Remembered(r.minute))
                  /\ ~errors => Cardinality(Accepted(r.minute)) <= r.volume},
           B \in Seq(R), \E j \in DOMAIN B : B[j].minute = current'.minute,
           current' \in [minute : Minutes, volume : Nat],
           current'.volume <= Cardinality(Remembered(current'.minute)),
           ~errors => Cardinality(Accepted(current'.minute)) <= current'.volume,
           MinuteOf[t] = current'.minute,
           current = NoBar \/ current.minute <= current'.minute
    PROVE  FeedInv'
  <1> USE ConstantTypes
  <1>1. FeedShape /\ VolumeInv /\ LossInv /\ seen \in SUBSET Ticks /\ t \in Ticks
    BY DEF FeedInv, FeedShape
  <1>2. worker'.pc = "save" /\ worker'.bars = B
    OBVIOUS
  <1>3. InHand = {t} /\ InHand' = {}
    BY <1>1, <1>2, Hand, HandNext
  <1>4. B \in Seq(Rows) /\ \A j \in DOMAIN B : B[j] \in R
    OBVIOUS
  <1>5. FeedShape'
    <2>1. WorkerInv'
      BY <1>2, <1>4 DEF WorkerInv
    <2> QED
      BY <1>1, <2>1 DEF FeedShape
  <1>6. \A m \in Minutes :
           /\ Cardinality(Counted(m)) <= Cardinality(Counted(m)')
           /\ Cardinality(Counted(m)) \in Nat /\ Cardinality(Counted(m)') \in Nat
    BY <1>1, <1>3, CountedGrows
  <1>7. VolumeInv'
    <2>1. \A m \in Minutes : bars[m].volume \in Nat
      BY <1>1 DEF FeedShape, Kept
    <2>2. ASSUME NEW m \in Minutes
          PROVE  \/ bars'[m].volume <= Cardinality(Counted(m)')
                 \/ /\ bars'[m].status = "closed" /\ bars'[m].origin = "history"
                    /\ bars'[m].volume = Traded(m)
      BY <1>1, <1>6, <2>1 DEF VolumeInv
    <2>4. (\A j \in DOMAIN worker.bars :
             worker.bars[j].volume <= Cardinality(Counted(worker.bars[j].minute)))'
      BY <1>2, <1>4, <1>3 DEF Counted, Remembered
    <2>5. (current.volume <= Cardinality(Counted(current.minute)))'
      BY <1>3 DEF Counted, Remembered
    <2>3. (\A m \in Minutes :
             \/ bars[m].volume <= Cardinality(Counted(m))
             \/ /\ bars[m].status = "closed" /\ bars[m].origin = "history"
                /\ bars[m].volume = Traded(m))'
      BY <2>2 DEF Traded
    <2> QED
      BY <2>3, <2>4, <2>5 DEF VolumeInv
  <1>8. LossInv'
    <2> SUFFICES ASSUME ~errors PROVE LossInv'
      BY DEF LossInv
    <2>1. \A m : OnTime(m)' = Accepted(m)
      BY <1>3 DEF OnTime, Accepted
    <2>2. ASSUME NEW u \in taken' PROVE MinuteOf[u] <= current'.minute
      <3>1. CASE u = t
        BY <3>1
      <3>2. CASE u # t
        <4>1. u \in Ticks /\ MinuteOf[u] <= current.minute
          BY <1>1, <1>3, <3>2 DEF LossInv, FeedShape
        <4> QED
          BY <1>1, <4>1 DEF NoBar, FeedShape
      <3> QED
        BY <3>1, <3>2
    <2>3. (\A j \in DOMAIN worker.bars :
             Cardinality(OnTime(worker.bars[j].minute))
               <= worker.bars[j].volume)'
      BY <1>2, <1>3, <1>4 DEF OnTime, Accepted
    <2>4. (Cardinality(OnTime(current.minute)) <= current.volume)'
      BY <1>3 DEF OnTime, Accepted
    <2>5. ASSUME NEW m \in Minutes PROVE Pends(m)' \/ Complete(m)'
      <3>1. CASE m = current'.minute
        BY <1>2, <3>1 DEF Pends
      <3>2. CASE m # current'.minute
        <4>1. Accepted(m) = OnTime(m)
          BY <1>3, <3>2 DEF Accepted, OnTime
        <4>2. ~Pends(m)
          BY DEF Pends
        <4>3. Complete(m)
          BY <1>1, <4>2 DEF LossInv
        <4> QED
          BY <2>1, <4>1, <4>3 DEF Complete
      <3> QED
        BY <3>1, <3>2
    <2> QED
      BY <2>2, <2>3, <2>4, <2>5 DEF LossInv
  <1> QED
    BY <1>5, <1>7, <1>8 DEF FeedInv

\* A tick taken from the hand counts one more for its minute.
LEMMA OneMore ==
    ASSUME FeedShape, NEW t \in seen,
           worker = [pc |-> "process", bars |-> <<t>>]
    PROVE  /\ \A m \in Minutes : Cardinality(Remembered(m)) \in Nat
           /\ \A m \in Minutes :
                 /\ Cardinality(Counted(m)) \in Nat
                 /\ Cardinality(Counted(m)) <= Cardinality(Remembered(m))
           /\ Cardinality(Remembered(MinuteOf[t]))
                = Cardinality(Counted(MinuteOf[t])) + 1
  <1>1. InHand = {t} /\ seen \in SUBSET Ticks /\ t \in Ticks
    BY Hand DEF FeedShape
  <1>2. ASSUME NEW m \in Minutes
        PROVE  /\ Cardinality(Remembered(m)) \in Nat
               /\ Cardinality(Counted(m)) \in Nat
               /\ Cardinality(Counted(m)) <= Cardinality(Remembered(m))
               /\ IsFiniteSet(Counted(m))
    <2>1. Remembered(m) \in SUBSET Ticks /\ Counted(m) \in SUBSET Remembered(m)
      BY <1>1 DEF Remembered, Counted
    <2> QED
      BY <2>1, CountMono
  <1>3. MinuteOf[t] \in Minutes
    BY <1>1, ConstantTypes
  <1>4. /\ Remembered(MinuteOf[t]) = Counted(MinuteOf[t]) \cup {t}
        /\ t \notin Counted(MinuteOf[t])
    BY <1>1 DEF Remembered, Counted
  <1>5. Cardinality(Remembered(MinuteOf[t]))
          = Cardinality(Counted(MinuteOf[t])) + 1
    BY <1>2, <1>3, <1>4, FS_AddElement
  <1> QED
    BY <1>2, <1>5

\* It is at most one more that the bar of its minute must have.
LEMMA OneMoreOnTime ==
    ASSUME FeedShape, NEW t \in seen,
           worker = [pc |-> "process", bars |-> <<t>>]
    PROVE  /\ \A m \in Minutes :
                 /\ Cardinality(Accepted(m)) \in Nat
                 /\ Cardinality(OnTime(m)) \in Nat
                 /\ m # MinuteOf[t] => Accepted(m) = OnTime(m)
                 /\ OnTime(m) = {} => Cardinality(OnTime(m)) = 0
           /\ Cardinality(Accepted(MinuteOf[t]))
                <= Cardinality(OnTime(MinuteOf[t])) + 1
  <1>1. InHand = {t} /\ taken \in SUBSET Ticks /\ t \in Ticks
    BY Hand DEF FeedShape
  <1>2. ASSUME NEW m \in Minutes
        PROVE  /\ Cardinality(Accepted(m)) \in Nat /\ IsFiniteSet(OnTime(m))
               /\ Cardinality(OnTime(m)) \in Nat
               /\ m # MinuteOf[t] => Accepted(m) = OnTime(m)
               /\ OnTime(m) = {} => Cardinality(OnTime(m)) = 0
    <2>1. Accepted(m) \in SUBSET Ticks /\ OnTime(m) \in SUBSET Ticks
      BY <1>1 DEF Accepted, OnTime
    <2>2. m # MinuteOf[t] => Accepted(m) = OnTime(m)
      BY <1>1 DEF Accepted, OnTime
    <2> QED
      BY <2>1, <2>2, CountMono, FS_EmptySet
  <1>3. MinuteOf[t] \in Minutes
    BY <1>1, ConstantTypes
  <1> DEFINE T == OnTime(MinuteOf[t]) \cup {t}
  <1>4. Accepted(MinuteOf[t]) \in SUBSET T /\ T \in SUBSET Ticks
    BY <1>1 DEF Accepted, OnTime
  <1>5. Cardinality(T) <= Cardinality(OnTime(MinuteOf[t])) + 1
    BY <1>2, <1>3, FS_AddElement
  <1> HIDE DEF T
  <1>6. Cardinality(Accepted(MinuteOf[t])) <= Cardinality(T)
        /\ Cardinality(T) \in Nat
    BY <1>4, CountMono
  <1>7. Cardinality(Accepted(MinuteOf[t]))
          <= Cardinality(OnTime(MinuteOf[t])) + 1
    BY <1>2, <1>3, <1>5, <1>6
  <1> QED
    BY <1>2, <1>7

\* MinuteBarAggregator.process: a first bar, a late tick, a later minute with
\* its gap bars, or one more trade of the current minute.
LEMMA ProcessStep ==
    ASSUME FeedInv, ProcessTick PROVE FeedInv'
  <1> USE ConstantTypes
  <1>1. FeedShape /\ VolumeInv /\ LossInv /\ WorkerInv
    BY DEF FeedInv, FeedShape
  <1>2. /\ worker.pc = "process"
        /\ UNCHANGED <<minute, queue, seen, bars, errors, history, taken>>
    BY DEF ProcessTick
  <1>3. PICK t \in seen : worker = [pc |-> "process", bars |-> <<t>>]
    BY <1>1, <1>2, WorkerShape
  <1> DEFINE M == MinuteOf[t]
             P == Process(current, t)
  <1>4. /\ current' = P.current
        /\ late' = IF M < current.minute THEN late \cup {t} ELSE late
        /\ worker' = IF P.bars = <<>> THEN Idle
                     ELSE [pc |-> "save", bars |-> P.bars]
    <2>1. worker.bars[1] = t
      BY <1>3
    <2> QED
      BY <2>1 DEF ProcessTick
  <1>5. t \in Ticks /\ M \in Minutes /\ M \in Nat /\ M > 0
    BY <1>1 DEF FeedShape
  <1>6. /\ \A m \in Minutes :
              /\ Cardinality(Remembered(m)) \in Nat
              /\ Cardinality(Counted(m)) \in Nat
              /\ Cardinality(Counted(m)) <= Cardinality(Remembered(m))
        /\ Cardinality(Remembered(M)) = Cardinality(Counted(M)) + 1
    BY <1>1, <1>3, OneMore
  <1>14. /\ \A m \in Minutes :
               /\ Cardinality(Accepted(m)) \in Nat
               /\ Cardinality(OnTime(m)) \in Nat
               /\ m # M => Accepted(m) = OnTime(m)
               /\ OnTime(m) = {} => Cardinality(OnTime(m)) = 0
         /\ Cardinality(Accepted(M)) <= Cardinality(OnTime(M)) + 1
    BY <1>1, <1>3, OneMoreOnTime
  <1>15. ASSUME ~errors, NEW m \in Minutes, m > current.minute
         PROVE  OnTime(m) = {} /\ Cardinality(OnTime(m)) = 0
    <2>1. \A u \in taken \ InHand : MinuteOf[u] <= current.minute /\ u \in Ticks
      BY <1>1, <1>15 DEF LossInv, FeedShape
    <2>2. current.minute \in Nat
      BY <1>1 DEF FeedShape, NoBar
    <2>3. OnTime(m) = {}
      BY <1>15, <2>1, <2>2 DEF OnTime
    <2> QED
      BY <1>14, <2>3
  <1> DEFINE R == {r \in Rows :
                     /\ r.volume <= Cardinality(Remembered(r.minute))
                     /\ ~errors => Cardinality(Accepted(r.minute)) <= r.volume}
  <1>7. ASSUME NEW B, P.bars = B, B # <<>>, B \in Seq(R),
               \E j \in DOMAIN B : B[j].minute = current'.minute,
               current' \in [minute : Minutes, volume : Nat],
               current'.volume <= Cardinality(Remembered(current'.minute)),
               ~errors => Cardinality(Accepted(current'.minute))
                             <= current'.volume,
               M = current'.minute, late' = late,
               current = NoBar \/ current.minute <= current'.minute
        PROVE  FeedInv'
    <2>1. worker' = [pc |-> "save", bars |-> B]
      BY <1>4, <1>7
    <2> QED
      BY <1>2, <1>3, <1>7, <2>1, ProcessedBars
  <1> DEFINE new == [minute |-> M, volume |-> 1]
             add == [current EXCEPT !.volume = @ + 1]
  <1>8. CASE current = NoBar
    <2>1. P.current = new /\ P.bars = <<Row(new, "forming", "ticks")>>
      BY <1>8 DEF Process
    <2>2. current' = [minute |-> M, volume |-> 1]
      BY <1>4, <2>1
    <2>11. ~errors => Cardinality(Accepted(M)) <= 1
      <3>1. M > current.minute
        BY <1>5, <1>8 DEF NoBar
      <3> HIDE DEF M
      <3> QED BY <1>5, <1>14, <1>15, <3>1
    <2>12. late' = late
      BY <1>4, <1>5, <1>8 DEF NoBar
    <2>3. Row(new, "forming", "ticks") \in R
      BY <1>5, <1>6, <2>2, <2>11 DEF Row, Rows
    <2>4. Row(new, "forming", "ticks").minute = M
      BY DEF Row
    <2> HIDE DEF R, P, M, new
    <2> DEFINE B == <<Row(new, "forming", "ticks")>>
    <2>5. B \in Seq(R) /\ B # <<>> /\ 1 \in DOMAIN B
          /\ B[1] = Row(new, "forming", "ticks")
      BY <2>3
    <2>6. \E j \in DOMAIN B : B[j].minute = current'.minute
      BY <2>2, <2>4, <2>5
    <2> HIDE DEF B
    <2>7. P.bars = B
      BY <2>1 DEF B
    <2>8. current'.minute = M /\ current'.volume = 1
          /\ current' \in [minute : Minutes, volume : Nat]
      BY <1>5, <2>2
    <2>9. 1 <= Cardinality(Remembered(M))
      BY <1>5, <1>6
    <2>10. current'.volume <= Cardinality(Remembered(current'.minute))
      BY <2>8, <2>9
    <2>13. ~errors => Cardinality(Accepted(current'.minute)) <= current'.volume
      BY <2>8, <2>11
    <2> QED
      BY <1>7, <1>8, <2>5, <2>6, <2>7, <2>8, <2>10, <2>12, <2>13
  <1>9. ASSUME current # NoBar
        PROVE  /\ current = [minute |-> current.minute, volume |-> current.volume]
               /\ current.minute \in Minutes /\ current.minute \in Nat
               /\ current.volume \in Nat
               /\ current.volume <= Cardinality(Counted(current.minute))
               /\ ~errors => Cardinality(OnTime(current.minute)) <= current.volume
    <2>1. current \in [minute : Minutes, volume : Nat]
      BY <1>1, <1>9 DEF FeedShape
    <2> QED
      BY <1>1, <1>9, <2>1 DEF VolumeInv, LossInv
  <1>10. CASE current # NoBar /\ M < current.minute
    <2>1. P.current = current /\ P.bars = <<>>
      BY <1>10 DEF Process
    <2>2. current' = current /\ worker' = Idle /\ worker'.pc = "idle"
      BY <1>4, <2>1 DEF Idle
    <2>3. InHand = {t} /\ InHand' = {}
      BY <1>3, <1>5, <2>2, Hand, HandNext
    <2>4. FeedShape'
      BY <1>1, <1>2, <2>2 DEF FeedShape, WorkerInv
    <2>5. ASSUME NEW m PROVE Counted(m)' = Remembered(m)
      BY <1>2, <2>3 DEF Counted, Remembered
    <2>6. VolumeInv'
      <3>1. ASSUME NEW m \in Minutes
            PROVE  (\/ bars[m].volume <= Cardinality(Counted(m))
                    \/ /\ bars[m].status = "closed" /\ bars[m].origin = "history"
                       /\ bars[m].volume = Traded(m))'
        <4>1. bars[m].volume \in Nat
          BY <1>1 DEF FeedShape, Kept
        <4> QED
          BY <1>1, <1>2, <1>6, <2>5, <4>1 DEF VolumeInv, Traded
      <3>2. current.volume <= Cardinality(Remembered(current.minute))
        BY <1>6, <1>9, <1>10
      <3>3. (current.volume <= Cardinality(Counted(current.minute)))'
        BY <1>2, <2>2, <2>3, <3>2 DEF Counted, Remembered
      <3> QED
        BY <2>2, <3>1, <3>3 DEF VolumeInv
    <2>7. LossInv'
      <3> SUFFICES ASSUME ~errors PROVE LossInv'
        BY <1>2 DEF LossInv
      <3>1. \A m : OnTime(m)' \in SUBSET OnTime(m)
        BY <1>2, <1>4, <1>10, <2>3 DEF OnTime
      <3>2. \A m : /\ Cardinality(OnTime(m)') <= Cardinality(OnTime(m))
                   /\ Cardinality(OnTime(m)) \in Nat
                   /\ Cardinality(OnTime(m)') \in Nat
        BY <1>1, <3>1, OnTimeLess
      <3>3. \A u \in taken : u = t \/ u \in taken \ InHand
        BY <2>3
      <3>4. \A u \in taken : MinuteOf[u] <= current.minute
        BY <1>1, <1>5, <1>9, <1>10, <3>3 DEF LossInv
      <3>5. \A m : ~Pends(m)
        BY <1>2 DEF Pends
      <3>6. ASSUME NEW m \in Minutes PROVE Complete(m)'
        <4>1. Complete(m) /\ bars[m].volume \in Nat
          BY <1>1, <3>5 DEF LossInv, FeedShape, Kept
        <4> QED
          BY <1>2, <3>1, <3>2, <4>1 DEF Complete
      <3>7. (Cardinality(OnTime(current.minute)) <= current.volume)'
        <4>1. PICK c \in Minutes : c = current.minute
          BY <1>9, <1>10
        <4>2. Cardinality(OnTime(c)') <= current.volume
          BY <1>9, <1>10, <3>2, <4>1
        <4> QED
          BY <2>2, <4>1, <4>2 DEF OnTime, InHand
      <3> QED
        BY <1>2, <2>2, <3>4, <3>6, <3>7 DEF LossInv
    <2> QED
      BY <2>4, <2>6, <2>7 DEF FeedInv
  <1>11. CASE current # NoBar /\ M > current.minute
    <2> DEFINE closed == Row(current, "closed", "ticks")
               gaps == GapBars(current.minute, M)
               forming == Row(new, "forming", "ticks")
               B == <<closed>> \o gaps \o <<forming>>
    <2>1. P.current = new /\ P.bars = B
      <3>1. ~(M < current.minute)
        BY <1>5, <1>9, <1>11
      <3> HIDE DEF closed, gaps, forming, new
      <3>2. P = [current |-> new, bars |-> B]
        BY <1>11, <3>1 DEF Process, closed, gaps, forming, new
      <3> HIDE DEF P, B
      <3> QED
        BY <3>2
    <2>2. current' = [minute |-> M, volume |-> 1]
      BY <1>4, <2>1
    <2>3. current'.minute = M /\ current'.volume = 1
          /\ current' \in [minute : Minutes, volume : Nat]
      BY <1>5, <2>2
    <2>4. 1 <= Cardinality(Remembered(M))
      BY <1>5, <1>6
    <2>13. ~errors => Cardinality(Accepted(M)) <= 1
      <3> HIDE DEF M
      <3> QED BY <1>5, <1>11, <1>14, <1>15
    <2>14. late' = late
      BY <1>4, <1>5, <1>9, <1>11
    <2>15. ~errors => Cardinality(Accepted(current.minute)) <= current.volume
      BY <1>5, <1>9, <1>11, <1>14
    <2>5. forming \in R /\ forming.minute = M
      BY <1>5, <2>3, <2>4, <2>13 DEF Row, Rows
    <2>6. closed \in R
      BY <1>6, <1>9, <1>11, <2>3, <2>15 DEF Row, Rows
    <2>7. gaps \in Seq(R)
      <3> DEFINE k == M - current.minute - 1
      <3>1. k \in Nat
        BY <1>5, <1>9, <1>11
      <3>2. ASSUME NEW i \in 1..k
            PROVE  [minute |-> current.minute + i, status |-> "closed",
                    volume |-> 0, origin |-> "gap"] \in R
        <4>1. current.minute + i \in Minutes /\ current.minute + i < M
          BY <1>5, <1>9, <1>11 DEF Minutes
        <4>2. 0 <= Cardinality(Remembered(current.minute + i))
          BY <1>6, <4>1
        <4>3. current.minute + i > current.minute /\ current.minute + i # M
          <5>1. i \in Int /\ i > 0
            BY <3>1
          <5> HIDE DEF M
          <5> QED BY <1>5, <1>9, <1>11, <4>1, <5>1
        <4>4. ~errors => Cardinality(Accepted(current.minute + i)) <= 0
          <5> HIDE DEF M
          <5> QED BY <1>14, <1>15, <4>1, <4>3
        <4> QED
          BY <4>1, <4>2, <4>4 DEF Rows
      <3> HIDE DEF R
      <3>3. gaps = [i \in 1..k |->
                      [minute |-> current.minute + i, status |-> "closed",
                       volume |-> 0, origin |-> "gap"]]
        BY DEF GapBars
      <3> HIDE DEF k, gaps
      <3> QED
        BY <3>1, <3>2, <3>3
    <2> HIDE DEF R, closed, gaps, forming, P
    <2>8. B \in Seq(R) /\ B # <<>>
      BY <2>5, <2>6, <2>7
    <2>9. Len(B) \in DOMAIN B /\ B[Len(B)] = forming
      BY <2>5, <2>6, <2>7
    <2>10. \E j \in DOMAIN B : B[j].minute = current'.minute
      BY <2>3, <2>5, <2>9
    <2> HIDE DEF B, M
    <2>11. current'.volume <= Cardinality(Remembered(current'.minute))
      BY <2>3, <2>4
    <2>12. current.minute <= current'.minute
      BY <1>5, <1>9, <1>11, <2>3
    <2>16. ~errors => Cardinality(Accepted(current'.minute)) <= current'.volume
      BY <2>3, <2>13
    <2> QED
      BY <1>7, <2>1, <2>3, <2>8, <2>10, <2>11, <2>12, <2>14, <2>16
  <1>12. CASE current # NoBar /\ M = current.minute
    <2> DEFINE forming == Row(add, "forming", "ticks")
               B == <<forming>>
    <2>1. P.current = add /\ P.bars = B
      BY <1>9, <1>12 DEF Process
    <2>2. add = [minute |-> M, volume |-> current.volume + 1]
      BY <1>9, <1>12
    <2>3. current' = [minute |-> M, volume |-> current.volume + 1]
      BY <1>4, <2>1, <2>2
    <2>4. current.volume + 1 <= Cardinality(Remembered(M))
      BY <1>5, <1>6, <1>9, <1>12
    <2>5. current'.minute = M /\ current'.volume = current.volume + 1
          /\ current' \in [minute : Minutes, volume : Nat]
      BY <1>5, <1>9, <1>12, <2>3
    <2>11. ~errors => Cardinality(Accepted(M)) <= current.volume + 1
      BY <1>5, <1>9, <1>12, <1>14
    <2>12. late' = late
      BY <1>4, <1>5, <1>12
    <2>6. forming \in R /\ forming.minute = M
      BY <1>5, <1>9, <1>12, <2>2, <2>4, <2>5, <2>11 DEF Row, Rows
    <2> HIDE DEF R, P, forming
    <2>7. B \in Seq(R) /\ B # <<>> /\ 1 \in DOMAIN B /\ B[1] = forming
      BY <2>6
    <2>8. \E j \in DOMAIN B : B[j].minute = current'.minute
      BY <2>5, <2>6, <2>7
    <2> HIDE DEF B, M
    <2>9. current'.volume <= Cardinality(Remembered(current'.minute))
      BY <2>4, <2>5
    <2>10. current.minute <= current'.minute
      BY <1>9, <1>12, <2>5
    <2>13. ~errors => Cardinality(Accepted(current'.minute)) <= current'.volume
      BY <2>5, <2>11
    <2> QED
      BY <1>7, <2>1, <2>5, <2>7, <2>8, <2>9, <2>10, <2>12, <2>13
  <1>13. current # NoBar =>
            M < current.minute \/ M > current.minute \/ M = current.minute
    BY <1>5, <1>9
  <1> QED
    BY <1>8, <1>10, <1>11, <1>12, <1>13

\* _save_bar: the row counts what is counted, and a row of the current minute
\* has a trade.
LEMMA SaveBarStep ==
    ASSUME FeedInv, SaveBar PROVE FeedInv'
  <1> USE ConstantTypes
  <1> DEFINE b == Head(worker.bars)
             kept == [status |-> b.status, volume |-> b.volume,
                      origin |-> b.origin]
  <1>1. FeedShape /\ VolumeInv /\ LossInv /\ WorkerInv
    BY DEF FeedInv, FeedShape
  <1>2. /\ worker.pc = "save" /\ bars' = [bars EXCEPT ![b.minute] = kept]
        /\ worker' = [worker EXCEPT !.pc = "announce"]
        /\ UNCHANGED <<minute, queue, seen, current, errors, history, taken,
                       late>>
    BY DEF SaveBar
  <1>3. /\ worker = [pc |-> "save", bars |-> worker.bars]
        /\ worker.bars \in Seq(Rows) /\ worker.bars # <<>>
    BY <1>1, <1>2, WorkerShape
  <1>4. worker' = [pc |-> "announce", bars |-> worker.bars]
    BY <1>2, <1>3
  <1>5. worker'.pc = "announce" /\ worker'.bars = worker.bars
    BY <1>4
  <1>6. 1 \in DOMAIN worker.bars /\ b = worker.bars[1] /\ b \in Rows
    BY <1>3
  <1>7. /\ b.minute \in Minutes /\ b.volume \in Nat /\ b.origin # "history"
        /\ b.status \in {"forming", "closed"} /\ b.origin \in {"ticks", "gap"}
        /\ b.volume <= Cardinality(Counted(b.minute))
        /\ ~errors => Cardinality(OnTime(b.minute)) <= b.volume
    BY <1>1, <1>2, <1>6 DEF Rows, VolumeInv, LossInv
  <1>8. InHand = {} /\ InHand' = {}
    BY <1>2, <1>5, Hand, HandNext
  <1>9. ASSUME NEW m PROVE Counted(m)' = Counted(m)
    BY <1>2, <1>8 DEF Counted
  <1> HIDE DEF b
  <1>10. \A m \in Minutes : bars'[m] = IF m = b.minute THEN kept ELSE bars[m]
    BY <1>1, <1>2, <1>7 DEF FeedShape
  <1>11. FeedShape'
    <2>1. kept \in Kept
      BY <1>7 DEF Kept
    <2>2. bars' \in [Minutes -> Kept]
      BY <1>1, <1>2, <2>1 DEF FeedShape
    <2>3. WorkerInv'
      BY <1>3, <1>5, <1>4 DEF WorkerInv
    <2> QED
      BY <1>1, <1>2, <2>2, <2>3 DEF FeedShape
  <1>12. VolumeInv'
    <2>1. ASSUME NEW m \in Minutes
          PROVE  (\/ bars[m].volume <= Cardinality(Counted(m))
                  \/ /\ bars[m].status = "closed" /\ bars[m].origin = "history"
                     /\ bars[m].volume = Traded(m))'
      <3> HIDE DEF kept
      <3>1. CASE m = b.minute
        <4>1. bars'[m].volume = b.volume
          BY <1>10, <3>1 DEF kept
        <4> QED
          BY <1>7, <1>9, <3>1, <4>1
      <3>2. CASE m # b.minute
        BY <1>1, <1>9, <1>10, <3>2 DEF VolumeInv, Traded
      <3> QED
        BY <3>1, <3>2
    <2>2. (current # NoBar =>
             current.volume <= Cardinality(Counted(current.minute)))'
      BY <1>1, <1>2, <1>9 DEF VolumeInv
    <2>3. (\A j \in DOMAIN worker.bars :
             worker.bars[j].volume
               <= Cardinality(Counted(worker.bars[j].minute)))'
      BY <1>1, <1>2, <1>5, <1>8 DEF VolumeInv, Counted
    <2> QED
      BY <2>1, <2>2, <2>3 DEF VolumeInv
  <1>13. LossInv'
    <2> SUFFICES ASSUME ~errors PROVE LossInv'
      BY <1>2 DEF LossInv
    <2>1. ASSUME NEW m PROVE OnTime(m)' = OnTime(m)
      BY <1>2, <1>8 DEF OnTime
    <2>2. \A u \in taken' \ InHand' : MinuteOf[u] <= current'.minute
      BY <1>1, <1>2, <1>8 DEF LossInv
    <2>3. (current # NoBar =>
             Cardinality(OnTime(current.minute)) <= current.volume)'
      BY <1>1, <1>2, <1>8 DEF LossInv, OnTime
    <2>4. (\A j \in DOMAIN worker.bars :
             Cardinality(OnTime(worker.bars[j].minute))
               <= worker.bars[j].volume)'
      BY <1>1, <1>2, <1>5, <1>8 DEF LossInv, OnTime
    <2>5. ASSUME NEW m \in Minutes PROVE Pends(m)' \/ Complete(m)'
      <3>1. CASE m = b.minute
        <4>1. bars'[m].volume = b.volume /\ bars'[m].origin # "history"
          BY <1>7, <1>10, <3>1
        <4> QED
          BY <1>7, <2>1, <3>1, <4>1 DEF Complete
      <3>2. CASE m # b.minute /\ Pends(m)
        <4>1. PICK j \in DOMAIN worker.bars : worker.bars[j].minute = m
          BY <3>2 DEF Pends
        <4>2. j > 1
          BY <1>3, <1>6, <3>2, <4>1
        <4> QED
          BY <1>5, <4>1, <4>2 DEF Pends
      <3>3. CASE m # b.minute /\ Complete(m)
        BY <1>2, <1>10, <2>1, <3>3 DEF Complete
      <3> QED
        BY <1>1, <3>1, <3>2, <3>3 DEF LossInv
    <2> QED
      BY <1>2, <2>2, <2>3, <2>4, <2>5 DEF LossInv
  <1> QED
    BY <1>11, <1>12, <1>13 DEF FeedInv

\* A bar that was announced leaves the worker; the last one leaves it idle.
LEMMA LeaveStep ==
    ASSUME FeedInv, worker.pc = "announce",
           UNCHANGED <<minute, queue, current, seen, bars, errors, history,
                       taken, late>>,
           \/ worker' = Idle /\ Len(worker.bars) = 1
           \/ /\ worker' = [pc |-> "save", bars |-> Tail(worker.bars)]
              /\ Len(worker.bars) # 1
    PROVE  FeedInv'
  <1> USE ConstantTypes
  <1> DEFINE B == worker.bars
  <1>1. FeedShape /\ VolumeInv /\ LossInv /\ WorkerInv
    BY DEF FeedInv, FeedShape
  <1>2. worker = [pc |-> "announce", bars |-> B] /\ B \in Seq(Rows) /\ B # <<>>
    BY <1>1, WorkerShape
  <1>3. worker'.pc \in {"idle", "save"}
    BY DEF Idle
  <1>4. InHand = {} /\ InHand' = {}
    BY <1>3, Hand, HandNext
  <1>5. ASSUME NEW m PROVE Counted(m)' = Counted(m)
    BY <1>4 DEF Counted
  <1>6. worker'.pc = "save" =>
           /\ worker'.bars = Tail(B) /\ worker' = [pc |-> "save", bars |-> Tail(B)]
           /\ Len(B) # 1
    <2>1. Idle.pc # "save"
      BY DEF Idle
    <2>2. CASE worker' = Idle
      BY <2>1, <2>2
    <2>3. CASE /\ worker' = [pc |-> "save", bars |-> Tail(worker.bars)]
               /\ Len(worker.bars) # 1
      BY <2>3
    <2> QED
      BY <2>2, <2>3
  <1>7. worker'.pc # "save" => worker' = Idle
    OBVIOUS
  <1>8. Len(B) # 1 => /\ Tail(B) \in Seq(Rows) /\ Tail(B) # <<>>
                      /\ \A j \in DOMAIN Tail(B) :
                            j + 1 \in DOMAIN B /\ Tail(B)[j] = B[j + 1]
                      /\ \A j \in DOMAIN B : j > 1 =>
                            j - 1 \in DOMAIN Tail(B) /\ Tail(B)[j - 1] = B[j]
    <2> HAVE Len(B) # 1
    <2> HIDE DEF B, Rows
    <2>1. Len(B) \in Nat /\ Len(B) > 1 /\ DOMAIN B = 1..Len(B)
      <3>1. Len(B) \in Nat /\ DOMAIN B = 1..Len(B)
        BY <1>2
      <3>2. Len(B) # 0
        BY <1>2, EmptySeq
      <3> QED
        BY <3>1, <3>2
    <2>2. /\ Tail(B) \in Seq(Rows) /\ Len(Tail(B)) = Len(B) - 1
          /\ DOMAIN Tail(B) = 1..(Len(B) - 1)
      BY <1>2, <2>1
    <2>3. \A j \in 1..(Len(B) - 1) : Tail(B)[j] = B[j + 1]
      BY <1>2, <2>1, <2>2
    <2>4. Tail(B) # <<>>
      <3>1. Len(Tail(B)) # 0
        BY <2>1, <2>2
      <3> QED
        BY <2>2, <3>1, EmptySeq
    <2>5. \A j \in 1..(Len(B) - 1) : j + 1 \in 1..Len(B)
      BY <2>1
    <2>6. ASSUME NEW j \in 1..Len(B), j > 1
          PROVE  j - 1 \in 1..(Len(B) - 1) /\ Tail(B)[j - 1] = B[j]
      <3>1. j - 1 \in 1..(Len(B) - 1) /\ (j - 1) + 1 = j
        BY <2>1, <2>6
      <3> QED
        BY <2>3, <3>1
    <2> QED
      BY <2>1, <2>2, <2>3, <2>4, <2>5, <2>6
  <1>9. FeedShape'
    <2>1. WorkerInv'
      BY <1>6, <1>7, <1>8 DEF WorkerInv
    <2> QED
      BY <1>1, <2>1 DEF FeedShape
  <1>10. VolumeInv'
    <2>1. (\A m \in Minutes :
             \/ bars[m].volume <= Cardinality(Counted(m))
             \/ /\ bars[m].status = "closed" /\ bars[m].origin = "history"
                /\ bars[m].volume = Traded(m))'
      BY <1>1, <1>5 DEF VolumeInv, Traded
    <2>2. (current # NoBar =>
             current.volume <= Cardinality(Counted(current.minute)))'
      BY <1>1, <1>5 DEF VolumeInv
    <2>3. \A j \in DOMAIN B : B[j].volume <= Cardinality(Counted(B[j].minute))
      BY <1>1 DEF VolumeInv
    <2>4. CASE worker'.pc = "save"
      <3>1. ASSUME NEW j \in DOMAIN Tail(B)
            PROVE  Tail(B)[j].volume <= Cardinality(Counted(Tail(B)[j].minute))
        BY <1>6, <1>8, <2>3, <2>4
      <3>2. (\A j \in DOMAIN worker.bars :
               worker.bars[j].volume
                 <= Cardinality(Counted(worker.bars[j].minute)))'
        BY <1>4, <1>6, <2>4, <3>1 DEF Counted
      <3> QED
        BY <2>1, <2>2, <3>2 DEF VolumeInv
    <2>5. CASE worker'.pc = "idle"
      BY <2>1, <2>2, <2>5 DEF VolumeInv
    <2> QED
      BY <1>3, <2>4, <2>5
  <1>11. LossInv'
    <2> SUFFICES ASSUME ~errors PROVE LossInv'
      BY DEF LossInv
    <2>1. ASSUME NEW m PROVE OnTime(m)' = OnTime(m)
      BY <1>4 DEF OnTime
    <2>2. \A u \in taken' \ InHand' : MinuteOf[u] <= current'.minute
      BY <1>1, <1>4 DEF LossInv
    <2>3. (current # NoBar =>
             Cardinality(OnTime(current.minute)) <= current.volume)'
      BY <1>1, <1>4 DEF LossInv, OnTime
    <2>4. ASSUME worker'.pc \in {"save", "announce"}
          PROVE  (\A j \in DOMAIN worker.bars :
                    Cardinality(OnTime(worker.bars[j].minute))
                      <= worker.bars[j].volume)'
      <3>1. \A j \in DOMAIN B :
               Cardinality(OnTime(B[j].minute)) <= B[j].volume
        BY <1>1 DEF LossInv
      <3>2. worker'.bars = Tail(B) /\ Len(B) # 1
        BY <1>3, <1>6, <2>4
      <3>3. \A j \in DOMAIN Tail(B) :
               Cardinality(OnTime(Tail(B)[j].minute)) <= Tail(B)[j].volume
        BY <1>8, <3>1, <3>2
      <3> QED
        BY <1>4, <3>2, <3>3 DEF OnTime
    <2>5. ASSUME NEW m \in Minutes, Pends(m) PROVE Pends(m)'
      <3>1. PICK j \in DOMAIN B : B[j].minute = m /\ j > 1
        BY <2>5 DEF Pends
      <3>2. j \in 1..Len(B) /\ Len(B) \in Nat /\ Len(B) # 1
        BY <1>2, <3>1
      <3>3. worker' = [pc |-> "save", bars |-> Tail(B)]
        BY <3>2
      <3>4. worker'.pc = "save" /\ worker'.bars = Tail(B)
        BY <3>3
      <3>5. j - 1 \in DOMAIN worker'.bars /\ worker'.bars[j - 1].minute = m
        BY <1>8, <3>1, <3>2, <3>4
      <3> QED
        BY <3>4, <3>5 DEF Pends
    <2>6. ASSUME NEW m \in Minutes, Complete(m) PROVE Complete(m)'
      BY <2>1, <2>6 DEF Complete
    <2>7. \A m \in Minutes : Pends(m)' \/ Complete(m)'
      BY <1>1, <2>5, <2>6 DEF LossInv
    <2> QED
      BY <2>2, <2>3, <2>4, <2>7 DEF LossInv
  <1> QED
    BY <1>9, <1>10, <1>11 DEF FeedInv

\* A tick that is given up because of an exception counts as lost, and the
\* error is counted.
LEMMA GiveUpStep ==
    ASSUME FeedInv, WorkerRaises PROVE FeedInv'
  <1>1. /\ worker' = Idle /\ errors'
        /\ UNCHANGED <<minute, queue, current, seen, bars, taken>>
    BY DEF WorkerRaises
  <1>2. FeedShape /\ VolumeInv
    BY DEF FeedInv
  <1>3. worker'.pc = "idle" /\ InHand' = {} /\ seen \in SUBSET Ticks
    BY <1>1, <1>2, HandNext DEF Idle, FeedShape
  <1>4. FeedShape'
    BY <1>1, <1>2 DEF FeedShape, WorkerInv
  <1>5. \A m \in Minutes :
           /\ Cardinality(Counted(m)) <= Cardinality(Counted(m)')
           /\ Cardinality(Counted(m)) \in Nat /\ Cardinality(Counted(m)') \in Nat
    BY <1>1, <1>2, <1>3, CountedGrows
  <1>6. VolumeInv'
    <2>1. ASSUME NEW m \in Minutes
          PROVE  \/ bars[m].volume <= Cardinality(Counted(m)')
                 \/ /\ bars[m].status = "closed" /\ bars[m].origin = "history"
                    /\ bars[m].volume = Traded(m)
      <3>1. bars[m].volume \in Nat
        BY <1>2 DEF FeedShape, Kept
      <3> QED
        BY <1>2, <1>5, <3>1 DEF VolumeInv
    <2>2. (\A m \in Minutes :
             \/ bars[m].volume <= Cardinality(Counted(m))
             \/ /\ bars[m].status = "closed" /\ bars[m].origin = "history"
                /\ bars[m].volume = Traded(m))'
      BY <1>1, <2>1 DEF Traded
    <2>3. ASSUME current # NoBar
          PROVE  (current.volume <= Cardinality(Counted(current.minute)))'
      <3>1. PICK c \in Minutes : c = current.minute
        BY <1>2, <2>3 DEF FeedShape
      <3>2. current.volume \in Nat /\ current.volume <= Cardinality(Counted(c))
        BY <1>2, <2>3, <3>1 DEF FeedShape, VolumeInv
      <3>3. current.volume <= Cardinality(Counted(c)')
        BY <1>5, <3>2
      <3> QED
        BY <1>1, <1>3, <3>1, <3>3 DEF Counted
    <2> QED
      BY <1>1, <1>3, <2>2, <2>3 DEF VolumeInv
  <1> QED
    BY <1>1, <1>4, <1>6 DEF FeedInv, LossInv

\* The backfill: the history of a past minute has every trade of it, and the
\* rows it takes away are of an earlier start and have no trade of this one.
LEMMA PurgeStep ==
    ASSUME FeedInv, NEW S \in SUBSET Past, bars' = Backfilled(S),
           worker = Idle, ~history, history',
           UNCHANGED <<minute, queue, worker, current, seen, taken, late>>,
           ~errors' => ~errors
    PROVE  FeedInv'
  <1> USE ConstantTypes
  <1>1. FeedShape /\ VolumeInv /\ LossInv /\ worker.pc = "idle"
    BY DEF FeedInv, Idle
  <1>2. \A m : Counted(m)' = Counted(m) /\ OnTime(m)' = OnTime(m)
    BY DEF Counted, OnTime, InHand
  <1>3. InHand' = InHand
    BY DEF InHand
  <1>4. \A m \in Minutes :
           /\ Traded(m) \in Nat /\ Cardinality(Counted(m)) \in Nat
           /\ bars[m] \in Kept
    BY <1>1, CountedTraded DEF FeedShape
  <1> DEFINE H(m) == [status |-> "closed", volume |-> Traded(m),
                      origin |-> "history"]
  <1>5. ASSUME NEW m \in Minutes
        PROVE  \/ m \in S /\ bars'[m] = H(m)
               \/ bars[m].origin = "history" /\ bars'[m] = Missing
               \/ bars[m].origin # "history" /\ bars'[m] = bars[m]
    BY DEF Backfilled
  <1>6. ASSUME NEW m \in Minutes
        PROVE  /\ H(m) \in Kept /\ H(m).status = "closed"
               /\ H(m).volume = Traded(m) /\ H(m).origin = "history"
    BY <1>4 DEF Kept
  <1>7. /\ Missing \in Kept /\ Missing.volume = 0
    BY DEF Kept, Missing
  <1> HIDE DEF H
  <1>8. FeedShape'
    <2>1. \A m \in Minutes : bars'[m] \in Kept
      BY <1>4, <1>5, <1>6, <1>7
    <2>2. bars' \in [Minutes -> Kept]
      BY <2>1 DEF Backfilled
    <2>3. WorkerInv'
      BY <1>1 DEF FeedShape, WorkerInv
    <2> QED
      BY <1>1, <2>2, <2>3 DEF FeedShape
  <1>9. VolumeInv'
    <2>1. ASSUME NEW m \in Minutes
          PROVE  \/ bars'[m].volume <= Cardinality(Counted(m))
                 \/ /\ bars'[m].status = "closed" /\ bars'[m].origin = "history"
                    /\ bars'[m].volume = Traded(m)
      BY <1>1, <1>4, <1>5, <1>6, <1>7 DEF VolumeInv
    <2>2. (\A m \in Minutes :
             \/ bars[m].volume <= Cardinality(Counted(m))
             \/ /\ bars[m].status = "closed" /\ bars[m].origin = "history"
                /\ bars[m].volume = Traded(m))'
      BY <1>2, <2>1 DEF Traded
    <2>3. (current # NoBar =>
             current.volume <= Cardinality(Counted(current.minute)))'
      BY <1>1, <1>3 DEF VolumeInv, Counted
    <2> QED
      BY <1>1, <2>2, <2>3 DEF VolumeInv
  <1>10. LossInv'
    <2> SUFFICES ASSUME ~errors PROVE LossInv'
      BY DEF LossInv
    <2>1. ASSUME NEW m \in Minutes PROVE Complete(m)'
      <3>1. Complete(m)
        BY <1>1 DEF LossInv, Pends
      <3>2. /\ Cardinality(OnTime(m)) \in Nat
            /\ Cardinality(OnTime(m)) <= Traded(m)
            /\ OnTime(m) = {} => Cardinality(OnTime(m)) = 0
        BY <1>1, OnTimeTraded
      <3>3. Cardinality(OnTime(m)) <= bars'[m].volume
        BY <1>5, <1>6, <1>7, <3>1, <3>2 DEF Complete
      <3> QED
        BY <1>2, <3>3 DEF Complete
    <2>2. (current # NoBar =>
             Cardinality(OnTime(current.minute)) <= current.volume)'
      BY <1>1, <1>3 DEF LossInv, OnTime
    <2> QED
      BY <1>1, <1>3, <2>1, <2>2 DEF LossInv
  <1> QED
    BY <1>8, <1>9, <1>10 DEF FeedInv

\* A start that is over, with its history or without.
LEMMA BackfillStep ==
    ASSUME FeedInv, Backfill \/ BackfillFails PROVE FeedInv'
  <1>1. /\ worker = Idle /\ ~history /\ history'
        /\ UNCHANGED <<minute, queue, worker, current, seen, taken, late>>
        /\ ~errors' => ~errors
    BY DEF Backfill, BackfillFails
  <1>2. minute \in Nat /\ queue \in Seq(Ticks)
    BY DEF FeedInv, FeedShape
  <1>3. CASE bars' = bars
    BY <1>1, <1>2, <1>3, SideStep
  <1>4. ASSUME NEW S \in SUBSET Past, bars' = Backfilled(S) PROVE FeedInv'
    BY <1>1, <1>4, PurgeStep
  <1> QED
    BY <1>3, <1>4 DEF Backfill, BackfillFails

\* The rows of a set of minutes have a newest one.
LEMMA NewestMinute ==
    ASSUME NEW F \in SUBSET Minutes, F # {}
    PROVE  Max(F) \in F /\ \A m \in F : Max(F) >= m
  <1> USE ConstantTypes
  <1> DEFINE T == {LastMinute - m : m \in F}
  <1>1. T \in SUBSET Nat /\ T # {}
    <2>1. \A m \in F : LastMinute - m \in Nat
      BY DEF Minutes
    <2>2. PICK m \in F : TRUE
      OBVIOUS
    <2>3. LastMinute - m \in T
      OBVIOUS
    <2> QED
      BY <2>1, <2>3
  <1>2. PICK x \in T : \A y \in T : ~(<<y, x>> \in OpToRel(<, Nat))
    BY <1>1, NatLessThanWellFounded, WFMin
  <1>3. ASSUME NEW y \in T PROVE x <= y
    <2>1. x \in Nat /\ y \in Nat
      BY <1>1
    <2>2. ~(y < x)
      BY <1>2, <2>1, Zenon DEF OpToRel
    <2> QED
      BY <2>1, <2>2
  <1>4. PICK n \in F : x = LastMinute - n
    OBVIOUS
  <1>5. ASSUME NEW m \in F PROVE n >= m
    <2>1. LastMinute - n <= LastMinute - m
      BY <1>3, <1>4
    <2> QED
      BY <2>1
  <1> QED
    BY <1>5 DEF Max

\* A crash: the tick in hand counts as lost, the store keeps its rows, and the
\* newest forming row becomes the current bar.
LEMMA RestartStep ==
    ASSUME FeedInv, Restart PROVE FeedInv'
  <1> USE ConstantTypes
  <1>1. FeedShape /\ VolumeInv /\ LossInv
    BY DEF FeedInv
  <1>2. /\ queue' = <<>> /\ worker' = Idle /\ current' = Restored /\ taken' = {}
        /\ UNCHANGED <<minute, seen, bars>>
    BY DEF Restart
  <1>3. worker'.pc = "idle"
    BY <1>2 DEF Idle
  <1>4. InHand' = {} /\ seen \in SUBSET Ticks
    BY <1>1, <1>3, HandNext DEF FeedShape
  <1>5. \A m \in Minutes :
           /\ Cardinality(Counted(m)) <= Cardinality(Counted(m)')
           /\ Cardinality(Counted(m)) \in Nat /\ Cardinality(Counted(m)') \in Nat
    BY <1>1, <1>2, <1>4, CountedGrows
  <1>6. \A m \in Minutes : bars[m] \in Kept /\ bars[m].volume \in Nat
    BY <1>1 DEF FeedShape, Kept
  <1> DEFINE F == {m \in Minutes : bars[m].status = "forming"}
  <1>7. \/ current' = NoBar
        \/ /\ current' = [minute |-> Max(F), volume |-> bars[Max(F)].volume]
           /\ Max(F) \in Minutes /\ bars[Max(F)].status = "forming"
    <2>1. CASE F = {}
      BY <1>2, <2>1 DEF Restored
    <2>2. CASE F # {}
      <3>1. Max(F) \in F
        BY <2>2, NewestMinute
      <3>2. current' = [minute |-> Max(F), volume |-> bars[Max(F)].volume]
        BY <1>2, <2>2 DEF Restored
      <3> QED
        BY <3>1, <3>2
    <2> QED
      BY <2>1, <2>2
  <1> HIDE DEF F
  <1>8. FeedShape'
    <2>1. \/ current' = NoBar
          \/ current' \in [minute : Minutes, volume : Nat]
      BY <1>6, <1>7
    <2> QED
      BY <1>1, <1>2, <2>1 DEF FeedShape, WorkerInv
  <1>9. VolumeInv'
    <2>1. ASSUME NEW m \in Minutes
          PROVE  \/ bars[m].volume <= Cardinality(Counted(m)')
                 \/ /\ bars[m].status = "closed" /\ bars[m].origin = "history"
                    /\ bars[m].volume = Traded(m)
      BY <1>1, <1>5, <1>6 DEF VolumeInv
    <2>2. (\A m \in Minutes :
             \/ bars[m].volume <= Cardinality(Counted(m))
             \/ /\ bars[m].status = "closed" /\ bars[m].origin = "history"
                /\ bars[m].volume = Traded(m))'
      BY <1>2, <2>1 DEF Traded
    <2>3. (current # NoBar =>
             current.volume <= Cardinality(Counted(current.minute)))'
      <3>1. CASE current' = NoBar
        BY <3>1 DEF NoBar
      <3>2. CASE /\ current' = [minute |-> Max(F), volume |-> bars[Max(F)].volume]
                 /\ Max(F) \in Minutes /\ bars[Max(F)].status = "forming"
        <4>1. PICK n \in Minutes :
                 /\ current'.minute = n /\ current'.volume = bars[n].volume
                 /\ bars[n].status # "closed"
          BY <3>2
        <4>2. bars[n].volume <= Cardinality(Counted(n)')
          BY <2>1, <4>1
        <4>3. bars[n].volume <= Cardinality({t \in seen : MinuteOf[t] = n})
          BY <1>2, <1>4, <4>2 DEF Counted
        <4> QED
          BY <1>2, <1>4, <4>1, <4>3 DEF Counted
      <3> QED
        BY <1>7, <3>1, <3>2
    <2> QED
      BY <1>3, <2>2, <2>3 DEF VolumeInv
  <1>10. LossInv'
    <2>1. \A m : OnTime(m)' = {}
      BY <1>2 DEF OnTime
    <2>2. Cardinality({}) = 0
      BY FS_EmptySet
    <2>6. \A m \in Minutes : Cardinality(OnTime(m)') = 0 /\ bars'[m].volume \in Nat
      BY <1>2, <1>6, <2>1, <2>2
    <2>3. \A m \in Minutes : Complete(m)'
      BY <2>1, <2>6 DEF Complete
    <2>4. current' # NoBar => current'.volume \in Nat
      BY <1>8 DEF FeedShape
    <2>5. (current # NoBar =>
             Cardinality(OnTime(current.minute)) <= current.volume)'
      BY <1>2, <2>2, <2>4 DEF OnTime
    <2> QED
      BY <1>2, <1>3, <2>3, <2>5 DEF LossInv
  <1> QED
    BY <1>8, <1>9, <1>10 DEF FeedInv

\* Every action keeps the invariant.
LEMMA FeedNext == FeedInv /\ [Next]_vars => FeedInv'
  <1> SUFFICES ASSUME FeedInv, [Next]_vars PROVE FeedInv'
    OBVIOUS
  <1>1. FeedShape /\ minute \in Nat /\ queue \in Seq(Ticks)
    BY DEF FeedInv, FeedShape
  <1>2. CASE Tock
    BY <1>1, <1>2, SideStep DEF Tock
  <1>3. ASSUME NEW t \in Ticks, Deliver(t) PROVE FeedInv'
    <2>1. /\ UNCHANGED <<worker, current, seen, bars, history, taken, late,
                         minute>>
          /\ queue' \in Seq(Ticks)
      BY <1>1, <1>3 DEF Deliver
    <2>2. ~errors' => ~errors
      BY <1>3 DEF Deliver
    <2> QED
      BY <1>1, <2>1, <2>2, SideStep
  <1>4. CASE Announce
    <2>1. /\ worker.pc = "announce"
          /\ UNCHANGED <<minute, queue, current, seen, bars, errors, history,
                         taken, late>>
          /\ worker' = IF Len(worker.bars) = 1 THEN Idle
                       ELSE [pc |-> "save", bars |-> Tail(worker.bars)]
      BY <1>4 DEF Announce
    <2> QED
      BY <2>1, LeaveStep
  <1>5. CASE TakeRaises
    <2>1. UNCHANGED <<worker, current, seen, bars, history, taken, late, minute>>
          /\ errors' /\ queue # <<>> /\ queue' = Tail(queue)
      BY <1>5 DEF TakeRaises
    <2>2. queue' \in Seq(Ticks)
      BY <1>1, <2>1, QueueShape
    <2> QED
      BY <1>1, <2>1, <2>2, SideStep
  <1>6. CASE Connect \/ Receive \/ Heartbeat \/ Disconnect \/ UNCHANGED vars
    <2>1. UNCHANGED <<worker, current, seen, bars, history, taken, late, minute,
                      queue, errors>>
      BY <1>6 DEF Connect, Receive, Heartbeat, Disconnect, vars
    <2> QED
      BY <1>1, <2>1, SideStep
  <1> QED
    BY <1>2, <1>3, <1>4, <1>5, <1>6, TakeStep, ProcessStep, SaveBarStep,
       GiveUpStep, BackfillStep, RestartStep DEF Next

\* The invariant holds of every behaviour.
LEMMA FeedSafe == Spec => []FeedInv
  BY FeedInit, FeedNext, PTL DEF Spec

\* No trade is counted twice in a stored bar: delivered again, late, across
\* crashes between any two writes, beside a backfill (_run_worker, _save_bar,
\* latest_forming, purge_backfill), the volume never exceeds what was traded.
THEOREM CountedOnce == Spec => []VolumeIsTraded
  <1>1. FeedInv => VolumeIsTraded
    <2> SUFFICES ASSUME FeedInv, NEW m \in Minutes
                 PROVE  bars[m].volume <= Traded(m)
      BY DEF VolumeIsTraded
    <2>1. /\ Cardinality(Counted(m)) \in Nat /\ Traded(m) \in Nat
          /\ Cardinality(Counted(m)) <= Traded(m)
      BY CountedTraded DEF FeedInv
    <2>2. bars[m].volume \in Nat
      BY DEF FeedInv, FeedShape, Kept
    <2> QED
      BY <2>1, <2>2 DEF FeedInv, VolumeInv
  <1> QED
    BY <1>1, FeedSafe, PTL

\* While nothing was dropped and nothing raised, an idle worker has left no
\* trade out: the stored bar of each minute counts every trade of it that was
\* taken since the start and was not late, for any trades, queue, duplicates,
\* gap bars and backfill (_run_worker, MinuteBarAggregator.process, _save_bar,
\* start). What is lost shows in dropped_ticks, worker_errors, history_error.
THEOREM LossIsLoud == Spec => []NoSilentLoss
  <1>1. FeedInv => NoSilentLoss
    <2> SUFFICES ASSUME FeedInv, ~errors, worker = Idle, NEW m \in Minutes
                 PROVE  Cardinality({t \in taken \ late : MinuteOf[t] = m})
                           <= bars[m].volume
      BY DEF NoSilentLoss
    <2>1. worker.pc = "idle"
      BY DEF Idle
    <2>2. InHand = {} /\ ~Pends(m)
      BY <2>1, Hand DEF Pends
    <2>3. OnTime(m) = {t \in taken \ late : MinuteOf[t] = m}
      BY <2>2 DEF OnTime
    <2> QED
      BY <2>2, <2>3 DEF FeedInv, LossInv, Complete
  <1> QED
    BY <1>1, FeedSafe, PTL

------------------------------------------------------------------------------
(* The client's closed bars *)

\* What a message about a minute may be, and what a client may hold.
Shown == [minute : Minutes, volume : Nat]
Volumes == {0} \cup {Volume(S) : S \in SUBSET Shown}
Clients == [on : BOOLEAN, inbox : Seq(Shown \cup {Status}), key : Nat,
            source : SUBSET Shown, closed : [Buckets -> Volumes],
            exact : BOOLEAN]

\* The minutes that have a row, and what the hub says of one.
Known == {m \in Minutes : bars[m] # Missing}
BarOf(m) == [minute |-> m, volume |-> bars[m].volume]

\* The messages about a minute that the client has not received yet.
About(m) == {i \in DOMAIN client.inbox : client.inbox[i].minute = m}

Busy == worker.pc \in {"save", "announce"}
Announcing(m) == worker.pc = "announce" /\ worker.bars[1].minute = m

\* The rows of one tick are of consecutive minutes, up to the current one.
RowsInv ==
    Busy => \A j \in DOMAIN worker.bars :
               worker.bars[j].minute + Len(worker.bars) = current.minute + j

\* No row is ahead of the one to be saved next; a row that is being announced
\* is in the store.
AheadInv ==
    /\ \A m \in Known :
          m <= current.minute /\ (Busy => m <= worker.bars[1].minute)
    /\ worker.pc = "announce" =>
          /\ worker.bars[1].minute \in Known
          /\ bars[worker.bars[1].minute].volume = worker.bars[1].volume

\* Messages are about stored minutes and come in their order, after what the
\* client's aggregator holds: one bar per minute, all of one bucket.
OrderInv ==
    /\ \A i \in DOMAIN client.inbox :
          client.inbox[i] # Status =>
             /\ client.inbox[i].minute \in Known
             /\ \A j \in DOMAIN client.inbox :
                   j > i /\ client.inbox[j] # Status
                      => client.inbox[i].minute <= client.inbox[j].minute
             /\ \A x \in client.source : x.minute <= client.inbox[i].minute
    /\ \A x \in client.source :
          /\ x.minute \in Known /\ Bucket(x.minute) = client.key
          /\ \A y \in client.source : x.minute = y.minute => x = y
    /\ client.source = {} => client.key = 0

\* Of every stored minute that is not behind the client's bucket, the last
\* word is on its way, or the client has it.
AgreeInv ==
    \A m \in Known :
        Bucket(m) >= client.key /\ ~Announcing(m) =>
            \/ \E i \in About(m) : /\ client.inbox[i] = BarOf(m)
                                   /\ \A j \in About(m) : j <= i
            \/ About(m) = {} /\ BarOf(m) \in client.source

\* Closed buckets are behind the client's, and agree with the store.
ClosedInv ==
    \A b \in Buckets : client.closed[b] # 0 =>
        b < client.key /\ client.closed[b] = Volume(Stored(b))

StreamInv ==
    /\ client \in Clients
    /\ RowsInv
    /\ client.on => history
    /\ client.exact => client.on /\ AheadInv /\ OrderInv /\ AgreeInv /\ ClosedInv

\* Later minutes are in later buckets.
LEMMA BucketFacts ==
    ASSUME NEW m \in Minutes, NEW n \in Minutes
    PROVE  /\ Bucket(m) \in Nat /\ Bucket(m) \in Buckets
           /\ m <= n => Bucket(m) <= Bucket(n)
  <1>1. Width \in Nat /\ Width > 0
    BY FeedAssumption
  <1>2. m - 1 \in Nat /\ n - 1 \in Nat
    BY ConstantTypes
  <1>3. \A x \in Nat : /\ x \div Width \in Nat
                       /\ Width * (x \div Width) <= x
                       /\ x < Width * (x \div Width) + Width
    BY <1>1
  <1>4. ASSUME m <= n, (n - 1) \div Width < (m - 1) \div Width PROVE FALSE
    <2> DEFINE p == (m - 1) \div Width
               q == (n - 1) \div Width
    <2>1. p \in Nat /\ q \in Nat /\ q + 1 <= p
      BY <1>2, <1>3, <1>4
    <2>2. Width * p <= m - 1 /\ n - 1 < Width * q + Width
      BY <1>2, <1>3
    <2> HIDE DEF p, q
    <2>3. PICK d \in Nat : p = q + 1 + d
      <3>1. p - (q + 1) \in Nat /\ p = q + 1 + (p - (q + 1))
        BY <2>1
      <3> QED
        BY <3>1
    <2>4. Width * p = Width * q + Width + Width * d /\ Width * d \in Nat
      BY <1>1, <2>1, <2>3
    <2>5. Width * q \in Nat
      BY <1>1, <2>1
    <2>6. PICK a \in Nat, e \in Nat : a = Width * q /\ e = Width * d
      BY <2>4, <2>5
    <2>7. a + Width + e <= m - 1 /\ n - 1 < a + Width
      BY <2>2, <2>4, <2>6
    <2> QED
      BY <1>1, <1>2, <1>4, <2>7, ConstantTypes
  <1> QED
    BY <1>2, <1>3, <1>4 DEF Bucket, Buckets

\* The rows are in their types, and the one in hand is first.
LEMMA RowFacts ==
    ASSUME FeedInv, RowsInv, Busy
    PROVE  /\ worker = [pc |-> worker.pc, bars |-> worker.bars]
           /\ worker.bars \in Seq(Rows) /\ Len(worker.bars) \in Nat
           /\ Len(worker.bars) > 0 /\ Head(worker.bars) = worker.bars[1]
           /\ worker.bars[1] \in Rows /\ worker.bars[1].minute \in Minutes
           /\ current.minute \in Nat /\ worker.bars[1].minute <= current.minute
  <1>1. /\ worker = [pc |-> worker.pc, bars |-> worker.bars]
        /\ worker.bars \in Seq(Rows) /\ worker.bars # <<>>
    BY WorkerShape DEF FeedInv, FeedShape, Busy
  <1>2. Len(worker.bars) \in Nat /\ Len(worker.bars) > 0 /\ 1 \in DOMAIN worker.bars
    BY <1>1
  <1>3. worker.bars[1] \in Rows /\ Head(worker.bars) = worker.bars[1]
    BY <1>1, <1>2
  <1>4. worker.bars[1].minute \in Minutes
    BY <1>3 DEF Rows
  <1>5. current.minute \in Nat
    BY ConstantTypes DEF FeedInv, FeedShape, NoBar
  <1>6. worker.bars[1].minute + Len(worker.bars) = current.minute + 1
    BY <1>2 DEF RowsInv
  <1> QED
    BY <1>1, <1>2, <1>3, <1>4, <1>5, <1>6, ConstantTypes

\* A client that is not there.
LEMMA OfflineShape == Offline \in Clients /\ ~Offline.on /\ ~Offline.exact
  <1>1. [b \in Buckets |-> 0] \in [Buckets -> Volumes]
    BY DEF Volumes
  <1>2. <<>> \in Seq(Shown \cup {Status})
    OBVIOUS
  <1> QED
    BY <1>1, <1>2 DEF Offline, Clients

\* At the first start no client is connected.
LEMMA StreamInit == Init => StreamInv
  BY OfflineShape DEF Init, StreamInv, RowsInv, Busy, Idle

\* Steps that leave the rows, the store and the client alone.
LEMMA StreamAside ==
    ASSUME StreamInv, UNCHANGED <<client, bars, current, history>>,
           \/ UNCHANGED worker
           \/ /\ worker.pc # "announce"
              /\ worker'.pc \notin {"save", "announce"}
    PROVE  StreamInv'
  <1>1. RowsInv'
    BY DEF StreamInv, RowsInv, Busy
  <1>2. CASE client.exact
    <2>1. AheadInv /\ OrderInv /\ AgreeInv /\ ClosedInv
      BY <1>2 DEF StreamInv
    <2>2. AheadInv'
      BY <2>1 DEF AheadInv, Known, Busy
    <2>3. OrderInv'
      BY <2>1 DEF OrderInv, Known
    <2>4. \A m : Announcing(m)' <=> Announcing(m)
      BY DEF Announcing
    <2>5. AgreeInv'
      BY <2>1, <2>4 DEF AgreeInv, Known, About, BarOf
    <2>6. ClosedInv'
      BY <2>1 DEF ClosedInv, Stored
    <2> QED
      BY <1>1, <2>2, <2>3, <2>5, <2>6 DEF StreamInv
  <1> QED
    BY <1>1, <1>2 DEF StreamInv

\* Without an exact client only the rows matter.
LEMMA StreamGone ==
    ASSUME RowsInv', client' \in Clients, ~client'.exact, client'.on => history'
    PROVE  StreamInv'
  BY DEF StreamInv

\* What MinuteBarAggregator.process hands out: nothing for a late tick, else
\* rows of consecutive minutes from the current one, or a first bar.
LEMMA ProcessRows ==
    ASSUME FeedShape, NEW t \in Ticks, NEW P, P = Process(current, t)
    PROVE  \/ P.bars = <<>> /\ P.current = current
           \/ /\ P.current.minute \in Nat /\ Len(P.bars) \in Nat
              /\ DOMAIN P.bars = 1..Len(P.bars) /\ Len(P.bars) > 0
              /\ P.bars[1].minute \in Nat
              /\ current.minute \in Nat /\ current.minute <= P.bars[1].minute
              /\ \A j \in DOMAIN P.bars :
                    P.bars[j].minute + Len(P.bars) = P.current.minute + j
  <1> DEFINE M == MinuteOf[t]
             new == [minute |-> M, volume |-> 1]
             forming == Row(new, "forming", "ticks")
  <1>1. M \in Nat /\ M > 0
    BY ConstantTypes
  <1>2. forming.minute = M /\ new.minute = M
    BY DEF Row
  <1>3. ASSUME NEW f, NEW c, f.minute = c.minute, c.minute \in Nat,
               P = [current |-> c, bars |-> <<f>>],
               current.minute \in Nat, current.minute <= c.minute
        PROVE  /\ P.current.minute \in Nat /\ Len(P.bars) \in Nat
               /\ DOMAIN P.bars = 1..Len(P.bars) /\ Len(P.bars) > 0
               /\ P.bars[1].minute \in Nat
               /\ current.minute \in Nat /\ current.minute <= P.bars[1].minute
               /\ \A j \in DOMAIN P.bars :
                     P.bars[j].minute + Len(P.bars) = P.current.minute + j
    <2>1. P.current = c /\ P.bars = <<f>>
      BY <1>3
    <2>2. Len(P.bars) = 1 /\ DOMAIN P.bars = 1..1 /\ P.bars[1] = f
      BY <2>1
    <2> QED
      BY <1>3, <2>1, <2>2
  <1>4. CASE current = NoBar
    <2>1. P = [current |-> new, bars |-> <<forming>>]
      BY <1>4 DEF Process
    <2>2. current.minute = 0
      BY <1>4 DEF NoBar
    <2> HIDE DEF M, new, forming
    <2> QED
      BY <1>1, <1>2, <1>3, <2>1, <2>2
  <1>5. ASSUME current # NoBar
        PROVE  /\ current.minute \in Nat /\ current.minute > 0
               /\ current \in [minute : Minutes, volume : Nat]
    BY <1>5, ConstantTypes DEF FeedShape
  <1>6. CASE current # NoBar /\ M < current.minute
    BY <1>6 DEF Process
  <1>7. CASE current # NoBar /\ M = current.minute
    <2> DEFINE add == [current EXCEPT !.volume = @ + 1]
    <2>1. add.minute = M /\ Row(add, "forming", "ticks").minute = M
      BY <1>5, <1>7 DEF Row
    <2>2. P = [current |-> add, bars |-> <<Row(add, "forming", "ticks")>>]
      BY <1>1, <1>7 DEF Process
    <2> HIDE DEF M, new, forming, add
    <2> QED
      BY <1>1, <1>3, <1>7, <2>1, <2>2
  <1>8. CASE current # NoBar /\ M > current.minute
    <2> DEFINE closed == Row(current, "closed", "ticks")
               k == M - current.minute - 1
               gaps == GapBars(current.minute, M)
               B == <<closed>> \o gaps \o <<forming>>
    <2>1. P = [current |-> new, bars |-> B]
      <3>1. ~(M < current.minute)
        BY <1>1, <1>5, <1>8
      <3> HIDE DEF closed, gaps, forming, new
      <3> QED
        BY <1>8, <3>1 DEF Process, closed, gaps, forming, new
    <2>2. k \in Nat /\ M = current.minute + k + 1
      BY <1>1, <1>5, <1>8
    <2>3. closed.minute = current.minute
      BY DEF Row
    <2>4. gaps = [i \in 1..k |->
                    [minute |-> current.minute + i, status |-> "closed",
                     volume |-> 0, origin |-> "gap"]]
      BY DEF GapBars
    <2> HIDE DEF closed, gaps, forming, new, M, k
    <2>5. gaps \in Seq({gaps[i] : i \in 1..k}) /\ Len(gaps) = k
      BY <2>2, <2>4
    <2>6. \A i \in 1..k : gaps[i].minute = current.minute + i
      BY <2>4
    <2>7. /\ Len(B) = k + 2 /\ DOMAIN B = 1..(k + 2)
          /\ B[1] = closed /\ B[k + 2] = forming
          /\ \A i \in 1..k : B[i + 1] = gaps[i]
      BY <2>2, <2>5
    <2> HIDE DEF B
    <2>8. P.current.minute = M /\ P.bars = B
      BY <1>2, <2>1
    <2>9. ASSUME NEW j \in 1..(k + 2) PROVE B[j].minute + (k + 2) = M + j
      <3>1. CASE j = 1
        BY <1>5, <1>8, <2>2, <2>3, <2>7, <3>1
      <3>2. CASE j = k + 2
        BY <1>1, <1>2, <2>2, <2>7, <3>2
      <3>3. CASE j # 1 /\ j # k + 2
        <4>1. j - 1 \in 1..k /\ (j - 1) + 1 = j
          BY <2>2, <3>3
        <4>2. B[j].minute = current.minute + (j - 1)
          BY <2>6, <2>7, <4>1
        <4> QED
          BY <1>5, <1>8, <2>2, <4>1, <4>2
      <3> QED
        BY <3>1, <3>2, <3>3
    <2> QED
      BY <1>1, <1>5, <1>8, <2>2, <2>3, <2>7, <2>8, <2>9
  <1> QED
    BY <1>1, <1>4, <1>5, <1>6, <1>7, <1>8

\* A processed tick: the rows it hands out begin where the store ends.
LEMMA StreamProcess ==
    ASSUME FeedInv, StreamInv, ProcessTick PROVE StreamInv'
  <1>1. FeedShape /\ WorkerInv
    BY DEF FeedInv, FeedShape
  <1>2. worker.pc = "process" /\ UNCHANGED <<bars, history, client>>
    BY DEF ProcessTick, socket
  <1>3. PICK t \in seen : worker = [pc |-> "process", bars |-> <<t>>]
    BY <1>1, <1>2, WorkerShape
  <1>4. PICK P : P = Process(current, t)
    OBVIOUS
  <1>5. /\ current' = P.current
        /\ worker' = IF P.bars = <<>> THEN Idle
                     ELSE [pc |-> "save", bars |-> P.bars]
    <2>1. worker.bars[1] = t
      BY <1>3
    <2> QED
      BY <1>4, <2>1 DEF ProcessTick
  <1>6. t \in Ticks
    BY <1>1 DEF FeedShape
  <1>7. CASE P.bars = <<>> /\ P.current = current
    <2>1. worker' = Idle /\ current' = current /\ worker'.pc = "idle"
      BY <1>5, <1>7 DEF Idle
    <2>2. \A m : ~Announcing(m)' /\ ~Announcing(m)
      BY <1>2, <2>1 DEF Announcing
    <2>3. RowsInv' /\ ~Busy' /\ ~Busy
      BY <1>2, <2>1 DEF RowsInv, Busy
    <2>4. CASE client.exact
      <3>1. AheadInv /\ OrderInv /\ AgreeInv /\ ClosedInv
        BY <2>4 DEF StreamInv
      <3>2. AheadInv'
        BY <1>2, <2>1, <2>3, <3>1 DEF AheadInv, Known
      <3>3. OrderInv'
        BY <1>2, <3>1 DEF OrderInv, Known
      <3>4. AgreeInv'
        BY <1>2, <2>2, <3>1 DEF AgreeInv, Known, About, BarOf
      <3>5. ClosedInv'
        BY <1>2, <3>1 DEF ClosedInv, Stored
      <3> QED
        BY <1>2, <2>3, <3>2, <3>3, <3>4, <3>5 DEF StreamInv
    <2> QED
      BY <1>2, <2>3, <2>4 DEF StreamInv
  <1>8. CASE /\ P.current.minute \in Nat /\ Len(P.bars) \in Nat
             /\ DOMAIN P.bars = 1..Len(P.bars) /\ Len(P.bars) > 0
             /\ P.bars[1].minute \in Nat
             /\ current.minute \in Nat /\ current.minute <= P.bars[1].minute
             /\ \A j \in DOMAIN P.bars :
                   P.bars[j].minute + Len(P.bars) = P.current.minute + j
    <2>1. P.bars # <<>>
      BY <1>8
    <2>2. worker'.pc = "save" /\ worker'.bars = P.bars
      BY <1>5, <2>1
    <2>3. RowsInv'
      BY <1>5, <1>8, <2>2 DEF RowsInv
    <2>4. P.bars[1].minute <= current'.minute
      <3>1. P.bars[1].minute + Len(P.bars) = P.current.minute + 1
        BY <1>8
      <3> QED
        BY <1>5, <1>8, <3>1
    <2>5. \A m : ~Announcing(m)' /\ ~Announcing(m)
      BY <1>2, <2>2 DEF Announcing
    <2>6. CASE client.exact
      <3>1. AheadInv /\ OrderInv /\ AgreeInv /\ ClosedInv
        BY <2>6 DEF StreamInv
      <3>2. AheadInv'
        <4>1. ASSUME NEW m \in Known
              PROVE  m <= current'.minute /\ m <= P.bars[1].minute
          <5>1. m \in Nat /\ m <= current.minute
            BY <3>1, ConstantTypes DEF AheadInv, Known
          <5> QED
            BY <1>5, <1>8, <2>4, <5>1
        <4> QED
          BY <1>2, <2>2, <4>1 DEF AheadInv, Known
      <3>3. OrderInv'
        BY <1>2, <3>1 DEF OrderInv, Known
      <3>4. AgreeInv'
        BY <1>2, <2>5, <3>1 DEF AgreeInv, Known, About, BarOf
      <3>5. ClosedInv'
        BY <1>2, <3>1 DEF ClosedInv, Stored
      <3> QED
        BY <1>2, <2>3, <3>2, <3>3, <3>4, <3>5 DEF StreamInv
    <2> QED
      BY <1>2, <2>3, <2>6 DEF StreamInv
  <1> QED
    BY <1>1, <1>4, <1>6, <1>7, <1>8, ProcessRows

\* _save_bar: the row is about to be announced; no bucket the client has
\* closed is touched.
LEMMA StreamSave ==
    ASSUME FeedInv, StreamInv, SaveBar PROVE StreamInv'
  <1> USE ConstantTypes
  <1>1. Busy /\ RowsInv /\ worker.pc = "save"
    BY DEF StreamInv, Busy, SaveBar
  <1>2. PICK r \in Rows : r = worker.bars[1]
    BY <1>1, RowFacts
  <1>3. /\ worker = [pc |-> worker.pc, bars |-> worker.bars]
        /\ Head(worker.bars) = r /\ r.minute \in Minutes
        /\ r.minute \in Nat /\ r.minute <= current.minute
        /\ current.minute \in Nat
    BY <1>1, <1>2, RowFacts
  <1>4. /\ bars' = [bars EXCEPT ![r.minute] =
              [status |-> r.status, volume |-> r.volume, origin |-> r.origin]]
        /\ UNCHANGED <<client, current, history>>
    BY <1>3 DEF SaveBar, socket
  <1>5. worker'.pc = "announce" /\ worker'.bars = worker.bars
    BY <1>3 DEF SaveBar
  <1>6. RowsInv'
    BY <1>1, <1>4, <1>5 DEF RowsInv, Busy
  <1>7. CASE client.exact
    <2>1. AheadInv /\ OrderInv /\ AgreeInv /\ ClosedInv /\ client \in Clients
      BY <1>7 DEF StreamInv
    <2>2. bars \in [Minutes -> Kept]
      BY DEF FeedInv, FeedShape
    <2>3. /\ bars'[r.minute].volume = r.volume
          /\ bars'[r.minute] # Missing
          /\ \A m \in Minutes \ {r.minute} : bars'[m] = bars[m]
      <3>1. bars'[r.minute] = [status |-> r.status, volume |-> r.volume,
                               origin |-> r.origin]
        BY <1>3, <1>4, <2>2
      <3>2. r.status # "none"
        BY DEF Rows
      <3>3. bars'[r.minute].status = r.status
        BY <3>1
      <3>4. Missing.status = "none"
        BY DEF Missing
      <3>5. bars'[r.minute].volume = r.volume
        BY <3>1
      <3> QED
        BY <1>3, <1>4, <2>2, <3>2, <3>3, <3>4, <3>5
    <2>4. Known' = Known \cup {r.minute}
      BY <1>3, <2>3 DEF Known
    <2>5. \A m \in Known : m \in Nat /\ m <= r.minute
      BY <1>1, <1>2, <2>1 DEF AheadInv, Known
    <2>6. AheadInv'
      BY <1>2, <1>3, <1>4, <1>5, <2>3, <2>4, <2>5 DEF AheadInv, Busy
    <2>7. OrderInv'
      BY <1>4, <2>1, <2>4 DEF OrderInv
    <2>8. AgreeInv'
      <3> SUFFICES ASSUME NEW m \in Known', Bucket(m) >= client.key,
                          ~Announcing(m)'
                   PROVE  (\/ \E i \in About(m) :
                                 /\ client.inbox[i] = BarOf(m)
                                 /\ \A j \in About(m) : j <= i
                           \/ About(m) = {} /\ BarOf(m) \in client.source)'
        BY <1>4 DEF AgreeInv
      <3>1. m # r.minute /\ m \in Known
        BY <1>2, <1>5, <2>4 DEF Announcing
      <3>2. ~Announcing(m)
        BY <1>1 DEF Announcing
      <3>3. About(m)' = About(m) /\ BarOf(m)' = BarOf(m)
        BY <1>4, <2>3, <3>1 DEF About, BarOf, Known
      <3> QED
        BY <1>4, <2>1, <3>1, <3>2, <3>3 DEF AgreeInv
    <2>9. ClosedInv'
      <3> SUFFICES ASSUME NEW b \in Buckets, client.closed[b] # 0
                   PROVE  /\ b < client.key
                          /\ client.closed[b] = Volume(Stored(b)')
        BY <1>4 DEF ClosedInv
      <3>1. b < client.key /\ client.closed[b] = Volume(Stored(b))
        BY <2>1 DEF ClosedInv
      <3>2. b \in Nat /\ client.key \in Nat
        BY <2>1, BucketFacts DEF Clients, Buckets
      <3>3. PICK x \in client.source : TRUE
        BY <2>1, <3>1, <3>2 DEF OrderInv
      <3>4. x.minute \in Known /\ Bucket(x.minute) = client.key
        BY <2>1, <3>3 DEF OrderInv
      <3>5. client.key <= Bucket(r.minute) /\ Bucket(r.minute) \in Nat
        BY <1>3, <2>5, <3>4, BucketFacts DEF Known
      <3>6. Bucket(r.minute) # b
        BY <3>1, <3>2, <3>5
      <3>7. Stored(b)' = Stored(b)
        BY <2>3, <3>6 DEF Stored
      <3> QED
        BY <3>1, <3>7
    <2> QED
      BY <1>4, <1>6, <2>6, <2>7, <2>8, <2>9 DEF StreamInv
  <1> QED
    BY <1>4, <1>6, <1>7 DEF StreamInv

\* BroadcastHub.publish: the message is last, or the client lost one.
LEMMA PublishedFacts ==
    ASSUME client \in Clients, NEW msg \in Shown \cup {Status}, NEW q,
           q = Published(msg)
    PROVE  /\ q \in Clients /\ q.on = client.on
           /\ q.exact => client.exact
           /\ q.exact /\ client.on =>
                 /\ q.inbox = Append(client.inbox, msg)
                 /\ q.key = client.key /\ q.source = client.source
                 /\ q.closed = client.closed
  <1> DEFINE Inboxes == Seq(Shown \cup {Status})
  <1>1. client.inbox \in Inboxes
    BY DEF Clients
  <1>2. Append(client.inbox, msg) \in Inboxes
    BY <1>1
  <1>3. Len(client.inbox) \in Nat
    BY <1>1
  <1>4. CASE ~client.on
    BY <1>4 DEF Published
  <1>5. CASE client.on /\ Len(client.inbox) < HubSize
    <2>1. q = [client EXCEPT !.inbox = Append(@, msg)]
      BY <1>5 DEF Published
    <2> QED
      BY <1>2, <2>1 DEF Clients
  <1>6. CASE client.on /\ ~(Len(client.inbox) < HubSize)
    <2>1. HubSize \in Nat /\ HubSize > 0
      BY FeedAssumption
    <2>2. client.inbox # <<>>
      BY <1>1, <1>3, <1>6, <2>1
    <2>3. Append(Tail(client.inbox), msg) \in Inboxes
      BY <1>1, <2>2
    <2>4. q = [client EXCEPT !.inbox = Append(Tail(@), msg), !.exact = FALSE]
      BY <1>6 DEF Published
    <2> QED
      BY <2>3, <2>4 DEF Clients
  <1> QED
    BY <1>4, <1>5, <1>6

\* A message joins those that wait: a heartbeat says nothing of a bar.
LEMMA StreamHeartbeat ==
    ASSUME FeedInv, StreamInv, Heartbeat PROVE StreamInv'
  <1>1. /\ client \in Clients /\ RowsInv /\ client.on /\ history
        /\ UNCHANGED <<worker, current, bars, history>>
    BY DEF StreamInv, Heartbeat
  <1>2. PICK q : q = Published(Status)
    OBVIOUS
  <1>3. client' = q
    BY <1>2 DEF Heartbeat
  <1>4. /\ q \in Clients /\ q.on = client.on
        /\ q.exact => client.exact
        /\ q.exact =>
              /\ q.inbox = Append(client.inbox, Status)
              /\ q.key = client.key /\ q.source = client.source
              /\ q.closed = client.closed
    BY <1>1, <1>2, PublishedFacts
  <1>5. RowsInv'
    BY <1>1 DEF RowsInv, Busy
  <1>6. CASE q.exact
    <2>1. AheadInv /\ OrderInv /\ AgreeInv /\ ClosedInv
      BY <1>4, <1>6 DEF StreamInv
    <2>2. PICK n \in Nat : n = Len(client.inbox)
      BY <1>1 DEF Clients
    <2>3. /\ DOMAIN client.inbox = 1..n /\ DOMAIN q.inbox = 1..(n + 1)
          /\ q.inbox[n + 1] = Status
          /\ \A i \in 1..n : q.inbox[i] = client.inbox[i]
      BY <1>1, <1>4, <1>6, <2>2 DEF Clients
    <2>4. AheadInv'
      BY <1>1, <2>1 DEF AheadInv, Known, Busy
    <2>5. \A i \in DOMAIN q.inbox : q.inbox[i] # Status =>
             i \in DOMAIN client.inbox /\ q.inbox[i] = client.inbox[i]
      BY <2>2, <2>3
    <2>6. OrderInv'
      <3>1. Known' = Known
        BY <1>1 DEF Known
      <3> QED
        BY <1>3, <1>4, <1>6, <2>1, <2>5, <3>1 DEF OrderInv
    <2>7. AgreeInv'
      <3>1. \A m \in Minutes : About(m)' = About(m)
        <4>1. \A m \in Minutes : Status.minute # m
          BY ConstantTypes DEF Status
        <4> QED
          BY <1>3, <2>2, <2>3, <4>1 DEF About
      <3>2. \A m \in Minutes : \A i \in About(m) : q.inbox[i] = client.inbox[i]
        BY <2>3 DEF About
      <3>3. \A m : Announcing(m)' <=> Announcing(m)
        BY <1>1 DEF Announcing
      <3>4. Known' = Known /\ \A m : BarOf(m)' = BarOf(m)
        BY <1>1 DEF Known, BarOf
      <3> SUFFICES ASSUME NEW m \in Known, Bucket(m) >= client.key,
                          ~Announcing(m)
                   PROVE  \/ \E i \in About(m) :
                                 /\ q.inbox[i] = BarOf(m)
                                 /\ \A j \in About(m) : j <= i
                          \/ About(m) = {} /\ BarOf(m) \in client.source
        BY <1>3, <1>4, <1>6, <3>1, <3>3, <3>4 DEF AgreeInv, Known
      <3> QED
        BY <2>1, <3>2 DEF AgreeInv, Known
    <2>8. ClosedInv'
      BY <1>1, <1>3, <1>4, <1>6, <2>1 DEF ClosedInv, Stored
    <2> QED
      BY <1>1, <1>3, <1>4, <1>5, <2>4, <2>6, <2>7, <2>8 DEF StreamInv
  <1> QED
    BY <1>1, <1>3, <1>4, <1>5, <1>6 DEF StreamInv

\* The row in hand goes to the hub; the worker goes on with the next one or,
\* when a listener raised, with nothing.
LEMMA StreamPublish ==
    ASSUME FeedInv, StreamInv, worker.pc = "announce", Announce \/ WorkerRaises
    PROVE  StreamInv'
  <1> USE ConstantTypes
  <1>1. /\ Busy /\ RowsInv /\ worker.pc = "announce" /\ client \in Clients
        /\ UNCHANGED <<current, bars, history>>
    BY DEF StreamInv, Busy, Announce, WorkerRaises
  <1>2. PICK r \in Rows : r = worker.bars[1]
    BY <1>1, RowFacts
  <1>3. PICK B \in Seq(Rows) : B = worker.bars
    BY <1>1, RowFacts
  <1>4. /\ Head(B) = r /\ r = B[1] /\ r.minute \in Minutes
        /\ r.minute \in Nat /\ r.minute <= current.minute
        /\ current.minute \in Nat
    BY <1>1, <1>2, <1>3, RowFacts
  <1>5. PICK L \in Nat : L = Len(B) /\ L > 0
    BY <1>1, <1>3, RowFacts
  <1>6. \A j \in 1..L : B[j].minute \in Nat
    <2>1. \A j \in 1..L : B[j] \in Rows
      BY <1>5
    <2>2. \A x \in Rows : x.minute \in Nat
      BY DEF Rows
    <2> QED
      BY <2>1, <2>2
  <1>7. PICK msg : msg = [minute |-> r.minute, volume |-> r.volume]
    OBVIOUS
  <1>8. msg \in Shown /\ msg.minute = r.minute /\ msg.volume = r.volume
        /\ msg # Status
    BY <1>4, <1>7 DEF Shown, Rows, Status
  <1>9. PICK q : q = Published(msg)
    OBVIOUS
  <1>10. client' = q
    BY <1>1, <1>3, <1>4, <1>7, <1>9 DEF Announce, WorkerRaises, Reached
  <1>11. /\ q \in Clients /\ q.on = client.on
         /\ q.exact => client.exact
         /\ q.exact /\ client.on =>
               /\ q.inbox = Append(client.inbox, msg)
               /\ q.key = client.key /\ q.source = client.source
               /\ q.closed = client.closed
    BY <1>1, <1>8, <1>9, PublishedFacts
  <1>12. \/ worker'.pc = "idle"
         \/ /\ worker'.pc = "save" /\ L > 1 /\ worker'.bars = Tail(B)
            /\ Len(Tail(B)) = L - 1
            /\ DOMAIN Tail(B) = 1..(L - 1)
            /\ \A j \in 1..(L - 1) : Tail(B)[j] = B[j + 1]
    <2>1. CASE worker' = Idle
      BY <2>1 DEF Idle
    <2>2. CASE worker' = [pc |-> "save", bars |-> Tail(B)] /\ L # 1
      <3>1. L > 1
        BY <1>5, <2>2
      <3>2. worker'.pc = "save" /\ worker'.bars = Tail(B)
        BY <2>2
      <3>3. /\ Len(Tail(B)) = L - 1 /\ DOMAIN Tail(B) = 1..(L - 1)
            /\ \A j \in 1..(L - 1) : Tail(B)[j] = B[j + 1]
        BY <1>5, <3>1
      <3> QED
        BY <3>1, <3>2, <3>3
    <2> QED
      BY <1>3, <1>5, <2>1, <2>2 DEF Announce, WorkerRaises
  <1>13. \A j \in 1..L : B[j].minute + L = current.minute + j
    BY <1>1, <1>3, <1>5 DEF RowsInv
  <1>14. RowsInv' /\ (Busy' => worker'.bars[1].minute \in Nat
                               /\ r.minute < worker'.bars[1].minute)
    <2>1. CASE worker'.pc = "idle"
      BY <2>1 DEF RowsInv, Busy
    <2>2. CASE /\ worker'.pc = "save" /\ L > 1 /\ worker'.bars = Tail(B)
               /\ Len(Tail(B)) = L - 1
               /\ DOMAIN Tail(B) = 1..(L - 1)
               /\ \A j \in 1..(L - 1) : Tail(B)[j] = B[j + 1]
      <3>2. ASSUME NEW j \in 1..(L - 1)
            PROVE  Tail(B)[j].minute + (L - 1) = current.minute + j
        <4>1. j + 1 \in 1..L
          BY <1>5
        <4>2. B[j + 1].minute + L = current.minute + (j + 1)
          BY <1>13, <4>1
        <4>3. PICK v \in Nat : v = B[j + 1].minute /\ v = Tail(B)[j].minute
          BY <1>6, <2>2, <4>1
        <4>4. PICK now \in Nat : now = current.minute
          BY <1>4
        <4>5. v + L = now + (j + 1)
          BY <4>2, <4>3, <4>4
        <4>6. v + (L - 1) = now + j
          BY <4>5
        <4> QED
          BY <4>3, <4>4, <4>6
      <3>3. Tail(B)[1].minute \in Nat /\ r.minute < Tail(B)[1].minute
        <4>1. 1 \in 1..L /\ 2 \in 1..L /\ 1 \in 1..(L - 1)
          BY <1>5, <2>2
        <4>2. B[1].minute + L = current.minute + 1
          BY <1>13, <4>1
        <4>3. B[2].minute + L = current.minute + 2
          BY <1>13, <4>1
        <4>4. Tail(B)[1] = B[2] /\ B[2].minute \in Nat
          BY <1>6, <2>2, <4>1
        <4>5. PICK now \in Nat, v \in Nat, w \in Nat :
                 now = current.minute /\ v = B[1].minute /\ w = B[2].minute
          BY <1>6, <4>1, <1>4
        <4>6. v + L = now + 1 /\ w + L = now + 2
          BY <4>2, <4>3, <4>5
        <4>7. v < w
          BY <4>6
        <4> QED
          BY <1>4, <4>4, <4>5, <4>7
      <3> QED
        BY <1>1, <2>2, <3>2, <3>3 DEF RowsInv
    <2> QED
      BY <1>12, <2>1, <2>2
  <1>15. CASE q.exact
    <2>1. /\ AheadInv /\ OrderInv /\ AgreeInv /\ ClosedInv /\ client.on
      BY <1>11, <1>15 DEF StreamInv
    <2>2. PICK n \in Nat : n = Len(client.inbox)
      BY <1>1 DEF Clients
    <2>3. /\ DOMAIN client.inbox = 1..n /\ DOMAIN q.inbox = 1..(n + 1)
          /\ q.inbox[n + 1] = msg
          /\ \A i \in 1..n : q.inbox[i] = client.inbox[i]
      BY <1>1, <1>11, <1>15, <2>1, <2>2 DEF Clients
    <2>4. Known' = Known /\ \A m : BarOf(m)' = BarOf(m)
      BY <1>1 DEF Known, BarOf
    <2>5. r.minute \in Known /\ bars[r.minute].volume = r.volume
      BY <1>1, <1>2, <2>1 DEF AheadInv
    <2>6. \A m \in Known : m \in Nat /\ m <= r.minute /\ m <= current.minute
      BY <1>1, <1>2, <2>1 DEF AheadInv, Known
    <2>7. AheadInv'
      <3>1. worker'.pc # "announce"
        BY <1>12
      <3>2. ASSUME NEW m \in Known, Busy' PROVE m <= worker'.bars[1].minute
        BY <1>4, <1>14, <2>6, <3>2
      <3> QED
        BY <1>1, <2>4, <2>6, <3>1, <3>2 DEF AheadInv
    <2>8. OrderInv'
      <3>1. ASSUME NEW i \in 1..(n + 1), q.inbox[i] # Status
            PROVE  /\ q.inbox[i].minute \in Known
                   /\ \A j \in 1..(n + 1) :
                         j > i /\ q.inbox[j] # Status
                            => q.inbox[i].minute <= q.inbox[j].minute
                   /\ \A x \in client.source : x.minute <= q.inbox[i].minute
        <4>1. CASE i = n + 1
          <5>1. q.inbox[i].minute = r.minute
            BY <1>8, <2>3, <4>1
          <5>2. \A x \in client.source : x.minute \in Known
            BY <2>1 DEF OrderInv
          <5> QED
            BY <2>5, <2>6, <4>1, <5>1, <5>2
        <4>2. CASE i \in 1..n
          <5>1. /\ client.inbox[i].minute \in Known
                /\ \A j \in 1..n :
                      j > i /\ client.inbox[j] # Status
                         => client.inbox[i].minute <= client.inbox[j].minute
                /\ \A x \in client.source : x.minute <= client.inbox[i].minute
            BY <2>1, <2>3, <3>1, <4>2 DEF OrderInv
          <5>2. client.inbox[i].minute <= r.minute
            BY <2>6, <5>1
          <5>3. q.inbox[n + 1].minute = r.minute
            BY <1>8, <2>3
          <5>4. ASSUME NEW j \in 1..(n + 1), j > i, q.inbox[j] # Status
                PROVE  q.inbox[i].minute <= q.inbox[j].minute
            <6>1. CASE j = n + 1
              BY <2>3, <4>2, <5>2, <5>3, <6>1
            <6>2. CASE j \in 1..n
              BY <2>3, <4>2, <5>1, <5>4, <6>2
            <6> QED
              BY <6>1, <6>2
          <5> QED
            BY <2>3, <4>2, <5>1, <5>4
        <4> QED
          BY <4>1, <4>2
      <3> QED
        BY <1>10, <1>11, <1>15, <2>1, <2>3, <2>4, <3>1 DEF OrderInv
    <2>9. AgreeInv'
      <3>1. \A m : ~Announcing(m)'
        BY <1>12 DEF Announcing
      <3>2. \A m : About(m)' = {i \in 1..(n + 1) : q.inbox[i].minute = m}
        BY <1>10, <2>3 DEF About
      <3> SUFFICES ASSUME NEW m \in Known, Bucket(m) >= client.key
                   PROVE  \/ \E i \in About(m)' :
                                 /\ q.inbox[i] = BarOf(m)
                                 /\ \A j \in About(m)' : j <= i
                          \/ About(m)' = {} /\ BarOf(m) \in client.source
        BY <1>10, <1>11, <1>15, <2>1, <2>4 DEF AgreeInv
      <3>3. CASE m = r.minute
        <4>1. msg = BarOf(m)
          BY <1>7, <2>5, <3>3 DEF BarOf
        <4>2. n + 1 \in About(m)'
          BY <1>8, <2>3, <3>2, <3>3
        <4> QED
          BY <2>3, <3>2, <4>1, <4>2
      <3>4. CASE m # r.minute
        <4>1. ~Announcing(m)
          BY <1>2, <3>4 DEF Announcing
        <4>2. About(m)' = About(m)
          <5>1. \A i \in 1..(n + 1) : i \in 1..n \/ i = n + 1
            BY <2>2
          <5>2. 1..n \subseteq 1..(n + 1) /\ q.inbox[n + 1].minute # m
            BY <1>8, <2>2, <2>3, <3>4
          <5>3. About(m) = {i \in 1..n : q.inbox[i].minute = m}
            BY <2>3 DEF About
          <5> QED
            BY <3>2, <5>1, <5>2, <5>3
        <4>3. \A i \in About(m) : q.inbox[i] = client.inbox[i]
          BY <2>3 DEF About
        <4> QED
          BY <2>1, <4>1, <4>2, <4>3 DEF AgreeInv
      <3> QED
        BY <3>3, <3>4
    <2>10. ClosedInv'
      BY <1>1, <1>10, <1>11, <1>15, <2>1 DEF ClosedInv, Stored
    <2> QED
      BY <1>1, <1>10, <1>11, <1>14, <2>1, <2>7, <2>8, <2>9, <2>10 DEF StreamInv
  <1> QED
    BY <1>1, <1>10, <1>11, <1>14, <1>15 DEF StreamInv

\* market_socket: a client is seeded with the newest bucket of the store, and
\* what the feed will say is not behind it.
LEMMA StreamConnect ==
    ASSUME FeedInv, StreamInv, Connect PROVE StreamInv'
  <1> USE ConstantTypes
  <1> DEFINE b == IF Known = {} THEN 0 ELSE Bucket(Max(Known))
  <1>1. /\ worker = Idle /\ history /\ UNCHANGED <<worker, current, bars, history>>
        /\ RowsInv
    BY DEF Connect, StreamInv
  <1>2. client' = [Offline EXCEPT !.on = TRUE, !.key = b, !.source = Stored(b),
                     !.exact = \A m \in Known : m <= current.minute]
    BY DEF Connect, Known
  <1>3. bars \in [Minutes -> Kept]
    BY DEF FeedInv, FeedShape
  <1>4. Known \in SUBSET Minutes
    BY DEF Known
  <1>5. b \in Nat /\ \A m \in Known : Bucket(m) <= b /\ Bucket(m) \in Nat
    <2>1. CASE Known = {}
      BY <2>1
    <2>2. CASE Known # {}
      <3>1. Max(Known) \in Known /\ \A m \in Known : Max(Known) >= m
        BY <1>4, <2>2, NewestMinute
      <3>2. PICK top \in Minutes : top = Max(Known)
        BY <1>4, <3>1
      <3>3. b = Bucket(top)
        BY <2>2, <3>2
      <3>4. \A m \in Known : m \in Minutes /\ m <= top
        BY <1>4, <3>1, <3>2
      <3> HIDE DEF b
      <3> QED
        BY <3>3, <3>4, BucketFacts
    <2> QED
      BY <2>1, <2>2
  <1>6. /\ \A x \in Stored(b) : /\ x.minute \in Known /\ x = BarOf(x.minute)
                                /\ Bucket(x.minute) = b
        /\ \A m \in Known : Bucket(m) = b => BarOf(m) \in Stored(b)
        /\ Stored(b) \in SUBSET Shown
    <2> HIDE DEF b
    <2>1. Stored(b) = {BarOf(m) : m \in {n \in Known : Bucket(n) = b}}
      BY DEF Stored, BarOf, Known
    <2>2. \A m \in Known : BarOf(m).minute = m /\ BarOf(m) \in Shown
      BY <1>3, <1>4 DEF BarOf, Shown, Kept
    <2> QED
      BY <2>1, <2>2
  <1>7. Known = {} => b = 0
    OBVIOUS
  <1>8. Known # {} => Stored(b) # {}
    <2> SUFFICES ASSUME Known # {} PROVE Stored(b) # {}
      OBVIOUS
    <2>1. Max(Known) \in Known /\ b = Bucket(Max(Known))
      BY <1>4, NewestMinute
    <2> HIDE DEF b
    <2> QED
      BY <1>6, <2>1
  <1> HIDE DEF b
  <1>9. /\ client' \in Clients
        /\ client'.on = TRUE /\ client'.key = b /\ client'.source = Stored(b)
        /\ client'.inbox = <<>> /\ client'.closed = [k \in Buckets |-> 0]
        /\ client'.exact = \A m \in Known : m <= current.minute
    <2>1. Offline.inbox = <<>> /\ Offline.closed = [k \in Buckets |-> 0]
      BY DEF Offline
    <2>2. PICK e \in BOOLEAN : e = \A m \in Known : m <= current.minute
      OBVIOUS
    <2>3. client' = [Offline EXCEPT !.on = TRUE, !.key = b,
                       !.source = Stored(b), !.exact = e]
      BY <1>2, <2>2
    <2>4. /\ client' \in Clients
          /\ client'.on = TRUE /\ client'.key = b /\ client'.source = Stored(b)
          /\ client'.inbox = Offline.inbox /\ client'.closed = Offline.closed
          /\ client'.exact = e
      BY <1>5, <1>6, <2>3, OfflineShape DEF Clients
    <2> QED
      BY <2>1, <2>2, <2>4
  <1>10. RowsInv' /\ worker'.pc = "idle"
    BY <1>1 DEF RowsInv, Busy, Idle
  <1>11. Known' = Known /\ \A m : BarOf(m)' = BarOf(m)
    BY <1>1 DEF Known, BarOf
  <1>12. DOMAIN client'.inbox = {}
    BY <1>9
  <1>13. CASE client'.exact
    <2>1. AheadInv'
      BY <1>1, <1>9, <1>10, <1>11, <1>13 DEF AheadInv, Busy
    <2>2. OrderInv'
      BY <1>6, <1>7, <1>8, <1>9, <1>11, <1>12 DEF OrderInv
    <2>3. AgreeInv'
      <3>1. \A m : About(m)' = {}
        BY <1>12 DEF About
      <3>2. ASSUME NEW m \in Known, Bucket(m) >= b PROVE BarOf(m) \in Stored(b)
        BY <1>5, <1>6, <3>2
      <3> QED
        BY <1>9, <1>11, <3>1, <3>2 DEF AgreeInv
    <2>4. ClosedInv'
      BY <1>9 DEF ClosedInv
    <2> QED
      BY <1>1, <1>9, <1>10, <2>1, <2>2, <2>3, <2>4 DEF StreamInv
  <1> QED
    BY <1>1, <1>9, <1>10, <1>13 DEF StreamInv

\* What the handler makes of its first message.
LEMMA ReceivedFacts ==
    ASSUME client \in Clients, client.inbox # <<>>, NEW n \in Nat,
           n + 1 = Len(client.inbox), NEW msg, msg = client.inbox[1], Receive
    PROVE  /\ client' \in Clients
           /\ client'.on = client.on /\ client'.exact = client.exact
           /\ DOMAIN client.inbox = 1..(n + 1) /\ DOMAIN client'.inbox = 1..n
           /\ \A i \in 1..n : client'.inbox[i] = client.inbox[i + 1]
           /\ msg = Status => UNCHANGED <<client.key, client.source, client.closed>>
           /\ msg # Status =>
                 /\ msg \in Shown
                 /\ client'.key = Bucket(msg.minute)
                 /\ client.source = {} \/ Bucket(msg.minute) = client.key =>
                       /\ client'.source =
                            {x \in client.source : x.minute # msg.minute} \cup {msg}
                       /\ client'.closed = client.closed
                 /\ client.source # {} /\ Bucket(msg.minute) # client.key =>
                       /\ client'.source = {msg}
                       /\ client'.closed =
                            [k \in Buckets |-> IF k = client.key
                                               THEN Volume(client.source)
                                               ELSE client.closed[k]]
  <1>1. client.inbox \in Seq(Shown \cup {Status})
    BY DEF Clients
  <1>2. /\ DOMAIN client.inbox = 1..(n + 1) /\ msg = Head(client.inbox)
        /\ msg \in Shown \cup {Status}
        /\ Tail(client.inbox) \in Seq(Shown \cup {Status})
        /\ DOMAIN Tail(client.inbox) = 1..n
        /\ \A i \in 1..n : Tail(client.inbox)[i] = client.inbox[i + 1]
    BY <1>1
  <1>3. PICK rest : rest = [client EXCEPT !.inbox = Tail(@)]
    OBVIOUS
  <1>4. /\ rest \in Clients /\ rest.inbox = Tail(client.inbox)
        /\ rest.on = client.on /\ rest.key = client.key
        /\ rest.source = client.source /\ rest.closed = client.closed
        /\ rest.exact = client.exact
    BY <1>2, <1>3 DEF Clients
  <1>5. CASE msg = Status
    <2>1. client' = rest
      BY <1>2, <1>3, <1>5 DEF Receive
    <2> QED
      BY <1>2, <1>4, <1>5, <2>1
  <1>6. CASE msg # Status
    <2>1. client' = Push(rest, msg) /\ msg \in Shown
      BY <1>2, <1>3, <1>6 DEF Receive
    <2>2. PICK b \in Nat : b = Bucket(msg.minute)
      BY <2>1, BucketFacts DEF Shown
    <2> DEFINE ends == rest.source # {} /\ b # rest.key
               kept == IF ends THEN {} ELSE rest.source
               S == {x \in kept : x.minute # msg.minute} \cup {msg}
               C == [k \in Buckets |-> IF ends /\ k = rest.key
                                       THEN Volume(rest.source)
                                       ELSE rest.closed[k]]
    <2>3. client' = [rest EXCEPT !.key = b, !.source = S, !.closed = C]
      BY <2>1, <2>2 DEF Push
    <2>4. rest.source \in SUBSET Shown /\ rest.closed \in [Buckets -> Volumes]
      BY <1>4 DEF Clients
    <2>5. S \in SUBSET Shown
      BY <2>1, <2>4
    <2>6. C \in [Buckets -> Volumes]
      <3>1. Volume(rest.source) \in Volumes
        BY <2>4 DEF Volumes
      <3> QED
        BY <2>4, <3>1
    <2>7. /\ client.source = {} \/ b = client.key =>
                /\ S = {x \in client.source : x.minute # msg.minute} \cup {msg}
                /\ C = client.closed
          /\ client.source # {} /\ b # client.key =>
                /\ S = {msg}
                /\ C = [k \in Buckets |-> IF k = client.key
                                          THEN Volume(client.source)
                                          ELSE client.closed[k]]
      <3>1. CASE client.source = {} \/ b = client.key
        <4>1. ~ends
          BY <1>4, <3>1
        <4> HIDE DEF ends
        <4> QED
          BY <1>4, <2>4, <3>1, <4>1
      <3>2. CASE client.source # {} /\ b # client.key
        <4>1. ends
          BY <1>4, <3>2
        <4> HIDE DEF ends
        <4> QED
          BY <1>4, <2>4, <3>2, <4>1
      <3> QED
        BY <3>1, <3>2
    <2> HIDE DEF S, C
    <2>8. /\ client' \in Clients /\ client'.key = b /\ client'.source = S
          /\ client'.closed = C /\ client'.inbox = rest.inbox
          /\ client'.on = rest.on /\ client'.exact = rest.exact
      BY <1>4, <2>2, <2>3, <2>5, <2>6 DEF Clients
    <2> QED
      <3>1. /\ client' \in Clients
            /\ client'.on = client.on /\ client'.exact = client.exact
            /\ client'.inbox = Tail(client.inbox)
        BY <1>4, <2>8
      <3>2. /\ client'.key = Bucket(msg.minute) /\ msg \in Shown
            /\ client'.source = S /\ client'.closed = C
        BY <2>1, <2>2, <2>8
      <3>3. /\ DOMAIN client'.inbox = 1..n
            /\ \A i \in 1..n : client'.inbox[i] = client.inbox[i + 1]
        BY <1>2, <3>1
      <3> QED
        BY <1>2, <1>6, <2>2, <2>7, <3>1, <3>2, <3>3
  <1> QED
    BY <1>5, <1>6

\* TimeframeStreamAggregator.push: a bar of a later bucket comes only after the
\* last word on every minute of the bucket it closes.
LEMMA StreamReceive ==
    ASSUME FeedInv, StreamInv, Receive PROVE StreamInv'
  <1> USE ConstantTypes
  <1>1. /\ client \in Clients /\ client.inbox # <<>> /\ worker = Idle
        /\ UNCHANGED <<worker, current, bars, history>>
        /\ client.inbox \in Seq(Shown \cup {Status}) /\ client.key \in Nat
        /\ client.source \in SUBSET Shown
    BY DEF StreamInv, Receive, Clients
  <1>2. PICK n \in Nat : n + 1 = Len(client.inbox)
    <2>1. Len(client.inbox) \in Nat /\ Len(client.inbox) > 0
      BY <1>1
    <2>2. Len(client.inbox) - 1 \in Nat
          /\ (Len(client.inbox) - 1) + 1 = Len(client.inbox)
      BY <2>1
    <2> QED
      BY <2>2
  <1>3. PICK msg : msg = client.inbox[1]
    OBVIOUS
  <1>4. PICK q : q = client'
    OBVIOUS
  <1>5. /\ q \in Clients
        /\ q.on = client.on /\ q.exact = client.exact
        /\ DOMAIN client.inbox = 1..(n + 1) /\ DOMAIN q.inbox = 1..n
        /\ \A i \in 1..n : q.inbox[i] = client.inbox[i + 1]
    BY <1>1, <1>2, <1>3, <1>4, ReceivedFacts
  <1>6. msg = Status => /\ q.key = client.key /\ q.source = client.source
                        /\ q.closed = client.closed
    BY <1>1, <1>2, <1>3, <1>4, ReceivedFacts
  <1>7. msg # Status =>
           /\ msg \in Shown
           /\ q.key = Bucket(msg.minute)
           /\ client.source = {} \/ Bucket(msg.minute) = client.key =>
                 /\ q.source =
                      {x \in client.source : x.minute # msg.minute} \cup {msg}
                 /\ q.closed = client.closed
           /\ client.source # {} /\ Bucket(msg.minute) # client.key =>
                 /\ q.source = {msg}
                 /\ q.closed = [k \in Buckets |-> IF k = client.key
                                                  THEN Volume(client.source)
                                                  ELSE client.closed[k]]
    BY <1>1, <1>2, <1>3, <1>4, ReceivedFacts
  <1>8. RowsInv' /\ (q.on => history')
    BY <1>1, <1>5 DEF StreamInv, RowsInv, Busy
  <1>9. Known' = Known /\ \A m : BarOf(m)' = BarOf(m)
    BY <1>1 DEF Known, BarOf
  <1>10. \A m : ~Announcing(m) /\ ~Announcing(m)'
    BY <1>1 DEF Announcing, Idle
  <1>11. \A m : About(m)' = {i \in 1..n : client.inbox[i + 1].minute = m}
    <2>1. \A m : About(m)' = {i \in 1..n : q.inbox[i].minute = m}
      BY <1>4, <1>5 DEF About
    <2> QED
      BY <1>5, <2>1
  <1>12. ASSUME NEW i \in 1..n PROVE i + 1 \in 1..(n + 1) /\ i + 1 > 1
    BY <1>2
  <1>13. \A m : /\ \A j \in About(m)' : j \in 1..n /\ j + 1 \in About(m)
                /\ \A k \in 1..n : k + 1 \in About(m) => k \in About(m)'
    <2>1. \A m : About(m) = {i \in 1..(n + 1) : client.inbox[i].minute = m}
      BY <1>5 DEF About
    <2> QED
      BY <1>11, <1>12, <2>1
  <1>14. CASE client.exact
    <2>1. client.on /\ AheadInv /\ OrderInv /\ AgreeInv /\ ClosedInv
      BY <1>14 DEF StreamInv
    <2>2. AheadInv'
      BY <1>1, <1>9, <2>1 DEF AheadInv, Busy
    <2>3. \A m \in Known : m \in Minutes /\ m \in Nat /\ Bucket(m) \in Nat
      BY BucketFacts DEF Known
    <2>4. \A i \in 1..n : q.inbox[i] # Status =>
             /\ q.inbox[i].minute \in Known
             /\ \A j \in 1..n : j > i /\ q.inbox[j] # Status
                   => q.inbox[i].minute <= q.inbox[j].minute
             /\ \A x \in client.source : x.minute <= q.inbox[i].minute
      <3> SUFFICES ASSUME NEW i \in 1..n, q.inbox[i] # Status
                   PROVE  /\ q.inbox[i].minute \in Known
                          /\ \A j \in 1..n : j > i /\ q.inbox[j] # Status
                                => q.inbox[i].minute <= q.inbox[j].minute
                          /\ \A x \in client.source :
                                x.minute <= q.inbox[i].minute
        OBVIOUS
      <3>1. q.inbox[i] = client.inbox[i + 1] /\ i + 1 \in DOMAIN client.inbox
        BY <1>5, <1>12
      <3>2. /\ client.inbox[i + 1].minute \in Known
            /\ \A j \in DOMAIN client.inbox :
                  j > i + 1 /\ client.inbox[j] # Status
                     => client.inbox[i + 1].minute <= client.inbox[j].minute
            /\ \A x \in client.source : x.minute <= client.inbox[i + 1].minute
        BY <2>1, <3>1 DEF OrderInv
      <3>3. ASSUME NEW j \in 1..n, j > i, q.inbox[j] # Status
            PROVE  q.inbox[i].minute <= q.inbox[j].minute
        <4>1. q.inbox[j] = client.inbox[j + 1] /\ j + 1 \in DOMAIN client.inbox
              /\ j + 1 > i + 1
          BY <1>5, <1>12, <3>3
        <4> QED
          BY <3>1, <3>2, <3>3, <4>1
      <3> QED
        BY <3>1, <3>2, <3>3
    <2>5. \A x \in client.source :
             /\ x.minute \in Known /\ Bucket(x.minute) = client.key
             /\ \A y \in client.source : x.minute = y.minute => x = y
      BY <2>1 DEF OrderInv
    <2>6. CASE msg = Status
      <3>1. OrderInv'
        BY <1>4, <1>5, <1>6, <1>9, <2>1, <2>4, <2>5, <2>6 DEF OrderInv
      <3>2. AgreeInv'
        <4> SUFFICES ASSUME NEW m \in Known, Bucket(m) >= client.key
                     PROVE  \/ \E i \in About(m)' :
                                   /\ q.inbox[i] = BarOf(m)
                                   /\ \A j \in About(m)' : j <= i
                            \/ About(m)' = {} /\ BarOf(m) \in client.source
          BY <1>4, <1>6, <1>9, <2>6 DEF AgreeInv
        <4>1. msg.minute # m
          BY <2>3, <2>6 DEF Status
        <4>2. CASE \E i \in About(m) : /\ client.inbox[i] = BarOf(m)
                                       /\ \A j \in About(m) : j <= i
          <5>1. PICK i \in About(m) : /\ client.inbox[i] = BarOf(m)
                                      /\ \A j \in About(m) : j <= i
            BY <4>2
          <5>2. i \in 1..(n + 1) /\ i # 1
            BY <1>3, <1>5, <4>1, <5>1 DEF About
          <5>3. PICK k \in 1..n : i = k + 1
            <6>1. i - 1 \in 1..n /\ i = (i - 1) + 1
              BY <1>2, <5>2
            <6> QED
              BY <6>1
          <5>4. k \in About(m)' /\ q.inbox[k] = BarOf(m)
            BY <1>5, <1>13, <5>1, <5>3
          <5>5. ASSUME NEW j \in About(m)' PROVE j <= k
            <6>1. j \in 1..n /\ j + 1 \in About(m)
              BY <1>13
            <6> QED
              BY <5>1, <5>3, <6>1
          <5> QED
            BY <5>4, <5>5
        <4>3. CASE About(m) = {} /\ BarOf(m) \in client.source
          <5>1. About(m)' = {}
            BY <1>13, <4>3
          <5> QED
            BY <4>3, <5>1
        <4> QED
          BY <1>10, <2>1, <4>2, <4>3 DEF AgreeInv
      <3>3. ClosedInv'
        BY <1>1, <1>4, <1>6, <2>1, <2>6 DEF ClosedInv, Stored
      <3> QED
        BY <1>1, <1>4, <1>5, <1>8, <2>1, <2>2, <3>1, <3>2, <3>3 DEF StreamInv
    <2>7. CASE msg # Status
      <3>1. /\ msg \in Shown /\ q.key = Bucket(msg.minute)
            /\ msg.minute \in Known /\ msg.minute \in Minutes
            /\ msg.minute \in Nat
            /\ \A x \in client.source : x.minute <= msg.minute
            /\ \A j \in 1..n : q.inbox[j] # Status =>
                  msg.minute <= q.inbox[j].minute
        <4>1. 1 \in DOMAIN client.inbox
          BY <1>2, <1>5
        <4>2. /\ msg.minute \in Known
              /\ \A j \in DOMAIN client.inbox :
                    j > 1 /\ client.inbox[j] # Status
                       => msg.minute <= client.inbox[j].minute
              /\ \A x \in client.source : x.minute <= msg.minute
          BY <1>3, <2>1, <2>7, <4>1 DEF OrderInv
        <4> QED
          BY <1>5, <1>7, <1>12, <2>3, <2>7, <4>2
      <3>2. client.key <= q.key /\ q.key \in Nat
        <4>1. CASE client.source = {}
          BY <2>1, <3>1, <2>3, <4>1 DEF OrderInv
        <4>2. CASE client.source # {}
          <5>1. PICK x \in client.source : TRUE
            BY <4>2
          <5>2. /\ x.minute \in Minutes /\ Bucket(x.minute) = client.key
                /\ x.minute <= msg.minute
            BY <2>3, <2>5, <3>1, <5>1
          <5> QED
            BY <3>1, <5>2, BucketFacts
        <4> QED
          BY <4>1, <4>2
      <3> DEFINE stays == client.source = {} \/ Bucket(msg.minute) = client.key
      <3>3. /\ msg \in q.source
            /\ \A x \in q.source : \/ x = msg
                                   \/ /\ stays /\ x \in client.source
                                      /\ x.minute # msg.minute
            /\ stays => \A x \in client.source :
                           x.minute # msg.minute => x \in q.source
        BY <1>7, <2>7
      <3>4. OrderInv'
        <4>1. ASSUME NEW i \in 1..n, q.inbox[i] # Status, NEW x \in q.source
              PROVE  x.minute <= q.inbox[i].minute
          BY <2>4, <3>1, <3>3, <4>1
        <4>2. ASSUME NEW x \in q.source
              PROVE  /\ x.minute \in Known /\ Bucket(x.minute) = q.key
                     /\ \A y \in q.source : x.minute = y.minute => x = y
          BY <2>5, <3>1, <3>3
        <4> QED
          BY <1>4, <1>5, <1>9, <2>4, <3>3, <4>1, <4>2 DEF OrderInv
      <3>5. \A m \in Known : Bucket(m) >= client.key =>
               \/ \E i \in About(m)' : /\ q.inbox[i] = BarOf(m)
                                       /\ \A j \in About(m)' : j <= i
               \/ About(m)' = {} /\ msg = BarOf(m)
               \/ /\ About(m)' = {} /\ About(m) = {}
                  /\ BarOf(m) \in client.source /\ msg.minute # m
        <4> SUFFICES ASSUME NEW m \in Known, Bucket(m) >= client.key
                     PROVE  \/ \E i \in About(m)' :
                                   /\ q.inbox[i] = BarOf(m)
                                   /\ \A j \in About(m)' : j <= i
                            \/ About(m)' = {} /\ msg = BarOf(m)
                            \/ /\ About(m)' = {} /\ About(m) = {}
                               /\ BarOf(m) \in client.source /\ msg.minute # m
          OBVIOUS
        <4>1. CASE \E i \in About(m) : /\ client.inbox[i] = BarOf(m)
                                       /\ \A j \in About(m) : j <= i
          <5>1. PICK i \in About(m) : /\ client.inbox[i] = BarOf(m)
                                      /\ \A j \in About(m) : j <= i
            BY <4>1
          <5>2. i \in 1..(n + 1)
            BY <1>5, <5>1 DEF About
          <5>3. ASSUME NEW j \in About(m)'
                PROVE  j \in 1..n /\ j + 1 \in About(m) /\ j + 1 <= i
            <6>1. j \in 1..n /\ j + 1 \in About(m)
              BY <1>13
            <6> QED
              BY <5>1, <6>1
          <5>4. CASE i = 1
            <6>1. About(m)' = {}
              BY <1>2, <5>3, <5>4
            <6> QED
              BY <1>3, <5>1, <5>4, <6>1
          <5>5. CASE i # 1
            <6>1. PICK k \in 1..n : i = k + 1
              <7>1. i - 1 \in 1..n /\ i = (i - 1) + 1
                BY <1>2, <5>2, <5>5
              <7> QED
                BY <7>1
            <6>2. k \in About(m)' /\ q.inbox[k] = BarOf(m)
              BY <1>5, <1>13, <5>1, <6>1
            <6>3. ASSUME NEW j \in About(m)' PROVE j <= k
              BY <5>3, <6>1
            <6> QED
              BY <6>2, <6>3
          <5> QED
            BY <5>4, <5>5
        <4>2. CASE About(m) = {} /\ BarOf(m) \in client.source
          <5>1. About(m)' = {}
            BY <1>13, <4>2
          <5>2. msg.minute # m
            BY <1>2, <1>3, <1>5, <4>2 DEF About
          <5> QED
            BY <4>2, <5>1, <5>2
        <4> QED
          BY <1>10, <2>1, <4>1, <4>2 DEF AgreeInv
      <3>6. AgreeInv'
        <4> SUFFICES ASSUME NEW m \in Known, Bucket(m) >= q.key
                     PROVE  \/ \E i \in About(m)' :
                                   /\ q.inbox[i] = BarOf(m)
                                   /\ \A j \in About(m)' : j <= i
                            \/ About(m)' = {} /\ BarOf(m) \in q.source
          BY <1>4, <1>9 DEF AgreeInv
        <4>1. Bucket(m) >= client.key
          BY <1>1, <2>3, <3>2
        <4>2. BarOf(m).minute = m
          BY DEF BarOf
        <4>3. CASE BarOf(m) \in client.source
          <5>1. Bucket(m) = client.key
            BY <2>5, <4>2, <4>3
          <5>2. stays
            BY <1>1, <3>1, <3>2, <5>1
          <5> QED
            BY <3>3, <3>5, <4>1, <4>2, <4>3, <5>2
        <4> QED
          BY <3>3, <3>5, <4>1, <4>3
      <3>7. ClosedInv'
        <4> SUFFICES ASSUME NEW b \in Buckets, q.closed[b] # 0
                     PROVE  b < q.key /\ q.closed[b] = Volume(Stored(b))
          BY <1>1, <1>4 DEF ClosedInv, Stored
        <4>1. b \in Nat
          BY BucketFacts DEF Buckets
        <4>2. ASSUME client.closed[b] # 0, q.closed[b] = client.closed[b]
              PROVE  b < q.key /\ q.closed[b] = Volume(Stored(b))
          BY <1>1, <2>1, <3>2, <4>1, <4>2 DEF ClosedInv
        <4>3. CASE stays
          BY <1>7, <2>7, <4>2, <4>3
        <4>4. CASE ~stays /\ b # client.key
          BY <1>7, <2>7, <4>2, <4>4
        <4>5. CASE ~stays /\ b = client.key
          <5>1. b < q.key
            BY <1>1, <3>1, <3>2, <4>5
          <5>2. q.closed[b] = Volume(client.source)
            BY <1>7, <2>7, <4>5
          <5>3. ASSUME NEW m \in Known, Bucket(m) = b
                PROVE  BarOf(m) \in client.source
            <6>1. m < msg.minute
              BY <2>3, <3>1, <3>2, <5>1, <5>3, BucketFacts
            <6>2. About(m)' = {}
              <7> SUFFICES ASSUME NEW i \in About(m)' PROVE FALSE
                OBVIOUS
              <7>1. i \in 1..n /\ q.inbox[i].minute = m
                BY <1>5, <1>11
              <7>2. q.inbox[i] # Status
                BY <2>3, <7>1 DEF Status
              <7> QED
                BY <2>3, <3>1, <6>1, <7>1, <7>2
            <6>3. msg # BarOf(m)
              BY <2>3, <3>1, <6>1 DEF BarOf
            <6>4. Bucket(m) >= client.key
              BY <1>1, <4>5, <5>3
            <6> QED
              BY <3>5, <6>2, <6>3, <6>4
          <5>4. client.source = Stored(b)
            <6>1. Stored(b) = {BarOf(m) : m \in {k \in Known : Bucket(k) = b}}
              BY DEF Stored, BarOf, Known
            <6>2. \A m : BarOf(m).minute = m
              BY DEF BarOf
            <6>3. ASSUME NEW x \in client.source PROVE x \in Stored(b)
              <7>1. x.minute \in Known /\ Bucket(x.minute) = b
                BY <2>5, <4>5
              <7>2. BarOf(x.minute) \in client.source
                BY <5>3, <7>1
              <7>3. x = BarOf(x.minute)
                BY <2>5, <6>2, <7>2
              <7> QED
                BY <6>1, <7>1, <7>3
            <6>4. Stored(b) \subseteq client.source
              BY <5>3, <6>1
            <6> QED
              BY <6>3, <6>4
          <5> QED
            BY <5>1, <5>2, <5>4
        <4> QED
          BY <4>3, <4>4, <4>5
      <3> QED
        BY <1>1, <1>4, <1>5, <1>8, <2>1, <2>2, <3>4, <3>6, <3>7 DEF StreamInv
    <2> QED
      BY <2>6, <2>7
  <1> QED
    BY <1>1, <1>4, <1>5, <1>8, <1>14 DEF StreamInv

\* Every action keeps the invariant.
LEMMA StreamNext == FeedInv /\ StreamInv /\ [Next]_vars => StreamInv'
  <1> SUFFICES ASSUME FeedInv, StreamInv, [Next]_vars PROVE StreamInv'
    OBVIOUS
  <1>1. RowsInv /\ client \in Clients /\ (client.on => history)
        /\ (client.exact => client.on)
    BY DEF StreamInv
  <1>2. CASE Tock \/ (\E t \in Ticks : Deliver(t)) \/ UNCHANGED vars
    <2>1. UNCHANGED <<client, bars, current, history, worker>>
      BY <1>2 DEF Tock, Deliver, vars, socket
    <2> QED
      BY <2>1, StreamAside
  <1>3. CASE TakeTick
    <2>1. /\ UNCHANGED <<client, bars, current, history>> /\ worker.pc = "idle"
          /\ UNCHANGED worker \/ worker'.pc = "process"
      BY <1>3 DEF TakeTick, socket
    <2> QED
      BY <2>1, StreamAside
  <1>7. CASE TakeRaises
    <2>1. UNCHANGED <<client, bars, current, history, worker>>
      BY <1>7 DEF TakeRaises, socket
    <2> QED
      BY <2>1, StreamAside
  <1>8. CASE WorkerRaises /\ worker.pc # "announce"
    <2>1. UNCHANGED <<client, bars, current, history>> /\ worker'.pc = "idle"
      BY <1>8 DEF WorkerRaises, Reached, Idle
    <2> QED
      BY <1>8, <2>1, StreamAside
  <1>9. CASE Announce \/ (WorkerRaises /\ worker.pc = "announce")
    BY <1>9, StreamPublish DEF Announce
  <1>4. CASE Backfill \/ BackfillFails
    <2>1. ~history /\ UNCHANGED <<client, current, worker>>
      BY <1>4 DEF Backfill, BackfillFails, socket
    <2>2. RowsInv'
      BY <1>1, <2>1 DEF RowsInv, Busy
    <2> QED
      BY <1>1, <2>1, <2>2, StreamGone
  <1>5. CASE Disconnect
    <2>1. client' = Offline /\ UNCHANGED <<current, worker>>
      BY <1>5 DEF Disconnect
    <2>2. RowsInv'
      BY <1>1, <2>1 DEF RowsInv, Busy
    <2> QED
      BY <2>1, <2>2, StreamGone, OfflineShape
  <1>6. CASE Restart
    <2>1. client' = Offline /\ worker'.pc = "idle"
      BY <1>6 DEF Restart, Idle
    <2>2. RowsInv'
      BY <2>1 DEF RowsInv, Busy
    <2> QED
      BY <2>1, <2>2, StreamGone, OfflineShape
  <1> QED
    BY <1>2, <1>3, <1>4, <1>5, <1>6, <1>7, <1>8, <1>9, StreamProcess,
       StreamSave, StreamConnect, StreamReceive, StreamHeartbeat DEF Next

\* The closed bars of a timeframe that a client was sent agree with the store,
\* for every width, queue and interleaving of saves, announcements, listeners
\* that raise, heartbeats, lagging clients and reconnections, once no message
\* was lost and no stored bar was ahead of the feed at the connection
\* (market_socket, TimeframeStreamAggregator.push, BroadcastHub.publish).
THEOREM ExactStream == Spec => []StreamIsExact
  <1>1. StreamInv => StreamIsExact
    BY DEF StreamInv, StreamIsExact, ClosedInv
  <1> QED
    BY <1>1, FeedInit, FeedNext, StreamInit, StreamNext, PTL DEF Spec
=============================================================================
