----------------------------- MODULE PaperProofs -----------------------------
(***************************************************************************)
(* Proofs about the two ways to trade without a broker: PaperAccount, for  *)
(* any keys, callers, limits, contracts, dates and number of restarts, and *)
(* ShadowExecution, for any runtimes, queue, limits and number of restarts.*)
(***************************************************************************)
EXTENDS PaperAccount, ShadowExecution, FiniteSetTheorems, WellFoundedInduction,
        TLAPS
------------------------------------------------------------------------------
(* Shadow reservations *)

Task == [stage : {"idle", "read", "evaluate", "save", "record"},
         decision : Decisions \cup {<<>>}, side : Sides \cup {0},
         reserved : Int, exposure : Int,
         result : {"none", "would_submit", "rejected"}]

\* With entries of side s only, what the daemon thread has read of the
\* reservations can only have become less, and what it will save has room.
ShadowInv(s) ==
    /\ queue \in Seq(Decisions) /\ work \in Task
    /\ work.stage # "idle" => work.decision \in Decisions
    /\ results \in [Decisions -> {"none", "would_submit", "rejected"}]
    /\ IsFiniteSet(reserved) /\ \A x \in reserved : x.side = s
    /\ work.stage = "evaluate" => Cardinality(reserved) <= s * work.reserved
    /\ work.stage = "save" /\ Reserves =>
          s * work.exposure + Cardinality(reserved) + 1 <= Limit

\* Reservations of one side count with that sign.
LEMMA NetOneSide ==
    ASSUME NEW rows, IsFiniteSet(rows), NEW s \in {1, -1},
           \A x \in rows : x.side = s
    PROVE  NetOf(rows) = s * Cardinality(rows) /\ Cardinality(rows) \in Nat
  <1>1. Cardinality(rows) \in Nat
    BY FS_CardinalityType
  <1>2. Cardinality({}) = 0
    BY FS_EmptySet
  <1>3. CASE s = 1
    <2>1. {r \in rows : r.side = 1} = rows /\ {r \in rows : r.side = -1} = {}
      BY <1>3
    <2>2. NetOf(rows) = Cardinality(rows) - 0
      BY <1>2, <2>1, Zenon DEF NetOf
    <2> QED BY <1>1, <1>3, <2>2
  <1>4. CASE s = -1
    <2>1. {r \in rows : r.side = 1} = {} /\ {r \in rows : r.side = -1} = rows
      BY <1>4
    <2>2. NetOf(rows) = 0 - Cardinality(rows)
      BY <1>2, <2>1, Zenon DEF NetOf
    <2> QED BY <1>1, <1>4, <2>2
  <1> QED BY <1>3, <1>4

\* Fewer reservations leave as much room.
LEMMA FewerReserved ==
    ASSUME NEW s \in {1, -1}, ShadowInv(s), UNCHANGED <<queue, work, results>>,
           reserved' \in SUBSET reserved
    PROVE  ShadowInv(s)'
  <1>1. /\ IsFiniteSet(reserved') /\ Cardinality(reserved') <= Cardinality(reserved)
        /\ Cardinality(reserved') \in Nat /\ Cardinality(reserved) \in Nat
    BY FS_Subset, FS_CardinalityType DEF ShadowInv
  <1>2. PICK n \in Nat, m \in Nat :
           n = Cardinality(reserved') /\ m = Cardinality(reserved) /\ n <= m
    BY <1>1
  <1>3. work \in Task /\ Limit \in Nat
    BY ShadowAssumption DEF ShadowInv
  <1>4. PICK a \in Int, b \in Int : a = s * work.reserved /\ b = s * work.exposure
    BY <1>3 DEF Task
  <1>5. work.stage = "evaluate" => n <= a
    BY <1>2, <1>4 DEF ShadowInv
  <1>6. work.stage = "save" /\ Reserves => b + n + 1 <= Limit
    BY <1>2, <1>3, <1>4 DEF ShadowInv
  <1>7. work' = work /\ Reserves' = Reserves
    BY DEF Reserves
  <1>8. work'.stage = "evaluate" => Cardinality(reserved') <= s * work'.reserved
    BY <1>2, <1>4, <1>5, <1>7
  <1>9. work'.stage = "save" /\ Reserves' =>
           s * work'.exposure + Cardinality(reserved') + 1 <= Limit
    BY <1>2, <1>4, <1>6, <1>7
  <1> QED BY <1>1, <1>8, <1>9 DEF ShadowInv

\* A reservation is saved, dropped by a stop, an expiry or never; the daemon
\* thread reads, judges and saves one decision before it takes another.
LEMMA ShadowStep ==
    ASSUME NEW s \in {1, -1}, Sides = {s}, ShadowInv(s), [ShadowNext]_shadowVars
    PROVE  ShadowInv(s)'
  <1> USE ShadowAssumption
  <1> DEFINE Idle == /\ work' \in Task
                     /\ work'.stage # "idle" => work'.decision \in Decisions
                     /\ work'.stage \notin {"evaluate", "save"}
                     /\ UNCHANGED <<results, reserved>>
  <1>1. ASSUME NEW d \in Decisions, OnDecision(d) PROVE ShadowInv(s)'
    <2>1. queue' \in Seq(Decisions)
      <3>1. queue \in Seq(Decisions)
        BY DEF ShadowInv
      <3>2. queue' = queue \/ queue' = Append(queue, d)
        BY <1>1 DEF OnDecision
      <3> QED BY ONLY <3>1, <3>2, d \in Decisions
    <2>2. UNCHANGED <<work, results, reserved>>
      BY <1>1 DEF OnDecision, runtimes
    <2> QED BY <2>1, <2>2 DEF ShadowInv, Reserves
  <1>2. CASE Take
    <2>1. queue' \in Seq(Decisions) /\ Head(queue) \in Decisions
      BY <1>2 DEF Take, ShadowInv
    <2>2. Idle
      BY <1>2, <2>1 DEF Take, NoWork, Task, ShadowInv
    <2> QED BY <2>1, <2>2 DEF ShadowInv
  <1>3. CASE ReadReserved
    <2>1. /\ work.decision \in Decisions /\ work \in Task
          /\ UNCHANGED <<queue, results, reserved>>
      BY <1>3 DEF ReadReserved, ShadowInv
    <2>2. CASE results[work.decision] # "none"
      <3>1. /\ work' = [work EXCEPT !.stage = "record",
                                    !.result = results[work.decision]]
            /\ results[work.decision] \in {"none", "would_submit", "rejected"}
        BY <1>3, <2>1, <2>2 DEF ReadReserved, ShadowInv
      <3>2. Idle
        BY <2>1, <3>1 DEF Task
      <3> QED BY <2>1, <3>2 DEF ShadowInv
    <2>3. CASE results[work.decision] = "none"
      <3>1. work' = [work EXCEPT !.stage = "evaluate", !.reserved = NetOf(reserved)]
        BY <1>3, <2>3 DEF ReadReserved, ReservedQuantity
      <3>2. /\ NetOf(reserved) = s * Cardinality(reserved)
            /\ Cardinality(reserved) \in Nat
        BY NetOneSide DEF ShadowInv
      <3>3. PICK n \in Nat : n = Cardinality(reserved)
        BY <3>2
      <3>4. NetOf(reserved) = s * n /\ s * n \in Int /\ s * (s * n) = n
        <4>1. NetOf(reserved) = s * n
          BY <3>2, <3>3
        <4>2. CASE s = 1
          BY <4>1, <4>2
        <4>3. CASE s = -1
          BY <4>1, <4>3
        <4> QED BY <4>2, <4>3
      <3>5. /\ work' \in Task /\ work'.stage = "evaluate"
            /\ work'.decision = work.decision /\ work'.reserved = s * n
        BY <2>1, <3>1, <3>4 DEF Task
      <3>6. Cardinality(reserved') <= s * work'.reserved
        BY <2>1, <3>3, <3>4, <3>5
      <3> QED BY <2>1, <3>5, <3>6 DEF ShadowInv
    <2> QED BY <2>2, <2>3
  <1>4. CASE Evaluate
    <2>1. PICK side \in Sides \cup {0}, position \in Held, working \in Held :
             \E o \in PolicyResults(RiskApproves(side, position, working)) :
                work' = [work EXCEPT !.stage = "save", !.side = side, !.result = o,
                           !.reserved = 0, !.exposure = position + working]
      BY <1>4 DEF Evaluate
    <2>2. PICK o \in PolicyResults(RiskApproves(side, position, working)) :
             work' = [work EXCEPT !.stage = "save", !.side = side, !.result = o,
                        !.reserved = 0, !.exposure = position + working]
      BY <2>1
    <2>3. /\ UNCHANGED <<queue, results, reserved>> /\ work.stage = "evaluate"
          /\ work.decision \in Decisions /\ work \in Task
      BY <1>4 DEF Evaluate, ShadowInv
    <2>4. position \in Int /\ working \in Int
      OBVIOUS
    <2>5. /\ work' \in Task /\ work'.stage = "save"
          /\ work'.decision = work.decision /\ work'.side = side
          /\ work'.result = o /\ work'.exposure = position + working
      <3>1. o \in {"would_submit", "rejected"}
        BY DEF PolicyResults
      <3>2. PICK x \in Int : x = position + working
        BY <2>4
      <3>3. work' = [work EXCEPT !.stage = "save", !.side = side, !.result = o,
                        !.reserved = 0, !.exposure = x]
        BY <2>2, <3>2
      <3> QED BY <2>3, <3>1, <3>2, <3>3 DEF Task
    <2>6. ASSUME Reserves'
          PROVE  s * work'.exposure + Cardinality(reserved') + 1 <= Limit
      <3>1. o = "would_submit" /\ side = s
        BY <2>5, <2>6 DEF Reserves
      <3>2. Size(position + working + work.reserved + s) <= Limit
        BY <3>1 DEF PolicyResults, RiskApproves
      <3>3. PICK n \in Nat : n = Cardinality(reserved)
        BY FS_CardinalityType DEF ShadowInv
      <3>4. PICK r \in Int : r = work.reserved
        BY <2>3 DEF Task
      <3>5. n <= s * r
        BY <2>3, <3>3, <3>4 DEF ShadowInv
      <3>6. s * (position + working + r + s) <= Limit
        BY <2>4, <3>2, <3>4 DEF Size
      <3>7. s * (position + working) + n + 1 <= Limit
        BY <2>4, <3>5, <3>6
      <3> QED BY <2>3, <2>5, <3>3, <3>7
    <2> QED BY <2>3, <2>5, <2>6 DEF ShadowInv
  <1>5. CASE Save
    <2>1. /\ work.stage = "save" /\ work.decision \in Decisions
          /\ work \in Task /\ UNCHANGED queue
      BY <1>5 DEF Save, ShadowInv
    <2>2. results' \in [Decisions -> {"none", "would_submit", "rejected"}]
      BY <1>5, <2>1 DEF Save, ShadowInv, Task
    <2>3. /\ work' \in Task /\ work'.stage = "record"
          /\ work'.decision = work.decision
      BY <1>5, <2>1, <2>2 DEF Save, NoWork, Task
    <2>4. IsFiniteSet(reserved') /\ \A x \in reserved' : x.side = s
      <3>1. CASE ~Reserves
        BY <1>5, <3>1 DEF Save, ShadowInv
      <3>2. CASE Reserves
        <4> DEFINE x == [decision |-> work.decision, side |-> work.side]
        <4>1. reserved' = reserved \cup {x}
          BY <1>5, <3>2 DEF Save
        <4>2. x.side = s
          BY <2>1, <3>2 DEF Reserves, Task
        <4> HIDE DEF x
        <4>3. IsFiniteSet(reserved')
          BY <4>1, FS_AddElement DEF ShadowInv
        <4> QED BY <4>1, <4>2, <4>3 DEF ShadowInv
      <3> QED BY <3>1, <3>2
    <2> QED BY <2>1, <2>2, <2>3, <2>4 DEF ShadowInv
  <1>6. CASE EvaluationFails
    <2>1. Idle /\ UNCHANGED queue
      BY <1>6 DEF EvaluationFails, ShadowInv, NoWork, Task
    <2> QED BY <2>1 DEF ShadowInv
  <1>7. CASE Record
    <2>1. Idle /\ UNCHANGED queue
      BY <1>7 DEF Record, NoWork, Task
    <2> QED BY <2>1 DEF ShadowInv
  <1>8. CASE ThreadDies
    <2>1. queue' \in Seq(Decisions)
      BY <1>8 DEF ThreadDies, ShadowInv
    <2>2. Idle
      BY <1>8 DEF ThreadDies, NoWork, Task
    <2> QED BY <2>1, <2>2 DEF ShadowInv
  <1>9. ASSUME NEW r \in Runtimes, StopRuntime(r) PROVE ShadowInv(s)'
    BY <1>9 DEF StopRuntime, ShadowInv, Reserves
  <1>10. ASSUME NEW r \in Runtimes, ReleaseRuntime(r) PROVE ShadowInv(s)'
    BY <1>10, FewerReserved DEF ReleaseRuntime
  <1>11. CASE Expire
    BY <1>11, FewerReserved DEF Expire
  <1>12. CASE Reboot
    <2>1. Idle /\ queue' \in Seq(Decisions)
      BY <1>12 DEF Reboot, NoWork, Task
    <2> QED BY <2>1 DEF ShadowInv
  <1>13. CASE UNCHANGED shadowVars
    BY <1>13 DEF shadowVars, ShadowInv, Reserves
  <1> QED
    BY <1>1, <1>2, <1>3, <1>4, <1>5, <1>6, <1>7, <1>8, <1>9, <1>10, <1>11, <1>12,
       <1>13 DEF ShadowNext, Worker

\* Entries of one side, of however many runtimes, are never reserved beyond
\* the position limit (shadow.py:194-303, risk/live.py:223-229): neither
\* beside each other, nor with a position and working orders of either side,
\* though stops and expiries come between reading, judgement and save. With
\* entries of both sides the claim is false: the reservation that made room
\* for another may be released before that one is saved.
THEOREM ReservationsFit ==
    ASSUME NEW s \in {1, -1}, Sides = {s}
    PROVE  ShadowSpec => ReservationFits
  <1>1. ShadowInit => ShadowInv(s)
    <2>1. IsFiniteSet({}) /\ Cardinality({}) = 0
      BY FS_EmptySet
    <2> QED BY <2>1, ShadowAssumption DEF ShadowInit, ShadowInv, NoWork, Task
  <1>2. ShadowInv(s) /\ [ShadowNext]_shadowVars => ShadowInv(s)'
    BY ShadowStep
  <1>3. ShadowInv(s) /\ [ShadowNext]_shadowVars =>
           [\A x \in reserved' \ reserved :
               x.side * (work.exposure + NetOf(reserved')) <= Limit]_shadowVars
    <2> SUFFICES ASSUME ShadowInv(s), [ShadowNext]_shadowVars,
                        NEW x \in reserved' \ reserved
                 PROVE  x.side * (work.exposure + NetOf(reserved')) <= Limit
      OBVIOUS
    <2> USE ShadowAssumption
    <2>1. Save
      BY DEF ShadowNext, Worker, OnDecision, Take, ReadReserved, Evaluate,
             EvaluationFails, Record, ThreadDies, StopRuntime, ReleaseRuntime,
             Expire, Reboot, shadowVars
    <2>2. /\ Reserves /\ work.stage = "save" /\ work \in Task
          /\ reserved' = reserved \cup {x}
      BY <2>1 DEF Save, ShadowInv
    <2>3. ShadowInv(s)'
      BY <1>2
    <2>4. x.side = s /\ IsFiniteSet(reserved') /\ \A y \in reserved' : y.side = s
      BY <2>3 DEF ShadowInv
    <2>5. NetOf(reserved') = s * Cardinality(reserved')
      BY <2>4, NetOneSide
    <2>6. /\ Cardinality(reserved) \in Nat
          /\ Cardinality(reserved') = Cardinality(reserved) + 1
      BY <2>2, FS_AddElement, FS_CardinalityType DEF ShadowInv
    <2>7. PICK n \in Nat, e \in Int : n = Cardinality(reserved) /\ e = work.exposure
      BY <2>2, <2>6 DEF Task
    <2>8. s * e + n + 1 <= Limit
      BY <2>2, <2>7 DEF ShadowInv
    <2>9. s * (e + s * (n + 1)) <= Limit
      BY <2>8
    <2> QED BY <2>4, <2>5, <2>6, <2>7, <2>9
  <1> QED
    BY <1>1, <1>2, <1>3, PTL DEF ShadowSpec, ReservationFits

------------------------------------------------------------------------------
(* Paper account: numbers and records *)

\* A nonempty set of numbers has a smallest one.
LEMMA NatMin ==
    ASSUME NEW T \in SUBSET Nat, T # {}
    PROVE  \E x \in T : \A y \in T : x <= y
  <1>1. PICK x \in T : \A y \in T : ~(<<y, x>> \in OpToRel(<, Nat))
    BY NatLessThanWellFounded, WFMin
  <1>2. ASSUME NEW y \in T PROVE x <= y
    <2>1. x \in Nat /\ y \in Nat
      OBVIOUS
    <2>2. ~(y < x)
      BY <1>1, <2>1, Zenon DEF OpToRel
    <2> QED BY <2>1, <2>2
  <1> QED BY <1>2

\* What holds of 0 and passes from n to n + 1 holds up to N.
LEMMA Climb ==
    ASSUME NEW N \in Nat, NEW T \in SUBSET Nat, 0 \in T,
           \A n \in 0..N : n \in T /\ n < N => n + 1 \in T
    PROVE  \A n \in 0..N : n \in T
  <1> DEFINE S == {n \in 0..N : n \notin T}
  <1> SUFFICES ASSUME S # {} PROVE FALSE
    OBVIOUS
  <1>0. S \in SUBSET Nat
    OBVIOUS
  <1> HIDE DEF S
  <1>1. PICK m \in S : \A k \in S : m <= k
    BY <1>0, NatMin
  <1> USE DEF S
  <1>2. m # 0 /\ m - 1 \in 0..N /\ m - 1 < N /\ m \notin T
    BY <1>1
  <1>3. m - 1 \in T
    BY <1>1, <1>2
  <1>4. (m - 1) + 1 \in T
    BY <1>2, <1>3
  <1> QED BY <1>2, <1>4

\* The smaller and the larger of two numbers.
LEMMA MinMaxTwo ==
    ASSUME NEW a \in Int, NEW b \in Int
    PROVE  /\ Min({a, b}) = IF a <= b THEN a ELSE b
           /\ Max({a, b}) = IF a <= b THEN b ELSE a
  <1> DEFINE lo == IF a <= b THEN a ELSE b
             hi == IF a <= b THEN b ELSE a
  <1>1. /\ lo \in {a, b} /\ \A y \in {a, b} : lo =< y
        /\ hi \in {a, b} /\ \A y \in {a, b} : hi >= y
    OBVIOUS
  <1>2. \A x \in {a, b} : (\A y \in {a, b} : x =< y) => x = lo
    OBVIOUS
  <1>3. \A x \in {a, b} : (\A y \in {a, b} : x >= y) => x = hi
    OBVIOUS
  <1> HIDE DEF lo, hi
  <1>4. Min({a, b}) = lo
    BY <1>1, <1>2 DEF Min
  <1>5. Max({a, b}) = hi
    BY <1>1, <1>3 DEF Max
  <1> QED BY <1>4, <1>5 DEF lo, hi

\* A reduce-only order closes lots the position has, on the other side.
LEMMA ClosableFacts ==
    ASSUME NEW p \in Int, NEW side \in {-1, 1}, NEW q \in Nat
    PROVE  /\ Closable(p, side, q) \in Nat
           /\ Closable(p, side, q) <= Abs(p) /\ Closable(p, side, q) <= q
           /\ Closable(p, side, q) > 0 => p * side < 0
           /\ Abs(p) \in Nat
  <1>1. Abs(p) \in Nat
    BY DEF Abs
  <1>2. Min({Abs(p), q}) = IF Abs(p) <= q THEN Abs(p) ELSE q
    BY <1>1, MinMaxTwo
  <1>3. p * side \in Int
    OBVIOUS
  <1>4. CASE p * side < 0
    BY <1>1, <1>2, <1>4 DEF Closable
  <1>5. CASE ~(p * side < 0)
    BY <1>1, <1>5 DEF Closable
  <1> QED BY <1>4, <1>5

\* A change of trading date keeps the type and the operator's kill switch,
\* and keeps all reservations or none.
LEMMA OnDateFacts ==
    ASSUME NEW r \in Risk, NEW d \in Nat
    PROVE  /\ OnDate(r, d) \in Risk /\ OnDate(r, d).day = d
           /\ r.kill = "manual" => OnDate(r, d).kill = "manual"
           /\ OnDate(r, d) = r \/ OnDate(r, d).reserved = {}
  <1>1. CASE r.day = d
    BY <1>1 DEF OnDate
  <1>2. CASE r.day # d
    <2>1. OnDate(r, d) = [day |-> d, pnl |-> 0, trades |-> 0, losses |-> 0,
              cool |-> 0, reserved |-> {},
              kill |-> IF r.kill = "manual" THEN "manual" ELSE "off"]
      BY <1>2 DEF OnDate, NewRisk
    <2> QED BY <2>1 DEF Risk
  <1> QED BY <1>1, <1>2

\* A realised trade keeps the type, and the kill switch but for the loss
\* limit.
LEMMA OnTradeFacts ==
    ASSUME NEW r \in Risk, NEW t \in Nat, NEW pnl \in Outcomes
    PROVE  /\ OnTrade(r, t, pnl) \in Risk
           /\ OnTrade(r, t, pnl).kill \in {r.kill, "auto"}
  <1> USE PaperAssumption
  <1>1. Cooldown \in Nat /\ MaxLoss \in Nat /\ pnl \in Int /\ r.pnl \in Int
        /\ r.losses \in Nat /\ r.cool \in Nat
    BY DEF Outcomes, Risk
  <1>2. PICK streak \in Nat : streak = IF pnl < 0 THEN r.losses + 1 ELSE 0
    BY <1>1
  <1>3. PICK total \in Int : total = r.pnl + pnl
    BY <1>1
  <1>4. PICK cool \in Nat : cool = IF pnl >= 0 THEN 0
              ELSE IF streak >= MaxLosses THEN t + Cooldown ELSE r.cool
    BY <1>1
  <1>5. PICK kill \in {r.kill, "auto"} :
              kill = IF total <= -MaxLoss THEN "auto" ELSE r.kill
    OBVIOUS
  <1>6. OnTrade(r, t, pnl) = [r EXCEPT !.pnl = total, !.losses = streak,
                                       !.cool = cool, !.kill = kill]
    BY <1>2, <1>3, <1>4, <1>5 DEF OnTrade, Risk
  <1> QED BY <1>6 DEF Risk

\* Signed lots a fill moves on contract c.
Delta(f, c) == IF f.contract = c THEN f.lots ELSE 0

\* A fill moves its contract by its lots; it keeps an operator's kill switch
\* or makes it an automatic one.
LEMMA ApplyFillFacts ==
    ASSUME NEW acc \in Account, NEW f \in Fill
    PROVE  /\ ApplyFill(acc, f) \in Account
           /\ \A c \in Contracts :
                 ApplyFill(acc, f).pos[c] = acc.pos[c] + Delta(f, c)
           /\ acc.risk.kill = "manual" =>
                 ApplyFill(acc, f).risk.kill \in {"manual", "auto"}
  <1> DEFINE old == acc.pos[f.contract]
             r1 == OnDate(acc.risk, f.day)
             r2 == [r1 EXCEPT !.reserved = @ \ {f.order},
                              !.trades = IF f.entry THEN @ + 1 ELSE @]
             p2 == [acc.pos EXCEPT ![f.contract] = old + f.lots]
             r3 == IF old * f.lots < 0 THEN OnTrade(r2, f.at, f.pnl) ELSE r2
  <1>1. /\ acc.pos \in [Contracts -> Int] /\ acc.risk \in Risk
        /\ f.contract \in Contracts /\ f.lots \in Int /\ f.day \in Nat
        /\ f.at \in Nat /\ f.pnl \in Outcomes /\ f.entry \in BOOLEAN
    BY DEF Account, Fill
  <1>2. r1 \in Risk /\ (acc.risk.kill = "manual" => r1.kill = "manual")
    BY <1>1, OnDateFacts
  <1>3. r2 \in Risk /\ r2.kill = r1.kill
    <2>0. r1.reserved \in SUBSET Ids
      <3> HIDE DEF r1
      <3> QED BY <1>2 DEF Risk
    <2>1. PICK rs \in SUBSET Ids : rs = r1.reserved \ {f.order}
      BY <2>0
    <2>2. PICK tr \in Nat : tr = IF f.entry THEN r1.trades + 1 ELSE r1.trades
      BY <1>2 DEF Risk
    <2>3. r2 = [r1 EXCEPT !.reserved = rs, !.trades = tr]
      BY <2>1, <2>2
    <2> HIDE DEF r1, r2
    <2> QED BY <1>2, <2>3 DEF Risk
  <1>4. r3 \in Risk /\ r3.kill \in {r2.kill, "auto"}
    <2> HIDE DEF r2
    <2> QED BY <1>1, <1>3, OnTradeFacts
  <1>5. p2 \in [Contracts -> Int]
        /\ \A c \in Contracts : p2[c] = acc.pos[c] + Delta(f, c)
    BY <1>1 DEF Delta
  <1>6. ApplyFill(acc, f) = [pos |-> p2, risk |-> r3]
    BY DEF ApplyFill
  <1> HIDE DEF p2, r3
  <1>7. ApplyFill(acc, f).pos = p2 /\ ApplyFill(acc, f).risk = r3
    BY <1>6
  <1>8. ApplyFill(acc, f) \in Account
    BY <1>4, <1>5, <1>6 DEF Account
  <1> QED BY <1>2, <1>3, <1>4, <1>5, <1>7, <1>8

------------------------------------------------------------------------------
(* Paper account: lists of fills *)

\* N steps on D, and the states f that they go through from a.
Steps(D, N) == [1..N -> [D -> D]]
Iterates(f, D, a, N, G) == /\ f \in [0..N -> D] /\ f[0] = a
                           /\ \A n \in 1..N : f[n] = G[n][f[n - 1]]

\* A step for each number can be iterated.
LEMMA Iterate ==
    ASSUME NEW D, NEW a \in D, NEW N \in Nat, NEW G \in Steps(D, N)
    PROVE  \E f : Iterates(f, D, a, N, G)
  <1> USE DEF Steps
  <1> DEFINE R(f, m) == /\ f \in [0..m -> D] /\ f[0] = a
                        /\ \A n \in 1..m : f[n] = G[n][f[n - 1]]
             T == {m \in Nat : m <= N => \E f : R(f, m)}
  <1>1. 0 \in T
    <2>1. R([n \in 0..0 |-> a], 0)
      OBVIOUS
    <2> QED BY <2>1
  <1>2. ASSUME NEW m \in 0..N, m \in T, m < N PROVE m + 1 \in T
    <2>1. PICK f : R(f, m)
      BY <1>2
    <2>2. m \in Nat /\ m \in 0..m /\ m + 1 \in 1..N /\ m + 1 \in Nat
      BY <1>2
    <2>3. G[m + 1] \in [D -> D] /\ f[m] \in D
      BY <2>1, <2>2
    <2>4. PICK x \in D : x = G[m + 1][f[m]]
      BY <2>3
    <2> DEFINE g == [n \in 0..(m + 1) |-> IF n = m + 1 THEN x ELSE f[n]]
    <2>5. g \in [0..(m + 1) -> D] /\ g[0] = a
      BY <2>1, <2>2
    <2>6. ASSUME NEW n \in 1..(m + 1) PROVE g[n] = G[n][g[n - 1]]
      <3>1. CASE n = m + 1
        <4>1. g[n] = x /\ g[n - 1] = f[m] /\ n - 1 = m
          BY <2>2, <3>1
        <4> QED BY <2>4, <3>1, <4>1
      <3>2. CASE n # m + 1
        <4>1. n \in 1..m /\ n \in 0..(m + 1) /\ n - 1 \in 0..(m + 1)
              /\ n - 1 # m + 1
          BY <2>2, <3>2
        <4>2. g[n] = f[n] /\ g[n - 1] = f[n - 1]
          BY <3>2, <4>1
        <4> QED BY <2>1, <4>1, <4>2
      <3> QED BY <3>1, <3>2
    <2>7. R(g, m + 1)
      BY <2>5, <2>6
    <2> HIDE DEF g
    <2> QED BY <2>2, <2>7
  <1>3. T \in SUBSET Nat
    OBVIOUS
  <1> HIDE DEF T
  <1>4. \A m \in 0..N : m \in T
    BY <1>1, <1>2, <1>3, Climb
  <1>5. N \in T
    BY <1>4
  <1> QED BY <1>5 DEF T, Iterates

\* Replay goes through the fills one by one.
LEMMA ReplayRec ==
    ASSUME NEW acc \in Account, NEW fills \in Seq(Fill)
    PROVE  Replay(acc, fills) = [n \in 0..Len(fills) |->
              IF n = 0 THEN acc
              ELSE ApplyFill(Replay(acc, fills)[n - 1], fills[n])]
  <1>1. PICK N \in Nat : N = Len(fills)
    OBVIOUS
  <1> DEFINE G == [n \in 1..N |-> [x \in Account |-> ApplyFill(x, fills[n])]]
  <1>2. \A n \in 1..N : fills[n] \in Fill
    BY <1>1
  <1>3. G \in [1..N -> [Account -> Account]]
    BY <1>2, ApplyFillFacts
  <1>4. \A n \in 1..N, x \in Account : G[n][x] = ApplyFill(x, fills[n])
    OBVIOUS
  <1> HIDE DEF G
  <1>5. PICK f \in [0..N -> Account] :
           f[0] = acc /\ \A n \in 1..N : f[n] = G[n][f[n - 1]]
    <2>1. G \in Steps(Account, N)
      BY <1>3 DEF Steps
    <2>2. \E f : Iterates(f, Account, acc, N, G)
      BY ONLY <2>1, N \in Nat, acc \in Account, Iterate, Zenon
    <2> QED BY <2>2 DEF Iterates
  <1>6. ASSUME NEW n \in 0..N
        PROVE  f[n] = IF n = 0 THEN acc ELSE ApplyFill(f[n - 1], fills[n])
    <2>1. CASE n = 0
      BY <1>5, <2>1
    <2>2. CASE n # 0
      <3>1. n \in 1..N /\ f[n - 1] \in Account
        BY <1>5, <2>2
      <3> QED BY <1>4, <1>5, <2>2, <3>1
    <2> QED BY <2>1, <2>2
  <1>7. f = [n \in 0..Len(fills) |->
               IF n = 0 THEN acc ELSE ApplyFill(f[n - 1], fills[n])]
    BY <1>1, <1>5, <1>6
  <1> QED BY <1>7, Zenon DEF Replay

\* Replay, contract by contract and for the kill switch.
LEMMA ReplayFacts ==
    ASSUME NEW acc \in Account, NEW fills \in Seq(Fill)
    PROVE  /\ Replay(acc, fills)[0] = acc
           /\ \A n \in 0..Len(fills) : Replay(acc, fills)[n] \in Account
           /\ \A n \in 1..Len(fills) : fills[n] \in Fill
                 /\ Replay(acc, fills)[n] =
                       ApplyFill(Replay(acc, fills)[n - 1], fills[n])
           /\ \A n \in 1..Len(fills), c \in Contracts :
                 /\ Replay(acc, fills)[n].pos[c] =
                       Replay(acc, fills)[n - 1].pos[c] + Delta(fills[n], c)
                 /\ Delta(fills[n], c) \in Int
  <1>1. PICK N \in Nat : N = Len(fills)
    OBVIOUS
  <1>2. PICK f : f = Replay(acc, fills)
    OBVIOUS
  <1>3. f = [n \in 0..N |-> IF n = 0 THEN acc ELSE ApplyFill(f[n - 1], fills[n])]
    BY <1>1, <1>2, ReplayRec
  <1>4. f[0] = acc
    BY <1>3
  <1>5. ASSUME NEW n \in 1..N PROVE f[n] = ApplyFill(f[n - 1], fills[n])
    <2>1. n \in 0..N /\ n # 0
      OBVIOUS
    <2> QED BY <1>3, <2>1, Zenon
  <1>6. \A n \in 1..N : fills[n] \in Fill
    BY <1>1
  <1> DEFINE T == {n \in Nat : n <= N => f[n] \in Account}
  <1>7. 0 \in T
    BY <1>4
  <1>8. ASSUME NEW n \in 0..N, n \in T, n < N PROVE n + 1 \in T
    <2>1. n + 1 \in 1..N /\ (n + 1) - 1 = n /\ f[n] \in Account
      BY <1>8
    <2> QED BY <1>5, <1>6, <2>1, ApplyFillFacts
  <1>9. T \in SUBSET Nat
    OBVIOUS
  <1> HIDE DEF T
  <1>10. \A n \in 0..N : n \in T
    BY <1>7, <1>8, <1>9, Climb
  <1>11. \A n \in 0..N : f[n] \in Account
    BY <1>10 DEF T
  <1>12. ASSUME NEW n \in 1..N, NEW c \in Contracts
         PROVE  f[n].pos[c] = f[n - 1].pos[c] + Delta(fills[n], c)
                /\ Delta(fills[n], c) \in Int
    <2>1. n - 1 \in 0..N
      OBVIOUS
    <2>2. Delta(fills[n], c) \in Int
      BY <1>6 DEF Delta, Fill
    <2>3. f[n] = ApplyFill(f[n - 1], fills[n]) /\ fills[n] \in Fill
      BY <1>5, <1>6
    <2>4. f[n - 1] \in Account
      BY <1>11, <2>1
    <2>5. ApplyFill(f[n - 1], fills[n]).pos[c] = f[n - 1].pos[c] + Delta(fills[n], c)
      BY ONLY <2>3, <2>4, c \in Contracts, ApplyFillFacts, Zenon
    <2> QED BY <2>2, <2>3, <2>5, Zenon
  <1> QED BY <1>1, <1>2, <1>4, <1>5, <1>6, <1>11, <1>12

Zero == [pos |-> [c \in Contracts |-> 0], risk |-> NewRisk]

\* What a list of fills moves, contract by contract.
Net(fills) == ApplyFills(Zero, fills).pos

Plus(p, m) == [c \in Contracts |-> p[c] + m[c]]

\* The empty account is one.
LEMMA ZeroType == Zero \in Account /\ NewRisk \in Risk
  BY DEF Zero, Account, NewRisk, Risk

\* The same fills move any position by the same lots.
LEMMA NetMoves ==
    ASSUME NEW acc \in Account, NEW fills \in Seq(Fill)
    PROVE  /\ ApplyFills(acc, fills) \in Account
           /\ Net(fills) \in [Contracts -> Int]
           /\ ApplyFills(acc, fills).pos = Plus(acc.pos, Net(fills))
  <1>1. PICK N \in Nat : N = Len(fills)
    OBVIOUS
  <1>2. PICK f : f = Replay(acc, fills)
    OBVIOUS
  <1>3. PICK g : g = Replay(Zero, fills)
    OBVIOUS
  <1>4. /\ f[0] = acc /\ \A n \in 0..N : f[n] \in Account
        /\ \A n \in 1..N, c \in Contracts :
              f[n].pos[c] = f[n - 1].pos[c] + Delta(fills[n], c)
              /\ Delta(fills[n], c) \in Int
    BY <1>1, <1>2, ReplayFacts, SMTT(20)
  <1>5. /\ g[0] = Zero /\ \A n \in 0..N : g[n] \in Account
        /\ \A n \in 1..N, c \in Contracts :
              g[n].pos[c] = g[n - 1].pos[c] + Delta(fills[n], c)
    BY <1>1, <1>3, ReplayFacts, ZeroType
  <1>6. \A n \in 0..N : f[n].pos \in [Contracts -> Int]
                        /\ g[n].pos \in [Contracts -> Int]
    BY <1>4, <1>5 DEF Account
  <1>7. ASSUME NEW c \in Contracts
        PROVE  \A n \in 0..N : f[n].pos[c] = acc.pos[c] + g[n].pos[c]
    <2> DEFINE T == {n \in Nat : n <= N => f[n].pos[c] = acc.pos[c] + g[n].pos[c]}
    <2>1. acc.pos[c] \in Int
      BY DEF Account
    <2>2. 0 \in T
      BY <1>4, <1>5, <2>1 DEF Zero
    <2>3. ASSUME NEW n \in 0..N, n \in T, n < N PROVE n + 1 \in T
      <3>1. n + 1 \in 1..N /\ (n + 1) - 1 = n /\ n + 1 \in 0..N
        BY <2>3
      <3>2. f[n].pos[c] = acc.pos[c] + g[n].pos[c]
        BY <2>3
      <3>3. /\ f[n + 1].pos[c] = f[n].pos[c] + Delta(fills[n + 1], c)
            /\ g[n + 1].pos[c] = g[n].pos[c] + Delta(fills[n + 1], c)
            /\ Delta(fills[n + 1], c) \in Int
        BY <1>4, <1>5, <3>1
      <3>4. f[n].pos[c] \in Int /\ g[n].pos[c] \in Int
        BY <1>6
      <3>5. PICK d \in Int : d = Delta(fills[n + 1], c)
        BY <3>3
      <3> QED BY <2>1, <3>1, <3>2, <3>3, <3>4, <3>5
    <2>4. T \in SUBSET Nat
      OBVIOUS
    <2> HIDE DEF T
    <2>5. \A n \in 0..N : n \in T
      BY <2>2, <2>3, <2>4, Climb
    <2> QED BY <2>5 DEF T
  <1>8. N \in 0..N
    OBVIOUS
  <1>9. ApplyFills(acc, fills) = f[N] /\ Net(fills) = g[N].pos
    BY <1>1, <1>2, <1>3 DEF ApplyFills, Net
  <1>10. \A c \in Contracts :
            ApplyFills(acc, fills).pos[c] = acc.pos[c] + Net(fills)[c]
    BY <1>7, <1>8, <1>9
  <1>11. ApplyFills(acc, fills).pos \in [Contracts -> Int]
    BY <1>6, <1>8, <1>9
  <1>12. ApplyFills(acc, fills).pos = Plus(acc.pos, Net(fills))
    BY <1>10, <1>11 DEF Plus
  <1> QED BY <1>4, <1>6, <1>8, <1>9, <1>12

\* An operator's kill switch outlives the fills unless one of them makes it an
\* automatic one, which the history variable records.
LEMMA KillKept ==
    ASSUME NEW acc \in Account, NEW fills \in Seq(Fill),
           acc.risk.kill = "manual", HeldAfter(acc, fills) = "yes"
    PROVE  held = "yes" /\ ApplyFills(acc, fills).risk.kill = "manual"
  <1>1. PICK N \in Nat : N = Len(fills)
    OBVIOUS
  <1>2. PICK f : f = Replay(acc, fills)
    OBVIOUS
  <1>3. held = "yes" /\ \A n \in 1..N : f[n].risk.kill # "auto"
    BY <1>1, <1>2 DEF HeldAfter
  <1>4. /\ f[0] = acc /\ \A n \in 0..N : f[n] \in Account
        /\ \A n \in 1..N : /\ fills[n] \in Fill
                           /\ f[n] = ApplyFill(f[n - 1], fills[n])
    BY <1>1, <1>2, ReplayFacts
  <1> DEFINE T == {n \in Nat : n <= N => f[n].risk.kill = "manual"}
  <1>5. 0 \in T
    BY <1>4
  <1>6. ASSUME NEW n \in 0..N, n \in T, n < N PROVE n + 1 \in T
    <2>1. n + 1 \in 1..N /\ (n + 1) - 1 = n /\ f[n].risk.kill = "manual"
      BY <1>6
    <2>2. f[n + 1] = ApplyFill(f[n], fills[n + 1]) /\ f[n] \in Account
          /\ fills[n + 1] \in Fill
      BY <1>4, <2>1
    <2>3. f[n + 1].risk.kill \in {"manual", "auto"}
      BY <2>1, <2>2, ApplyFillFacts
    <2> QED BY <1>3, <2>1, <2>3
  <1>7. T \in SUBSET Nat
    OBVIOUS
  <1> HIDE DEF T
  <1>8. \A n \in 0..N : n \in T
    BY <1>5, <1>6, <1>7, Climb
  <1>9. f[N].risk.kill = "manual"
    BY <1>8 DEF T
  <1> QED BY <1>1, <1>2, <1>3, <1>9 DEF ApplyFills

\* Lists with the same first fills do the same with them.
LEMMA ReplayPrefix ==
    ASSUME NEW F \in Seq(Fill), NEW G \in Seq(Fill), Len(F) <= Len(G),
           \A n \in 1..Len(F) : G[n] = F[n]
    PROVE  \A n \in 0..Len(F) : Replay(Zero, G)[n] = Replay(Zero, F)[n]
  <1>1. PICK N \in Nat : N = Len(F)
    OBVIOUS
  <1>2. PICK M \in Nat : M = Len(G)
    OBVIOUS
  <1>3. PICK f : f = Replay(Zero, F)
    OBVIOUS
  <1>4. PICK g : g = Replay(Zero, G)
    OBVIOUS
  <1>5. f[0] = Zero /\ \A n \in 1..N : f[n] = ApplyFill(f[n - 1], F[n])
    BY <1>1, <1>3, ZeroType, ReplayFacts
  <1>6. g[0] = Zero /\ \A n \in 1..M : g[n] = ApplyFill(g[n - 1], G[n])
    BY <1>2, <1>4, ZeroType, ReplayFacts
  <1>7. N <= M
    BY <1>1, <1>2
  <1> DEFINE T == {n \in Nat : n <= N => g[n] = f[n]}
  <1>8. 0 \in T
    BY <1>5, <1>6
  <1>9. ASSUME NEW n \in 0..N, n \in T, n < N PROVE n + 1 \in T
    <2>1. /\ n + 1 \in 1..N /\ n + 1 \in 1..M /\ (n + 1) - 1 = n
          /\ g[n] = f[n] /\ G[n + 1] = F[n + 1]
      BY <1>1, <1>7, <1>9
    <2>2. f[n + 1] = ApplyFill(f[n], F[n + 1])
      BY ONLY <1>5, <2>1
    <2>3. g[n + 1] = ApplyFill(g[n], G[n + 1])
      BY ONLY <1>6, <2>1
    <2>4. g[n + 1] = f[n + 1]
      BY <2>1, <2>2, <2>3
    <2> QED BY <2>4
  <1>10. T \in SUBSET Nat
    OBVIOUS
  <1> HIDE DEF T
  <1>11. \A n \in 0..N : n \in T
    BY <1>8, <1>9, <1>10, Climb
  <1> QED BY <1>1, <1>3, <1>4, <1>11 DEF T

\* One fill more.
LEMMA NetAppend ==
    ASSUME NEW F \in Seq(Fill), NEW f \in Fill
    PROVE  /\ Append(F, f) \in Seq(Fill)
           /\ \A c \in Contracts :
                 Net(Append(F, f))[c] = Net(F)[c] + Delta(f, c)
  <1>1. PICK N \in Nat : N = Len(F)
    OBVIOUS
  <1>2. PICK G \in Seq(Fill) : G = Append(F, f)
    <2>1. Append(F, f) \in Seq(Fill)
      OBVIOUS
    <2> QED BY <2>1, Zenon
  <1>3. Len(G) = N + 1 /\ G[N + 1] = f /\ \A n \in 1..N : G[n] = F[n]
    BY <1>1, <1>2
  <1>4. Replay(Zero, G)[N] = Replay(Zero, F)[N]
    BY <1>1, <1>3, ReplayPrefix
  <1>5. N + 1 \in 1..Len(G) /\ (N + 1) - 1 = N
    BY <1>3
  <1>6. \A c \in Contracts : Replay(Zero, G)[N + 1].pos[c] =
                               Replay(Zero, G)[N].pos[c] + Delta(f, c)
    <2>1. \A n \in 1..Len(G), c \in Contracts :
             Replay(Zero, G)[n].pos[c] =
                Replay(Zero, G)[n - 1].pos[c] + Delta(G[n], c)
      BY ZeroType, ReplayFacts
    <2>2. PICK g : g = Replay(Zero, G)
      OBVIOUS
    <2>3. \A c \in Contracts :
             g[N + 1].pos[c] = g[(N + 1) - 1].pos[c] + Delta(G[N + 1], c)
      BY <1>5, <2>1, <2>2
    <2>4. g[(N + 1) - 1] = g[N] /\ G[N + 1] = f
      BY <1>3, <1>5
    <2> QED BY <2>2, <2>3, <2>4, Zenon
  <1> QED BY <1>1, <1>2, <1>3, <1>4, <1>6 DEF Net, ApplyFills

\* No fill moves nothing; one fill moves its own lots.
LEMMA NetShort ==
    /\ <<>> \in Seq(Fill)
    /\ \A c \in Contracts : Net(<<>>)[c] = 0
    /\ \A f \in Fill : /\ <<f>> \in Seq(Fill)
                       /\ \A c \in Contracts : Net(<<f>>)[c] = Delta(f, c)
  <1>1. <<>> \in Seq(Fill) /\ Len(<<>>) = 0
    OBVIOUS
  <1>2. Replay(Zero, <<>>)[0] = Zero
    BY <1>1, ZeroType, ReplayFacts
  <1>3. \A c \in Contracts : Net(<<>>)[c] = 0
    BY <1>1, <1>2 DEF Net, ApplyFills, Zero
  <1>4. ASSUME NEW f \in Fill
        PROVE  /\ <<f>> \in Seq(Fill)
               /\ \A c \in Contracts : Net(<<f>>)[c] = Delta(f, c)
    <2>1. Append(<<>>, f) = <<f>>
      OBVIOUS
    <2>2. \A c \in Contracts : Net(<<f>>)[c] = Net(<<>>)[c] + Delta(f, c)
      BY <1>1, <2>1, NetAppend
    <2>3. \A c \in Contracts : Delta(f, c) \in Int
      BY DEF Delta, Fill
    <2> QED BY <1>3, <2>2, <2>3
  <1> QED BY <1>1, <1>3, <1>4

\* One list after the other.
LEMMA NetConcat ==
    ASSUME NEW F \in Seq(Fill), NEW G \in Seq(Fill)
    PROVE  /\ F \o G \in Seq(Fill)
           /\ \A c \in Contracts : Net(F \o G)[c] = Net(F)[c] + Net(G)[c]
  <1>1. PICK N \in Nat : N = Len(F)
    OBVIOUS
  <1>2. PICK M \in Nat : M = Len(G)
    OBVIOUS
  <1>3. PICK H \in Seq(Fill) : H = F \o G
    <2>1. F \o G \in Seq(Fill)
      OBVIOUS
    <2> QED BY <2>1, Zenon
  <1>4. /\ Len(H) = N + M /\ \A n \in 1..N : H[n] = F[n]
        /\ \A m \in 1..M : H[N + m] = G[m]
    BY <1>1, <1>2, <1>3
  <1>5. PICK h : h = Replay(Zero, H)
    OBVIOUS
  <1>6. PICK g : g = Replay(Zero, G)
    OBVIOUS
  <1>7. h[N].pos = Net(F)
    <2>1. h[N] = Replay(Zero, F)[N]
      BY <1>1, <1>4, <1>5, ReplayPrefix
    <2> QED BY <1>1, <2>1 DEF Net, ApplyFills
  <1>8. /\ \A n \in 0..(N + M) : h[n] \in Account
        /\ \A n \in 1..(N + M), c \in Contracts :
              h[n].pos[c] = h[n - 1].pos[c] + Delta(H[n], c)
              /\ Delta(H[n], c) \in Int
    <2>1. PICK L \in Nat : L = Len(H)
      OBVIOUS
    <2>2. /\ \A n \in 0..L : h[n] \in Account
          /\ \A n \in 1..L, c \in Contracts :
                h[n].pos[c] = h[n - 1].pos[c] + Delta(H[n], c)
                /\ Delta(H[n], c) \in Int
      <3>1. /\ \A n \in 0..Len(H) : Replay(Zero, H)[n] \in Account
            /\ \A n \in 1..Len(H), c \in Contracts :
                  /\ Replay(Zero, H)[n].pos[c] =
                        Replay(Zero, H)[n - 1].pos[c] + Delta(H[n], c)
                  /\ Delta(H[n], c) \in Int
        BY ONLY H \in Seq(Fill), ZeroType, ReplayFacts, Zenon
      <3> QED BY ONLY <1>5, <2>1, <3>1, Zenon
    <2>3. L = N + M
      BY <1>4, <2>1
    <2> QED BY <2>2, <2>3
  <1>9. /\ g[0] = Zero /\ \A m \in 0..M : g[m] \in Account
        /\ \A m \in 1..M, c \in Contracts :
              g[m].pos[c] = g[m - 1].pos[c] + Delta(G[m], c)
    BY <1>2, <1>6, ZeroType, ReplayFacts
  <1>10. Net(F) \in [Contracts -> Int]
    BY ZeroType, NetMoves
  <1>11. ASSUME NEW c \in Contracts PROVE Net(H)[c] = Net(F)[c] + Net(G)[c]
    <2> DEFINE T == {m \in Nat : m <= M =>
                        h[N + m].pos[c] = Net(F)[c] + g[m].pos[c]}
    <2>1. Net(F)[c] \in Int
      BY <1>10
    <2>2. 0 \in T
      BY <1>7, <1>9, <2>1 DEF Zero
    <2>3. ASSUME NEW m \in 0..M, m \in T, m < M PROVE m + 1 \in T
      <3>1. /\ m + 1 \in 1..M /\ (m + 1) - 1 = m
            /\ N + (m + 1) \in 1..(N + M) /\ (N + (m + 1)) - 1 = N + m
            /\ N + m \in 0..(N + M)
        BY <2>3
      <3>2. h[N + m].pos[c] = Net(F)[c] + g[m].pos[c]
        BY <2>3
      <3>3. PICK d \in Int : d = Delta(G[m + 1], c)
        BY <1>4, <1>8, <3>1
      <3>4. /\ h[N + (m + 1)].pos[c] = h[N + m].pos[c] + d
            /\ g[m + 1].pos[c] = g[m].pos[c] + d
        BY <1>4, <1>8, <1>9, <3>1, <3>3
      <3>5. g[m].pos[c] \in Int
        BY <1>9 DEF Account
      <3>6. PICK a \in Int : a = Net(F)[c]
        BY <2>1
      <3>7. h[N + (m + 1)].pos[c] = Net(F)[c] + g[m + 1].pos[c]
        BY <3>2, <3>4, <3>5, <3>6
      <3> QED BY <3>1, <3>7
    <2>4. T \in SUBSET Nat
      OBVIOUS
    <2> HIDE DEF T
    <2>5. \A m \in 0..M : m \in T
      <3>1. \A m \in 0..M : m \in T /\ m < M => m + 1 \in T
        BY <2>3
      <3> QED BY ONLY M \in Nat, <2>2, <2>4, <3>1, Climb, Zenon
    <2>6. h[N + M].pos[c] = Net(F)[c] + g[M].pos[c]
      BY ONLY M \in Nat, <2>5, SMTT(30) DEF T
    <2>7. Net(H) = h[N + M].pos
      BY ONLY <1>4, <1>5, Zenon DEF Net, ApplyFills
    <2>8. Net(G) = g[M].pos
      BY ONLY <1>2, <1>6, Zenon DEF Net, ApplyFills
    <2> QED BY <2>6, <2>7, <2>8, Zenon
  <1> QED BY <1>3, <1>11
------------------------------------------------------------------------------
(* Paper account: lists of events *)

\* A finite set of numbers has a largest one, or 0.
LEMMA MaxOfFinite ==
    ASSUME NEW S \in SUBSET Nat, IsFiniteSet(S)
    PROVE  Max({0} \cup S) \in Nat
  <1> DEFINE P == {0} \cup S
  <1>0. P \in SUBSET Nat /\ 0 \in P
    OBVIOUS
  <1>1. IsFiniteSet(P)
    BY FS_AddElement
  <1> HIDE DEF P
  <1>2. PICK s \in Seq(P) : \A x \in P : \E n \in 1..Len(s) : s[n] = x
    BY <1>1 DEF IsFiniteSet
  <1>3. PICK N \in Nat : N = Len(s)
    OBVIOUS
  <1>4. \A n \in 1..N : s[n] \in Nat
    <2>1. \A n \in 1..N : s[n] \in P
      BY <1>3
    <2> QED BY <1>0, <2>1
  <1> DEFINE T == {n \in Nat : n <= N => \E m \in Nat : \A i \in 1..n : s[i] <= m}
  <1>5. 0 \in T
    OBVIOUS
  <1>6. ASSUME NEW n \in 0..N, n \in T, n < N PROVE n + 1 \in T
    <2>1. PICK m \in Nat : \A i \in 1..n : s[i] <= m
      BY <1>6
    <2>2. n + 1 \in 1..N /\ s[n + 1] \in Nat
      BY <1>4, <1>6
    <2>3. PICK k \in Nat : k = IF m <= s[n + 1] THEN s[n + 1] ELSE m
      BY <2>2
    <2>4. \A i \in 1..(n + 1) : s[i] <= k
      <3> SUFFICES ASSUME NEW i \in 1..(n + 1) PROVE s[i] <= k
        OBVIOUS
      <3>1. CASE i = n + 1
        BY <2>2, <2>3, <3>1
      <3>2. CASE i # n + 1
        <4>1. i \in 1..n /\ i \in 1..N
          BY <1>6, <3>2
        <4>2. s[i] <= m /\ s[i] \in Nat
          BY <1>4, <2>1, <4>1
        <4> QED BY <2>2, <2>3, <4>2
      <3> QED BY <3>1, <3>2
    <2>5. \E j \in Nat : \A i \in 1..(n + 1) : s[i] <= j
      BY <2>3, <2>4
    <2>6. n + 1 \in Nat
      BY <2>2
    <2> QED BY <2>5, <2>6, Zenon
  <1>7. T \in SUBSET Nat
    OBVIOUS
  <1> HIDE DEF T
  <1>8. \A n \in 0..N : n \in T
    BY <1>5, <1>6, <1>7, Climb
  <1>9. N \in T
    BY <1>8
  <1>10. PICK m \in Nat : \A i \in 1..N : s[i] <= m
    BY <1>9 DEF T
  <1>11. \A x \in P : x <= m
    BY <1>2, <1>3, <1>10
  <1> DEFINE U == {k \in Nat : \A x \in P : x <= k}
  <1>12. U \in SUBSET Nat /\ m \in U
    BY <1>11
  <1>13. PICK u \in U : \A y \in U : u <= y
    <2> HIDE DEF U
    <2> QED BY <1>12, NatMin
  <1>14. u \in P
    <2> SUFFICES ASSUME u \notin P PROVE FALSE
      OBVIOUS
    <2>1. u \in Nat /\ u # 0 /\ \A x \in P : x <= u /\ x # u /\ x \in Nat
      BY <1>0
    <2>2. u - 1 \in Nat /\ \A x \in P : x <= u - 1
      BY <2>1
    <2>3. u - 1 \in U
      BY <2>2
    <2>4. u <= u - 1
      BY <1>13, <2>3
    <2> QED BY <2>1, <2>4
  <1>15. \A y \in P : u >= y
    OBVIOUS
  <1>16. Max(P) \in P
    BY <1>14, <1>15 DEF Max
  <1> QED BY <1>0, <1>16 DEF P

\* The images of the numbers up to n are finitely many.
LEMMA FewImages ==
    ASSUME NEW n \in Nat, NEW f, DOMAIN f = 1..n
    PROVE  IsFiniteSet({f[i] : i \in 1..n})
  <1> DEFINE T == {f[i] : i \in 1..n}
             g == [i \in 1..n |-> f[i]]
  <1>1. IsFiniteSet(1..n)
    BY FS_Interval
  <1>2. g \in Surjection(1..n, T)
    BY DEF Surjection
  <1> HIDE DEF T, g
  <1>3. IsFiniteSet(T)
    BY <1>1, <1>2, FS_Surjection
  <1> QED BY <1>3 DEF T

\* What the queue holds once events are pushed: the old ones and a copy of
\* each new one, the same but for its place in the queue.
LEMMA PushedFacts ==
    ASSUME TypeOK, NEW evs \in Seq(Event)
    PROVE  /\ Pushed(evs) \subseteq Event /\ IsFiniteSet(Pushed(evs))
           /\ \E g \in [DOMAIN evs -> Event] :
                 /\ Pushed(evs) = events \cup {g[i] : i \in DOMAIN evs}
                 /\ \A i \in DOMAIN evs :
                       /\ evs[i] \in Event
                       /\ g[i].id = evs[i].id /\ g[i].kind = evs[i].kind
                       /\ g[i].order = evs[i].order
  <1>1. events \subseteq Event /\ IsFiniteSet(events)
    BY DEF TypeOK
  <1> DEFINE S == {e.seq : e \in events}
  <1>2. S \in SUBSET Nat /\ IsFiniteSet(S)
    <2>1. \A e \in events : e.seq \in Nat
      BY <1>1 DEF Event
    <2> DEFINE h == [e \in events |-> e.seq]
    <2>2. h \in Surjection(events, S)
      BY DEF Surjection
    <2> HIDE DEF h
    <2>3. IsFiniteSet(S)
      BY <1>1, <2>2, FS_Surjection
    <2> QED BY <2>1, <2>3
  <1>3. PICK last \in Nat : last = Max({0} \cup S)
    <2> HIDE DEF S
    <2> QED BY <1>2, MaxOfFinite
  <1>4. PICK n \in Nat : n = Len(evs)
    OBVIOUS
  <1>5. DOMAIN evs = 1..n /\ \A i \in 1..n : evs[i] \in Event
    BY <1>4
  <1> DEFINE g == [i \in 1..n |-> [evs[i] EXCEPT !.seq = last + i]]
  <1>6. ASSUME NEW i \in 1..n
        PROVE  /\ g[i] \in Event /\ g[i].id = evs[i].id /\ g[i].kind = evs[i].kind
               /\ g[i].order = evs[i].order
    <2>1. PICK e \in Event : e = evs[i]
      BY <1>5
    <2>2. PICK m \in Nat : m = last + i
      OBVIOUS
    <2>3. g[i] = [e EXCEPT !.seq = m]
      BY <2>1, <2>2
    <2> HIDE DEF g
    <2> QED BY <2>1, <2>3 DEF Event
  <1>11. g \in [DOMAIN evs -> Event]
    <2>1. g = [i \in 1..n |-> g[i]]
      OBVIOUS
    <2> HIDE DEF g
    <2> QED BY <1>5, <1>6, <2>1
  <1>7. Pushed(evs) = events \cup {g[i] : i \in 1..n}
    BY <1>3, <1>5 DEF Pushed
  <1> HIDE DEF g
  <1>8. DOMAIN g = 1..n
    BY DEF g
  <1>9. IsFiniteSet({g[i] : i \in 1..n})
    BY <1>8, FewImages
  <1>10. IsFiniteSet(Pushed(evs))
    BY <1>1, <1>7, <1>9, FS_Union
  <1> QED BY <1>1, <1>5, <1>6, <1>7, <1>10, <1>11
------------------------------------------------------------------------------
(* Paper account: types of what the handlers build *)

\* The empty order, event, row and call are ones.
LEMMA IdleType ==
    /\ NoOrder \in Order /\ NoOrder.status = "none" /\ NoOrder.kind = "none"
    /\ NoEvent \in Event /\ NoEvent.kind = "none" /\ NoEvent.id \in Contracts
    /\ Unsaved \in Stored /\ Unsaved.decision = "none" /\ Unsaved.done = "none"
    /\ Unsaved.intent = FALSE /\ Unsaved.order = NoOrder
    /\ CallOK(IdleCall) /\ IdleCall.pc = "idle" /\ IdleCall.ev = NoEvent
    /\ IdleCall.rows = {} /\ IdleCall.fills = <<>>
  <1>1. 1 \in Contracts /\ 1 \in Ids
    BY PaperAssumption DEF Contracts, Ids
  <1>2. NoOrder \in Order /\ NoOrder.status = "none" /\ NoOrder.kind = "none"
    BY <1>1 DEF NoOrder, Order
  <1>3. NoEvent \in Event /\ NoEvent.kind = "none" /\ NoEvent.id \in Contracts
    BY <1>1, <1>2 DEF NoEvent, Event
  <1>4. /\ Unsaved \in Stored /\ Unsaved.decision = "none" /\ Unsaved.done = "none"
        /\ Unsaved.intent = FALSE /\ Unsaved.order = NoOrder
    BY <1>2 DEF Unsaved, Row, Stored
  <1>5. <<>> \in Seq(Fill)
    OBVIOUS
  <1>6. /\ CallOK(IdleCall) /\ IdleCall.pc = "idle" /\ IdleCall.ev = NoEvent
        /\ IdleCall.rows = {} /\ IdleCall.fills = <<>>
    BY <1>2, <1>3, <1>5 DEF CallOK, IdleCall
  <1> QED BY <1>2, <1>3, <1>4, <1>6

\* Contracts are no keys, and orders are known by either.
LEMMA IdFacts ==
    /\ Keys \subseteq Ids /\ Contracts \subseteq Ids /\ Keys \cap Contracts = {}
    /\ IsFiniteSet(Keys) /\ IsFiniteSet(Contracts)
    /\ \A i \in Ids : i \in Keys \/ i \in Contracts
  <1>1. IsFiniteSet(Contracts)
    BY PaperAssumption, FS_Interval DEF Contracts
  <1> QED BY <1>1, PaperAssumption DEF Ids

\* The three events a handler makes of an order.
LEMMA EventTypes ==
    ASSUME NEW k \in Ids, NEW q \in Nat, NEW t \in Nat
    PROVE  /\ \A o \in Order :
                 /\ FillEvent(k, o, q, t) \in Event /\ FillEvent(k, o, q, t).id = k
                 /\ FillEvent(k, o, q, t).kind = "fill"
           /\ StatusEvent(k, t) \in Event /\ StatusEvent(k, t).id = k
           /\ StatusEvent(k, t).kind = "status"
           /\ \A ok \in BOOLEAN :
                 /\ DecisionEvent(k, ok, q, t) \in Event
                 /\ DecisionEvent(k, ok, q, t).id = k
                 /\ DecisionEvent(k, ok, q, t).kind = "decision"
  BY IdleType DEF FillEvent, StatusEvent, DecisionEvent, Event

\* A fill of an order is a fill.
LEMMA FillOfType ==
    ASSUME NEW e \in Event, NEW pnl \in Outcomes
    PROVE  FillOf(e, pnl) \in Fill /\ FillOf(e, pnl).order = e.id
  <1>1. /\ e.id \in Ids /\ e.at \in Nat /\ e.qty \in Nat /\ e.order \in Order
    BY DEF Event
  <1>2. PICK o \in Order : o = e.order
    BY <1>1
  <1>3. o.side \in {-1, 1} /\ o.contract \in Contracts /\ o.day \in Nat
    BY DEF Order
  <1>4. PICK x \in Int : x = o.side * e.qty
    BY <1>1, <1>3
  <1>5. (~IsReduce(o.kind)) \in BOOLEAN
    BY DEF IsReduce
  <1>6. FillOf(e, pnl) =
          [order |-> e.id, contract |-> o.contract, lots |-> x,
           entry |-> ~IsReduce(o.kind), day |-> o.day, at |-> e.at, pnl |-> pnl]
    BY <1>2, <1>4 DEF FillOf
  <1> QED BY <1>1, <1>3, <1>4, <1>5, <1>6 DEF Fill

\* An order that ended or was approved is one of the same kind.
LEMMA EndedType ==
    ASSUME NEW o \in Order, NEW q \in Nat
    PROVE  /\ \A st \in {"filled", "rejected"} :
                 /\ Ended(o, st) \in Order /\ Ended(o, st).status = st
                 /\ Ended(o, st).kind = o.kind
           /\ LET a == [o EXCEPT !.status = "approved", !.approved = q]
              IN  /\ a \in Order /\ a.kind = o.kind /\ a.status = "approved"
                  /\ a.side = o.side /\ a.contract = o.contract
           /\ LET a == [o EXCEPT !.status = "approved"]
              IN  /\ a \in Order /\ a.kind = o.kind /\ a.status = "approved"
  BY DEF Ended, Order

\* One thread's call changes.
LEMMA CallSet ==
    ASSUME TypeOK, NEW c \in Threads, NEW y, CallOK(y),
           call' = [call EXCEPT ![c] = y]
    PROVE  /\ DOMAIN call' = Threads /\ \A d \in Threads : CallOK(call'[d])
           /\ call'[c] = y /\ \A d \in Threads \ {c} : call'[d] = call[d]
  <1>1. DOMAIN call = Threads /\ \A d \in Threads : CallOK(call[d])
    BY DEF TypeOK
  <1>2. /\ DOMAIN call' = Threads /\ call'[c] = y
        /\ \A d \in Threads \ {c} : call'[d] = call[d]
    BY <1>1
  <1> QED BY <1>1, <1>2, Zenon

\* The call of a thread and what it is in the middle of.
LEMMA CallFacts ==
    ASSUME TypeOK, NEW c \in Threads
    PROVE  /\ call[c].pc \in {"idle", "reserved", "run", "append"}
           /\ call[c].order \in Order /\ call[c].ev \in Event
           /\ call[c].rows \in SUBSET Rows /\ call[c].fills \in Seq(Fill)
           /\ call[c].ev.order \in Order /\ call[c].ev.id \in Ids
           /\ call[c].ev.at \in Nat /\ call[c].ev.qty \in Nat
           /\ call[c].pc = "reserved" => call[c].key \in Keys
  BY DEF TypeOK, CallOK, Event

\* How a handler leaves its thread: out of the engine without a commit, or
\* with events pushed and rows and fills to commit.
Raised(c) ==
    /\ call' = [call EXCEPT ![c] = IdleCall] /\ raised' = TRUE /\ events' = events
    /\ forgot' \in BOOLEAN
Proceeded(c, evs, rows, fills) ==
    /\ call' = [call EXCEPT ![c].ev = NoEvent, ![c].rows = @ \cup rows,
                            ![c].fills = @ \o fills]
    /\ events' = Pushed(evs) /\ UNCHANGED <<raised, forgot>>

\* Raise and Proceed are these.
LEMMA EmitFacts ==
    ASSUME TypeOK, NEW c \in Threads, NEW evs, NEW rows, NEW fills, NEW applied \in BOOLEAN
    PROVE  /\ Raise(c, applied) => Raised(c)
           /\ Proceed(c, evs, rows, fills) => Proceeded(c, evs, rows, fills)
           /\ Emit(c, evs, rows) => Raised(c) \/ Proceeded(c, evs, rows, <<>>)
           /\ Emit(c, <<>>, rows) => Proceeded(c, <<>>, rows, <<>>)
  <1>1. ASSUME NEW b \in BOOLEAN, Raise(c, b) PROVE Raised(c)
    <2>1. (forgot \/ b \/ call[c].fills # <<>>) \in BOOLEAN
      OBVIOUS
    <2> QED BY <1>1, <2>1 DEF Raise, Raised
  <1>2. ASSUME NEW e, NEW r, NEW f, Proceed(c, e, r, f) PROVE Proceeded(c, e, r, f)
    BY <1>2 DEF Proceed, Proceeded
  <1>3. Emit(c, <<>>, rows) => Proceeded(c, <<>>, rows, <<>>)
    BY <1>2 DEF Emit
  <1> QED BY <1>1, <1>2, <1>3 DEF Emit

\* Either way the calls and the queue keep their types, and no other thread
\* is touched.
LEMMA LeaveType ==
    ASSUME TypeOK, NEW c \in Threads, NEW evs \in Seq(Event),
           NEW rows \in SUBSET Rows, NEW fills \in Seq(Fill),
           Raised(c) \/ Proceeded(c, evs, rows, fills)
    PROVE  /\ DOMAIN call' = Threads /\ \A d \in Threads : CallOK(call'[d])
           /\ \A d \in Threads \ {c} : call'[d] = call[d]
           /\ events' \subseteq Event /\ IsFiniteSet(events')
           /\ {raised', forgot'} \subseteq BOOLEAN
           /\ Raised(c) => call'[c] = IdleCall
           /\ Proceeded(c, evs, rows, fills) =>
                 /\ call'[c].pc = call[c].pc /\ call'[c].key = call[c].key
                 /\ call'[c].order = call[c].order /\ call'[c].ev = NoEvent
                 /\ call'[c].rows = call[c].rows \cup rows
                 /\ call'[c].fills = call[c].fills \o fills
  <1>0. {raised, forgot} \subseteq BOOLEAN /\ events \subseteq Event /\ IsFiniteSet(events)
    BY DEF TypeOK
  <1>1. CASE Raised(c)
    <2>1. call' = [call EXCEPT ![c] = IdleCall]
      BY <1>1 DEF Raised
    <2>2. /\ DOMAIN call' = Threads /\ \A d \in Threads : CallOK(call'[d])
          /\ call'[c] = IdleCall /\ \A d \in Threads \ {c} : call'[d] = call[d]
      BY <2>1, IdleType, CallSet
    <2>3. ~Proceeded(c, evs, rows, fills) \/ call'[c].ev = NoEvent
      BY <2>2, IdleType
    <2>4. ASSUME Proceeded(c, evs, rows, fills)
          PROVE  /\ call'[c].pc = call[c].pc /\ call'[c].key = call[c].key
                 /\ call'[c].order = call[c].order /\ call'[c].ev = NoEvent
                 /\ call'[c].rows = call[c].rows \cup rows
                 /\ call'[c].fills = call[c].fills \o fills
      <3>1. CallOK(call[c]) /\ DOMAIN call = Threads
        BY DEF TypeOK
      <3> QED BY <2>4, <3>1 DEF Proceeded, CallOK
    <2> QED BY <1>0, <1>1, <2>2, <2>4 DEF Raised
  <1>2. CASE ~Raised(c) /\ Proceeded(c, evs, rows, fills)
    <2>1. CallOK(call[c]) /\ DOMAIN call = Threads
      BY DEF TypeOK
    <2>2. PICK y : y = [call[c] EXCEPT !.ev = NoEvent, !.rows = @ \cup rows,
                                       !.fills = @ \o fills]
      OBVIOUS
    <2>3. PICK F \in Seq(Fill) : F = call[c].fills \o fills
      <3>1. PICK G \in Seq(Fill) : G = call[c].fills
        BY <2>1 DEF CallOK
      <3>2. G \o fills \in Seq(Fill)
        OBVIOUS
      <3> QED BY <3>1, <3>2, Zenon
    <2>4. PICK R \in SUBSET Rows : R = call[c].rows \cup rows
      BY <2>1 DEF CallOK
    <2>5. y = [call[c] EXCEPT !.ev = NoEvent, !.rows = R, !.fills = F]
      BY <2>2, <2>3, <2>4
    <2>6. /\ CallOK(y) /\ y.pc = call[c].pc /\ y.key = call[c].key
          /\ y.order = call[c].order /\ y.ev = NoEvent /\ y.rows = R /\ y.fills = F
      BY <2>1, <2>5, IdleType DEF CallOK
    <2>7. call' = [call EXCEPT ![c] = y]
      BY <1>2, <2>1, <2>2 DEF Proceeded
    <2>8. /\ DOMAIN call' = Threads /\ \A d \in Threads : CallOK(call'[d])
          /\ call'[c] = y /\ \A d \in Threads \ {c} : call'[d] = call[d]
      BY <2>6, <2>7, CallSet
    <2>9. events' \subseteq Event /\ IsFiniteSet(events')
      BY <1>2, PushedFacts DEF Proceeded
    <2> QED BY <1>0, <1>2, <2>3, <2>4, <2>6, <2>8, <2>9 DEF Proceeded
  <1> QED BY <1>1, <1>2
------------------------------------------------------------------------------
(* Paper account: the pass of a bar over the due orders *)

\* A listing of a finite set is a sequence of its members, each once.
LEMMA ListingFacts ==
    ASSUME NEW S, IsFiniteSet(S), NEW s \in Listings(S)
    PROVE  /\ s \in Seq(S) /\ DOMAIN s = 1..Len(s) /\ Len(s) \in Nat
           /\ \A i \in 1..Len(s) : s[i] \in S
           /\ \A i, j \in 1..Len(s) : s[i] = s[j] => i = j
  <1>1. PICK m \in Nat : m = Cardinality(S)
    BY FS_CardinalityType
  <1>2. s \in [1..m -> S] /\ \A i, j \in 1..m : s[i] = s[j] => i = j
    BY <1>1 DEF Listings
  <1>3. s \in Seq(S) /\ Len(s) = m
    BY <1>2
  <1> QED BY <1>2, <1>3

\* A finite set that has m members has all of them in a listing.
LEMMA ListingAll ==
    ASSUME NEW S, IsFiniteSet(S), NEW s \in Listings(S), NEW x \in S
    PROVE  \E i \in DOMAIN s : s[i] = x
  <1>1. PICK m \in Nat : m = Cardinality(S)
    BY FS_CardinalityType
  <1>2. s \in [1..m -> S] /\ \A i, j \in 1..m : s[i] = s[j] => i = j
    BY <1>1 DEF Listings
  <1> DEFINE T == {s[i] : i \in 1..m}
  <1>3. IsFiniteSet(1..m) /\ Cardinality(1..m) = m
    BY FS_Interval
  <1>4. s \in Surjection(1..m, T) /\ s \in Injection(1..m, T)
    BY <1>2 DEF Surjection, Injection, IsInjective
  <1>5. T \subseteq S
    BY <1>2
  <1> HIDE DEF T
  <1>6. IsFiniteSet(T) /\ Cardinality(T) = m
    BY <1>3, <1>4, FS_Surjection
  <1>7. T = S
    BY <1>1, <1>5, <1>6, FS_Subset
  <1> QED BY <1>2, <1>7 DEF T

Pass == [risk : Risk, left : Nat, evs : Seq(Event)]

\* Where a pass stands: the operator's kill switch is still on, the risk state
\* is the account's or holds no reservation, and no entry filled under a kill
\* switch.
PassDone(list, n, x) ==
    /\ x \in Pass
    /\ risk.kill = "manual" => x.risk.kill = "manual"
    /\ x.risk = risk \/ x.risk.reserved = {}
    /\ Len(x.evs) = n
    /\ \A i \in 1..n :
          /\ x.evs[i].id = list[i] /\ x.evs[i].kind \in {"status", "fill"}
          /\ x.evs[i].kind = "fill" /\ ~IsReduce(orders[list[i]].kind)
                => risk.kill = "off"

\* One due order more.
LEMMA FillDueFacts ==
    ASSUME TypeOK, NEW b \in Order, NEW list, NEW n \in Nat, list[n + 1] \in Keys,
           NEW s, PassDone(list, n, s), NEW good
    PROVE  PassDone(list, n + 1, FillDue(s, list[n + 1], good, b))
  <1>0. PICK k \in Keys : k = list[n + 1]
    OBVIOUS
  <1> DEFINE o == orders[k]
             r == IF IsReduce(o.kind) THEN s.risk ELSE OnDate(s.risk, o.day)
             cl == Closable(pos[b.contract], o.side, o.approved)
             q == IF IsReduce(o.kind) THEN Max({0, cl - s.left})
                  ELSE IF k \in good /\ PrefillAllowed(r, k, b.at) THEN o.approved ELSE 0
             e == IF q = 0 THEN StatusEvent(k, b.at) ELSE FillEvent(k, o, q, b.at)
             t == FillDue(s, k, good, b)
  <1>1. /\ k \in Ids /\ o \in Order /\ b.at \in Nat /\ pos[b.contract] \in Int
    BY IdFacts DEF TypeOK, Account, Order
  <1>2. o.side \in {1, -1} /\ o.approved \in Nat /\ o.day \in Nat
    BY <1>1 DEF Order
  <1>3. s.risk \in Risk /\ s.left \in Nat /\ s.evs \in Seq(Event) /\ Len(s.evs) = n
    BY DEF Pass, PassDone
  <1>4. /\ r \in Risk /\ (s.risk.kill = "manual" => r.kill = "manual")
        /\ r = s.risk \/ r.reserved = {}
    <2>1. CASE IsReduce(o.kind)
      BY <1>3, <2>1
    <2>2. CASE ~IsReduce(o.kind)
      <3>1. r = OnDate(s.risk, o.day)
        BY <2>2
      <3> HIDE DEF r
      <3> QED BY <1>2, <1>3, <3>1, OnDateFacts
    <2> QED BY <2>1, <2>2
  <1>5. q \in Nat
    <2>1. CASE IsReduce(o.kind)
      <3>1. PICK z \in Nat : z = cl
        BY <1>1, <1>2, ClosableFacts
      <3>2. PICK w \in Int : w = z - s.left
        BY <1>3
      <3>3. PICK v \in Int : v = 0
        OBVIOUS
      <3>4. Max({v, w}) = IF v <= w THEN w ELSE v
        BY MinMaxTwo
      <3>5. q = Max({v, w})
        BY <2>1, <3>1, <3>2, <3>3
      <3> HIDE DEF q
      <3> QED BY <3>3, <3>4, <3>5
    <2>2. CASE ~IsReduce(o.kind)
      BY <1>2, <2>2
    <2> QED BY <2>1, <2>2
  <1>6. q # 0 /\ ~IsReduce(o.kind) => r.kind = r.kind /\ k \in r.reserved /\ r.kill = "off"
    BY DEF PrefillAllowed
  <1>7. t = [risk |-> r, left |-> IF IsReduce(o.kind) THEN s.left + q ELSE s.left,
             evs |-> Append(s.evs, e)]
    BY DEF FillDue
  <1> HIDE DEF t
  <1>16. PICK u \in Nat : u = b.at
    BY <1>1
  <1>8. e \in Event /\ e.id = k /\ e.kind \in {"status", "fill"} /\ (e.kind = "fill" => q # 0)
    <2> HIDE DEF q
    <2>1. CASE q = 0
      <3>1. e = StatusEvent(k, u)
        BY <1>16, <2>1
      <3>2. /\ StatusEvent(k, u) \in Event /\ StatusEvent(k, u).id = k
            /\ StatusEvent(k, u).kind = "status"
        BY <1>1, <1>5, EventTypes
      <3> HIDE DEF o, e
      <3> QED BY <3>1, <3>2
    <2>2. CASE q # 0
      <3>1. e = FillEvent(k, o, q, u)
        BY <1>16, <2>2
      <3> HIDE DEF o, e
      <3>3. PICK p \in Order : p = o
        BY <1>1
      <3>4. PICK x \in Nat : x = q
        BY <1>5
      <3>5. k \in Ids
        BY <1>1
      <3>2. /\ FillEvent(k, p, x, u) \in Event /\ FillEvent(k, p, x, u).id = k
            /\ FillEvent(k, p, x, u).kind = "fill"
        BY <3>5, EventTypes
      <3> QED BY <2>2, <3>1, <3>2, <3>3, <3>4
    <2> QED BY <2>1, <2>2
  <1>9. q # 0 /\ ~IsReduce(o.kind) => risk.kill = "off"
    <2>1. s.risk = risk \/ s.risk.reserved = {}
      BY DEF PassDone
    <2> HIDE DEF q, r, o
    <2> QED BY <1>4, <1>6, <2>1
  <1> DEFINE left == IF IsReduce(o.kind) THEN s.left + q ELSE s.left
  <1>10. left \in Nat
    BY <1>3, <1>5
  <1> HIDE DEF q, r, o, e, left
  <1>11. PICK E \in Seq(Event) : E = Append(s.evs, e)
    <2>1. PICK S \in Seq(Event) : S = s.evs
      BY <1>3
    <2>2. Append(S, e) \in Seq(Event)
      BY <1>8
    <2> QED BY <2>1, <2>2, Zenon
  <1>12. Len(E) = n + 1 /\ E[n + 1] = e /\ \A i \in 1..n : E[i] = s.evs[i]
    BY <1>3, <1>8, <1>11
  <1>13. t.risk = r /\ t.evs = E /\ t \in Pass
    <2>1. t = [risk |-> r, left |-> left, evs |-> E]
      BY <1>7, <1>11 DEF left, o, q, r
    <2> QED BY <1>4, <1>10, <1>11, <2>1 DEF Pass
  <1>14. /\ risk.kill = "manual" => r.kill = "manual"
         /\ r = risk \/ r.reserved = {}
    BY <1>4 DEF PassDone
  <1>15. ASSUME NEW i \in 1..(n + 1)
         PROVE  /\ E[i].id = list[i] /\ E[i].kind \in {"status", "fill"}
                /\ E[i].kind = "fill" /\ ~IsReduce(orders[list[i]].kind)
                      => risk.kill = "off"
    <2>1. CASE i = n + 1
      <3>1. E[i] = e /\ list[i] = k
        BY <1>0, <1>12, <2>1
      <3> QED BY <1>8, <1>9, <3>1 DEF o
    <2>2. CASE i # n + 1
      <3>1. i \in 1..n
        BY <2>2
      <3> QED BY <1>12, <3>1 DEF PassDone
    <2> QED BY <2>1, <2>2
  <1> QED BY <1>0, <1>12, <1>13, <1>14, <1>15 DEF PassDone, t

\* The whole pass.
LEMMA PassFacts ==
    ASSUME TypeOK, NEW b \in Order, NEW list \in Listings(Due(b)), NEW good
    PROVE  /\ PassDone(list, Len(list), BarPass(list, good, b)[Len(list)])
           /\ \A i \in 1..Len(list) : list[i] \in Due(b) /\ list[i] \in Keys
           /\ list \in Seq(Keys)
           /\ \A i, j \in 1..Len(list) : list[i] = list[j] => i = j
           /\ \A k \in Due(b) : \E i \in 1..Len(list) : list[i] = k
  <1>1. Due(b) \subseteq Keys /\ IsFiniteSet(Due(b))
    <2>1. Due(b) \subseteq Keys
      BY DEF Due, Waiting
    <2> QED BY <2>1, PaperAssumption, FS_Subset
  <1>0. PICK S : S = Due(b)
    OBVIOUS
  <1>2. /\ list \in Seq(S) /\ \A i \in 1..Len(list) : list[i] \in S
        /\ \A i, j \in 1..Len(list) : list[i] = list[j] => i = j
        /\ DOMAIN list = 1..Len(list) /\ Len(list) \in Nat
        /\ \A k \in S : \E i \in DOMAIN list : list[i] = k
    BY <1>0, <1>1, ListingFacts, ListingAll
  <1>3. PICK N \in Nat : N = Len(list)
    BY <1>2
  <1>4. \A n \in 1..N : list[n] \in Keys
    BY <1>0, <1>1, <1>2, <1>3
  <1> DEFINE a == [risk |-> risk, left |-> 0, evs |-> <<>>]
             D(n) == {x \in Pass : PassDone(list, n, x)}
             W == UNION {D(n) : n \in 0..N}
             G == [n \in 1..N |-> [x \in W |->
                     IF x \in D(n - 1) THEN FillDue(x, list[n], good, b) ELSE x]]
  <1>5. a \in D(0)
    <2>1. risk \in Risk /\ <<>> \in Seq(Event) /\ Len(<<>>) = 0
      BY DEF TypeOK, Account
    <2>2. a \in Pass /\ a.risk = risk /\ a.evs = <<>>
      BY <2>1 DEF Pass
    <2> HIDE DEF a
    <2> QED BY <2>1, <2>2 DEF PassDone
  <1>6. ASSUME NEW n \in 1..N, NEW x \in D(n - 1)
        PROVE  FillDue(x, list[n], good, b) \in D(n)
    <2>1. PICK m \in Nat : m = n - 1 /\ m + 1 = n
      OBVIOUS
    <2>2. PassDone(list, m, x) /\ list[m + 1] \in Keys
      BY <1>4, <2>1
    <2>3. PassDone(list, m + 1, FillDue(x, list[m + 1], good, b))
      BY <2>2, FillDueFacts
    <2> QED BY <2>1, <2>3 DEF PassDone
  <1>7. a \in W
    <2>1. 0 \in 0..N
      OBVIOUS
    <2> HIDE DEF a
    <2> QED BY <1>5, <2>1
  <1> HIDE DEF a
  <1>8. G \in Steps(W, N)
    <2> SUFFICES ASSUME NEW n \in 1..N, NEW x \in W
                 PROVE  (IF x \in D(n - 1) THEN FillDue(x, list[n], good, b) ELSE x) \in W
      BY DEF Steps
    <2>1. CASE x \in D(n - 1)
      <3>1. FillDue(x, list[n], good, b) \in D(n) /\ n \in 0..N
        BY <1>6, <2>1
      <3> HIDE DEF D
      <3> QED BY <2>1, <3>1
    <2>2. CASE x \notin D(n - 1)
      BY <2>2
    <2> QED BY <2>1, <2>2
  <1>9. \A n \in 1..N, x \in W : x \in D(n - 1) => G[n][x] = FillDue(x, list[n], good, b)
    OBVIOUS
  <1> HIDE DEF G
  <1>10. PICK f \in [0..N -> W] : f[0] = a /\ \A n \in 1..N : f[n] = G[n][f[n - 1]]
    <2> HIDE DEF W
    <2>1. \E f : Iterates(f, W, a, N, G)
      BY ONLY N \in Nat, <1>7, <1>8, Iterate, Zenon
    <2> QED BY <2>1 DEF Iterates
  <1> DEFINE T == {n \in Nat : n <= N => f[n] \in D(n)}
  <1>11. 0 \in T
    BY <1>5, <1>10
  <1>12. ASSUME NEW n \in 0..N, n \in T, n < N PROVE n + 1 \in T
    <2>1. n + 1 \in 1..N /\ (n + 1) - 1 = n /\ n \in 0..N
      BY <1>12
    <2>2. f[n] \in D(n) /\ f[n] \in W
      BY <1>10, <1>12, <2>1
    <2>3. f[n + 1] = FillDue(f[n], list[n + 1], good, b)
      <3> HIDE DEF D, W
      <3> QED BY <1>9, <1>10, <2>1, <2>2
    <2>4. f[n + 1] \in D(n + 1)
      <3>1. FillDue(f[n], list[n + 1], good, b) \in D(n + 1)
        <4> HIDE DEF D
        <4> QED BY <1>6, <2>1, <2>2
      <3> QED BY <2>3, <3>1
    <2> QED BY <2>1, <2>4
  <1>13. T \in SUBSET Nat
    OBVIOUS
  <1> HIDE DEF T
  <1>14. \A n \in 0..N : n \in T
    BY <1>11, <1>12, <1>13, Climb
  <1>15. \A n \in 0..N : f[n] \in D(n)
    BY <1>14 DEF T
  <1>16. ASSUME NEW n \in 0..N
         PROVE  f[n] = IF n = 0 THEN a ELSE FillDue(f[n - 1], list[n], good, b)
    <2>1. CASE n = 0
      BY <1>10, <2>1
    <2>2. CASE n # 0
      <3>1. n \in 1..N /\ n - 1 \in 0..N
        BY <2>2
      <3> HIDE DEF D, W
      <3> QED BY <1>9, <1>10, <1>15, <2>2, <3>1
    <2> QED BY <2>1, <2>2
  <1>17. f = [n \in 0..Len(list) |->
                IF n = 0 THEN a ELSE FillDue(f[n - 1], list[n], good, b)]
    <2>1. f = [n \in 0..N |-> f[n]]
      BY <1>10
    <2> HIDE DEF W, D
    <2> QED BY <1>3, <1>16, <2>1
  <1>18. PICK p : p = BarPass(list, good, b)
    OBVIOUS
  <1>19. p = [n \in 0..N |-> IF n = 0 THEN a ELSE FillDue(p[n - 1], list[n], good, b)]
    BY <1>3, <1>17, <1>18, ZenonT(40) DEF BarPass, a
  <1> DEFINE U == {n \in Nat : n <= N => p[n] = f[n]}
  <1>20. 0 \in U
    BY <1>10, <1>19
  <1>21. ASSUME NEW n \in 0..N, n \in U, n < N PROVE n + 1 \in U
    <2>1. n + 1 \in 0..N /\ n + 1 # 0 /\ (n + 1) - 1 = n /\ n + 1 \in Nat
      BY <1>21
    <2>2. p[n] = f[n]
      BY <1>21
    <2>3. p[n + 1] = FillDue(p[n], list[n + 1], good, b)
      <3>1. p[n + 1] = IF n + 1 = 0 THEN a ELSE FillDue(p[(n + 1) - 1], list[n + 1], good, b)
        BY <1>19, <2>1, Zenon
      <3> QED BY <2>1, <3>1
    <2>4. f[n + 1] = FillDue(f[n], list[n + 1], good, b)
      <3>1. f[n + 1] = IF n + 1 = 0 THEN a ELSE FillDue(f[(n + 1) - 1], list[n + 1], good, b)
        BY <1>16, <2>1, Zenon
      <3> QED BY <2>1, <3>1
    <2> QED BY <2>1, <2>2, <2>3, <2>4
  <1>22. U \in SUBSET Nat
    OBVIOUS
  <1> HIDE DEF U
  <1>23. N \in U
    <2>1. \A n \in 0..N : n \in U
      BY <1>20, <1>21, <1>22, Climb
    <2> QED BY <2>1
  <1>24. p[N] \in D(N)
    <2>1. p[N] = f[N] /\ N \in 0..N
      BY <1>23 DEF U
    <2> QED BY <1>15, <2>1
  <1>25. PassDone(list, N, p[N])
    BY <1>24
  <1>26. \A k \in Due(b) : \E i \in 1..Len(list) : list[i] = k
    BY <1>0, <1>2
  <1>27. list \in Seq(Keys)
    BY <1>2, <1>4, <1>3
  <1> QED BY <1>0, <1>1, <1>2, <1>3, <1>18, <1>25, <1>26, <1>27
------------------------------------------------------------------------------
(* Paper account: what the handlers do *)

\* A list made of three, one after the other.
Joined(t, F, G, H) ==
    /\ t \in Seq(Event)
    /\ \A i \in DOMAIN t :
          \/ i \in DOMAIN F /\ t[i] = F[i]
          \/ \E j \in DOMAIN G : i = Len(F) + j /\ t[i] = G[j]
          \/ \E j \in DOMAIN H : i = Len(F) + Len(G) + j /\ t[i] = H[j]
    /\ \A j \in DOMAIN F : j \in DOMAIN t /\ t[j] = F[j]
    /\ \A j \in DOMAIN G : Len(F) + j \in DOMAIN t /\ t[Len(F) + j] = G[j]

LEMMA ThreeLists ==
    ASSUME NEW F \in Seq(Event), NEW G \in Seq(Event), NEW H \in Seq(Event),
           NEW t, t = (F \o G) \o H
    PROVE  Joined(t, F, G, H)
  <1>1. PICK l \in Nat, m \in Nat, n \in Nat : l = Len(F) /\ m = Len(G) /\ n = Len(H)
    OBVIOUS
  <1>2. PICK E \in Seq(Event) : E = F \o G
    <2>1. F \o G \in Seq(Event)
      OBVIOUS
    <2> QED BY <2>1, Zenon
  <1>3. /\ Len(E) = l + m /\ \A i \in 1..l : E[i] = F[i]
        /\ \A j \in 1..m : E[l + j] = G[j]
    BY <1>1, <1>2
  <1>4. PICK s \in Seq(Event) : s = E \o H
    <2>1. E \o H \in Seq(Event)
      OBVIOUS
    <2> QED BY <2>1, Zenon
  <1>5. /\ Len(s) = l + m + n /\ \A i \in 1..(l + m) : s[i] = E[i]
        /\ \A j \in 1..n : s[(l + m) + j] = H[j]
    <2>1. PICK k \in Nat : k = Len(E)
      OBVIOUS
    <2>2. /\ Len(s) = k + n /\ \A i \in 1..k : s[i] = E[i]
          /\ \A j \in 1..n : s[k + j] = H[j]
      BY <1>1, <1>4, <2>1
    <2>3. k = l + m
      BY <1>3, <2>1
    <2> QED BY <2>2, <2>3
  <1>6. DOMAIN s = 1..(l + m + n) /\ DOMAIN F = 1..l /\ DOMAIN G = 1..m /\ DOMAIN H = 1..n
    BY <1>1, <1>4, <1>5
  <1>7. ASSUME NEW i \in 1..(l + m + n)
        PROVE  \/ i \in 1..l /\ s[i] = F[i]
               \/ \E j \in 1..m : i = l + j /\ s[i] = G[j]
               \/ \E j \in 1..n : i = l + m + j /\ s[i] = H[j]
    <2>1. CASE i <= l
      BY <1>3, <1>5, <2>1
    <2>2. CASE l < i /\ i <= l + m
      <3>1. PICK j \in 1..m : i = l + j
        <4>1. i - l \in 1..m /\ i = l + (i - l)
          BY <2>2
        <4> QED BY <4>1
      <3> QED BY <1>3, <1>5, <2>2, <3>1
    <2>3. CASE l + m < i
      <3>1. PICK j \in 1..n : i = l + m + j
        <4>1. i - (l + m) \in 1..n /\ i = l + m + (i - (l + m))
          BY <2>3
        <4> QED BY <4>1
      <3> QED BY <1>5, <3>1
    <2> QED BY <2>1, <2>2, <2>3
  <1>8. \A j \in 1..l : j \in 1..(l + m + n) /\ s[j] = F[j]
    BY <1>3, <1>5
  <1>9. \A j \in 1..m : l + j \in 1..(l + m + n) /\ s[l + j] = G[j]
    BY <1>3, <1>5
  <1>10. s = t
    BY <1>2, <1>4
  <1>11. t \in Seq(Event)
    BY <1>4, <1>10, Zenon
  <1>12. ASSUME NEW i \in DOMAIN t
         PROVE  \/ i \in DOMAIN F /\ t[i] = F[i]
                \/ \E j \in DOMAIN G : i = Len(F) + j /\ t[i] = G[j]
                \/ \E j \in DOMAIN H : i = Len(F) + Len(G) + j /\ t[i] = H[j]
    <2>1. i \in 1..(l + m + n)
      BY <1>6, <1>10, Zenon
    <2> QED BY <1>1, <1>6, <1>7, <1>10, <2>1, Zenon
  <1>13. \A j \in DOMAIN F : j \in DOMAIN t /\ t[j] = F[j]
    BY <1>6, <1>8, <1>10, Zenon
  <1>14. \A j \in DOMAIN G : Len(F) + j \in DOMAIN t /\ t[Len(F) + j] = G[j]
    BY <1>1, <1>6, <1>9, <1>10, Zenon
  <1> QED BY <1>11, <1>12, <1>13, <1>14, Zenon DEF Joined

\* The risk state in which an entry is checked, and the one its check leaves.
LEMMA RiskAfterFacts ==
    ASSUME TypeOK, NEW o \in Order, NEW k \in Ids, NEW ok \in BOOLEAN
    PROVE  /\ RiskAfter(o, k, ok) \in Risk
           /\ risk.kill = "manual" => RiskAfter(o, k, ok).kill = "manual"
  <1>1. PICK y : y = OnDate(risk, o.day)
    OBVIOUS
  <1>2. risk \in Risk /\ o.day \in Nat
    BY DEF TypeOK, Account, Order
  <1>3. y \in Risk /\ (risk.kill = "manual" => y.kill = "manual")
    BY <1>1, <1>2, OnDateFacts
  <1>4. PICK r : r = Refreshed(o)
    OBVIOUS
  <1>5. r = IF y.kill = "off" /\ y.cool # 0 /\ o.at >= y.cool
            THEN [y EXCEPT !.cool = 0, !.losses = 0] ELSE y
    BY <1>1, <1>4 DEF Refreshed
  <1>6. [y EXCEPT !.cool = 0, !.losses = 0] \in Risk
        /\ [y EXCEPT !.cool = 0, !.losses = 0].kill = y.kill
    BY <1>3 DEF Risk
  <1>7. r \in Risk /\ (risk.kill = "manual" => r.kill = "manual")
    BY <1>3, <1>5, <1>6
  <1>8. PICK rs \in SUBSET Ids : rs = r.reserved \cup {k}
    BY <1>7 DEF Risk
  <1>9. /\ [r EXCEPT !.reserved = rs] \in Risk /\ [r EXCEPT !.reserved = rs].kill = r.kill
        /\ [r EXCEPT !.kill = "auto"] \in Risk
    BY <1>7 DEF Risk
  <1>10. RiskAfter(o, k, ok) =
            IF IsReduce(o.kind) THEN risk
            ELSE IF ok THEN [r EXCEPT !.reserved = rs]
            ELSE IF r.kill = "off" /\ r.cool = 0 /\ r.pnl <= -MaxLoss
            THEN [r EXCEPT !.kill = "auto"] ELSE r
    BY <1>4, <1>8 DEF RiskAfter
  <1> QED BY <1>2, <1>7, <1>9, <1>10

\* An order intent: the order is placed and its decision emitted.
LEMMA IntentShape ==
    ASSUME TypeOK, NEW c \in Threads, HandleIntent(c)
    PROVE  LET e == call[c].ev
           IN  /\ e.kind = "intent" /\ e.order \in Order /\ e.id \in Ids
               /\ orders' = [orders EXCEPT ![e.id] = e.order]
               /\ risk' \in Risk /\ (risk.kill = "manual" => risk'.kill = "manual")
               /\ \E d \in Event :
                     /\ d.kind = "decision" /\ d.id = e.id
                     /\ \/ Raised(c)
                        \/ Proceeded(c, <<d>>, {<<e.id, "intent">>}, <<>>)
               /\ UNCHANGED <<market, clock, pos, priced, stuck, store, crashes, held,
                              overlap>>
  <1>1. PICK e \in Event : e = call[c].ev
    BY CallFacts
  <1>2. /\ e.kind = "intent" /\ orders' = [orders EXCEPT ![e.id] = e.order]
        /\ UNCHANGED <<market, clock, pos, priced, stuck, store, crashes, held, overlap>>
    BY <1>1 DEF HandleIntent
  <1>3. e.order \in Order /\ e.id \in Ids /\ e.at \in Nat
    BY DEF Event
  <1>4. PICK o \in Order : o = e.order
    BY <1>3
  <1>5. PICK q \in Nat : q = IF IsReduce(o.kind) THEN Closable(pos[o.contract], o.side, o.qty)
                             ELSE o.qty
    <2>1. o.side \in {-1, 1} /\ o.qty \in Nat /\ pos[o.contract] \in Int
      BY DEF TypeOK, Account, Order
    <2> QED BY <2>1, ClosableFacts
  <1>6. PICK ok \in BOOLEAN :
           /\ risk' = RiskAfter(o, e.id, ok)
           /\ Emit(c, <<DecisionEvent(e.id, ok, IF ok THEN q ELSE 0, e.at)>>,
                   {<<e.id, "intent">>})
    BY <1>1, <1>4, <1>5 DEF HandleIntent
  <1>7. PICK n \in Nat : n = IF ok THEN q ELSE 0
    OBVIOUS
  <1>8. PICK d \in Event : d = DecisionEvent(e.id, ok, n, e.at)
                           /\ d.id = e.id /\ d.kind = "decision"
    BY <1>3, EventTypes
  <1>9. Emit(c, <<d>>, {<<e.id, "intent">>})
    BY <1>6, <1>7, <1>8
  <1>10. Raised(c) \/ Proceeded(c, <<d>>, {<<e.id, "intent">>}, <<>>)
    <2>1. TRUE \in BOOLEAN
      OBVIOUS
    <2> QED BY <1>9, <2>1, EmitFacts
  <1>11. risk' \in Risk /\ (risk.kill = "manual" => risk'.kill = "manual")
    BY <1>3, <1>4, <1>6, RiskAfterFacts
  <1> QED BY <1>1, <1>2, <1>3, <1>8, <1>10, <1>11

\* A risk decision: the order ends refused, waits for its bar, or is filled or
\* rejected at once, unless no price is known.
LEMMA DecisionShape ==
    ASSUME TypeOK, NEW c \in Threads, HandleDecision(c)
    PROVE  LET k == call[c].ev.id
           IN  /\ call[c].ev.kind = "decision" /\ k \in Ids
               /\ \E o \in Order :
                     /\ orders' = [orders EXCEPT ![k] = o] /\ o.kind = orders[k].kind
                     /\ \/ /\ o.status = "rejected"
                           /\ Proceeded(c, <<>>, {<<k, "refused">>}, <<>>)
                        \/ /\ IsNextBar(o.kind) /\ o.status = "approved"
                           /\ Proceeded(c, <<>>, {<<k, "approved">>}, <<>>)
                        \/ ~IsNextBar(o.kind) /\ Raised(c)
                        \/ /\ ~IsNextBar(o.kind)
                           /\ \E d \in Event :
                                 /\ d.kind \in {"status", "fill"} /\ d.id = k
                                 /\ Proceeded(c, <<d>>, {<<k, "approved">>}, <<>>)
               /\ UNCHANGED <<market, clock, pos, risk, priced, stuck, store, crashes,
                              held, overlap>>
  <1>1. PICK e \in Event : e = call[c].ev
    BY CallFacts
  <1>2. PICK k \in Ids : k = e.id
    BY DEF Event
  <1>3. e.qty \in Nat /\ e.at \in Nat
    BY DEF Event
  <1>4. PICK p \in Order : p = orders[k]
    BY DEF TypeOK
  <1>5. PICK o \in Order : /\ o = [p EXCEPT !.status = "approved", !.approved = e.qty]
                           /\ o.kind = p.kind /\ o.status = "approved"
    <2>1. PICK n \in Nat : n = e.qty
      BY <1>3
    <2>2. PICK o : o = [p EXCEPT !.status = "approved", !.approved = n]
      OBVIOUS
    <2>3. o \in Order /\ o.kind = p.kind /\ o.status = "approved"
      BY <2>2, EndedType
    <2> QED BY <2>1, <2>2, <2>3
  <1>6. PICK q \in Nat : q = IF IsReduce(o.kind) THEN Closable(pos[o.contract], o.side, e.qty)
                             ELSE e.qty
    <2>1. o.side \in {-1, 1} /\ pos[o.contract] \in Int
      BY DEF TypeOK, Account, Order
    <2> QED BY <1>3, <2>1, ClosableFacts
  <1>7. /\ e.kind = "decision"
        /\ UNCHANGED <<market, clock, pos, risk, priced, stuck, store, crashes, held, overlap>>
    BY <1>1 DEF HandleDecision
  <1>8. TRUE \in BOOLEAN /\ FALSE \in BOOLEAN
    OBVIOUS
  <1>9. \/ /\ orders' = [orders EXCEPT ![k] = Ended(p, "rejected")]
           /\ Emit(c, <<>>, {<<k, "refused">>})
        \/ /\ IsNextBar(o.kind) /\ orders' = [orders EXCEPT ![k] = o]
           /\ Emit(c, <<>>, {<<k, "approved">>})
        \/ /\ IsCurrentClose(o.kind) /\ orders' = [orders EXCEPT ![k] = o]
           /\ Raise(c, FALSE)
        \/ /\ ~IsNextBar(o.kind) /\ orders' = [orders EXCEPT ![k] = Ended(o, "rejected")]
           /\ Emit(c, <<StatusEvent(k, e.at)>>, {<<k, "approved">>})
        \/ /\ ~IsNextBar(o.kind) /\ orders' = [orders EXCEPT ![k] = Ended(o, "filled")]
           /\ Emit(c, <<FillEvent(k, o, q, e.at)>>, {<<k, "approved">>})
    <2>1. o = [orders[k] EXCEPT !.status = "approved", !.approved = e.qty]
      BY <1>4, <1>5
    <2>2. orders' = [orders EXCEPT ![k] = Ended(@, "rejected")] =>
             orders' = [orders EXCEPT ![k] = Ended(p, "rejected")]
      BY <1>4
    <2> QED BY <1>1, <1>2, <1>6, <2>1, <2>2 DEF HandleDecision
  <1>10. CASE /\ orders' = [orders EXCEPT ![k] = Ended(p, "rejected")]
              /\ Emit(c, <<>>, {<<k, "refused">>})
    <2>1. Proceeded(c, <<>>, {<<k, "refused">>}, <<>>)
      BY <1>8, <1>10, EmitFacts
    <2>2. PICK r \in Order : r = Ended(p, "rejected") /\ r.kind = p.kind /\ r.status = "rejected"
      BY <1>3, EndedType
    <2> QED BY <1>1, <1>2, <1>4, <1>7, <1>10, <2>1, <2>2
  <1>11. CASE /\ IsNextBar(o.kind) /\ orders' = [orders EXCEPT ![k] = o]
              /\ Emit(c, <<>>, {<<k, "approved">>})
    <2>1. Proceeded(c, <<>>, {<<k, "approved">>}, <<>>)
      BY <1>8, <1>11, EmitFacts
    <2> QED BY <1>1, <1>2, <1>4, <1>5, <1>7, <1>11, <2>1
  <1>12. CASE /\ IsCurrentClose(o.kind) /\ orders' = [orders EXCEPT ![k] = o]
              /\ Raise(c, FALSE)
    <2>1. Raised(c)
      BY <1>8, <1>12, EmitFacts
    <2>2. ~IsNextBar(o.kind)
      BY <1>12 DEF IsCurrentClose, IsNextBar
    <2> QED BY <1>1, <1>2, <1>4, <1>5, <1>7, <1>12, <2>1, <2>2
  <1>13. ASSUME ~IsNextBar(o.kind), NEW st \in {"filled", "rejected"},
                orders' = [orders EXCEPT ![k] = Ended(o, st)],
                NEW d \in Event, d.kind \in {"status", "fill"}, d.id = k,
                Emit(c, <<d>>, {<<k, "approved">>})
         PROVE  \E r \in Order :
                   /\ orders' = [orders EXCEPT ![k] = r] /\ r.kind = p.kind
                   /\ ~IsNextBar(r.kind)
                   /\ \/ Raised(c)
                      \/ Proceeded(c, <<d>>, {<<k, "approved">>}, <<>>)
    <2>1. Raised(c) \/ Proceeded(c, <<d>>, {<<k, "approved">>}, <<>>)
      BY <1>8, <1>13, EmitFacts
    <2>2. PICK r \in Order : r = Ended(o, st) /\ r.kind = o.kind
      BY <1>3, EndedType
    <2> QED BY <1>5, <1>13, <2>1, <2>2
  <1>14. CASE /\ ~IsNextBar(o.kind) /\ orders' = [orders EXCEPT ![k] = Ended(o, "rejected")]
              /\ Emit(c, <<StatusEvent(k, e.at)>>, {<<k, "approved">>})
    <2>1. PICK d \in Event : d = StatusEvent(k, e.at) /\ d.kind = "status" /\ d.id = k
      BY <1>3, EventTypes
    <2>2. Emit(c, <<d>>, {<<k, "approved">>})
      BY <1>14, <2>1
    <2> QED BY <1>1, <1>2, <1>4, <1>7, <1>13, <1>14, <2>1, <2>2
  <1>15. CASE /\ ~IsNextBar(o.kind) /\ orders' = [orders EXCEPT ![k] = Ended(o, "filled")]
              /\ Emit(c, <<FillEvent(k, o, q, e.at)>>, {<<k, "approved">>})
    <2>1. PICK d \in Event : d = FillEvent(k, o, q, e.at) /\ d.kind = "fill" /\ d.id = k
      BY <1>3, EventTypes
    <2>2. Emit(c, <<d>>, {<<k, "approved">>})
      BY <1>15, <2>1
    <2> QED BY <1>1, <1>2, <1>4, <1>7, <1>13, <1>15, <2>1, <2>2
  <1> QED BY <1>9, <1>10, <1>11, <1>12, <1>14, <1>15

\* A rejection: the reservation is dropped.
LEMMA StatusShape ==
    ASSUME TypeOK, NEW c \in Threads, HandleStatus(c)
    PROVE  /\ call[c].ev.kind = "status" /\ call[c].ev.id \in Ids
           /\ risk' \in Risk /\ risk'.kill = risk.kill
           /\ Proceeded(c, <<>>, {<<call[c].ev.id, "rejected">>}, <<>>)
           /\ UNCHANGED <<market, clock, orders, pos, priced, stuck, store, crashes,
                          held, overlap>>
  <1>1. PICK k \in Ids : k = call[c].ev.id
    BY CallFacts
  <1>2. /\ call[c].ev.kind = "status" /\ risk' = Release(risk, {k})
        /\ Emit(c, <<>>, {<<k, "rejected">>})
        /\ UNCHANGED <<market, clock, orders, pos, priced, stuck, store, crashes, held,
                       overlap>>
    BY <1>1 DEF HandleStatus
  <1>3. TRUE \in BOOLEAN
    OBVIOUS
  <1>4. Proceeded(c, <<>>, {<<k, "rejected">>}, <<>>)
    BY <1>2, <1>3, EmitFacts
  <1>5. PICK r \in Risk : r = risk
    BY DEF TypeOK, Account
  <1>6. PICK rs \in SUBSET Ids : rs = r.reserved \ {k}
    BY DEF Risk
  <1>7. risk' = [r EXCEPT !.reserved = rs]
    BY <1>2, <1>5, <1>6 DEF Release
  <1>8. risk' \in Risk /\ risk'.kill = risk.kill
    BY <1>5, <1>7 DEF Risk
  <1> QED BY <1>1, <1>2, <1>4, <1>8

\* A fill: the position moves; the rest follows unless the clock has moved on.
LEMMA FillShape ==
    ASSUME TypeOK, NEW c \in Threads, HandleFill(c)
    PROVE  /\ call[c].ev.kind = "fill" /\ call[c].ev.id \in Ids
           /\ \E f \in Fill, acc \in Account :
                 /\ f.order = call[c].ev.id /\ acc = [pos |-> pos, risk |-> risk]
                 /\ pos' = ApplyFill(acc, f).pos
                 /\ \/ Raised(c) /\ UNCHANGED <<risk, stuck, held>>
                    \/ /\ Proceeded(c, <<>>, {<<call[c].ev.id, "filled">>}, <<f>>)
                       /\ risk' = ApplyFill(acc, f).risk
                       /\ stuck' \subseteq stuck /\ held' = HeldAfter(acc, <<f>>)
           /\ UNCHANGED <<market, clock, orders, priced, store, crashes, overlap>>
  <1>1. PICK e \in Event : e = call[c].ev
    BY CallFacts
  <1>2. e.id \in Ids
    BY DEF Event
  <1>3. /\ e.kind = "fill"
        /\ UNCHANGED <<market, clock, orders, priced, store, crashes, overlap>>
    BY <1>1 DEF HandleFill
  <1>4. PICK acc \in Account : acc = [pos |-> pos, risk |-> risk]
    BY DEF TypeOK
  <1>5. PICK pnl \in Outcomes :
           LET f == FillOf(e, pnl)
           IN  /\ pos' = ApplyFill(acc, f).pos
               /\ IF Stale(c)
                  THEN Raise(c, TRUE) /\ UNCHANGED <<risk, stuck, held>>
                  ELSE /\ Proceed(c, <<>>, {<<e.id, "filled">>}, <<f>>)
                       /\ risk' = ApplyFill(acc, f).risk
                       /\ stuck' = IF e.order.kind = "roll"
                                   THEN stuck \ {e.order.contract} ELSE stuck
                       /\ held' = HeldAfter(acc, <<f>>)
    BY <1>1, <1>4 DEF HandleFill
  <1>6. PICK f \in Fill : f = FillOf(e, pnl) /\ f.order = e.id
    BY FillOfType
  <1>7. /\ pos' = ApplyFill(acc, f).pos
        /\ \/ Raise(c, TRUE) /\ UNCHANGED <<risk, stuck, held>>
           \/ /\ Proceed(c, <<>>, {<<e.id, "filled">>}, <<f>>)
              /\ risk' = ApplyFill(acc, f).risk
              /\ stuck' \subseteq stuck /\ held' = HeldAfter(acc, <<f>>)
    BY <1>5, <1>6
  <1>8. TRUE \in BOOLEAN
    OBVIOUS
  <1>9. /\ Raise(c, TRUE) => Raised(c)
        /\ Proceed(c, <<>>, {<<e.id, "filled">>}, <<f>>) =>
              Proceeded(c, <<>>, {<<e.id, "filled">>}, <<f>>)
    BY <1>8, EmitFacts
  <1> QED BY <1>1, <1>2, <1>3, <1>4, <1>6, <1>7, <1>9

\* The events of the bar's run: of a rejected or due order each, once, or the
\* intent of a roll.
BarEvents(evs) ==
    /\ evs \in Seq(Event)
    /\ \A i \in DOMAIN evs :
          \/ evs[i].kind \in {"status", "fill"} /\ evs[i].id \in Waiting
          \/ /\ evs[i].kind = "intent" /\ evs[i].id \in Contracts
             /\ evs[i].order.kind = "roll" /\ evs[i].order.status = "pending_risk"
    /\ \A i, j \in DOMAIN evs : evs[i].id \in Keys /\ evs[i].id = evs[j].id => i = j

\* A roll's intent.
LEMMA RollType ==
    ASSUME TypeOK, NEW b \in Order, NEW x \in Contracts
    PROVE  /\ RollIntent(b, x) \in Event /\ RollIntent(b, x).id = x
           /\ RollIntent(b, x).kind = "intent"
           /\ RollIntent(b, x).order.kind = "roll"
           /\ RollIntent(b, x).order.status = "pending_risk"
  <1>1. PICK q \in Nat : q = Abs(pos[x])
    <2>1. pos[x] \in Int
      BY DEF TypeOK, Account
    <2> QED BY <2>1 DEF Abs
  <1>2. PICK s \in {-1, 1} : s = IF pos[x] > 0 THEN -1 ELSE 1
    OBVIOUS
  <1>3. b.at \in Nat /\ b.day \in Nat
    BY DEF Order
  <1>4. PICK o : o = [NoOrder EXCEPT !.kind = "roll", !.qty = q, !.side = s, !.at = b.at,
                         !.day = b.day, !.contract = x, !.status = "pending_risk"]
    OBVIOUS
  <1>5. o \in Order /\ o.kind = "roll" /\ o.status = "pending_risk"
    BY <1>3, <1>4, IdleType DEF Order
  <1>6. RollIntent(b, x) = [NoEvent EXCEPT !.kind = "intent", !.id = x, !.at = b.at,
                                           !.order = o]
    BY <1>1, <1>2, <1>4 DEF RollIntent
  <1>7. x \in Ids
    BY IdFacts
  <1> QED BY <1>3, <1>5, <1>6, <1>7, IdleType DEF Event

\* A bar: what its run emits, and the orders that end.
LEMMA BarShape ==
    ASSUME TypeOK, NEW c \in Threads, HandleBar(c)
    PROVE  /\ call[c].ev.kind = "bar"
           /\ orders' \in [Ids -> Order] /\ risk' \in Risk
           /\ risk.kill = "manual" => risk'.kill = "manual"
           /\ \A k \in Ids : orders'[k].kind = orders[k].kind
           /\ \A k \in Waiting : \/ orders'[k] = orders[k]
                                 \/ orders'[k].status \in {"filled", "rejected"}
           /\ \A k \in Waiting : IsReduce(orders[k].kind) \/ risk.kill = "off"
                                 \/ orders'[k].status # "filled"
           /\ \A k \in Ids : k \notin Waiting => orders'[k] = orders[k]
           /\ \E evs :
                 /\ BarEvents(evs)
                 /\ Raised(c) \/ Proceeded(c, evs, {}, <<>>)
                 /\ \A k \in Keys : orders'[k] = orders[k]
                                    \/ \E i \in DOMAIN evs : evs[i].id = k
                 /\ \A i \in DOMAIN evs : evs[i].kind # "intent" =>
                       orders'[evs[i].id].status \in {"filled", "rejected"}
           /\ priced' \subseteq Contracts /\ stuck' \subseteq Contracts
           /\ UNCHANGED <<market, clock, pos, store, crashes, held, overlap>>
  <1> DEFINE b == call[c].ev.order
  <1>1. b \in Order
    BY CallFacts
  <1>2. PICK list \in Placed(Due(b), orders), gone \in Listings(Outdated(b)),
             good \in SUBSET {k \in Due(b) : ~IsReduce(orders[k].kind)} :
           LET pass   == BarPass(list, good, b)[Len(list)]
               broker == [i \in DOMAIN gone |-> StatusEvent(gone[i], b.at)]
                            \o pass.evs
               os     == OrdersAfter(pass.evs, Outdated(b))
               old    == Rolled(b, os)
               early  == Stale(c) /\ (broker # <<>> \/ pos[b.contract] # 0)
           IN  \E cs \in Listings(old) :
                  /\ orders' = os /\ risk' = pass.risk
                  /\ stuck' = IF early THEN stuck ELSE stuck \cup old
                  /\ IF early \/ (Stale(c) /\ old # {}) THEN Raise(c, FALSE)
                     ELSE Proceed(c, broker \o [i \in DOMAIN cs |->
                                                  RollIntent(b, cs[i])], {}, <<>>)
    BY Zenon DEF HandleBar
  <1> HIDE DEF b
  <1> USE <1>1
  <1>0. list \in Listings(Due(b))
    BY DEF Placed
  <1>3. PICK x : x = BarPass(list, good, b)[Len(list)]
    OBVIOUS
  <1>4. PICK n \in Nat : n = Len(list)
    <2>1. Due(b) \subseteq Keys
      BY DEF Due, Waiting
    <2>2. IsFiniteSet(Due(b))
      BY <2>1, PaperAssumption, FS_Subset
    <2> QED BY <1>0, <2>2, ListingFacts
  <1>5. /\ PassDone(list, n, x) /\ \A i \in 1..n : list[i] \in Due(b) /\ list[i] \in Keys
        /\ \A i, j \in 1..n : list[i] = list[j] => i = j
        /\ \A k \in Due(b) : \E i \in 1..n : list[i] = k
    BY <1>0, <1>3, <1>4, PassFacts
  <1>6. /\ x.risk \in Risk /\ x.evs \in Seq(Event) /\ Len(x.evs) = n
        /\ risk.kill = "manual" => x.risk.kill = "manual"
        /\ \A i \in 1..n :
              /\ x.evs[i].id = list[i] /\ x.evs[i].kind \in {"status", "fill"}
              /\ x.evs[i].kind = "fill" /\ ~IsReduce(orders[list[i]].kind)
                    => risk.kill = "off"
    BY <1>5 DEF PassDone, Pass
  <1>7. PICK P \in Seq(Event) : P = x.evs
    BY <1>6
  <1>8. DOMAIN P = 1..n
    BY <1>6, <1>7
  <1>9. Outdated(b) \subseteq Keys /\ Outdated(b) \subseteq Waiting /\ IsFiniteSet(Outdated(b))
        /\ Due(b) \subseteq Waiting /\ Waiting \subseteq Keys
        /\ \A k \in Due(b) : k \notin Outdated(b)
    <2>1. Outdated(b) \subseteq Keys
      BY DEF Outdated, Waiting
    <2> QED BY <2>1, PaperAssumption, FS_Subset DEF Outdated, Due, Waiting
  <1>10. PICK W : W = Outdated(b)
    OBVIOUS
  <1>11. PICK g \in Nat : g = Len(gone)
    BY <1>9, ListingFacts
  <1>12. /\ DOMAIN gone = 1..g /\ \A i \in 1..g : gone[i] \in W
         /\ \A i, j \in 1..g : gone[i] = gone[j] => i = j
         /\ \A k \in W : \E i \in 1..g : gone[i] = k
    BY <1>9, <1>10, <1>11, ListingFacts, ListingAll
  <1>13. PICK t \in Nat : t = b.at
    BY DEF Order
  <1>14. PICK G : G = [i \in 1..g |-> StatusEvent(gone[i], t)]
    OBVIOUS
  <1>15. ASSUME NEW i \in 1..g
         PROVE  G[i] \in Event /\ G[i].id = gone[i] /\ G[i].kind = "status"
    <2>1. gone[i] \in Ids /\ 0 \in Nat
      BY <1>9, <1>10, <1>12, IdFacts
    <2>2. G[i] = StatusEvent(gone[i], t)
      BY <1>14
    <2> QED BY <2>1, <2>2, EventTypes
  <1>16. G \in Seq(Event) /\ Len(G) = g /\ DOMAIN G = 1..g
    BY <1>14, <1>15
  <1>17. PICK os : os = OrdersAfter(P, W)
    OBVIOUS
  <1>18. PICK old : old = Rolled(b, os)
    OBVIOUS
  <1>19. old \subseteq Contracts /\ IsFiniteSet(old)
    <2>1. old \subseteq Contracts
      BY <1>18 DEF Rolled
    <2> QED BY <2>1, IdFacts, FS_Subset
  <1>20. PICK cs \in Listings(old) :
            /\ orders' = os /\ risk' = x.risk
            /\ stuck' = stuck \/ stuck' = stuck \cup old
            /\ \/ Raise(c, FALSE)
               \/ Proceed(c, (G \o P) \o [i \in DOMAIN cs |-> RollIntent(b, cs[i])],
                          {}, <<>>)
    <2>1. [i \in DOMAIN gone |-> StatusEvent(gone[i], b.at)] = G
      BY <1>12, <1>13, <1>14
    <2> QED BY <1>2, <1>3, <1>7, <1>10, <1>17, <1>18, <2>1, Zenon
  <1>21. PICK r \in Nat : r = Len(cs)
    BY <1>19, ListingFacts
  <1>22. DOMAIN cs = 1..r /\ \A i \in 1..r : cs[i] \in Contracts
    BY <1>19, <1>21, ListingFacts
  <1>23. PICK R : R = [i \in DOMAIN cs |-> RollIntent(b, cs[i])]
    OBVIOUS
  <1>24. ASSUME NEW i \in 1..r
         PROVE  /\ R[i] \in Event /\ R[i].id \in Contracts /\ R[i].kind = "intent"
                /\ R[i].order.kind = "roll" /\ R[i].order.status = "pending_risk"
    <2>1. R[i] = RollIntent(b, cs[i]) /\ cs[i] \in Contracts
      BY <1>22, <1>23
    <2> QED BY <2>1, RollType
  <1>25. R \in Seq(Event) /\ Len(R) = r /\ DOMAIN R = 1..r
    <2>1. R = [i \in 1..r |-> R[i]]
      BY <1>22, <1>23
    <2> QED BY <1>24, <2>1
  <1>26. PICK evs : evs = (G \o P) \o R
    OBVIOUS
  <1>27. /\ evs \in Seq(Event)
         /\ \A i \in DOMAIN evs :
               \/ i \in 1..g /\ evs[i] = G[i]
               \/ \E j \in 1..n : i = g + j /\ evs[i] = P[j]
               \/ \E j \in 1..r : i = g + n + j /\ evs[i] = R[j]
         /\ \A j \in 1..g : j \in DOMAIN evs /\ evs[j] = G[j]
         /\ \A j \in 1..n : g + j \in DOMAIN evs /\ evs[g + j] = P[j]
    <2>1. Len(P) = n
      BY <1>6, <1>7
    <2>2. /\ evs \in Seq(Event)
          /\ \A i \in DOMAIN evs :
                \/ i \in DOMAIN G /\ evs[i] = G[i]
                \/ \E j \in DOMAIN P : i = Len(G) + j /\ evs[i] = P[j]
                \/ \E j \in DOMAIN R : i = Len(G) + Len(P) + j /\ evs[i] = R[j]
          /\ \A j \in DOMAIN G : j \in DOMAIN evs /\ evs[j] = G[j]
          /\ \A j \in DOMAIN P : Len(G) + j \in DOMAIN evs /\ evs[Len(G) + j] = P[j]
      <3>1. P \in Seq(Event)
        BY <1>7
      <3>2. Joined(evs, G, P, R)
        BY ONLY <1>16, <1>25, <1>26, <3>1, ThreeLists
      <3> QED BY <3>2, Zenon DEF Joined
    <2> QED BY <1>8, <1>16, <1>25, <2>1, <2>2, Zenon
  <1>28. \A j \in 1..n : /\ P[j].id = list[j] /\ P[j].kind \in {"status", "fill"}
                         /\ P[j].id \in Due(b) /\ P[j].id \in Keys
    BY <1>5, <1>6, <1>7
  <1>29. ASSUME NEW i \in DOMAIN evs
         PROVE  /\ \/ evs[i].kind \in {"status", "fill"} /\ evs[i].id \in Waiting
                   \/ /\ evs[i].kind = "intent" /\ evs[i].id \in Contracts
                      /\ evs[i].order.kind = "roll" /\ evs[i].order.status = "pending_risk"
                /\ \/ /\ i \in 1..g /\ evs[i].id = gone[i] /\ evs[i].id \in W
                   \/ \E j \in 1..n : i = g + j /\ evs[i].id = list[j] /\ evs[i] = P[j]
                   \/ evs[i].kind = "intent" /\ evs[i].id \notin Keys
    <2>1. CASE i \in 1..g /\ evs[i] = G[i]
      BY <1>9, <1>10, <1>12, <1>15, <2>1
    <2>2. ASSUME NEW j \in 1..n, i = g + j, evs[i] = P[j]
          PROVE  evs[i].kind \in {"status", "fill"} /\ evs[i].id \in Waiting
                 /\ evs[i].id = list[j]
      BY <1>9, <1>28, <2>2
    <2>3. ASSUME NEW j \in 1..r, evs[i] = R[j]
          PROVE  /\ evs[i].kind = "intent" /\ evs[i].id \in Contracts
                 /\ evs[i].order.kind = "roll" /\ evs[i].order.status = "pending_risk"
                 /\ evs[i].id \notin Keys
      BY <1>24, <2>3, IdFacts
    <2> QED BY <1>27, <2>1, <2>2, <2>3
  <1>30. \A i, j \in DOMAIN evs : evs[i].id \in Keys /\ evs[i].id = evs[j].id => i = j
    <2> SUFFICES ASSUME NEW i \in DOMAIN evs, NEW j \in DOMAIN evs,
                        evs[i].id \in Keys, evs[i].id = evs[j].id
                 PROVE  i = j
      OBVIOUS
    <2>1. \A m \in 1..n : list[m] \notin W
      BY <1>5, <1>9, <1>10
    <2>2. \/ i \in 1..g /\ evs[i].id = gone[i] /\ evs[i].id \in W
          \/ \E m \in 1..n : i = g + m /\ evs[i].id = list[m]
      BY <1>29
    <2>3. \/ j \in 1..g /\ evs[j].id = gone[j] /\ evs[j].id \in W
          \/ \E m \in 1..n : j = g + m /\ evs[j].id = list[m]
      BY <1>29
    <2> QED BY <1>5, <1>12, <2>1, <2>2, <2>3
  <1>31. BarEvents(evs)
    BY <1>27, <1>29, <1>30 DEF BarEvents
  <1>32. Raised(c) \/ Proceeded(c, evs, {}, <<>>)
    <2>1. FALSE \in BOOLEAN
      OBVIOUS
    <2>2. Raise(c, FALSE) \/ Proceed(c, evs, {}, <<>>)
      BY <1>20, <1>23, <1>26, Zenon
    <2> QED BY <2>1, <2>2, EmitFacts
  <1>33. ASSUME NEW k \in Ids
         PROVE  /\ os[k] \in Order /\ os[k].kind = orders[k].kind
                /\ \/ os[k] = orders[k] /\ k \notin W /\ \A i \in 1..n : P[i].id # k
                   \/ /\ os[k].status \in {"filled", "rejected"}
                      /\ k \in W \/ \E i \in 1..n : P[i].id = k
                /\ os[k].status = "filled" /\ os[k] # orders[k] =>
                      \E i \in 1..n : P[i].id = k /\ P[i].kind = "fill"
    <2>1. PICK o \in Order : o = orders[k]
      BY DEF TypeOK
    <2>2. os[k] = IF \E i \in 1..n : P[i].id = k /\ P[i].kind = "fill"
                  THEN Ended(o, "filled")
                  ELSE IF k \in W \/ \E i \in 1..n : P[i].id = k
                  THEN Ended(o, "rejected") ELSE o
      BY <1>8, <1>17, <2>1 DEF OrdersAfter
    <2>3. 0 \in Nat
      OBVIOUS
    <2>4. \A st \in {"filled", "rejected"} :
                 /\ Ended(o, st) \in Order /\ Ended(o, st).status = st
                 /\ Ended(o, st).kind = o.kind
      BY <2>3, EndedType
    <2> QED BY <2>1, <2>2, <2>4
  <1>34. os \in [Ids -> Order]
    <2>1. os = [k \in Ids |-> os[k]]
      BY <1>17 DEF OrdersAfter
    <2> QED BY <1>33, <2>1
  <1>35. \A k \in Ids : \/ os[k] = orders[k]
                        \/ k \in Waiting /\ os[k].status \in {"filled", "rejected"}
    BY <1>9, <1>10, <1>28, <1>33
  <1>36. ASSUME NEW k \in Waiting, ~IsReduce(orders[k].kind), os[k].status = "filled"
         PROVE  risk.kill = "off"
    <2>1. k \in Ids /\ orders[k].status = "approved"
      BY <1>9, IdFacts DEF Waiting
    <2>2. PICK i \in 1..n : P[i].id = k /\ P[i].kind = "fill"
      BY <1>33, <1>36, <2>1
    <2> QED BY <1>6, <1>7, <1>36, <2>2
  <1>37. \A k \in Keys : os[k] = orders[k] \/ \E i \in DOMAIN evs : evs[i].id = k
    <2> SUFFICES ASSUME NEW k \in Keys, os[k] # orders[k]
                 PROVE  \E i \in DOMAIN evs : evs[i].id = k
      OBVIOUS
    <2>1. k \in W \/ \E i \in 1..n : P[i].id = k
      BY <1>33, IdFacts
    <2> QED BY <1>12, <1>15, <1>27, <2>1
  <1>38. ASSUME NEW i \in DOMAIN evs, evs[i].kind # "intent"
         PROVE  os[evs[i].id].status \in {"filled", "rejected"}
    <2>1. evs[i].id \in W \/ \E j \in 1..n : P[j].id = evs[i].id
      BY <1>29, <1>38
    <2>2. evs[i].id \in Ids
      BY <1>9, <1>29, <1>38, IdFacts
    <2> QED BY <1>33, <2>1, <2>2
  <1>39. /\ call[c].ev.kind = "bar" /\ priced' = priced \cup {b.contract}
         /\ UNCHANGED <<market, clock, pos, store, crashes, held, overlap>>
    BY DEF HandleBar, b
  <1>40. priced' \subseteq Contracts /\ stuck' \subseteq Contracts
    BY <1>19, <1>20, <1>39 DEF TypeOK, Order
  <1>41. \E e :
           /\ BarEvents(e)
           /\ Raised(c) \/ Proceeded(c, e, {}, <<>>)
           /\ \A k \in Keys : orders'[k] = orders[k] \/ \E i \in DOMAIN e : e[i].id = k
           /\ \A i \in DOMAIN e : e[i].kind # "intent" =>
                 orders'[e[i].id].status \in {"filled", "rejected"}
    BY <1>20, <1>31, <1>32, <1>37, <1>38, Zenon
  <1>42. Waiting \subseteq Ids
    BY <1>9, IdFacts
  <1>43. /\ \A k \in Ids : orders'[k].kind = orders[k].kind
         /\ \A k \in Waiting : \/ orders'[k] = orders[k]
                               \/ orders'[k].status \in {"filled", "rejected"}
         /\ \A k \in Ids : k \notin Waiting => orders'[k] = orders[k]
         /\ \A k \in Waiting : IsReduce(orders[k].kind) \/ risk.kill = "off"
                               \/ orders'[k].status # "filled"
    BY <1>20, <1>33, <1>35, <1>36, <1>42
  <1> QED BY <1>6, <1>20, <1>34, <1>39, <1>40, <1>41, <1>43
------------------------------------------------------------------------------
(* Paper account: what the other steps do *)

\* The call of a thread after its step, and those of the others.
Becomes(c, y) ==
    /\ CallOK(y) /\ DOMAIN call' = Threads /\ \A d \in Threads : CallOK(call'[d])
    /\ call'[c] = y /\ \A d \in Threads \ {c} : call'[d] = call[d]

\* A thread that has just begun to run the engine, or waits before that.
Begun(y, pc, key) ==
    /\ y.pc = pc /\ y.key = key /\ y.ev = NoEvent /\ y.rows = {} /\ y.fills = <<>>

\* What such a call is made of.
Fresh(y, pc, key, o) ==
    \/ y = [IdleCall EXCEPT !.pc = pc, !.key = key, !.order = o]
    \/ y = [IdleCall EXCEPT !.pc = pc, !.key = key] /\ o = NoOrder

LEMMA BeginFacts ==
    ASSUME TypeOK, NEW c \in Threads, NEW pc \in {"reserved", "run"},
           NEW key \in Keys \cup {"bar"}, pc = "reserved" => key \in Keys,
           NEW o \in Order, NEW y, call' = [call EXCEPT ![c] = y],
           Fresh(y, pc, key, o)
    PROVE  Becomes(c, y) /\ Begun(y, pc, key) /\ y.order = o
  <1>1. PICK n, m : n = NoOrder /\ m = NoEvent
    OBVIOUS
  <1>2. IdleCall = [pc |-> "idle", key |-> "none", order |-> n, ev |-> m, rows |-> {},
                    fills |-> <<>>]
    BY <1>1 DEF IdleCall
  <1>3. y = [pc |-> pc, key |-> key, order |-> o, ev |-> m, rows |-> {}, fills |-> <<>>]
    BY <1>1, <1>2 DEF Fresh
  <1>4. m \in Event /\ <<>> \in Seq(Fill)
    BY <1>1, IdleType
  <1>5. CallOK(y) /\ Begun(y, pc, key) /\ y.order = o
    BY <1>1, <1>3, <1>4 DEF CallOK, Begun
  <1> QED BY <1>5, CallSet DEF Becomes

\* A thread that is through.
LEMMA IdleFacts ==
    ASSUME TypeOK, NEW c \in Threads, call' = [call EXCEPT ![c] = IdleCall]
    PROVE  Becomes(c, IdleCall)
  BY IdleType, CallSet DEF Becomes

\* A key is reserved for a new order.
LEMMA ReserveShape ==
    ASSUME TypeOK, NEW c \in Threads, NEW k \in Keys, NEW kind \in Kinds,
           NEW side \in {-1, 1}, NEW qty \in Lots, ReserveKey(c, k, kind, side, qty)
    PROVE  /\ call[c].pc = "idle" /\ k \notin keys /\ keys' = keys \cup {k}
           /\ \E y : /\ Becomes(c, y) /\ Begun(y, "reserved", k)
                     /\ y.order.kind = kind /\ y.order.status = "pending_risk"
           /\ UNCHANGED <<market, memory, saved, book, crashes, ghosts>>
  <1>1. PICK o : o = Intent(kind, side, qty)
    OBVIOUS
  <1>2. o \in Order /\ o.kind = kind /\ o.status = "pending_risk"
    <2>1. PICK t \in Nat : t = IF IsAuto(kind) THEN now - 1 ELSE now
      BY DEF TypeOK
    <2>2. kind \in OrderKinds /\ qty \in Nat /\ day \in Nat /\ front \in Contracts
      BY PaperAssumption DEF TypeOK
    <2>3. o = [kind |-> kind, side |-> side, qty |-> qty, at |-> t, day |-> day,
               contract |-> front, status |-> "pending_risk", approved |-> 0]
      BY <1>1, <2>1 DEF Intent
    <2> QED BY <2>2, <2>3 DEF Order
  <1>3. call' = [call EXCEPT ![c] = [IdleCall EXCEPT !.pc = "reserved", !.key = k,
                                                     !.order = o]]
    BY <1>1 DEF ReserveKey
  <1>4. PICK y : Becomes(c, y) /\ Begun(y, "reserved", k) /\ y.order = o
    <2>1. PICK y : y = [IdleCall EXCEPT !.pc = "reserved", !.key = k, !.order = o]
      OBVIOUS
    <2>2. call' = [call EXCEPT ![c] = y]
      BY <1>3, <2>1
    <2>4. Fresh(y, "reserved", k, o)
      BY <2>1 DEF Fresh
    <2>3. Becomes(c, y) /\ Begun(y, "reserved", k) /\ y.order = o
      <3>1. PICK pc \in {"reserved", "run"} : pc = "reserved"
        OBVIOUS
      <3>2. PICK key \in Keys \cup {"bar"} : key = k
        OBVIOUS
      <3>3. Fresh(y, pc, key, o) /\ (pc = "reserved" => key \in Keys) /\ o \in Order
        BY <1>2, <2>4, <3>1, <3>2
      <3>4. Becomes(c, y) /\ Begun(y, pc, key)
        BY <2>2, <3>3, BeginFacts
      <3>5. y.order = o
        BY <2>1 DEF IdleCall
      <3> QED BY <3>1, <3>2, <3>4, <3>5
    <2> QED BY <2>3
  <1>5. /\ call[c].pc = "idle" /\ k \notin keys /\ keys' = keys \cup {k}
        /\ UNCHANGED <<market, memory, saved, book, crashes, ghosts>>
    BY DEF ReserveKey
  <1> QED BY <1>2, <1>4, <1>5

\* A submission goes into the engine with the intent of its order.
LEMMA PublishShape ==
    ASSUME TypeOK, NEW c \in Threads, Publish(c)
    PROVE  /\ call[c].pc = "reserved" /\ call[c].key \in Keys
           /\ priced' \subseteq Contracts /\ overlap' \in BOOLEAN
           /\ \E y : Becomes(c, y) /\ Begun(y, "run", call[c].key)
           /\ \E e \in Event :
                 /\ events' = events \cup {e} /\ IsFiniteSet(events')
                 /\ e.kind = "intent" /\ e.id = call[c].key /\ e.order = call[c].order
           /\ UNCHANGED <<market, clock, orders, pos, risk, stuck, store, crashes,
                          held, raised, forgot>>
  <1>1. PICK k \in Keys : k = call[c].key
    BY CallFacts DEF Publish
  <1>2. PICK o \in Order : o = call[c].order
    BY CallFacts
  <1>3. /\ call[c].pc = "reserved" /\ priced' = priced \cup {o.contract}
        /\ overlap' = Overlaps(c)
        /\ call' = [call EXCEPT ![c] = [IdleCall EXCEPT !.pc = "run", !.key = k]]
        /\ events' = Pushed(<<[NoEvent EXCEPT !.kind = "intent", !.id = k, !.at = o.at,
                                              !.order = o]>>)
        /\ UNCHANGED <<market, clock, orders, pos, risk, stuck, store, crashes,
                       held, raised, forgot>>
    BY <1>1, <1>2 DEF Publish
  <1>4. PICK d : d = [NoEvent EXCEPT !.kind = "intent", !.id = k, !.at = o.at, !.order = o]
    OBVIOUS
  <1>5. d \in Event /\ d.kind = "intent" /\ d.id = k /\ d.order = o
    <2>1. o.at \in Nat /\ k \in Ids
      BY IdFacts DEF Order
    <2> QED BY <1>4, <2>1, IdleType DEF Event
  <1>6. PICK E \in Seq(Event) : E = <<d>>
    <2>1. <<d>> \in Seq(Event)
      BY ONLY <1>5
    <2> QED BY <2>1, Zenon
  <1>7. DOMAIN E = {1} /\ E[1] = d
    BY <1>6
  <1>8. PICK g \in [DOMAIN E -> Event] :
           /\ Pushed(E) = events \cup {g[i] : i \in DOMAIN E}
           /\ \A i \in DOMAIN E : /\ g[i].id = E[i].id /\ g[i].kind = E[i].kind
                                  /\ g[i].order = E[i].order
    BY PushedFacts
  <1>9. Pushed(E) = events \cup {g[1]} /\ g[1] \in Event
    BY <1>7, <1>8
  <1>10. IsFiniteSet(Pushed(E))
    BY PushedFacts
  <1>11. events' = Pushed(E)
    BY <1>3, <1>4, <1>6
  <1>12. Overlaps(c) \in BOOLEAN
    BY DEF Overlaps, TypeOK
  <1>13. o.contract \in Contracts
    BY DEF Order
  <1>14. NoOrder \in Order
    BY IdleType
  <1>15. PICK y : Becomes(c, y) /\ Begun(y, "run", k)
    <2>1. PICK y : y = [IdleCall EXCEPT !.pc = "run", !.key = k]
      OBVIOUS
    <2>2. call' = [call EXCEPT ![c] = y]
      BY <1>3, <2>1
    <2>3. Becomes(c, y) /\ Begun(y, "run", k)
      <3>1. Fresh(y, "run", k, NoOrder)
        BY <2>1 DEF Fresh
      <3> QED BY <1>14, <2>2, <3>1, BeginFacts
    <2> QED BY <2>3
  <1>16. g[1].kind = "intent" /\ g[1].id = k /\ g[1].order = o
    BY <1>5, <1>7, <1>8
  <1>17. priced \subseteq Contracts
    BY DEF TypeOK
  <1> QED BY <1>1, <1>2, <1>3, <1>9, <1>10, <1>11, <1>12, <1>13, <1>15, <1>16, <1>17

\* A closed bar goes into the engine.
LEMMA OnBarShape ==
    ASSUME TypeOK, OnBar
    PROVE  /\ call["loop"].pc = "idle" /\ bar' = "emitted"
           /\ priced' \subseteq Contracts /\ overlap' \in BOOLEAN
           /\ \E y : Becomes("loop", y) /\ Begun(y, "run", "bar")
           /\ \E e \in Event :
                 /\ events' = events \cup {e} /\ IsFiniteSet(events')
                 /\ e.kind = "bar" /\ e.id \in Contracts
           /\ UNCHANGED <<now, day, front, clock, orders, pos, risk, stuck, store,
                          crashes, held, raised, forgot>>
  <1>0. "loop" \in Threads
    BY DEF Threads
  <1>1. PICK b : b = [NoOrder EXCEPT !.kind = "bar", !.at = now - 1, !.day = day,
                                     !.contract = front]
    OBVIOUS
  <1>2. b \in Order
    <2>1. now - 1 \in Nat /\ day \in Nat /\ front \in Contracts
      BY DEF TypeOK
    <2> QED BY <1>1, <2>1, IdleType DEF Order
  <1>3. /\ call["loop"].pc = "idle" /\ bar' = "emitted" /\ priced' = priced \cup {front}
        /\ overlap' = Overlaps("loop")
        /\ call' = [call EXCEPT !["loop"] = [IdleCall EXCEPT !.pc = "run", !.key = "bar",
                                                             !.order = b]]
        /\ events' = Pushed(<<[NoEvent EXCEPT !.kind = "bar", !.at = b.at, !.order = b]>>)
        /\ UNCHANGED <<now, day, front, clock, orders, pos, risk, stuck, store,
                       crashes, held, raised, forgot>>
    BY <1>1 DEF OnBar
  <1>4. PICK d : d = [NoEvent EXCEPT !.kind = "bar", !.at = b.at, !.order = b]
    OBVIOUS
  <1>5. d \in Event /\ d.kind = "bar" /\ d.id \in Contracts
    <2>1. b.at \in Nat
      BY <1>2 DEF Order
    <2> QED BY <1>2, <1>4, <2>1, IdleType DEF Event
  <1>6. PICK E \in Seq(Event) : E = <<d>>
    <2>1. <<d>> \in Seq(Event)
      BY ONLY <1>5
    <2> QED BY <2>1, Zenon
  <1>7. DOMAIN E = {1} /\ E[1] = d
    BY <1>6
  <1>8. PICK g \in [DOMAIN E -> Event] :
           /\ Pushed(E) = events \cup {g[i] : i \in DOMAIN E}
           /\ \A i \in DOMAIN E : g[i].id = E[i].id /\ g[i].kind = E[i].kind
    BY PushedFacts
  <1>9. Pushed(E) = events \cup {g[1]} /\ g[1] \in Event
    BY <1>7, <1>8
  <1>10. IsFiniteSet(Pushed(E))
    BY PushedFacts
  <1>11. events' = Pushed(E)
    BY <1>3, <1>4, <1>6
  <1>12. Overlaps("loop") \in BOOLEAN
    BY DEF Overlaps, TypeOK
  <1>13. PICK y : Becomes("loop", y) /\ Begun(y, "run", "bar")
    <2>1. PICK y : y = [IdleCall EXCEPT !.pc = "run", !.key = "bar", !.order = b]
      OBVIOUS
    <2>2. call' = [call EXCEPT !["loop"] = y]
      BY <1>3, <2>1
    <2>3. Becomes("loop", y) /\ Begun(y, "run", "bar")
      <3>1. Fresh(y, "run", "bar", b)
        BY <2>1 DEF Fresh
      <3> QED BY <1>0, <1>2, <2>2, <3>1, BeginFacts
    <2> QED BY <2>3
  <1>14. g[1].kind = "bar" /\ g[1].id \in Contracts
    BY <1>5, <1>7, <1>8
  <1>15. priced' \subseteq Contracts
    BY <1>3 DEF TypeOK
  <1> QED BY <1>3, <1>9, <1>10, <1>11, <1>12, <1>13, <1>14, <1>15

\* A thread takes an event.
LEMMA PopShape ==
    ASSUME TypeOK, NEW c \in Threads, Pop(c)
    PROVE  /\ call[c].pc = "run" /\ call[c].ev = NoEvent
           /\ clock' \in Nat
           /\ \E e \in events : \E y :
                 /\ events' = events \ {e} /\ IsFiniteSet(events') /\ Becomes(c, y)
                 /\ y.pc = call[c].pc /\ y.key = call[c].key /\ y.order = call[c].order
                 /\ y.rows = call[c].rows /\ y.fills = call[c].fills
                 /\ y.ev.id = e.id /\ y.ev.kind = e.kind /\ y.ev.order = e.order
           /\ UNCHANGED <<market, orders, pos, risk, priced, stuck, store, crashes,
                          ghosts>>
  <1>1. PICK e \in events : /\ events' = events \ {e} /\ clock' = e.at
                            /\ call' = [call EXCEPT ![c].ev = [e EXCEPT !.seq = 0]]
    BY DEF Pop
  <1>2. e \in Event /\ IsFiniteSet(events)
    BY DEF TypeOK
  <1>3. PICK d : d = [e EXCEPT !.seq = 0]
    OBVIOUS
  <1>4. d \in Event /\ d.id = e.id /\ d.kind = e.kind /\ d.order = e.order
    BY <1>2, <1>3 DEF Event
  <1>5. PICK x : x = call[c]
    OBVIOUS
  <1>6. PICK y : y = [x EXCEPT !.ev = d]
    OBVIOUS
  <1>7. CallOK(x) /\ DOMAIN call = Threads
    BY <1>5 DEF TypeOK
  <1>8. /\ CallOK(y) /\ y.pc = x.pc /\ y.key = x.key /\ y.order = x.order
        /\ y.rows = x.rows /\ y.fills = x.fills /\ y.ev = d
    BY <1>4, <1>6, <1>7 DEF CallOK
  <1>9. call' = [call EXCEPT ![c] = y]
    BY <1>1, <1>3, <1>5, <1>6, <1>7
  <1>10. Becomes(c, y)
    BY <1>8, <1>9, CallSet DEF Becomes
  <1>11. IsFiniteSet(events')
    BY <1>1, <1>2, FS_Subset
  <1>12. clock' \in Nat
    BY <1>1, <1>2 DEF Event
  <1>13. /\ call[c].pc = "run" /\ call[c].ev = NoEvent
         /\ UNCHANGED <<market, orders, pos, risk, priced, stuck, store, crashes, ghosts>>
    BY DEF Pop
  <1> QED BY <1>1, <1>4, <1>5, <1>8, <1>10, <1>11, <1>12, <1>13

\* A run is over.
LEMMA EndShape ==
    ASSUME TypeOK, NEW c \in Threads, RunEnds(c)
    PROVE  /\ call[c].pc = "run" /\ call[c].ev = NoEvent /\ events = {}
           /\ \E y : /\ Becomes(c, y) /\ y.pc = "append" /\ y.ev = call[c].ev
                     /\ y.rows = call[c].rows /\ y.fills = call[c].fills
                     /\ y.key = call[c].key
           /\ UNCHANGED <<market, memory, store, crashes, ghosts>>
  <1>1. PICK x : x = call[c]
    OBVIOUS
  <1>2. PICK y : y = [x EXCEPT !.pc = "append"]
    OBVIOUS
  <1>3. CallOK(x) /\ DOMAIN call = Threads
    BY <1>1 DEF TypeOK
  <1>4. /\ CallOK(y) /\ y.pc = "append" /\ y.ev = x.ev /\ y.rows = x.rows
        /\ y.fills = x.fills /\ y.key = x.key
    BY <1>2, <1>3 DEF CallOK
  <1>5. call' = [call EXCEPT ![c] = y]
    BY <1>1, <1>2, <1>3 DEF RunEnds
  <1>6. Becomes(c, y)
    BY <1>4, <1>5, CallSet DEF Becomes
  <1> QED BY <1>1, <1>4, <1>6 DEF RunEnds

\* What a run processed is committed.
LEMMA AppendShape ==
    ASSUME TypeOK, NEW c \in Threads, AppendEvents(c)
    PROVE  /\ call[c].pc = "append" /\ Becomes(c, IdleCall)
           /\ saved' \in [Ids -> Stored]
           /\ \A k \in Ids :
                 /\ saved'[k] = AddRows(saved[k], k, call[c].rows)
                 /\ (\A r \in call[c].rows : r[1] # k) => saved'[k] = saved[k]
           /\ book' = ApplyFills(book, call[c].fills) /\ book' \in Account
           /\ held' = HeldAfter(book, call[c].fills)
           /\ UNCHANGED <<market, memory, keys, crashes, overlap, raised, forgot>>
  <1>1. PICK R \in SUBSET Rows : R = call[c].rows
    BY CallFacts
  <1>2. PICK F \in Seq(Fill) : F = call[c].fills
    BY CallFacts
  <1>3. /\ call[c].pc = "append" /\ saved' = [k \in Ids |-> AddRows(saved[k], k, R)]
        /\ book' = ApplyFills(book, F) /\ held' = HeldAfter(book, F)
        /\ call' = [call EXCEPT ![c] = IdleCall]
        /\ UNCHANGED <<market, memory, keys, crashes, overlap, raised, forgot>>
    BY <1>1, <1>2 DEF AppendEvents
  <1>4. ASSUME NEW k \in Ids
        PROVE  /\ AddRows(saved[k], k, R) \in Stored
               /\ (\A r \in R : r[1] # k) => AddRows(saved[k], k, R) = saved[k]
    <2>1. PICK s \in Stored : s = saved[k]
      BY DEF TypeOK
    <2>2. PICK o \in Order : o = orders[k]
      BY DEF TypeOK
    <2>3. ASSUME \A r \in R : r[1] # k
          PROVE  \A w : <<k, w>> \notin R
      <3>1. \A w : <<k, w>>[1] = k
        OBVIOUS
      <3> QED BY <2>3, <3>1
    <2>4. /\ s.order \in Order /\ s.intent \in BOOLEAN
          /\ s.decision \in {"none", "refused", "approved"}
          /\ s.done \in {"none", "filled", "rejected"}
          /\ s = [order |-> s.order, intent |-> s.intent, decision |-> s.decision,
                  done |-> s.done]
      BY DEF Stored
    <2>5. AddRows(s, k, R) \in Stored
      BY <2>2, <2>4 DEF AddRows, Row, Stored
    <2>6. (\A r \in R : r[1] # k) => AddRows(s, k, R) = s
      BY <2>3, <2>4 DEF AddRows, Row
    <2> QED BY <2>1, <2>5, <2>6
  <1>5. saved' \in [Ids -> Stored]
    BY <1>3, <1>4
  <1>6. book' \in Account
    BY <1>3, NetMoves DEF TypeOK
  <1> QED BY <1>1, <1>2, <1>3, <1>4, <1>5, <1>6, IdleFacts
------------------------------------------------------------------------------
(* Paper account: recovery *)

\* Recovery: the reservations it restores keep the type of the risk state and
\* an operator's kill switch.
LEMMA RestoreFacts ==
    ASSUME TypeOK, NEW list \in Listings(Pending), NEW issues \in BOOLEAN
    PROVE  /\ RecoveredRisk(list, issues) \in Risk
           /\ book.risk.kill = "manual" => RecoveredRisk(list, issues).kill = "manual"
  <1>1. Pending \subseteq Ids /\ IsFiniteSet(Pending)
    <2>1. Pending \subseteq Ids
      BY DEF Pending
    <2>2. IsFiniteSet(Ids)
      BY IdFacts, FS_Union DEF Ids
    <2> QED BY <2>1, <2>2, FS_Subset
  <1>2. list \in Seq(Pending) /\ \A i \in 1..Len(list) : list[i] \in Pending
    BY <1>1, ListingFacts
  <1>3. PICK N \in Nat : N = Len(list)
    BY <1>2
  <1>4. PICK a \in Risk : a = book.risk
    BY DEF TypeOK, Account
  <1>5. ASSUME NEW k \in Ids, NEW x \in Risk
        PROVE  /\ RestoreReservation(x, k) \in Risk
               /\ x.kill = "manual" => RestoreReservation(x, k).kill = "manual"
    <2>1. CASE IsReduce(saved[k].order.kind)
      BY <2>1 DEF RestoreReservation
    <2>2. CASE ~IsReduce(saved[k].order.kind)
      <3>1. PICK d \in Nat : d = saved[k].order.day
        BY DEF TypeOK, Stored, Order
      <3>2. PICK y : y = OnDate(x, d)
        OBVIOUS
      <3>3. y \in Risk /\ (x.kill = "manual" => y.kill = "manual")
        BY <3>2, OnDateFacts
      <3>4. PICK rs \in SUBSET Ids : rs = y.reserved \cup {k}
        BY <3>3 DEF Risk
      <3>5. RestoreReservation(x, k) = [y EXCEPT !.reserved = rs]
        BY <2>2, <3>1, <3>2, <3>4 DEF RestoreReservation
      <3> QED BY <3>3, <3>5 DEF Risk
    <2> QED BY <2>1, <2>2
  <1> DEFINE G == [n \in 1..N |-> [x \in Risk |-> RestoreReservation(x, list[n])]]
  <1>6. \A n \in 1..N : list[n] \in Ids
    BY <1>1, <1>2, <1>3
  <1>7. G \in [1..N -> [Risk -> Risk]]
    BY <1>5, <1>6
  <1>8. \A n \in 1..N, x \in Risk : G[n][x] = RestoreReservation(x, list[n])
    OBVIOUS
  <1> HIDE DEF G
  <1>9. PICK f \in [0..N -> Risk] :
           f[0] = a /\ \A n \in 1..N : f[n] = G[n][f[n - 1]]
    <2>1. G \in Steps(Risk, N)
      BY <1>7 DEF Steps
    <2>2. \E f : Iterates(f, Risk, a, N, G)
      BY ONLY <2>1, N \in Nat, a \in Risk, Iterate, Zenon
    <2> QED BY <2>2 DEF Iterates
  <1>10. ASSUME NEW n \in 0..N
         PROVE  f[n] = IF n = 0 THEN a ELSE RestoreReservation(f[n - 1], list[n])
    <2>1. CASE n = 0
      BY <1>9, <2>1
    <2>2. CASE n # 0
      <3>1. n \in 1..N /\ f[n - 1] \in Risk
        BY <1>9, <2>2
      <3> QED BY <1>8, <1>9, <2>2, <3>1
    <2> QED BY <2>1, <2>2
  <1>11. PICK p : p = Restored(list)
    OBVIOUS
  <1>12. p = [n \in 0..N |-> IF n = 0 THEN a ELSE RestoreReservation(p[n - 1], list[n])]
    <2>1. f = [n \in 0..Len(list) |->
                 IF n = 0 THEN a ELSE RestoreReservation(f[n - 1], list[n])]
      BY <1>3, <1>9, <1>10
    <2> QED BY <1>3, <1>4, <1>11, <2>1, Zenon DEF Restored
  <1>13. p[0] = a
    BY <1>12
  <1>14. ASSUME NEW n \in 1..N PROVE p[n] = RestoreReservation(p[n - 1], list[n])
    <2>1. n \in 0..N /\ n # 0
      OBVIOUS
    <2> QED BY <1>12, <2>1, Zenon
  <1> DEFINE T == {n \in Nat : n <= N =>
                     p[n] \in Risk /\ (a.kill = "manual" => p[n].kill = "manual")}
  <1>15. 0 \in T
    BY <1>13
  <1>16. ASSUME NEW n \in 0..N, n \in T, n < N PROVE n + 1 \in T
    <2>1. n + 1 \in 1..N /\ (n + 1) - 1 = n
      BY <1>16
    <2>2. p[n] \in Risk /\ (a.kill = "manual" => p[n].kill = "manual")
      BY <1>16
    <2>3. PICK y : y = p[n + 1]
      OBVIOUS
    <2>4. y = RestoreReservation(p[n], list[n + 1])
      BY <1>14, <2>1, <2>3
    <2>5. y \in Risk /\ (a.kill = "manual" => y.kill = "manual")
      BY <1>5, <1>6, <2>1, <2>2, <2>4
    <2> QED BY <2>1, <2>3, <2>5
  <1>17. T \in SUBSET Nat
    OBVIOUS
  <1> HIDE DEF T
  <1>18. \A n \in 0..N : n \in T
    BY <1>15, <1>16, <1>17, Climb
  <1>19. N \in T
    BY <1>18
  <1>20. p[N] \in Risk /\ (a.kill = "manual" => p[N].kill = "manual")
    BY <1>19 DEF T
  <1>21. PICK y : y = p[N]
    OBVIOUS
  <1>22. RecoveredRisk(list, issues) = IF issues THEN [y EXCEPT !.kill = "manual"] ELSE y
    BY <1>3, <1>11, <1>21 DEF RecoveredRisk
  <1>23. [y EXCEPT !.kill = "manual"] \in Risk /\ [y EXCEPT !.kill = "manual"].kill = "manual"
    BY <1>20, <1>21 DEF Risk
  <1> QED BY <1>4, <1>20, <1>21, <1>22, <1>23

\* A restart: only the committed rows are left, and what is rebuilt from them.
LEMMA RestartShape ==
    ASSUME TypeOK, Restart
    PROVE  /\ crashes' \in Nat /\ crashes' # crashes
           /\ \A t \in Threads : call'[t] = IdleCall
           /\ DOMAIN call' = Threads /\ \A t \in Threads : CallOK(call'[t])
           /\ clock' = 0 /\ events' = {} /\ priced' = {} /\ stuck' = {}
           /\ orders' \in [Ids -> Order]
           /\ \A k \in Ids :
                 /\ k \in Pending => /\ orders'[k].status = "approved"
                                     /\ orders'[k].kind = saved[k].order.kind
                 /\ k \notin Pending => orders'[k] = NoOrder
           /\ Waiting' = Pending \cap Keys
           /\ pos' = book.pos /\ risk' \in Risk
           /\ book.risk.kill = "manual" => risk'.kill = "manual"
           /\ bar' \in {bar, "quiet"} /\ raised' = FALSE
           /\ UNCHANGED <<now, day, front, store, held, overlap, forgot>>
  <1>1. /\ crashes' = crashes + 1 /\ call' = [c \in Threads |-> IdleCall]
        /\ clock' = 0 /\ events' = {} /\ priced' = {} /\ stuck' = {}
        /\ orders' = [k \in Ids |->
                        IF k \in Pending THEN [saved[k].order EXCEPT !.status = "approved"]
                        ELSE NoOrder]
        /\ pos' = book.pos /\ bar' = (IF bar = "emitted" THEN "quiet" ELSE bar)
        /\ raised' = FALSE
        /\ UNCHANGED <<now, day, front, store, held, overlap, forgot>>
    BY DEF Restart
  <1>2. PICK list \in Placed(Pending, [k \in Ids |-> saved[k].order]),
             other \in {FALSE, overlap \/ raised} :
             risk' = RecoveredRisk(list, Inconsistent \/ other)
    BY DEF Restart
  <1>3. PICK issues \in BOOLEAN : issues = (Inconsistent \/ other)
    <2>1. (Inconsistent \/ other) \in BOOLEAN
      OBVIOUS
    <2> QED BY <2>1
  <1>4. list \in Listings(Pending)
    BY DEF Placed
  <1>5. risk' \in Risk /\ (book.risk.kill = "manual" => risk'.kill = "manual")
    BY <1>2, <1>3, <1>4, RestoreFacts
  <1>6. crashes' \in Nat /\ crashes' # crashes
    BY <1>1 DEF TypeOK
  <1>7. ASSUME NEW k \in Ids
        PROVE  /\ orders'[k] \in Order
               /\ k \in Pending => /\ orders'[k].status = "approved"
                                   /\ orders'[k].kind = saved[k].order.kind
                                   /\ IsNextBar(orders'[k].kind)
               /\ k \notin Pending => orders'[k] = NoOrder
    <2>1. PICK o \in Order : o = saved[k].order
      BY DEF TypeOK, Stored
    <2>2. orders'[k] = IF k \in Pending THEN [o EXCEPT !.status = "approved"] ELSE NoOrder
      BY <1>1, <2>1
    <2>3. k \in Pending => IsNextBar(o.kind)
      BY <2>1 DEF Pending
    <2> QED BY <2>1, <2>2, <2>3, IdleType DEF Order
  <1>8. orders' \in [Ids -> Order]
    <2>1. orders' = [k \in Ids |-> orders'[k]]
      BY <1>1
    <2> QED BY <1>7, <2>1
  <1>9. Waiting' = Pending \cap Keys
    <2>1. \A k \in Keys : k \in Waiting' <=> k \in Pending
      BY <1>7, IdFacts, IdleType DEF Waiting
    <2> QED BY <2>1 DEF Waiting
  <1>10. /\ \A t \in Threads : call'[t] = IdleCall
         /\ DOMAIN call' = Threads /\ \A t \in Threads : CallOK(call'[t])
    BY <1>1, IdleType
  <1>11. bar' \in {bar, "quiet"}
    BY <1>1
  <1> QED BY <1>1, <1>5, <1>6, <1>7, <1>8, <1>9, <1>10, <1>11

------------------------------------------------------------------------------
(* Paper account: types *)

\* Every step keeps the types.
LEMMA TypeStep ==
    ASSUME TypeOK, Next PROVE TypeOK'
  <1>1. ASSUME NEW c \in Threads, NEW k \in Keys, NEW kind \in Kinds,
               NEW side \in {-1, 1}, NEW qty \in Lots, ReserveKey(c, k, kind, side, qty)
        PROVE  TypeOK'
    <2>1. /\ keys' = keys \cup {k} /\ DOMAIN call' = Threads
          /\ \A d \in Threads : CallOK(call'[d])
          /\ UNCHANGED <<market, memory, saved, book, crashes, ghosts>>
      BY <1>1, ReserveShape DEF Becomes
    <2> QED BY <2>1 DEF TypeOK, market, memory, engine, ghosts
  <1>2. ASSUME NEW c \in Threads, PublishRefused(c) PROVE TypeOK'
    <2>1. /\ call' = [call EXCEPT ![c] = IdleCall]
          /\ priced' = priced \cup {call[c].order.contract}
          /\ UNCHANGED <<market, engine, orders, pos, risk, stuck, store, crashes, ghosts>>
      BY <1>2 DEF PublishRefused
    <2>2. DOMAIN call' = Threads /\ \A d \in Threads : CallOK(call'[d])
      BY <2>1, IdleFacts DEF Becomes
    <2>3. call[c].order.contract \in Contracts
      BY CallFacts DEF Order
    <2> QED BY <2>1, <2>2, <2>3 DEF TypeOK, market, engine, store, ghosts
  <1>3. ASSUME NEW c \in Threads, Publish(c) PROVE TypeOK'
    <2>1. /\ priced' \subseteq Contracts /\ overlap' \in BOOLEAN
          /\ DOMAIN call' = Threads /\ \A d \in Threads : CallOK(call'[d])
          /\ \E e \in Event : events' = events \cup {e}
          /\ IsFiniteSet(events')
          /\ UNCHANGED <<market, clock, orders, pos, risk, stuck, store, crashes,
                         held, raised, forgot>>
      BY <1>3, PublishShape DEF Becomes
    <2> QED BY <2>1 DEF TypeOK, market, store
  <1>4. ASSUME NEW c \in Threads, Pop(c) PROVE TypeOK'
    <2>1. /\ clock' \in Nat /\ events' \subseteq events /\ IsFiniteSet(events')
          /\ DOMAIN call' = Threads /\ \A d \in Threads : CallOK(call'[d])
          /\ UNCHANGED <<market, orders, pos, risk, priced, stuck, store, crashes, ghosts>>
      BY <1>4, PopShape DEF Becomes
    <2> QED BY <2>1 DEF TypeOK, market, store, ghosts
  <1>5. ASSUME NEW c \in Threads, NEW evs \in Seq(Event), NEW rows \in SUBSET Rows,
               NEW fills \in Seq(Fill), Raised(c) \/ Proceeded(c, evs, rows, fills)
        PROVE  /\ DOMAIN call' = Threads /\ \A d \in Threads : CallOK(call'[d])
               /\ events' \subseteq Event /\ IsFiniteSet(events')
               /\ {raised', forgot'} \subseteq BOOLEAN
    BY <1>5, LeaveType
  <1>6. <<>> \in Seq(Event) /\ <<>> \in Seq(Fill) /\ \A d \in Event : <<d>> \in Seq(Event)
    OBVIOUS
  <1>7. \A k \in Ids, w \in {"intent", "refused", "approved", "filled", "rejected"} :
           {<<k, w>>} \in SUBSET Rows
    BY DEF Rows
  <1>8. ASSUME NEW c \in Threads, HandleIntent(c) PROVE TypeOK'
    <2>1. PICK e \in Event : e = call[c].ev
      BY CallFacts
    <2>2. /\ e.order \in Order /\ e.id \in Ids
          /\ orders' = [orders EXCEPT ![e.id] = e.order] /\ risk' \in Risk
          /\ UNCHANGED <<market, clock, pos, priced, stuck, store, crashes, held, overlap>>
      BY <1>8, <2>1, IntentShape
    <2>3. PICK d \in Event : Raised(c) \/ Proceeded(c, <<d>>, {<<e.id, "intent">>}, <<>>)
      BY <1>8, <2>1, IntentShape
    <2>4. /\ DOMAIN call' = Threads /\ \A t \in Threads : CallOK(call'[t])
          /\ events' \subseteq Event /\ IsFiniteSet(events')
          /\ {raised', forgot'} \subseteq BOOLEAN
      BY <1>5, <1>6, <1>7, <2>2, <2>3
    <2>5. orders' \in [Ids -> Order]
      BY <2>2 DEF TypeOK
    <2> QED BY <2>2, <2>4, <2>5 DEF TypeOK, Account, market, store
  <1>9. ASSUME NEW c \in Threads, HandleDecision(c) PROVE TypeOK'
    <2>1. PICK k \in Ids : k = call[c].ev.id
      BY CallFacts
    <2>2. PICK o \in Order, evs \in Seq(Event),
               w \in {"intent", "refused", "approved", "filled", "rejected"} :
             /\ orders' = [orders EXCEPT ![k] = o]
             /\ Raised(c) \/ Proceeded(c, evs, {<<k, w>>}, <<>>)
      <3>1. PICK o \in Order :
               /\ orders' = [orders EXCEPT ![k] = o]
               /\ \/ Proceeded(c, <<>>, {<<k, "refused">>}, <<>>)
                  \/ Proceeded(c, <<>>, {<<k, "approved">>}, <<>>)
                  \/ Raised(c)
                  \/ \E d \in Event : Proceeded(c, <<d>>, {<<k, "approved">>}, <<>>)
        BY <1>9, <2>1, DecisionShape
      <3> DEFINE Leaves(evs, w) == Raised(c) \/ Proceeded(c, evs, {<<k, w>>}, <<>>)
      <3>2. \/ Leaves(<<>>, "refused") \/ Leaves(<<>>, "approved")
            \/ \E d \in Event : Leaves(<<d>>, "approved")
        BY <3>1
      <3> HIDE DEF Leaves
      <3>3. PICK evs \in Seq(Event),
                 w \in {"intent", "refused", "approved", "filled", "rejected"} :
               Leaves(evs, w)
        BY <1>6, <3>2
      <3>4. Raised(c) \/ Proceeded(c, evs, {<<k, w>>}, <<>>)
        BY <3>3 DEF Leaves
      <3> QED BY <3>1, <3>4
    <2>3. /\ DOMAIN call' = Threads /\ \A t \in Threads : CallOK(call'[t])
          /\ events' \subseteq Event /\ IsFiniteSet(events')
          /\ {raised', forgot'} \subseteq BOOLEAN
      BY <1>5, <1>6, <1>7, <2>2
    <2>4. UNCHANGED <<market, clock, pos, risk, priced, stuck, store, crashes, held, overlap>>
      BY <1>9, DecisionShape
    <2>5. orders' \in [Ids -> Order]
      BY <2>2 DEF TypeOK
    <2> QED BY <2>3, <2>4, <2>5 DEF TypeOK, market, store
  <1>10. ASSUME NEW c \in Threads, HandleStatus(c) PROVE TypeOK'
    <2>1. PICK k \in Ids : k = call[c].ev.id
      BY CallFacts
    <2>2. /\ risk' \in Risk /\ Proceeded(c, <<>>, {<<k, "rejected">>}, <<>>)
          /\ UNCHANGED <<market, clock, orders, pos, priced, stuck, store, crashes,
                         held, overlap>>
      BY <1>10, <2>1, StatusShape
    <2>3. /\ DOMAIN call' = Threads /\ \A t \in Threads : CallOK(call'[t])
          /\ events' \subseteq Event /\ IsFiniteSet(events')
          /\ {raised', forgot'} \subseteq BOOLEAN
      BY <1>5, <1>6, <1>7, <2>2
    <2> QED BY <2>2, <2>3 DEF TypeOK, Account, market, store
  <1>11. ASSUME NEW c \in Threads, HandleFill(c) PROVE TypeOK'
    <2>1. PICK k \in Ids : k = call[c].ev.id
      BY CallFacts
    <2>2. PICK f \in Fill, acc \in Account :
             /\ acc = [pos |-> pos, risk |-> risk] /\ pos' = ApplyFill(acc, f).pos
             /\ \/ Raised(c) /\ UNCHANGED <<risk, stuck, held>>
                \/ /\ Proceeded(c, <<>>, {<<k, "filled">>}, <<f>>)
                   /\ risk' = ApplyFill(acc, f).risk
                   /\ stuck' \subseteq stuck /\ held' = HeldAfter(acc, <<f>>)
      BY <1>11, <2>1, FillShape
    <2>3. UNCHANGED <<market, clock, orders, priced, store, crashes, overlap>>
      BY <1>11, FillShape
    <2>4. <<f>> \in Seq(Fill)
      OBVIOUS
    <2>5. /\ DOMAIN call' = Threads /\ \A t \in Threads : CallOK(call'[t])
          /\ events' \subseteq Event /\ IsFiniteSet(events')
          /\ {raised', forgot'} \subseteq BOOLEAN
      BY <1>5, <1>6, <1>7, <2>2, <2>4
    <2>6. ApplyFill(acc, f) \in Account
      BY ApplyFillFacts
    <2>7. [pos |-> pos', risk |-> risk'] \in Account
      BY <2>2, <2>6 DEF Account
    <2>8. held' \in {"no", "yes", "replaced"} /\ stuck' \subseteq Contracts
      BY <2>2 DEF HeldAfter, TypeOK
    <2> QED BY <2>3, <2>5, <2>7, <2>8 DEF TypeOK, market, store
  <1>12. ASSUME NEW c \in Threads, HandleBar(c) PROVE TypeOK'
    <2>1. /\ orders' \in [Ids -> Order] /\ risk' \in Risk
          /\ priced' \subseteq Contracts /\ stuck' \subseteq Contracts
          /\ UNCHANGED <<market, clock, pos, store, crashes, held, overlap>>
      BY <1>12, BarShape
    <2>2. PICK evs : BarEvents(evs) /\ (Raised(c) \/ Proceeded(c, evs, {}, <<>>))
      BY <1>12, BarShape
    <2>3. evs \in Seq(Event) /\ {} \in SUBSET Rows
      BY <2>2 DEF BarEvents
    <2>4. /\ DOMAIN call' = Threads /\ \A t \in Threads : CallOK(call'[t])
          /\ events' \subseteq Event /\ IsFiniteSet(events')
          /\ {raised', forgot'} \subseteq BOOLEAN
      BY <1>5, <1>6, <2>2, <2>3
    <2> QED BY <2>1, <2>4 DEF TypeOK, Account, market, store
  <1>13. ASSUME NEW c \in Threads, ClockRefuses(c) PROVE TypeOK'
    <2>1. /\ Raise(c, FALSE)
          /\ UNCHANGED <<market, clock, orders, pos, risk, priced, stuck, store,
                         crashes, held, overlap>>
      BY <1>13 DEF ClockRefuses
    <2>2. FALSE \in BOOLEAN /\ {} \in SUBSET Rows
      OBVIOUS
    <2>3. Raised(c)
      BY <2>1, <2>2, EmitFacts
    <2>4. /\ DOMAIN call' = Threads /\ \A t \in Threads : CallOK(call'[t])
          /\ events' \subseteq Event /\ IsFiniteSet(events')
          /\ {raised', forgot'} \subseteq BOOLEAN
      BY <1>5, <1>6, <2>2, <2>3
    <2> QED BY <2>1, <2>4 DEF TypeOK, market, store
  <1>14. ASSUME NEW c \in Threads, RunEnds(c) PROVE TypeOK'
    <2>1. /\ DOMAIN call' = Threads /\ \A d \in Threads : CallOK(call'[d])
          /\ UNCHANGED <<market, memory, store, crashes, ghosts>>
      BY <1>14, EndShape DEF Becomes
    <2> QED BY <2>1 DEF TypeOK, market, memory, engine, store, ghosts
  <1>15. ASSUME NEW c \in Threads, AppendEvents(c) PROVE TypeOK'
    <2>1. /\ DOMAIN call' = Threads /\ \A d \in Threads : CallOK(call'[d])
          /\ saved' \in [Ids -> Stored] /\ book' \in Account
          /\ held' = HeldAfter(book, call[c].fills)
          /\ UNCHANGED <<market, memory, keys, crashes, overlap, raised, forgot>>
      BY <1>15, AppendShape DEF Becomes
    <2>2. held' \in {"no", "yes", "replaced"}
      BY <2>1 DEF HeldAfter, TypeOK
    <2> QED BY <2>1, <2>2 DEF TypeOK, market, memory, engine
  <1>16. CASE LastTick
    <2>1. /\ bar' = "formed" /\ now' = now + 1 /\ day' \in {day, day + 1}
          /\ front' \in {front, front + day' - day} /\ front' <= LastContract
          /\ UNCHANGED <<memory, call, store, crashes, ghosts>>
      BY <1>16 DEF LastTick
    <2>2. /\ now \in Nat /\ day \in Nat /\ front \in Contracts
      BY DEF TypeOK
    <2>3. now' \in Nat \ {0} /\ day' \in Nat /\ front' \in Contracts
      <3>0. PICK f \in Nat, d \in Nat, e \in Nat : f = front /\ d = day /\ e = day'
        <4>1. day' \in Nat
          BY <2>1, <2>2
        <4> QED BY <2>2, <4>1 DEF Contracts
      <3>1. (e = d \/ e = d + 1) /\ f >= 1 /\ (front' = f \/ front' = f + e - d)
        <4>1. f \in Contracts
          BY <2>2, <3>0
        <4>2. f >= 1
          BY <4>1, PaperAssumption DEF Contracts
        <4>3. front' \in {f, f + e - d} /\ e \in {d, d + 1}
          BY <2>1, <3>0
        <4> QED BY <4>2, <4>3
      <3>2. front' \in Nat /\ front' >= 1
        BY <3>1
      <3>3. front' \in Nat /\ front' >= 1 /\ front' <= LastContract
        BY <2>1, <3>2
      <3>4. front' \in Contracts
        BY <3>3, PaperAssumption DEF Contracts
      <3> QED BY <2>1, <2>2, <3>4
    <2> QED BY <2>1, <2>3 DEF TypeOK, memory, engine, store, ghosts
  <1>17. CASE DropBar
    <2>1. /\ bar' = "emitted" /\ priced' = priced \cup {front}
          /\ UNCHANGED <<now, day, front, engine, orders, pos, risk, stuck, call,
                         store, crashes, ghosts>>
      BY <1>17 DEF DropBar
    <2> QED BY <2>1 DEF TypeOK, engine, store, ghosts
  <1>18. CASE OnBar
    <2>1. /\ bar' = "emitted" /\ priced' \subseteq Contracts /\ overlap' \in BOOLEAN
          /\ DOMAIN call' = Threads /\ \A d \in Threads : CallOK(call'[d])
          /\ \E e \in Event : events' = events \cup {e}
          /\ IsFiniteSet(events')
          /\ UNCHANGED <<now, day, front, clock, orders, pos, risk, stuck, store,
                         crashes, held, raised, forgot>>
      BY <1>18, OnBarShape DEF Becomes
    <2> QED BY <2>1 DEF TypeOK, store
  <1>19. ASSUME NEW s \in {"off", "auto", "manual"},
                risk' = [risk EXCEPT !.kill = s], book' = [book EXCEPT !.risk.kill = s],
                held' \in {"yes", "no"},
                UNCHANGED <<market, engine, orders, pos, priced, stuck, call, keys,
                            saved, crashes, overlap, raised, forgot>>
         PROVE  TypeOK'
    <2>1. risk' \in Risk
      BY <1>19 DEF TypeOK, Account, Risk
    <2>2. book' \in Account
      BY <1>19 DEF TypeOK, Account, Risk
    <2> QED BY <1>19, <2>1, <2>2 DEF TypeOK, Account, market, engine
  <1>20. CASE ActivateKill
    BY <1>19, <1>20 DEF ActivateKill
  <1>21. CASE ResetKill
    BY <1>19, <1>21 DEF ResetKill
  <1>22. CASE Restart
    <2>1. /\ crashes' \in Nat
          /\ DOMAIN call' = Threads /\ \A t \in Threads : CallOK(call'[t])
          /\ clock' = 0 /\ events' = {} /\ priced' = {} /\ stuck' = {}
          /\ orders' \in [Ids -> Order] /\ pos' = book.pos /\ risk' \in Risk
          /\ bar' \in {bar, "quiet"} /\ raised' = FALSE
          /\ UNCHANGED <<now, day, front, store, held, overlap, forgot>>
      BY <1>22, RestartShape
    <2>2. IsFiniteSet(events')
      BY <2>1, FS_EmptySet
    <2> QED BY <2>1, <2>2 DEF TypeOK, Account, store
  <1> QED BY <1>1, <1>2, <1>3, <1>4, <1>8, <1>9, <1>10, <1>11, <1>12, <1>13, <1>14,
             <1>15, <1>16, <1>17, <1>18, <1>20, <1>21, <1>22
          DEF Next, Submit, Run, Handle

\* Every variable of the paper account keeps its type.
THEOREM PaperTypes == Spec => []TypeOK
  <1>1. Init => TypeOK
    <2> SUFFICES ASSUME Init PROVE TypeOK
      OBVIOUS
    <2>1. 1 \in Contracts
      BY PaperAssumption DEF Contracts
    <2>2. orders \in [Ids -> Order] /\ saved \in [Ids -> Stored]
          /\ DOMAIN call = Threads /\ \A d \in Threads : CallOK(call[d])
      BY IdleType DEF Init
    <2>3. [pos |-> pos, risk |-> risk] \in Account /\ book \in Account
      BY ZeroType DEF Init, Zero
    <2>4. /\ now \in Nat \ {0} /\ bar \in {"quiet", "formed", "emitted"}
          /\ day \in Nat /\ front \in Contracts /\ clock \in Nat
      BY <2>1 DEF Init
    <2>5. /\ priced = {} /\ stuck = {} /\ keys = {} /\ crashes = 0 /\ held = "no"
          /\ events = {} /\ overlap = FALSE /\ raised = FALSE /\ forgot = FALSE
      BY DEF Init
    <2>6. IsFiniteSet(events)
      BY <2>5, FS_EmptySet
    <2> QED BY <2>2, <2>3, <2>4, <2>5, <2>6 DEF TypeOK
  <1>2. TypeOK /\ UNCHANGED vars => TypeOK'
    BY DEF TypeOK, vars, market, memory, engine, store, ghosts
  <1> QED BY <1>1, <1>2, TypeStep, PTL DEF Spec

------------------------------------------------------------------------------
(* Paper account: the operator's kill switch *)

\* While the operator's kill switch is on and no loss replaced it, both the
\* account in memory and the one a restart would rebuild carry it.
KillInv == held = "yes" => risk.kill = "manual" /\ book.risk.kill = "manual"

\* Replaying one fill is applying it.
LEMMA OneFill ==
    ASSUME NEW acc \in Account, NEW f \in Fill
    PROVE  <<f>> \in Seq(Fill) /\ ApplyFills(acc, <<f>>) = ApplyFill(acc, f)
  <1>1. PICK F \in Seq(Fill) : F = <<f>>
    <2>1. <<f>> \in Seq(Fill)
      OBVIOUS
    <2> QED BY <2>1, Zenon
  <1>2. Len(F) = 1 /\ F[1] = f
    BY <1>1
  <1>3. PICK p : p = Replay(acc, F)
    OBVIOUS
  <1>4. p[0] = acc /\ p[1] = ApplyFill(p[0], F[1])
    <2>1. 1 \in 1..Len(F) /\ 1 - 1 = 0
      BY <1>2
    <2>2. /\ Replay(acc, F)[0] = acc
          /\ Replay(acc, F)[1] = ApplyFill(Replay(acc, F)[1 - 1], F[1])
      BY <2>1, ReplayFacts
    <2> QED BY <1>3, <2>1, <2>2
  <1>5. ApplyFills(acc, F) = p[1]
    BY <1>2, <1>3 DEF ApplyFills
  <1> QED BY <1>1, <1>2, <1>4, <1>5

\* Every step keeps it there.
LEMMA KillStep ==
    ASSUME TypeOK, KillInv, Next
    PROVE  KillInv' /\ (crashes' # crashes /\ held = "yes" => risk'.kill = "manual")
  <1>1. crashes \in Nat
    BY DEF TypeOK
  <1>2. ASSUME NEW acc \in Account, NEW F \in Seq(Fill), HeldAfter(acc, F) = "yes",
               held = "yes" => acc.risk.kill = "manual"
        PROVE  held = "yes" /\ ApplyFills(acc, F).risk.kill = "manual"
    <2>1. held = "yes"
      BY <1>2 DEF HeldAfter
    <2> QED BY <1>2, <2>1, KillKept
  <1>3. ASSUME UNCHANGED <<book, held, crashes>>,
               risk.kill = "manual" => risk'.kill = "manual"
        PROVE  KillInv' /\ crashes' = crashes
    BY <1>3 DEF KillInv
  <1>4. ASSUME NEW c \in Threads, NEW k \in Keys, NEW kind \in Kinds,
               NEW side \in {-1, 1}, NEW qty \in Lots, ReserveKey(c, k, kind, side, qty)
        PROVE  KillInv' /\ crashes' = crashes
    BY <1>3, <1>4 DEF ReserveKey, memory, ghosts
  <1>5. ASSUME NEW c \in Threads, PublishRefused(c)
        PROVE  KillInv' /\ crashes' = crashes
    BY <1>3, <1>5 DEF PublishRefused, store, ghosts
  <1>6. ASSUME NEW c \in Threads, Publish(c)
        PROVE  KillInv' /\ crashes' = crashes
    BY <1>3, <1>6 DEF Publish, store
  <1>7. ASSUME NEW c \in Threads, Pop(c)
        PROVE  KillInv' /\ crashes' = crashes
    BY <1>3, <1>7 DEF Pop, store, ghosts
  <1>8. ASSUME NEW c \in Threads, HandleIntent(c)
        PROVE  KillInv' /\ crashes' = crashes
    <2>1. /\ risk.kill = "manual" => risk'.kill = "manual"
          /\ UNCHANGED <<store, crashes, held>>
      BY <1>8, IntentShape
    <2> QED BY <1>3, <2>1 DEF store
  <1>9. ASSUME NEW c \in Threads, HandleDecision(c)
        PROVE  KillInv' /\ crashes' = crashes
    BY <1>3, <1>9 DEF HandleDecision, store
  <1>10. ASSUME NEW c \in Threads, HandleStatus(c)
         PROVE  KillInv' /\ crashes' = crashes
    <2>1. risk'.kill = risk.kill /\ UNCHANGED <<store, crashes, held>>
      BY <1>10, StatusShape
    <2> QED BY <1>3, <2>1 DEF store
  <1>11. ASSUME NEW c \in Threads, HandleFill(c)
         PROVE  KillInv' /\ crashes' = crashes
    <2>1. PICK f \in Fill, acc \in Account :
             /\ acc = [pos |-> pos, risk |-> risk]
             /\ \/ UNCHANGED <<risk, held>>
                \/ risk' = ApplyFill(acc, f).risk /\ held' = HeldAfter(acc, <<f>>)
      BY <1>11, FillShape
    <2>2. UNCHANGED <<store, crashes>>
      BY <1>11, FillShape
    <2>3. PICK F \in Seq(Fill) : F = <<f>> /\ ApplyFills(acc, F) = ApplyFill(acc, f)
      BY OneFill, Zenon
    <2>4. CASE UNCHANGED <<risk, held>>
      BY <1>3, <2>2, <2>4 DEF store
    <2>5. CASE risk' = ApplyFill(acc, f).risk /\ held' = HeldAfter(acc, <<f>>)
      <3>1. held' = "yes" => held = "yes" /\ risk'.kill = "manual"
        BY <1>2, <2>1, <2>3, <2>5 DEF KillInv
      <3> QED BY <2>2, <3>1 DEF KillInv, store
    <2> QED BY <2>1, <2>4, <2>5
  <1>12. ASSUME NEW c \in Threads, HandleBar(c)
         PROVE  KillInv' /\ crashes' = crashes
    <2>1. /\ risk.kill = "manual" => risk'.kill = "manual"
          /\ UNCHANGED <<store, crashes, held>>
      BY <1>12, BarShape
    <2> QED BY <1>3, <2>1 DEF store
  <1>13. ASSUME NEW c \in Threads, ClockRefuses(c)
         PROVE  KillInv' /\ crashes' = crashes
    BY <1>3, <1>13 DEF ClockRefuses, store
  <1>14. ASSUME NEW c \in Threads, RunEnds(c)
         PROVE  KillInv' /\ crashes' = crashes
    BY <1>3, <1>14 DEF RunEnds, memory, store, ghosts
  <1>15. ASSUME NEW c \in Threads, AppendEvents(c)
         PROVE  KillInv' /\ crashes' = crashes
    <2>1. PICK F \in Seq(Fill) : F = call[c].fills
      BY CallFacts
    <2>2. /\ book' = ApplyFills(book, F) /\ held' = HeldAfter(book, F)
          /\ UNCHANGED <<market, memory, keys, crashes, overlap, raised, forgot>>
      BY <1>15, <2>1 DEF AppendEvents
    <2>3. book \in Account
      BY DEF TypeOK
    <2>4. held' = "yes" => held = "yes" /\ book'.risk.kill = "manual"
      BY <1>2, <2>2, <2>3 DEF KillInv
    <2> QED BY <2>2, <2>4 DEF KillInv, memory
  <1>16. CASE LastTick
    BY <1>3, <1>16 DEF LastTick, memory, store, ghosts
  <1>17. CASE DropBar
    BY <1>3, <1>17 DEF DropBar, store, ghosts
  <1>18. CASE OnBar
    BY <1>3, <1>18 DEF OnBar, store
  <1>19. CASE ActivateKill
    <2>1. risk \in Risk /\ book \in Account /\ book.risk \in Risk
      BY DEF TypeOK, Account
    <2>2. risk'.kill = "manual" /\ book'.risk.kill = "manual" /\ crashes' = crashes
      BY <1>19, <2>1 DEF ActivateKill, Risk, Account
    <2> QED BY <2>2 DEF KillInv
  <1>20. CASE ResetKill
    BY <1>20 DEF ResetKill, KillInv
  <1>21. CASE Restart
    <2>1. /\ book.risk.kill = "manual" => risk'.kill = "manual"
          /\ UNCHANGED <<now, day, front, store, held, overlap, forgot>>
      BY <1>21, RestartShape
    <2> QED BY <2>1 DEF KillInv, store
  <1> QED BY <1>4, <1>5, <1>6, <1>7, <1>8, <1>9, <1>10, <1>11, <1>12, <1>13, <1>14,
             <1>15, <1>16, <1>17, <1>18, <1>19, <1>20, <1>21
          DEF Next, Submit, Run, Handle

\* A restart of the paper account, at whatever point of whatever runs, brings
\* back the kill switch an operator set, unless a loss replaced it.
THEOREM KillSurvivesRestart == Spec => RestartKeepsKill
  <1>1. Init => KillInv
    BY DEF Init, KillInv
  <1>2. TypeOK /\ KillInv /\ [Next]_vars => KillInv'
    <2> SUFFICES ASSUME TypeOK, KillInv, [Next]_vars PROVE KillInv'
      OBVIOUS
    <2>1. CASE Next
      BY <2>1, KillStep
    <2>2. CASE UNCHANGED vars
      BY <2>2 DEF KillInv, vars, memory, store, ghosts
    <2> QED BY <2>1, <2>2
  <1>3. TypeOK /\ KillInv /\ [Next]_vars =>
          [crashes' # crashes /\ held = "yes" => risk'.kill = "manual"]_vars
    BY KillStep
  <1> QED BY <1>1, <1>2, <1>3, PaperTypes, PTL DEF Spec, RestartKeepsKill

------------------------------------------------------------------------------
(* Paper account: where an order is *)

\* The events queued or in the hands of a thread.
Moving == events \cup {call[t].ev : t \in Threads}

\* Two events of the same order that ask for the same.
Alike(e, d) == e.id = d.id /\ e.kind = d.kind /\ e.order = d.order

\* Bars are events of no order; an order that is not yet placed is pending.
EventInv ==
    /\ \A e \in Moving : /\ e.kind = "bar" => e.id \notin Keys
                         /\ e.kind = "intent" => e.order.status = "pending_risk"
    /\ \A t \in Threads : call[t].pc = "reserved" => call[t].order.status = "pending_risk"

\* Only a thread in the engine holds an event; a run that has begun has the
\* fills it applied among its rows.
CallInv ==
    \A t \in Threads :
       /\ call[t].pc \in {"idle", "reserved"} => call[t].rows = {} /\ call[t].fills = <<>>
       /\ call[t].pc # "run" => call[t].ev = NoEvent
       /\ \A i \in DOMAIN call[t].fills :
             <<call[t].fills[i].order, "filled">> \in call[t].rows

\* The end of order k is among rows that are not committed.
Done(k, rows) == <<k, "filled">> \in rows \/ <<k, "rejected">> \in rows

\* x is a place where order k is: a thread reserved its key, an event of it is
\* queued or held, it waits for its bar, or its end is about to be committed.
At(k, x) ==
    \/ \E t \in Threads : /\ x = <<"reserved", t>>
                          /\ call[t].pc = "reserved" /\ call[t].key = k
    \/ \E e \in events : x = <<"queued", e>> /\ e.id = k
    \/ \E t \in Threads : x = <<"held", t>> /\ call[t].ev.id = k
    \/ x = <<"waits", k>> /\ k \in Waiting
    \/ \E t \in Threads : x = <<"done", t>> /\ Done(k, call[t].rows)

\* An order is in one place at most, and there only while no end of it is
\* committed; a key nobody reserved has nothing.
PlaceOK(k) ==
    /\ \A x, y : At(k, x) /\ At(k, y) => x = y
    /\ \A x : At(k, x) => k \in keys /\ saved[k].done = "none"
    /\ k \notin keys => /\ saved[k] = Unsaved
                        /\ \A t \in Threads : \A r \in call[t].rows : r[1] # k

FlowInv == EventInv /\ CallInv /\ \A k \in Keys : PlaceOK(k)

\* An order that stays where it is or moves to one other place.
LEMMA PlaceKept ==
    ASSUME NEW k \in Keys, PlaceOK(k), keys \subseteq keys', saved' = saved,
           \/ \A x : At(k, x)' => At(k, x)
           \/ \E x, y : At(k, x) /\ \A z : At(k, z)' => z = y,
           k \notin keys => \A t \in Threads : \A r \in call'[t].rows : r[1] # k
    PROVE  PlaceOK(k)'
  <1>1. \A x, y : At(k, x)' /\ At(k, y)' => x = y
    BY DEF PlaceOK
  <1>2. \A x : At(k, x)' => k \in keys' /\ saved'[k].done = "none"
    BY DEF PlaceOK
  <1>3. k \notin keys' => /\ saved'[k] = Unsaved
                          /\ \A t \in Threads : \A r \in call'[t].rows : r[1] # k
    BY DEF PlaceOK
  <1> QED BY <1>1, <1>2, <1>3 DEF PlaceOK, Unsaved, Row, NoOrder

\* Nothing moves.
LEMMA PlaceSame ==
    ASSUME FlowInv, UNCHANGED <<call, events, orders, keys, saved>>
    PROVE  FlowInv'
  <1>1. EventInv' /\ CallInv'
    BY DEF FlowInv, EventInv, CallInv, Moving, NoEvent, NoOrder
  <1>2. ASSUME NEW k \in Keys PROVE PlaceOK(k)'
    <2>1. \A x : At(k, x)' => At(k, x)
      BY DEF At, Done, Waiting, IsNextBar
    <2> QED BY <2>1, PlaceKept DEF FlowInv, PlaceOK
  <1> QED BY <1>1, <1>2 DEF FlowInv

\* What a handler does to the queue and to its thread.
LEMMA HandlerFacts ==
    ASSUME TypeOK, NEW c \in Threads, call[c].pc = "run", NEW evs \in Seq(Event),
           NEW rows \in SUBSET Rows, NEW fills \in Seq(Fill),
           Raised(c) \/ Proceeded(c, evs, rows, fills)
    PROVE  /\ \A t \in Threads \ {c} : call'[t] = call[t]
           /\ call'[c].pc \in {"idle", "run"} /\ call'[c].ev = NoEvent
           /\ \/ /\ call'[c].pc = "idle" /\ call'[c].rows = {} /\ call'[c].fills = <<>>
              \/ /\ call'[c].rows = call[c].rows \cup rows
                 /\ call'[c].fills = call[c].fills \o fills /\ call'[c].pc = "run"
           /\ \E g \in [DOMAIN evs -> Event] :
                 /\ events' \subseteq events \cup {g[i] : i \in DOMAIN evs}
                 /\ \A i \in DOMAIN evs : evs[i] \in Event /\ Alike(g[i], evs[i])
  <1>1. PICK g \in [DOMAIN evs -> Event] :
           /\ Pushed(evs) = events \cup {g[i] : i \in DOMAIN evs}
           /\ \A i \in DOMAIN evs : /\ evs[i] \in Event
                                    /\ g[i].id = evs[i].id /\ g[i].kind = evs[i].kind
                                    /\ g[i].order = evs[i].order
    BY PushedFacts
  <1>2. \A i \in DOMAIN evs : evs[i] \in Event /\ Alike(g[i], evs[i])
    BY <1>1 DEF Alike
  <1>3. events' \subseteq events \cup {g[i] : i \in DOMAIN evs}
    BY <1>1 DEF Raised, Proceeded
  <1>4. \A t \in Threads \ {c} : call'[t] = call[t]
    BY LeaveType
  <1>5. CASE Raised(c)
    <2>1. call'[c] = IdleCall
      BY <1>5, LeaveType
    <2> QED BY <1>2, <1>3, <1>4, <2>1, IdleType
  <1>6. CASE Proceeded(c, evs, rows, fills)
    <2>1. /\ call'[c].pc = call[c].pc /\ call'[c].ev = NoEvent
          /\ call'[c].rows = call[c].rows \cup rows
          /\ call'[c].fills = call[c].fills \o fills
      <3>1. CallOK(call[c]) /\ DOMAIN call = Threads
        BY DEF TypeOK
      <3> QED BY <1>6, <3>1 DEF Proceeded, CallOK
    <2> QED BY <1>2, <1>3, <1>4, <2>1
  <1> QED BY <1>5, <1>6

\* Where an order may be once a handler is through.
Left(c, g, evs, rows, k, x) ==
    \/ At(k, x) /\ x # <<"held", c>> /\ x # <<"waits", k>>
    \/ \E i \in DOMAIN evs : evs[i].id = k /\ x = <<"queued", g[i]>>
    \/ x = <<"waits", k>> /\ k \in Waiting'
    \/ x = <<"done", c>> /\ Done(k, rows)

LEMMA HandlerAt ==
    ASSUME TypeOK, NEW c \in Threads, call[c].pc = "run", NEW evs \in Seq(Event),
           NEW rows \in SUBSET Rows, NEW g,
           \A t \in Threads \ {c} : call'[t] = call[t],
           call'[c].pc \in {"idle", "run"}, call'[c].ev = NoEvent,
           call'[c].rows \subseteq call[c].rows \cup rows,
           events' \subseteq events \cup {g[i] : i \in DOMAIN evs},
           \A i \in DOMAIN evs : Alike(g[i], evs[i]),
           NEW k \in Keys, NEW x, At(k, x)'
    PROVE  Left(c, g, evs, rows, k, x)
  <1>1. NoEvent.id \notin Keys
    BY IdleType, IdFacts
  <1>2. ASSUME NEW t \in Threads, x = <<"reserved", t>>, call'[t].pc = "reserved",
               call'[t].key = k
        PROVE  At(k, x) /\ x # <<"held", c>> /\ x # <<"waits", k>>
    <2>1. t # c /\ call'[t] = call[t]
      BY <1>2
    <2> QED BY <1>2, <2>1 DEF At
  <1>3. ASSUME NEW e \in events', x = <<"queued", e>>, e.id = k
        PROVE  \/ At(k, x) /\ x # <<"held", c>> /\ x # <<"waits", k>>
               \/ \E i \in DOMAIN evs : evs[i].id = k /\ x = <<"queued", g[i]>>
    <2>1. CASE e \in events
      BY <1>3, <2>1 DEF At
    <2>2. ASSUME NEW i \in DOMAIN evs, e = g[i] PROVE evs[i].id = k
      BY <1>3, <2>2 DEF Alike
    <2> QED BY <1>3, <2>1, <2>2
  <1>4. ASSUME NEW t \in Threads, x = <<"held", t>>, call'[t].ev.id = k
        PROVE  At(k, x) /\ x # <<"held", c>> /\ x # <<"waits", k>>
    <2>1. t # c /\ call'[t] = call[t]
      BY <1>1, <1>4
    <2> QED BY <1>4, <2>1 DEF At
  <1>5. ASSUME NEW t \in Threads, x = <<"done", t>>, Done(k, call'[t].rows)
        PROVE  \/ At(k, x) /\ x # <<"held", c>> /\ x # <<"waits", k>>
               \/ x = <<"done", c>> /\ Done(k, rows)
    <2>1. CASE t # c
      BY <1>5, <2>1 DEF At
    <2>2. CASE t = c
      <3>1. Done(k, call[c].rows) \/ Done(k, rows)
        BY <1>5, <2>2 DEF Done
      <3> QED BY <1>5, <2>2, <3>1 DEF At
    <2> QED BY <2>1, <2>2
  <1> QED BY <1>2, <1>3, <1>4, <1>5 DEF At, Left

\* What a handler of an event of order k0 does: w is its row.
OneOrder(c, k0, evs, w, fills) ==
    /\ evs \in Seq(Event) /\ DOMAIN evs \subseteq {1}
    /\ \A i \in DOMAIN evs : evs[i].id = k0 /\ evs[i].kind \notin {"bar", "intent"}
    /\ fills \in Seq(Fill)
    /\ \A i \in DOMAIN fills : fills[i].order = k0 /\ w = "filled"
    /\ Raised(c) \/ Proceeded(c, evs, {<<k0, w>>}, fills)
    /\ \A k \in Keys \ {k0} : k \in Waiting' => k \in Waiting
    /\ w \in {"filled", "rejected"} => evs = <<>>
    /\ k0 \in Keys /\ k0 \in Waiting' => evs = <<>> /\ w \notin {"filled", "rejected"}

LEMMA OneOrderStep ==
    ASSUME TypeOK, FlowInv, NEW c \in Threads, NEW k0 \in Ids, call[c].ev.id = k0,
           call[c].pc = "run", NEW evs, NEW fills,
           NEW w \in {"intent", "refused", "approved", "filled", "rejected"},
           OneOrder(c, k0, evs, w, fills), UNCHANGED <<keys, saved>>
    PROVE  FlowInv'
  <1> evs \in Seq(Event) /\ fills \in Seq(Fill)
    BY DEF OneOrder
  <1> USE DEF OneOrder
  <1>0. {<<k0, w>>} \in SUBSET Rows
    BY DEF Rows
  <1>1. /\ \A t \in Threads \ {c} : call'[t] = call[t]
        /\ call'[c].pc \in {"idle", "run"} /\ call'[c].ev = NoEvent
        /\ \/ /\ call'[c].pc = "idle" /\ call'[c].rows = {} /\ call'[c].fills = <<>>
           \/ /\ call'[c].rows = call[c].rows \cup {<<k0, w>>}
              /\ call'[c].fills = call[c].fills \o fills /\ call'[c].pc = "run"
    BY <1>0, HandlerFacts
  <1>2. PICK g \in [DOMAIN evs -> Event] :
           /\ events' \subseteq events \cup {g[i] : i \in DOMAIN evs}
           /\ \A i \in DOMAIN evs : evs[i] \in Event /\ Alike(g[i], evs[i])
    BY <1>0, HandlerFacts
  <1>3. call'[c].rows \subseteq call[c].rows \cup {<<k0, w>>}
    BY <1>1
  <1>4. EventInv'
    <2>1. ASSUME NEW e \in Moving'
          PROVE  /\ e.kind = "bar" => e.id \notin Keys
                 /\ e.kind = "intent" => e.order.status = "pending_risk"
      <3>1. \/ e \in Moving \/ e = NoEvent
            \/ \E i \in DOMAIN evs : e.kind = evs[i].kind
        BY <1>1, <1>2 DEF Moving, Alike
      <3> QED BY <3>1, IdleType DEF FlowInv, EventInv
    <2>2. ASSUME NEW t \in Threads, call'[t].pc = "reserved"
          PROVE  call'[t].order.status = "pending_risk"
      BY <1>1, <2>2 DEF FlowInv, EventInv
    <2> QED BY <2>1, <2>2 DEF EventInv
  <1>5. CallInv'
    <2>1. ASSUME NEW t \in Threads, t # c
          PROVE  /\ call'[t].pc \in {"idle", "reserved"} =>
                       call'[t].rows = {} /\ call'[t].fills = <<>>
                 /\ call'[t].pc # "run" => call'[t].ev = NoEvent
                 /\ \A i \in DOMAIN call'[t].fills :
                       <<call'[t].fills[i].order, "filled">> \in call'[t].rows
      <3>1. call'[t] = call[t]
        BY <1>1, <2>1
      <3> QED BY <3>1 DEF FlowInv, CallInv
    <2>2. \A i \in DOMAIN call'[c].fills :
             <<call'[c].fills[i].order, "filled">> \in call'[c].rows
      <3>1. CASE call'[c].fills = <<>>
        BY <3>1
      <3>2. CASE /\ call'[c].rows = call[c].rows \cup {<<k0, w>>}
                 /\ call'[c].fills = call[c].fills \o fills
        <4>1. PICK F \in Seq(Fill) : F = call[c].fills
          BY CallFacts
        <4>2. PICK R : R = call[c].rows
          OBVIOUS
        <4>3. \A i \in DOMAIN F : <<F[i].order, "filled">> \in R
          BY <4>1, <4>2 DEF FlowInv, CallInv
        <4>4. ASSUME NEW i \in DOMAIN (F \o fills)
              PROVE  <<(F \o fills)[i].order, "filled">> \in R \cup {<<k0, w>>}
          <5>0. PICK v : v = (F \o fills)[i]
            OBVIOUS
          <5>1. PICK n \in Nat, m \in Nat : n = Len(F) /\ m = Len(fills)
            OBVIOUS
          <5>2. DOMAIN F = 1..n /\ DOMAIN fills = 1..m /\ i \in 1..(n + m)
            BY <5>1
          <5>3. CASE i <= n
            <6>1. v = F[i] /\ i \in DOMAIN F
              BY <5>0, <5>1, <5>2, <5>3
            <6> QED BY <4>3, <5>0, <6>1
          <5>4. CASE n < i
            <6>1. v = fills[i - n] /\ i - n \in DOMAIN fills
              BY <5>0, <5>1, <5>2, <5>4
            <6>2. v.order = k0 /\ w = "filled"
              BY <6>1
            <6> QED BY <5>0, <6>2
          <5>5. i <= n \/ n < i
            BY <5>1, <5>2
          <5> QED BY <5>3, <5>4, <5>5, Zenon
        <4> QED BY <3>2, <4>1, <4>2, <4>4, Zenon
      <3> QED BY <1>1, <3>1, <3>2
    <2> QED BY <1>1, <2>1, <2>2 DEF CallInv
  <1>6. ASSUME NEW k \in Keys PROVE PlaceOK(k)'
    <2>0. PlaceOK(k)
      BY DEF FlowInv
    <2>1. \A z : At(k, z)' =>
             \/ At(k, z) /\ z # <<"held", c>> /\ z # <<"waits", k>>
             \/ \E i \in DOMAIN evs : evs[i].id = k /\ z = <<"queued", g[i]>>
             \/ z = <<"waits", k>> /\ k \in Waiting'
             \/ z = <<"done", c>> /\ Done(k, {<<k0, w>>})
      <3>1. \A i \in DOMAIN evs : Alike(g[i], evs[i])
        BY <1>2
      <3>2. ASSUME NEW z, At(k, z)' PROVE Left(c, g, evs, {<<k0, w>>}, k, z)
        BY <1>0, <1>1, <1>2, <1>3, <3>1, <3>2, HandlerAt
      <3> QED BY <3>2 DEF Left
    <2>2. Done(k, {<<k0, w>>}) => k = k0 /\ w \in {"filled", "rejected"}
      BY DEF Done
    <2>3. CASE k # k0
      <3>1. \A z : At(k, z)' => At(k, z)
        <4>1. k \in Waiting' => At(k, <<"waits", k>>)
          BY <2>3 DEF At
        <4> QED BY <2>1, <2>2, <2>3, <4>1
      <3>2. k \notin keys => \A t \in Threads : \A r \in call'[t].rows : r[1] # k
        <4>1. <<k0, w>>[1] = k0
          OBVIOUS
        <4>2. \A t \in Threads : \A r \in call'[t].rows :
                 (\E u \in Threads : r \in call[u].rows) \/ r = <<k0, w>>
          BY <1>1, <1>3
        <4> QED BY <2>0, <2>3, <4>1, <4>2 DEF PlaceOK
      <3> QED BY <2>0, <3>1, <3>2, PlaceKept
    <2>4. CASE k = k0
      <3>1. At(k, <<"held", c>>)
        BY <2>4 DEF At
      <3>2. \A z : At(k, z) => z = <<"held", c>>
        BY <2>0, <3>1 DEF PlaceOK
      <3>3. k \in keys
        BY <2>0, <3>1 DEF PlaceOK
      <3>4. \A i \in DOMAIN evs : i = 1
        OBVIOUS
      <3>5. \E y : \A z : At(k, z)' => z = y
        <4>1. CASE k \in Waiting'
          <5>1. evs = <<>> /\ w \notin {"filled", "rejected"}
            BY <2>4, <4>1
          <5>2. DOMAIN evs = {}
            BY <5>1
          <5>3. \A z : At(k, z)' => z = <<"waits", k>>
            BY <2>1, <2>2, <3>2, <5>1, <5>2
          <5> QED BY <5>3
        <4>2. CASE k \notin Waiting' /\ w \in {"filled", "rejected"}
          <5>1. DOMAIN evs = {}
            BY <4>2
          <5>2. \A z : At(k, z)' => z = <<"done", c>>
            BY <2>1, <3>2, <4>2, <5>1
          <5> QED BY <5>2
        <4>3. CASE k \notin Waiting' /\ w \notin {"filled", "rejected"}
          <5>1. \A z : At(k, z)' => z = <<"queued", g[1]>>
            BY <2>1, <2>2, <3>2, <3>4, <4>3
          <5> QED BY <5>1
        <4> QED BY <4>1, <4>2, <4>3
      <3> QED BY <2>0, <3>1, <3>3, <3>5, PlaceKept
    <2> QED BY <2>3, <2>4
  <1> QED BY <1>4, <1>5, <1>6 DEF FlowInv

\* Where an order may be once thread c has done something to its own call.
Seen(c, y, k, x) ==
    \/ /\ At(k, x) /\ \A e : x # <<"queued", e>>
       /\ \A w \in {"reserved", "held", "done"} : x # <<w, c>>
    \/ x = <<"reserved", c>> /\ y.pc = "reserved" /\ y.key = k
    \/ x = <<"held", c>> /\ y.ev.id = k
    \/ x = <<"done", c>> /\ Done(k, y.rows)
    \/ \E e \in events' : x = <<"queued", e>> /\ e.id = k

LEMMA BecomesAt ==
    ASSUME NEW c \in Threads, NEW y, Becomes(c, y), orders' = orders,
           NEW k \in Keys, NEW x, At(k, x)'
    PROVE  Seen(c, y, k, x)
  <1>1. \A t \in Threads : (t = c /\ call'[t] = y) \/ (t # c /\ call'[t] = call[t])
    BY Zenon DEF Becomes
  <1>2. Waiting' = Waiting
    BY DEF Waiting
  <1>3. ASSUME NEW t \in Threads, x = <<"reserved", t>>, call'[t].pc = "reserved",
               call'[t].key = k
        PROVE  Seen(c, y, k, x)
    BY <1>1, <1>3 DEF Seen, At
  <1>4. ASSUME NEW t \in Threads, x = <<"held", t>>, call'[t].ev.id = k
        PROVE  Seen(c, y, k, x)
    BY <1>1, <1>4 DEF Seen, At
  <1>5. ASSUME NEW t \in Threads, x = <<"done", t>>, Done(k, call'[t].rows)
        PROVE  Seen(c, y, k, x)
    BY <1>1, <1>5 DEF Seen, At
  <1>6. ASSUME NEW e \in events', x = <<"queued", e>>, e.id = k
        PROVE  Seen(c, y, k, x)
    BY <1>6 DEF Seen
  <1>7. ASSUME x = <<"waits", k>>, k \in Waiting PROVE Seen(c, y, k, x)
    BY <1>7 DEF Seen, At
  <1> QED BY <1>2, <1>3, <1>4, <1>5, <1>6, <1>7 DEF At

\* Events that were queued before, or are as they have to be.
EventsKept ==
    \A e \in events' : \/ e \in events \/ e.kind \notin {"bar", "intent"}
                       \/ e.kind = "bar" /\ e.id \notin Keys
                       \/ e.kind = "intent" /\ e.order.status = "pending_risk"

\* A call that holds nothing new but an event of the queue.
CallKept(c, y) ==
    /\ \/ y.ev = NoEvent \/ y.ev = call[c].ev
       \/ \E e \in events : Alike(y.ev, e)
    /\ y.pc = "reserved" => y.order.status = "pending_risk"
    /\ y.pc \in {"idle", "reserved"} => y.rows = {} /\ y.fills = <<>>
    /\ y.pc # "run" => y.ev = NoEvent
    /\ y.fills = <<>> \/ (y.fills = call[c].fills /\ y.rows = call[c].rows)

\* The calls and the events in motion, if they change like that.
LEMMA BecomesRest ==
    ASSUME TypeOK, EventInv, CallInv, NEW c \in Threads, NEW y, Becomes(c, y),
           EventsKept, CallKept(c, y)
    PROVE  EventInv' /\ CallInv'
  <1> USE DEF EventsKept, CallKept
  <1>1. \A t \in Threads : (t = c /\ call'[t] = y) \/ (t # c /\ call'[t] = call[t])
    BY Zenon DEF Becomes
  <1>2. NoEvent.kind = "none"
    BY IdleType
  <1>3. ASSUME NEW e \in Moving'
        PROVE  /\ e.kind = "bar" => e.id \notin Keys
               /\ e.kind = "intent" => e.order.status = "pending_risk"
    <2>1. CASE e \in events'
      BY <2>1 DEF EventInv, Moving
    <2>2. ASSUME NEW t \in Threads, e = call'[t].ev
          PROVE  /\ e.kind = "bar" => e.id \notin Keys
                 /\ e.kind = "intent" => e.order.status = "pending_risk"
      <3>1. CASE t # c
        <4>1. e \in Moving
          BY <1>1, <2>2, <3>1 DEF Moving
        <4> QED BY <4>1 DEF EventInv
      <3>2. CASE t = c
        <4>1. e = NoEvent \/ e \in Moving \/ \E d \in Moving : Alike(e, d)
          BY <1>1, <2>2, <3>2 DEF Moving
        <4> QED BY <1>2, <4>1 DEF EventInv, Alike
      <3> QED BY <3>1, <3>2
    <2> QED BY <2>1, <2>2 DEF Moving
  <1>4. ASSUME NEW t \in Threads, call'[t].pc = "reserved"
        PROVE  call'[t].order.status = "pending_risk"
    BY <1>1, <1>4 DEF EventInv
  <1>5. ASSUME NEW t \in Threads
        PROVE  /\ call'[t].pc \in {"idle", "reserved"} =>
                     call'[t].rows = {} /\ call'[t].fills = <<>>
               /\ call'[t].pc # "run" => call'[t].ev = NoEvent
               /\ \A i \in DOMAIN call'[t].fills :
                     <<call'[t].fills[i].order, "filled">> \in call'[t].rows
    <2>1. CASE t # c
      <3>1. call'[t] = call[t]
        BY <1>1, <2>1
      <3> QED BY <3>1 DEF CallInv
    <2>2. CASE t = c
      <3>1. call'[t] = y
        BY <1>1, <2>2
      <3>2. DOMAIN <<>> = {}
        OBVIOUS
      <3>3. CASE y.fills = <<>>
        BY <3>1, <3>2, <3>3
      <3>4. CASE y.fills = call[c].fills /\ y.rows = call[c].rows
        BY <3>1, <3>4 DEF CallInv
      <3> QED BY <3>3, <3>4
    <2> QED BY <2>1, <2>2
  <1> QED BY <1>3, <1>4, <1>5 DEF EventInv, CallInv, NoEvent, NoOrder

\* A bar: the waiting orders it concerns are in the events of its run.
LEMMA BarFlow ==
    ASSUME TypeOK, FlowInv, NEW c \in Threads, HandleBar(c)
    PROVE  FlowInv'
  <1>1. call[c].ev.kind = "bar" /\ call[c].pc = "run"
    <2>1. call[c].ev.kind = "bar"
      BY BarShape
    <2> QED BY <2>1, IdleType DEF FlowInv, CallInv
  <1>2. call[c].ev.id \notin Keys
    BY <1>1 DEF FlowInv, EventInv, Moving
  <1>3. PICK evs :
           /\ BarEvents(evs) /\ (Raised(c) \/ Proceeded(c, evs, {}, <<>>))
           /\ \A k \in Keys : orders'[k] = orders[k] \/ \E i \in DOMAIN evs : evs[i].id = k
           /\ \A i \in DOMAIN evs : evs[i].kind # "intent" =>
                 orders'[evs[i].id].status \in {"filled", "rejected"}
    BY BarShape
  <1>4. BarEvents(evs) /\ (Raised(c) \/ Proceeded(c, evs, {}, <<>>))
    BY <1>3
  <1>5. evs \in Seq(Event) /\ {} \in SUBSET Rows /\ <<>> \in Seq(Fill)
    BY <1>4 DEF BarEvents
  <1>6. /\ \A t \in Threads \ {c} : call'[t] = call[t]
        /\ call'[c].pc \in {"idle", "run"} /\ call'[c].ev = NoEvent
        /\ \/ /\ call'[c].pc = "idle" /\ call'[c].rows = {} /\ call'[c].fills = <<>>
           \/ /\ call'[c].rows = call[c].rows \cup {}
              /\ call'[c].fills = call[c].fills \o <<>> /\ call'[c].pc = "run"
    BY <1>1, <1>4, <1>5, HandlerFacts
  <1>7. PICK g \in [DOMAIN evs -> Event] :
           /\ events' \subseteq events \cup {g[i] : i \in DOMAIN evs}
           /\ \A i \in DOMAIN evs : evs[i] \in Event /\ Alike(g[i], evs[i])
    BY <1>1, <1>4, <1>5, HandlerFacts
  <1>8. call[c].fills \o <<>> = call[c].fills
    <2>1. PICK F \in Seq(Fill) : F = call[c].fills
      BY CallFacts
    <2>2. F \o <<>> = F
      OBVIOUS
    <2> QED BY <2>1, <2>2
  <1>9. \A i \in DOMAIN evs : /\ evs[i].kind # "bar"
                              /\ evs[i].kind = "intent" =>
                                    evs[i].order.status = "pending_risk" /\ evs[i].id \notin Keys
                              /\ evs[i].kind # "intent" => evs[i].id \in Waiting
    BY <1>4, IdFacts DEF BarEvents
  <1>10. EventInv'
    <2>1. ASSUME NEW e \in Moving'
          PROVE  /\ e.kind = "bar" => e.id \notin Keys
                 /\ e.kind = "intent" => e.order.status = "pending_risk"
      <3>1. \/ e \in Moving \/ e = NoEvent
            \/ \E i \in DOMAIN evs : e.kind = evs[i].kind /\ e.order = evs[i].order
        BY <1>6, <1>7 DEF Moving, Alike
      <3> QED BY <1>9, <3>1, IdleType DEF FlowInv, EventInv
    <2>2. ASSUME NEW t \in Threads, call'[t].pc = "reserved"
          PROVE  call'[t].order.status = "pending_risk"
      BY <1>6, <2>2 DEF FlowInv, EventInv
    <2> QED BY <2>1, <2>2 DEF EventInv
  <1>11. CallInv'
    <2>1. ASSUME NEW t \in Threads
          PROVE  /\ call'[t].pc \in {"idle", "reserved"} =>
                       call'[t].rows = {} /\ call'[t].fills = <<>>
                 /\ call'[t].pc # "run" => call'[t].ev = NoEvent
                 /\ \A i \in DOMAIN call'[t].fills :
                       <<call'[t].fills[i].order, "filled">> \in call'[t].rows
      <3>1. CASE t # c
        <4>1. call'[t] = call[t]
          BY <1>6, <3>1
        <4> QED BY <4>1 DEF FlowInv, CallInv
      <3>2. CASE t = c /\ call'[c].fills = <<>> /\ call'[c].rows = {}
        <4>1. DOMAIN <<>> = {}
          OBVIOUS
        <4> QED BY <1>6, <3>2, <4>1
      <3>3. CASE /\ t = c /\ call'[c].pc = "run" /\ call'[c].fills = call[c].fills
                 /\ call'[c].rows = call[c].rows
        BY <3>3 DEF FlowInv, CallInv
      <3> QED BY <1>6, <1>8, <3>1, <3>2, <3>3
    <2> QED BY <2>1 DEF CallInv, NoEvent, NoOrder
  <1>12. ASSUME NEW k \in Keys PROVE PlaceOK(k)'
    <2>0. PlaceOK(k)
      BY DEF FlowInv
    <2>1. \A z : At(k, z)' =>
             \/ At(k, z) /\ z # <<"waits", k>>
             \/ \E i \in DOMAIN evs : evs[i].id = k /\ z = <<"queued", g[i]>>
             \/ z = <<"waits", k>> /\ k \in Waiting'
      <3>1. \A i \in DOMAIN evs : Alike(g[i], evs[i])
        BY <1>7
      <3>2. call'[c].rows \subseteq call[c].rows \cup {}
        BY <1>6
      <3>3. ASSUME NEW z, At(k, z)' PROVE Left(c, g, evs, {}, k, z)
        BY <1>1, <1>5, <1>6, <1>7, <3>1, <3>2, <3>3, HandlerAt
      <3> QED BY <3>3 DEF Left, Done
    <2>2. UNCHANGED <<keys, saved>>
      BY BarShape DEF store
    <2>3. k \notin keys => \A t \in Threads : \A r \in call'[t].rows : r[1] # k
      <3>1. \A t \in Threads : \A r \in call'[t].rows : r \in call[t].rows
        BY <1>6
      <3> QED BY <2>0, <3>1 DEF PlaceOK
    <2>4. CASE \A i \in DOMAIN evs : evs[i].id # k
      <3>1. orders'[k] = orders[k]
        BY <1>3, <2>4
      <3>2. k \in Waiting' => At(k, <<"waits", k>>)
        BY <3>1 DEF Waiting, At
      <3>3. \A z : At(k, z)' => At(k, z)
        BY <2>1, <2>4, <3>2
      <3> QED BY <2>0, <2>2, <2>3, <3>3, PlaceKept
    <2>5. ASSUME NEW i \in DOMAIN evs, evs[i].id = k PROVE PlaceOK(k)'
      <3>1. evs[i].kind # "intent" /\ k \in Waiting
        BY <1>9, <2>5
      <3>2. At(k, <<"waits", k>>)
        BY <3>1 DEF At
      <3>3. \A z : At(k, z) => z = <<"waits", k>>
        BY <2>0, <3>2 DEF PlaceOK
      <3>4. k \notin Waiting'
        BY <1>3, <2>5, <3>1 DEF Waiting
      <3>5. \A j \in DOMAIN evs : evs[j].id = k => i = j
        BY <1>4, <2>5 DEF BarEvents
      <3>6. \A z : At(k, z)' => z = <<"queued", g[i]>>
        BY <2>1, <3>3, <3>4, <3>5
      <3> QED BY <2>0, <2>2, <2>3, <3>2, <3>6, PlaceKept
    <2> QED BY <2>4, <2>5
  <1> QED BY <1>10, <1>11, <1>12 DEF FlowInv

\* A thread works on an event of one order: the handlers but the bar's.
LEMMA HandleFlow ==
    ASSUME TypeOK, FlowInv, NEW c \in Threads,
           \/ HandleIntent(c) \/ HandleDecision(c) \/ HandleStatus(c)
           \/ HandleFill(c) \/ ClockRefuses(c)
    PROVE  FlowInv'
  <1>1. PICK k0 \in Ids : k0 = call[c].ev.id
    BY CallFacts
  <1>2. call[c].pc = "run"
    <2>1. call[c].ev.kind \in {"intent", "decision", "status", "fill"} \/ call[c].ev # NoEvent
      BY DEF HandleIntent, HandleDecision, HandleStatus, HandleFill, ClockRefuses
    <2> QED BY <2>1, IdleType DEF FlowInv, CallInv
  <1>3. /\ <<>> \in Seq(Event) /\ <<>> \in Seq(Fill) /\ DOMAIN <<>> = {}
        /\ \A d \in Event : /\ <<d>> \in Seq(Event) /\ DOMAIN <<d>> = {1}
                            /\ <<d>>[1] = d /\ <<d>> # <<>>
    OBVIOUS
  <1>4. k0 \in Keys => k0 \notin Waiting
    <2> SUFFICES ASSUME k0 \in Keys, k0 \in Waiting PROVE FALSE
      OBVIOUS
    <2>1. At(k0, <<"held", c>>) /\ At(k0, <<"waits", k0>>)
      BY <1>1 DEF At
    <2>2. <<"held", c>> = <<"waits", k0>>
      BY <2>1 DEF FlowInv, PlaceOK
    <2> QED BY <2>2
  <1>5. ASSUME NEW evs \in Seq(Event), DOMAIN evs \subseteq {1},
               \A i \in DOMAIN evs : evs[i].id = k0 /\ evs[i].kind \notin {"bar", "intent"},
               NEW w \in {"intent", "refused", "approved", "filled", "rejected"},
               NEW fills \in Seq(Fill),
               \A i \in DOMAIN fills : fills[i].order = k0 /\ w = "filled",
               Raised(c) \/ Proceeded(c, evs, {<<k0, w>>}, fills),
               w \in {"filled", "rejected"} => evs = <<>>,
               \A k \in Keys \ {k0} : orders'[k] = orders[k],
               k0 \in Keys /\ k0 \in Waiting' => evs = <<>> /\ w \notin {"filled", "rejected"},
               UNCHANGED store
        PROVE  FlowInv'
    <2>1. \A k \in Keys \ {k0} : k \in Waiting' => k \in Waiting
      BY <1>5 DEF Waiting
    <2>2. UNCHANGED <<keys, saved>>
      BY <1>5 DEF store
    <2>3. OneOrder(c, k0, evs, w, fills)
      BY <1>5, <2>1, Zenon DEF OneOrder
    <2> QED BY ONLY TypeOK, FlowInv, c \in Threads, <1>1, <1>2, <2>2, <2>3, OneOrderStep,
               w \in {"intent", "refused", "approved", "filled", "rejected"}
  <1>6. CASE HandleIntent(c)
    <2>1. PICK o \in Order : o = call[c].ev.order
      BY CallFacts
    <2>2. /\ call[c].ev.kind = "intent" /\ orders' = [orders EXCEPT ![k0] = o]
          /\ \E d \in Event :
                /\ d.kind = "decision" /\ d.id = k0
                /\ Raised(c) \/ Proceeded(c, <<d>>, {<<k0, "intent">>}, <<>>)
          /\ UNCHANGED store
      BY <1>1, <1>6, <2>1, IntentShape
    <2>3. PICK d \in Event :
             /\ d.kind = "decision" /\ d.id = k0
             /\ Raised(c) \/ Proceeded(c, <<d>>, {<<k0, "intent">>}, <<>>)
      BY <2>2
    <2>4. o.status = "pending_risk"
      BY <2>1, <2>2 DEF FlowInv, EventInv, Moving
    <2>5. (\A k \in Keys \ {k0} : orders'[k] = orders[k]) /\ k0 \notin Waiting'
      BY <2>2, <2>4, IdFacts DEF Waiting, TypeOK
    <2>6. \A i \in DOMAIN <<d>> : <<d>>[i].id = k0 /\ <<d>>[i].kind \notin {"bar", "intent"}
      BY <1>3, <2>3
    <2>7. DOMAIN <<d>> \subseteq {1} /\ <<d>> \in Seq(Event)
      BY <1>3
    <2>8. \A i \in DOMAIN <<>> : FALSE
      BY <1>3
    <2> QED BY <1>3, <1>5, <2>2, <2>3, <2>5, <2>6, <2>7, <2>8
  <1>7. CASE HandleDecision(c)
    <2>1. PICK o \in Order :
             /\ orders' = [orders EXCEPT ![k0] = o] /\ o.kind = orders[k0].kind
             /\ \/ /\ o.status = "rejected"
                   /\ Proceeded(c, <<>>, {<<k0, "refused">>}, <<>>)
                \/ /\ IsNextBar(o.kind) /\ o.status = "approved"
                   /\ Proceeded(c, <<>>, {<<k0, "approved">>}, <<>>)
                \/ ~IsNextBar(o.kind) /\ Raised(c)
                \/ /\ ~IsNextBar(o.kind)
                   /\ \E d \in Event :
                         /\ d.kind \in {"status", "fill"} /\ d.id = k0
                         /\ Proceeded(c, <<d>>, {<<k0, "approved">>}, <<>>)
      BY <1>1, <1>7, DecisionShape
    <2>2. UNCHANGED store
      BY <1>7, DecisionShape
    <2>3. \A k \in Keys \ {k0} : orders'[k] = orders[k]
      BY <2>1
    <2>4. k0 \in Keys => orders'[k0] = o
      BY <2>1 DEF TypeOK
    <2>5. \A i \in DOMAIN <<>> : FALSE
      BY <1>3
    <2>6. CASE \/ Proceeded(c, <<>>, {<<k0, "refused">>}, <<>>)
      BY <1>3, <1>5, <2>2, <2>3, <2>5, <2>6
    <2>7. CASE Raised(c) \/ Proceeded(c, <<>>, {<<k0, "approved">>}, <<>>)
      BY <1>3, <1>5, <2>2, <2>3, <2>5, <2>7
    <2>8. ASSUME ~IsNextBar(o.kind), NEW d \in Event, d.kind \in {"status", "fill"},
                 d.id = k0, Proceeded(c, <<d>>, {<<k0, "approved">>}, <<>>)
          PROVE  FlowInv'
      <3>1. \A i \in DOMAIN <<d>> : <<d>>[i].id = k0 /\ <<d>>[i].kind \notin {"bar", "intent"}
        BY <1>3, <2>8
      <3>2. DOMAIN <<d>> \subseteq {1} /\ <<d>> \in Seq(Event)
        BY <1>3
      <3>3. k0 \in Keys => k0 \notin Waiting'
        BY <2>4, <2>8 DEF Waiting
      <3> QED BY <1>3, <1>5, <2>2, <2>3, <2>5, <2>8, <3>1, <3>2, <3>3
    <2> QED BY <2>1, <2>6, <2>7, <2>8
  <1>8. ASSUME UNCHANGED orders
        PROVE  (\A k \in Keys \ {k0} : orders'[k] = orders[k])
               /\ ~(k0 \in Keys /\ k0 \in Waiting')
    BY <1>4, <1>8 DEF Waiting
  <1>9. CASE HandleStatus(c)
    <2>1. Proceeded(c, <<>>, {<<k0, "rejected">>}, <<>>) /\ UNCHANGED <<orders, store>>
      BY <1>1, <1>9, StatusShape
    <2>2. \A i \in DOMAIN <<>> : FALSE
      BY <1>3
    <2> QED BY <1>3, <1>5, <1>8, <2>1, <2>2
  <1>10. CASE HandleFill(c)
    <2>1. UNCHANGED <<orders, store>>
      BY <1>10, FillShape
    <2>2. PICK f \in Fill : f.order = k0
                            /\ (Raised(c) \/ Proceeded(c, <<>>, {<<k0, "filled">>}, <<f>>))
      BY <1>1, <1>10, FillShape
    <2>3. <<f>> \in Seq(Fill) /\ \A i \in DOMAIN <<f>> : <<f>>[i].order = k0
      BY <2>2
    <2>4. \A i \in DOMAIN <<>> : FALSE
      BY <1>3
    <2> QED BY <1>3, <1>5, <1>8, <2>1, <2>2, <2>3, <2>4
  <1>11. CASE ClockRefuses(c)
    <2>1. Raise(c, FALSE) /\ UNCHANGED <<orders, store>>
      BY <1>11 DEF ClockRefuses
    <2>2. FALSE \in BOOLEAN
      OBVIOUS
    <2>3. Raised(c)
      BY <2>1, <2>2, EmitFacts
    <2>4. \A i \in DOMAIN <<>> : FALSE
      BY <1>3
    <2> QED BY <1>3, <1>5, <1>8, <2>1, <2>3, <2>4
  <1> QED BY <1>6, <1>7, <1>9, <1>10, <1>11

\* Submissions, and the way in and out of the engine.
LEMMA CallFlow ==
    ASSUME TypeOK, FlowInv, NEW c \in Threads,
           \/ \E k \in Keys, kind \in Kinds, side \in {-1, 1}, qty \in Lots :
                 ReserveKey(c, k, kind, side, qty)
           \/ PublishRefused(c) \/ Publish(c) \/ Pop(c) \/ RunEnds(c)
    PROVE  FlowInv'
  <1>0. EventInv /\ CallInv /\ \A k \in Keys : PlaceOK(k)
    BY DEF FlowInv
  <1>1. NoEvent.id \notin Keys
    BY IdleType, IdFacts
  <1>2. ASSUME NEW y, Becomes(c, y), y.rows = {} \/ y.rows = call[c].rows, NEW k \in Keys,
               PlaceOK(k), k \notin keys
        PROVE  \A t \in Threads : \A r \in call'[t].rows : r[1] # k
    <2>1. \A t \in Threads : call'[t] = y \/ call'[t] = call[t]
      BY <1>2 DEF Becomes
    <2> QED BY <1>2, <2>1 DEF PlaceOK
  <1>3. ASSUME NEW k0 \in Keys, NEW kind \in Kinds, NEW side \in {-1, 1}, NEW qty \in Lots,
               ReserveKey(c, k0, kind, side, qty)
        PROVE  FlowInv'
    <2>1. /\ call[c].pc = "idle" /\ k0 \notin keys /\ keys' = keys \cup {k0}
          /\ UNCHANGED <<market, memory, saved, book, crashes, ghosts>>
      BY <1>3, ReserveShape
    <2>2. PICK y : /\ Becomes(c, y) /\ Begun(y, "reserved", k0)
                   /\ y.order.kind = kind /\ y.order.status = "pending_risk"
      BY <1>3, ReserveShape
    <2>3. /\ y.pc = "reserved" /\ y.key = k0 /\ y.ev = NoEvent /\ y.rows = {} /\ y.fills = <<>>
          /\ orders' = orders /\ events' = events /\ saved' = saved
      BY <2>1, <2>2 DEF Begun, memory, engine
    <2>4. EventInv' /\ CallInv'
      <3>1. EventsKept
        BY <2>3 DEF EventsKept
      <3>2. CallKept(c, y)
        <4>1. /\ y.pc = "reserved" => y.order.status = "pending_risk"
              /\ y.ev = NoEvent /\ y.rows = {} /\ y.fills = <<>>
          BY <2>2, <2>3
        <4> QED BY ONLY <4>1 DEF CallKept
      <3> QED BY <1>0, <2>2, <3>1, <3>2, BecomesRest
    <2>5. ASSUME NEW k \in Keys PROVE PlaceOK(k)'
      <3>0. PlaceOK(k)
        BY <1>0
      <3>1. \A x : At(k, x)' => Seen(c, y, k, x)
        BY <2>2, <2>3, BecomesAt
      <3>2. \A x : At(k, x)' => At(k, x) \/ (x = <<"reserved", c>> /\ k = k0)
        BY <1>1, <2>3, <3>1 DEF Seen, Done, At
      <3>3. k \notin keys => \A t \in Threads : \A r \in call'[t].rows : r[1] # k
        BY <1>2, <2>2, <2>3, <3>0
      <3>4. CASE k # k0
        BY <2>1, <2>3, <3>0, <3>2, <3>3, <3>4, PlaceKept
      <3>5. CASE k = k0
        <4>1. \A x : ~At(k, x)
          BY <2>1, <3>0, <3>5 DEF PlaceOK
        <4>2. saved[k].done = "none"
          BY <2>1, <3>0, <3>5, IdleType DEF PlaceOK
        <4> QED BY <2>1, <2>3, <3>2, <3>5, <4>1, <4>2 DEF PlaceOK
      <3> QED BY <3>4, <3>5
    <2> QED BY <2>4, <2>5 DEF FlowInv
  <1>4. CASE PublishRefused(c)
    <2>1. /\ call[c].pc = "reserved" /\ call' = [call EXCEPT ![c] = IdleCall]
          /\ UNCHANGED <<engine, orders, store>>
      BY <1>4 DEF PublishRefused
    <2>2. Becomes(c, IdleCall)
      BY <2>1, IdleFacts
    <2>3. orders' = orders /\ events' = events /\ keys' = keys /\ saved' = saved
      BY <2>1 DEF engine, store
    <2>4. EventInv' /\ CallInv'
      <3>1. EventsKept
        BY <2>3 DEF EventsKept
      <3>2. CallKept(c, IdleCall)
        <4>1. /\ IdleCall.pc = "reserved" => IdleCall.order.status = "pending_risk"
              /\ IdleCall.ev = NoEvent /\ IdleCall.rows = {} /\ IdleCall.fills = <<>>
          BY IdleType
        <4> QED BY ONLY <4>1 DEF CallKept
      <3> QED BY <1>0, <2>2, <3>1, <3>2, BecomesRest
    <2>5. ASSUME NEW k \in Keys PROVE PlaceOK(k)'
      <3>0. PlaceOK(k)
        BY <1>0
      <3>1. \A x : At(k, x)' => Seen(c, IdleCall, k, x)
        BY <2>2, <2>3, BecomesAt
      <3>2. \A x : At(k, x)' => At(k, x)
        BY <1>1, <2>3, <3>1, IdleType DEF Seen, Done, At
      <3>3. k \notin keys => \A t \in Threads : \A r \in call'[t].rows : r[1] # k
        BY <1>2, <2>2, IdleType, <3>0
      <3> QED BY <2>3, <3>0, <3>2, <3>3, PlaceKept
    <2> QED BY <2>4, <2>5 DEF FlowInv
  <1>5. CASE Publish(c)
    <2>1. PICK k0 \in Keys : call[c].pc = "reserved" /\ k0 = call[c].key
      BY <1>5, PublishShape
    <2>2. PICK y : Becomes(c, y) /\ Begun(y, "run", k0)
      BY <1>5, <2>1, PublishShape
    <2>3. PICK e \in Event :
             /\ events' = events \cup {e}
             /\ e.kind = "intent" /\ e.id = k0 /\ e.order = call[c].order
      BY <1>5, <2>1, PublishShape
    <2>4. /\ orders' = orders /\ keys' = keys /\ saved' = saved
      BY <1>5, PublishShape DEF store
    <2>5. /\ y.pc = "run" /\ y.key = k0 /\ y.ev = NoEvent /\ y.rows = {} /\ y.fills = <<>>
      BY <2>2 DEF Begun
    <2>6. e.order.status = "pending_risk"
      BY <1>0, <2>1, <2>3 DEF EventInv
    <2>7. EventInv' /\ CallInv'
      <3>1. EventsKept
        BY <2>3, <2>6 DEF EventsKept
      <3>2. CallKept(c, y)
        <4>1. /\ y.pc = "reserved" => y.order.status = "pending_risk"
              /\ y.ev = NoEvent /\ y.rows = {} /\ y.fills = <<>>
          BY <2>5
        <4> QED BY ONLY <4>1 DEF CallKept
      <3> QED BY <1>0, <2>2, <3>1, <3>2, BecomesRest
    <2>8. ASSUME NEW k \in Keys PROVE PlaceOK(k)'
      <3>0. PlaceOK(k)
        BY <1>0
      <3>1. \A x : At(k, x)' => Seen(c, y, k, x)
        BY <2>2, <2>4, BecomesAt
      <3>2. \A x : At(k, x)' => \/ At(k, x) /\ x # <<"reserved", c>>
                                \/ x = <<"queued", e>> /\ k = k0
        BY <1>1, <2>3, <2>5, <3>1 DEF Seen, Done, At
      <3>3. k \notin keys => \A t \in Threads : \A r \in call'[t].rows : r[1] # k
        BY <1>2, <2>2, <2>5, <3>0
      <3>4. CASE k # k0
        BY <2>4, <3>0, <3>2, <3>3, <3>4, PlaceKept
      <3>5. CASE k = k0
        <4>1. At(k, <<"reserved", c>>)
          BY <2>1, <3>5 DEF At
        <4>2. \A x : At(k, x) => x = <<"reserved", c>>
          BY <3>0, <4>1 DEF PlaceOK
        <4>3. \A x : At(k, x)' => x = <<"queued", e>>
          BY <3>2, <4>2
        <4> QED BY <2>4, <3>0, <3>3, <4>1, <4>3, PlaceKept
      <3> QED BY <3>4, <3>5
    <2> QED BY <2>7, <2>8 DEF FlowInv
  <1>6. CASE Pop(c)
    <2>0. PICK e \in events : \E y :
             /\ events' = events \ {e} /\ Becomes(c, y)
             /\ y.pc = call[c].pc /\ y.key = call[c].key /\ y.order = call[c].order
             /\ y.rows = call[c].rows /\ y.fills = call[c].fills
             /\ y.ev.id = e.id /\ y.ev.kind = e.kind /\ y.ev.order = e.order
      BY <1>6, PopShape
    <2>1. PICK y :
             /\ events' = events \ {e} /\ Becomes(c, y)
             /\ y.pc = call[c].pc /\ y.key = call[c].key /\ y.order = call[c].order
             /\ y.rows = call[c].rows /\ y.fills = call[c].fills
             /\ y.ev.id = e.id /\ y.ev.kind = e.kind /\ y.ev.order = e.order
      BY <2>0
    <2>2. /\ call[c].pc = "run" /\ call[c].ev = NoEvent
          /\ orders' = orders /\ keys' = keys /\ saved' = saved
      BY <1>6, PopShape DEF store
    <2>3. EventInv' /\ CallInv'
      <3>1. Alike(y.ev, e)
        BY <2>1 DEF Alike
      <3>2. EventsKept
        BY <2>1 DEF EventsKept
      <3>3. CallKept(c, y)
        BY <2>1, <2>2, <3>1, <1>0 DEF CallKept, CallInv
      <3> QED BY <1>0, <2>1, <3>2, <3>3, BecomesRest
    <2>4. ASSUME NEW k \in Keys PROVE PlaceOK(k)'
      <3>0. PlaceOK(k)
        BY <1>0
      <3>1. \A x : At(k, x)' => Seen(c, y, k, x)
        BY <2>1, <2>2, BecomesAt
      <3>2. \A x : At(k, x)' => \/ At(k, x) /\ x # <<"queued", e>>
                                \/ x = <<"held", c>> /\ k = e.id
        <4>1. ASSUME NEW d \in events', d.id = k
              PROVE  At(k, <<"queued", d>>) /\ <<"queued", d>> # <<"queued", e>>
          BY <2>1, <4>1 DEF At
        <4>2. Done(k, y.rows) => At(k, <<"done", c>>)
          BY <2>1 DEF At
        <4> QED BY <2>1, <2>2, <3>1, <4>1, <4>2 DEF Seen
      <3>3. k \notin keys => \A t \in Threads : \A r \in call'[t].rows : r[1] # k
        BY <1>2, <2>1, <3>0
      <3>4. CASE k # e.id
        BY <2>2, <3>0, <3>2, <3>3, <3>4, PlaceKept
      <3>5. CASE k = e.id
        <4>1. At(k, <<"queued", e>>)
          BY <3>5 DEF At
        <4>2. \A x : At(k, x) => x = <<"queued", e>>
          BY <3>0, <4>1 DEF PlaceOK
        <4>3. \A x : At(k, x)' => x = <<"held", c>>
          BY <3>2, <4>2
        <4> QED BY <2>2, <3>0, <3>3, <4>1, <4>3, PlaceKept
      <3> QED BY <3>4, <3>5
    <2> QED BY <2>3, <2>4 DEF FlowInv
  <1>7. CASE RunEnds(c)
    <2>1. PICK y : /\ Becomes(c, y) /\ y.pc = "append" /\ y.ev = call[c].ev
                   /\ y.rows = call[c].rows /\ y.fills = call[c].fills
                   /\ y.key = call[c].key
      BY <1>7, EndShape
    <2>2. /\ call[c].ev = NoEvent
          /\ events' = events /\ orders' = orders /\ keys' = keys /\ saved' = saved
      BY <1>7, EndShape DEF memory, engine, store
    <2>3. EventInv' /\ CallInv'
      <3>1. EventsKept
        BY <2>2 DEF EventsKept
      <3>2. CallKept(c, y)
        BY <2>1, <2>2 DEF CallKept
      <3> QED BY <1>0, <2>1, <3>1, <3>2, BecomesRest
    <2>4. ASSUME NEW k \in Keys PROVE PlaceOK(k)'
      <3>0. PlaceOK(k)
        BY <1>0
      <3>1. \A x : At(k, x)' => Seen(c, y, k, x)
        BY <2>1, <2>2, BecomesAt
      <3>2. \A x : At(k, x)' => At(k, x)
        BY <1>1, <2>1, <2>2, <3>1 DEF Seen, At
      <3>3. k \notin keys => \A t \in Threads : \A r \in call'[t].rows : r[1] # k
        BY <1>2, <2>1, <3>0
      <3> QED BY <2>2, <3>0, <3>2, <3>3, PlaceKept
    <2> QED BY <2>3, <2>4 DEF FlowInv
  <1> QED BY <1>3, <1>4, <1>5, <1>6, <1>7

\* A closed bar goes into the engine: no order moves.
LEMMA OnBarFlow ==
    ASSUME TypeOK, FlowInv, OnBar
    PROVE  FlowInv'
  <1>0. "loop" \in Threads /\ EventInv /\ CallInv /\ \A k \in Keys : PlaceOK(k)
    BY DEF FlowInv, Threads
  <1>1. NoEvent.id \notin Keys
    BY IdleType, IdFacts
  <1>2. PICK y : Becomes("loop", y) /\ Begun(y, "run", "bar")
    BY OnBarShape
  <1>3. PICK e \in Event : events' = events \cup {e} /\ e.kind = "bar" /\ e.id \in Contracts
    BY OnBarShape
  <1>4. orders' = orders /\ keys' = keys /\ saved' = saved
    BY OnBarShape DEF store
  <1>5. /\ y.pc = "run" /\ y.key = "bar" /\ y.ev = NoEvent /\ y.rows = {} /\ y.fills = <<>>
    BY <1>2 DEF Begun
  <1>6. e.id \notin Keys
    BY <1>3, IdFacts
  <1>7. EventInv' /\ CallInv'
    <2>1. EventsKept
      BY <1>3, <1>6 DEF EventsKept
    <2>2. CallKept("loop", y)
      BY <1>5 DEF CallKept
    <2> QED BY <1>0, <1>2, <2>1, <2>2, BecomesRest
  <1>8. ASSUME NEW k \in Keys PROVE PlaceOK(k)'
    <2>0. PlaceOK(k)
      BY <1>0
    <2>1. \A x : At(k, x)' => Seen("loop", y, k, x)
      BY <1>0, <1>2, <1>4, BecomesAt
    <2>2. \A x : At(k, x)' => At(k, x)
      BY <1>1, <1>3, <1>5, <1>6, <2>1 DEF Seen, Done, At
    <2>3. k \notin keys => \A t \in Threads : \A r \in call'[t].rows : r[1] # k
      <3>1. \A t \in Threads : call'[t] = y \/ call'[t] = call[t]
        BY <1>2 DEF Becomes
      <3> QED BY <1>5, <2>0, <3>1 DEF PlaceOK
    <2> QED BY <1>4, <2>0, <2>2, <2>3, PlaceKept
  <1> QED BY <1>7, <1>8 DEF FlowInv

\* A commit: the ends it stores are those of orders that were nowhere else.
LEMMA AppendFlow ==
    ASSUME TypeOK, FlowInv, NEW c \in Threads, AppendEvents(c)
    PROVE  FlowInv'
  <1>0. EventInv /\ CallInv /\ \A k \in Keys : PlaceOK(k)
    BY DEF FlowInv
  <1>1. NoEvent.id \notin Keys
    BY IdleType, IdFacts
  <1>2. Becomes(c, IdleCall)
    BY AppendShape
  <1>3. events' = events /\ orders' = orders /\ keys' = keys
    BY AppendShape DEF memory, engine
  <1>4. EventInv' /\ CallInv'
    <2>1. EventsKept
      BY <1>3 DEF EventsKept
    <2>2. CallKept(c, IdleCall)
      BY IdleType DEF CallKept
    <2> QED BY <1>0, <1>2, <2>1, <2>2, BecomesRest
  <1>5. ASSUME NEW k \in Keys PROVE PlaceOK(k)'
    <2>0. PlaceOK(k)
      BY <1>0
    <2>1. \A x : At(k, x)' => Seen(c, IdleCall, k, x)
      BY <1>2, <1>3, BecomesAt
    <2>2. \A x : At(k, x)' => At(k, x) /\ x # <<"done", c>>
      BY <1>1, <1>3, <2>1, IdleType DEF Seen, Done, At
    <2>3. k \in Ids
      BY IdFacts
    <2>4. ASSUME NEW x, At(k, x)' PROVE k \in keys /\ saved'[k].done = "none"
      <3>1. At(k, x) /\ x # <<"done", c>>
        BY <2>2, <2>4
      <3>2. k \in keys /\ saved[k].done = "none"
        BY <2>0, <3>1 DEF PlaceOK
      <3>3. ~Done(k, call[c].rows)
        <4>1. Done(k, call[c].rows) => At(k, <<"done", c>>)
          BY DEF At
        <4> QED BY <2>0, <3>1, <4>1 DEF PlaceOK
      <3>4. saved'[k] = AddRows(saved[k], k, call[c].rows)
        BY <2>3, AppendShape
      <3>5. saved'[k].done = saved[k].done
        BY <3>3, <3>4 DEF AddRows, Row, Done
      <3> QED BY <3>2, <3>5
    <2>5. ASSUME k \notin keys
          PROVE  /\ saved'[k] = Unsaved
                 /\ \A t \in Threads : \A r \in call'[t].rows : r[1] # k
      <3>1. saved[k] = Unsaved /\ \A t \in Threads : \A r \in call[t].rows : r[1] # k
        BY <2>0, <2>5 DEF PlaceOK
      <3>2. saved'[k] = saved[k]
        BY <2>3, <3>1, AppendShape
      <3>3. \A t \in Threads : call'[t] = IdleCall \/ call'[t] = call[t]
        BY <1>2 DEF Becomes
      <3> QED BY <3>1, <3>2, <3>3, IdleType
    <2>6. \A x, y : At(k, x)' /\ At(k, y)' => x = y
      BY <2>0, <2>2 DEF PlaceOK
    <2> QED BY <1>3, <2>4, <2>5, <2>6 DEF PlaceOK, Unsaved, Row, NoOrder
  <1> QED BY <1>4, <1>5 DEF FlowInv

\* A restart: the orders it restores have no committed end.
LEMMA RestartFlow ==
    ASSUME TypeOK, FlowInv, Restart
    PROVE  FlowInv'
  <1>1. /\ \A t \in Threads : call'[t] = IdleCall
        /\ events' = {} /\ Waiting' = Pending \cap Keys /\ keys' = keys /\ saved' = saved
    BY RestartShape DEF store
  <1>2. NoEvent.kind = "none" /\ NoEvent.id \notin Keys
    BY IdleType, IdFacts
  <1>3. EventInv' /\ CallInv'
    <2>1. \A e \in Moving' : e = NoEvent
      BY <1>1, IdleType DEF Moving
    <2>2. \A t \in Threads : /\ call'[t].pc = "idle" /\ call'[t].rows = {}
                             /\ call'[t].fills = <<>> /\ call'[t].ev = NoEvent
      BY <1>1, IdleType
    <2>3. DOMAIN <<>> = {}
      OBVIOUS
    <2>4. EventInv'
      BY <1>2, <2>1, <2>2 DEF EventInv
    <2>5. CallInv'
      BY <2>2, <2>3 DEF CallInv, NoEvent, NoOrder
    <2> QED BY <2>4, <2>5
  <1>4. ASSUME NEW k \in Keys PROVE PlaceOK(k)'
    <2>0. PlaceOK(k)
      BY DEF FlowInv
    <2>1. \A x : At(k, x)' => x = <<"waits", k>> /\ k \in Pending
      BY <1>1, <1>2, IdleType DEF At, Done
    <2>2. k \in Pending => saved[k].intent /\ saved[k].done = "none"
      BY DEF Pending
    <2>3. k \notin keys => saved[k] = Unsaved
      BY <2>0 DEF PlaceOK
    <2>4. k \in Pending => k \in keys
      BY <2>2, <2>3, IdleType
    <2>5. \A t \in Threads : \A r \in call'[t].rows : r[1] # k
      BY <1>1, IdleType
    <2> QED BY <1>1, <2>1, <2>2, <2>3, <2>4, <2>5 DEF PlaceOK, Unsaved, Row, NoOrder
  <1> QED BY <1>3, <1>4 DEF FlowInv

LEMMA FlowStep ==
    ASSUME TypeOK, FlowInv, [Next]_vars
    PROVE  FlowInv'
  <1>1. ASSUME NEW c \in Threads, Submit(c) \/ Pop(c) \/ RunEnds(c)
        PROVE  FlowInv'
    <2>1. ASSUME NEW k \in Keys, NEW kind \in Kinds, NEW side \in {-1, 1},
                 NEW qty \in Lots, ReserveKey(c, k, kind, side, qty)
          PROVE  FlowInv'
      BY <2>1, CallFlow
    <2>2. CASE PublishRefused(c) \/ Publish(c) \/ Pop(c) \/ RunEnds(c)
      BY <2>2, CallFlow
    <2> QED BY <1>1, <2>1, <2>2 DEF Submit
  <1>2. ASSUME NEW c \in Threads, Handle(c) PROVE FlowInv'
    BY <1>2, HandleFlow, BarFlow DEF Handle
  <1>3. ASSUME NEW c \in Threads, AppendEvents(c) PROVE FlowInv'
    BY <1>3, AppendFlow
  <1>4. CASE LastTick \/ DropBar
    <2>1. UNCHANGED <<call, events, orders, keys, saved>>
      BY <1>4 DEF LastTick, DropBar, memory, engine, store
    <2> QED BY <2>1, PlaceSame
  <1>5. CASE OnBar
    BY <1>5, OnBarFlow
  <1>6. CASE ActivateKill \/ ResetKill
    <2>1. UNCHANGED <<call, events, orders, keys, saved>>
      BY <1>6 DEF ActivateKill, ResetKill, engine
    <2> QED BY <2>1, PlaceSame
  <1>7. CASE Restart
    BY <1>7, RestartFlow
  <1>8. CASE UNCHANGED vars
    <2>1. UNCHANGED <<call, events, orders, keys, saved>>
      BY <1>8 DEF vars, memory, engine, store
    <2> QED BY <2>1, PlaceSame
  <1> QED BY <1>1, <1>2, <1>3, <1>4, <1>5, <1>6, <1>7, <1>8 DEF Next, Run

LEMMA FlowInit == Init => FlowInv
  <1> SUFFICES ASSUME Init PROVE FlowInv
    OBVIOUS
  <1>1. /\ \A t \in Threads : call[t] = IdleCall
        /\ events = {} /\ keys = {}
        /\ \A k \in Ids : orders[k] = NoOrder /\ saved[k] = Unsaved
    BY DEF Init
  <1>2. DOMAIN <<>> = {} /\ NoEvent.kind = "none" /\ NoEvent.id \notin Keys
    BY IdleType, IdFacts
  <1>3. EventInv
    BY <1>1, <1>2, IdleType DEF EventInv, Moving
  <1>4. CallInv
    BY <1>1, <1>2, IdleType DEF CallInv
  <1>5. ASSUME NEW k \in Keys PROVE PlaceOK(k)
    <2>1. k \in Ids /\ k \notin Waiting
      BY <1>1, IdFacts, IdleType DEF Waiting
    <2>2. \A x : ~At(k, x)
      BY <1>1, <1>2, <2>1, IdleType DEF At, Done
    <2> QED BY <1>1, <2>1, <2>2, IdleType DEF PlaceOK
  <1> QED BY <1>3, <1>4, <1>5 DEF FlowInv

\* However runs overlap, take each other's events, raise or crash, the end of
\* an order is committed once.
THEOREM FillCommittedOnce == Spec => FillRecordedOnce
  <1>1. ASSUME FlowInv, NEW c \in Threads, NEW i \in DOMAIN call[c].fills,
               call[c].fills[i].order \in Keys
        PROVE  saved[call[c].fills[i].order].done = "none"
    <2>1. <<call[c].fills[i].order, "filled">> \in call[c].rows
      BY <1>1 DEF FlowInv, CallInv
    <2>2. At(call[c].fills[i].order, <<"done", c>>)
      BY <2>1 DEF At, Done
    <2> QED BY <1>1, <2>2 DEF FlowInv, PlaceOK
  <1>2. FlowInv =>
          [\A c \in Threads : \A i \in DOMAIN call[c].fills :
             /\ call[c].pc = "append" /\ call'[c].pc = "idle" /\ crashes' = crashes
             /\ call[c].fills[i].order \in Keys
             => saved[call[c].fills[i].order].done = "none"]_vars
    BY <1>1
  <1> QED BY <1>2, FlowInit, FlowStep, PaperTypes, PTL DEF Spec, FillRecordedOnce

\* While the kill switch is on no waiting entry is filled.
LEMMA WaitingStep ==
    ASSUME TypeOK, FlowInv, Next, risk.kill # "off", NEW k \in Waiting
    PROVE  IsReduce(orders[k].kind) \/ orders'[k].status # "filled"
  <1>0. k \in Keys /\ k \in Ids /\ orders[k].status = "approved"
    BY IdFacts DEF Waiting
  <1>1. CASE orders'[k] = orders[k]
    BY <1>0, <1>1
  <1>2. ASSUME NEW c \in Threads PROVE call[c].ev.id # k
    <2>1. At(k, <<"waits", k>>)
      BY <1>0 DEF At
    <2>2. call[c].ev.id = k => At(k, <<"held", c>>)
      BY DEF At
    <2>3. <<"waits", k>> # <<"held", c>>
      OBVIOUS
    <2> QED BY <1>0, <2>1, <2>2, <2>3 DEF FlowInv, PlaceOK
  <1>3. ASSUME NEW c \in Threads, Submit(c) \/ Pop(c) \/ RunEnds(c) \/ AppendEvents(c)
        PROVE  orders' = orders
    BY <1>3 DEF Submit, ReserveKey, PublishRefused, Publish, Pop, RunEnds, AppendEvents,
                memory
  <1>4. ASSUME NEW c \in Threads, HandleIntent(c) PROVE orders'[k] = orders[k]
    <2>1. PICK e : e = call[c].ev
      OBVIOUS
    <2>2. orders' = [orders EXCEPT ![e.id] = e.order]
      BY <1>4, <2>1, IntentShape
    <2>3. e.id # k
      BY <1>2, <2>1
    <2> QED BY <1>0, <2>2, <2>3 DEF TypeOK
  <1>5. ASSUME NEW c \in Threads, HandleDecision(c) PROVE orders'[k] = orders[k]
    <2>1. PICK i : i = call[c].ev.id
      OBVIOUS
    <2>2. \E o \in Order : orders' = [orders EXCEPT ![i] = o]
      BY <1>5, <2>1, DecisionShape
    <2>3. i # k
      BY <1>2, <2>1
    <2> QED BY <1>0, <2>2, <2>3 DEF TypeOK
  <1>6. ASSUME NEW c \in Threads, HandleStatus(c) \/ HandleFill(c) \/ ClockRefuses(c)
        PROVE  orders' = orders
    BY <1>6 DEF HandleStatus, HandleFill, ClockRefuses
  <1>7. ASSUME NEW c \in Threads, HandleBar(c)
        PROVE  IsReduce(orders[k].kind) \/ orders'[k].status # "filled"
    BY <1>7, BarShape
  <1>8. CASE LastTick \/ DropBar \/ OnBar \/ ActivateKill \/ ResetKill
    BY <1>1, <1>8 DEF LastTick, DropBar, OnBar, ActivateKill, ResetKill, memory
  <1>9. CASE Restart
    BY <1>0, <1>9, RestartShape, IdleType
  <1> QED BY <1>1, <1>3, <1>4, <1>5, <1>6, <1>7, <1>8, <1>9 DEF Next, Run, Handle

\* The kill switch holds for the entries that wait for their bar, whichever
\* thread fills it.
THEOREM NoWaitingEntryUnderKill == Spec => KillStopsWaitingEntries
  <1>1. TypeOK /\ FlowInv /\ [Next]_vars =>
          [risk.kill # "off" =>
             \A k \in Waiting : IsReduce(orders[k].kind)
                                \/ orders'[k].status # "filled"]_vars
    BY WaitingStep
  <1> QED BY <1>1, FlowInit, FlowStep, PaperTypes, PTL DEF Spec, KillStopsWaitingEntries

------------------------------------------------------------------------------
(* Paper account: the positions in memory and in the store *)

\* p is b moved by M[t] for each t of A: f adds up the moves of every part of A.
Balanced(A, M, b, p) ==
    \E f \in [SUBSET A -> Int] :
       /\ f[{}] = 0
       /\ \A B \in SUBSET A : \A t \in A \ B : f[B \cup {t}] = f[B] + M[t]
       /\ p = b + f[A]

\* Nobody moves anything.
LEMMA BalancedNone ==
    ASSUME NEW M, NEW b \in Int, NEW p
    PROVE  Balanced({}, M, b, p) <=> p = b
  <1>1. ASSUME Balanced({}, M, b, p) PROVE p = b
    BY <1>1 DEF Balanced
  <1>2. ASSUME p = b PROVE Balanced({}, M, b, p)
    <2> DEFINE f == [B \in SUBSET {} |-> 0]
    <2>1. f \in [SUBSET {} -> Int] /\ f[{}] = 0
      OBVIOUS
    <2>2. p = b + f[{}]
      BY <1>2, <2>1
    <2>3. \A B \in SUBSET {} : \A t \in {} \ B : f[B \cup {t}] = f[B] + M[t]
      OBVIOUS
    <2> HIDE DEF f
    <2> QED BY <2>1, <2>2, <2>3 DEF Balanced
  <1> QED BY <1>1, <1>2

\* One more moves it.
LEMMA BalancedMore ==
    ASSUME NEW A, NEW t, t \notin A, NEW M, NEW N, NEW m \in Int,
           \A u \in A : M[u] \in Int /\ N[u] = M[u], N[t] = m,
           NEW b \in Int, NEW p \in Int, Balanced(A, M, b, p)
    PROVE  Balanced(A \cup {t}, N, b, p + m)
  <1>1. PICK f \in [SUBSET A -> Int] :
           /\ f[{}] = 0
           /\ \A B \in SUBSET A : \A u \in A \ B : f[B \cup {u}] = f[B] + M[u]
           /\ p = b + f[A]
    BY DEF Balanced
  <1> DEFINE g == [B \in SUBSET (A \cup {t}) |->
                      f[B \ {t}] + (IF t \in B THEN m ELSE 0)]
  <1>2. \A B \in SUBSET (A \cup {t}) : B \ {t} \in SUBSET A /\ f[B \ {t}] \in Int
    BY <1>1
  <1>3. g \in [SUBSET (A \cup {t}) -> Int]
    BY <1>2
  <1>4. \A B \in SUBSET (A \cup {t}) : g[B] = f[B \ {t}] + (IF t \in B THEN m ELSE 0)
    OBVIOUS
  <1> HIDE DEF g
  <1>5. g[{}] = 0
    <2>1. {} \in SUBSET (A \cup {t}) /\ {} \ {t} = {} /\ t \notin {}
      OBVIOUS
    <2>2. g[{}] = f[{} \ {t}] + 0
      BY <1>4, <2>1
    <2> QED BY <1>1, <2>1, <2>2
  <1>6. ASSUME NEW B \in SUBSET (A \cup {t}), NEW u \in (A \cup {t}) \ B
        PROVE  g[B \cup {u}] = g[B] + N[u]
    <2>1. PICK C \in SUBSET A : C = B \ {t}
      BY <1>2
    <2>2. f[C] \in Int
      BY <1>1
    <2>3. B \cup {u} \in SUBSET (A \cup {t})
      OBVIOUS
    <2>4. g[B] = f[C] + (IF t \in B THEN m ELSE 0)
      BY <1>4, <2>1
    <2>5. CASE u = t
      <3>1. (B \cup {u}) \ {t} = C /\ t \in B \cup {u} /\ t \notin B
        BY <2>1, <2>5
      <3>2. g[B \cup {u}] = f[C] + m
        BY <1>4, <2>3, <3>1
      <3> QED BY <2>2, <2>4, <2>5, <3>1, <3>2
    <2>6. CASE u # t
      <3>1. (B \cup {u}) \ {t} = C \cup {u} /\ u \in A \ C
            /\ (t \in B \cup {u} <=> t \in B)
        BY <2>1, <2>6
      <3>2. g[B \cup {u}] = f[C \cup {u}] + (IF t \in B THEN m ELSE 0)
        BY <1>4, <2>3, <3>1
      <3>3. f[C \cup {u}] = f[C] + M[u] /\ N[u] = M[u]
        BY <1>1, <3>1
      <3>4. C \cup {u} \in SUBSET A /\ f[C \cup {u}] \in Int
        BY <1>1, <3>1
      <3>5. PICK w \in Int : w = IF t \in B THEN m ELSE 0
        OBVIOUS
      <3>6. g[B \cup {u}] = f[C \cup {u}] + w /\ g[B] = f[C] + w
        BY <2>4, <3>2, <3>5
      <3>7. M[u] \in Int
        BY <3>1
      <3> QED BY <2>2, <3>3, <3>5, <3>6, <3>7
    <2> QED BY <2>5, <2>6
  <1>7. p + m = b + g[A \cup {t}]
    <2>1. A \cup {t} \in SUBSET (A \cup {t}) /\ (A \cup {t}) \ {t} = A /\ t \in A \cup {t}
      OBVIOUS
    <2>2. g[A \cup {t}] = f[A] + m /\ f[A] \in Int
      BY <1>1, <1>4, <2>1
    <2> QED BY <1>1, <2>2
  <1> QED BY <1>3, <1>5, <1>6, <1>7 DEF Balanced

\* One of them is done.
LEMMA BalancedLess ==
    ASSUME NEW A, NEW t \in A, NEW M, NEW N, \A u \in A : M[u] \in Int,
           \A u \in A \ {t} : N[u] = M[u],
           NEW b \in Int, NEW p \in Int, Balanced(A, M, b, p)
    PROVE  Balanced(A \ {t}, N, b + M[t], p)
  <1>1. PICK f \in [SUBSET A -> Int] :
           /\ f[{}] = 0
           /\ \A B \in SUBSET A : \A u \in A \ B : f[B \cup {u}] = f[B] + M[u]
           /\ p = b + f[A]
    BY DEF Balanced
  <1> DEFINE g == [B \in SUBSET (A \ {t}) |-> f[B]]
  <1>2. g \in [SUBSET (A \ {t}) -> Int]
    BY <1>1
  <1>3. \A B \in SUBSET (A \ {t}) : g[B] = f[B] /\ f[B] \in Int /\ B \in SUBSET A
    BY <1>1
  <1> HIDE DEF g
  <1>4. g[{}] = 0
    BY <1>1, <1>3
  <1>5. ASSUME NEW B \in SUBSET (A \ {t}), NEW u \in (A \ {t}) \ B
        PROVE  g[B \cup {u}] = g[B] + N[u]
    <2>1. B \cup {u} \in SUBSET (A \ {t}) /\ B \in SUBSET A /\ u \in A \ B
      OBVIOUS
    <2>2. f[B \cup {u}] = f[B] + M[u]
      BY <1>1, <2>1
    <2> QED BY <1>3, <2>1, <2>2
  <1>6. p = (b + M[t]) + g[A \ {t}]
    <2>1. A \ {t} \in SUBSET A /\ t \in A \ (A \ {t}) /\ (A \ {t}) \cup {t} = A
          /\ A \ {t} \in SUBSET (A \ {t})
      OBVIOUS
    <2>2. f[(A \ {t}) \cup {t}] = f[A \ {t}] + M[t]
      BY <1>1, <2>1
    <2>3. f[A] = f[A \ {t}] + M[t]
      BY <2>1, <2>2
    <2>4. f[A \ {t}] \in Int /\ M[t] \in Int /\ g[A \ {t}] = f[A \ {t}]
      BY <1>3, <2>1
    <2> QED BY <1>1, <2>3, <2>4
  <1> QED BY <1>2, <1>4, <1>5, <1>6 DEF Balanced

\* One of them moves it further.
LEMMA BalancedChange ==
    ASSUME NEW A, NEW t \in A, NEW M, NEW N, NEW d \in Int,
           \A u \in A : M[u] \in Int, N[t] = M[t] + d,
           \A u \in A \ {t} : N[u] = M[u],
           NEW b \in Int, NEW p \in Int, Balanced(A, M, b, p)
    PROVE  Balanced(A, N, b, p + d)
  <1>1. Balanced(A \ {t}, M, b + M[t], p)
    BY BalancedLess
  <1>2. PICK m \in Int, n \in Int : m = M[t] /\ n = N[t] /\ n = m + d
    OBVIOUS
  <1>3. Balanced((A \ {t}) \cup {t}, N, b + m, p + n)
    <2>1. /\ t \notin A \ {t} /\ b + m \in Int
          /\ \A u \in A \ {t} : M[u] \in Int /\ N[u] = M[u]
      BY <1>2
    <2> QED BY <1>1, <1>2, <2>1, BalancedMore
  <1>4. (A \ {t}) \cup {t} = A
    OBVIOUS
  <1>5. ASSUME NEW f \in [SUBSET A -> Int], p + n = (b + m) + f[A]
        PROVE  p + d = b + f[A]
    BY <1>2, <1>5
  <1>6. Balanced(A, N, b + m, p + n)
    BY <1>3, <1>4
  <1> QED BY <1>5, <1>6 DEF Balanced

\* Threads in the engine or about to commit, and the lots of a contract each of
\* them moved.
Runners == {t \in Threads : call[t].pc \in {"run", "append"}}
Moves(x) == [t \in Runners |-> Net(call[t].fills)[x]]

\* The positions in memory are those a restart would rebuild, moved by the
\* fills that the runs have not committed yet, unless a run raised.
PosInv == ~raised => \A x \in Contracts : Balanced(Runners, Moves(x), book.pos[x], pos[x])

\* The numbers are numbers.
LEMMA PosTypes ==
    ASSUME TypeOK
    PROVE  /\ \A x \in Contracts : pos[x] \in Int /\ book.pos[x] \in Int
           /\ \A t \in Threads : /\ call[t].fills \in Seq(Fill)
                                 /\ Net(call[t].fills) \in [Contracts -> Int]
  <1>1. \A t \in Threads : call[t].fills \in Seq(Fill)
    BY CallFacts
  <1>2. \A F \in Seq(Fill) : Net(F) \in [Contracts -> Int]
    BY NetMoves, ZeroType
  <1> QED BY <1>1, <1>2 DEF TypeOK, Account

\* Nothing is executed or committed.
LEMMA PosSame ==
    ASSUME PosInv, Runners' = Runners, \A t \in Runners : call'[t].fills = call[t].fills,
           pos' = pos, book'.pos = book.pos, raised' = raised
    PROVE  PosInv'
  <1>1. \A x \in Contracts : Moves(x)' = Moves(x)
    BY DEF Moves
  <1> QED BY <1>1 DEF PosInv

\* A thread goes into the engine.
LEMMA PosEnter ==
    ASSUME TypeOK, PosInv, NEW t \in Threads, call[t].pc \in {"idle", "reserved"},
           call'[t].pc = "run", call'[t].fills = <<>>,
           \A d \in Threads \ {t} : call'[d] = call[d],
           UNCHANGED <<pos, book, raised>>
    PROVE  PosInv'
  <1> SUFFICES ASSUME ~raised, NEW x \in Contracts
               PROVE  Balanced(Runners', Moves(x)', book.pos[x], pos[x])
    BY DEF PosInv
  <1>1. PICK M, N : M = Moves(x) /\ N = Moves(x)'
    OBVIOUS
  <1>2. t \notin Runners /\ Runners' = Runners \cup {t}
    BY DEF Runners
  <1>3. \A u \in Runners : M[u] \in Int /\ N[u] = M[u]
    <2>1. \A u \in Runners : u \in Threads \ {t} /\ u \in Runners'
      BY <1>2 DEF Runners
    <2> QED BY <1>1, <2>1, PosTypes DEF Moves
  <1>4. N[t] = 0
    BY <1>1, <1>2, NetShort DEF Moves
  <1>5. PICK b \in Int, p \in Int : b = book.pos[x] /\ p = pos[x] /\ p = p + 0
    BY PosTypes
  <1>6. Balanced(Runners, M, b, p)
    BY <1>1, <1>5 DEF PosInv
  <1>7. 0 \in Int
    OBVIOUS
  <1>8. Balanced(Runners \cup {t}, N, b, p + 0)
    BY <1>2, <1>3, <1>4, <1>5, <1>6, <1>7, BalancedMore
  <1> QED BY <1>1, <1>2, <1>5, <1>8

\* A thread in the engine applies fills.
LEMMA PosFill ==
    ASSUME TypeOK, PosInv, NEW t \in Threads, call[t].pc = "run", call'[t].pc = "run",
           NEW F \in Seq(Fill), call'[t].fills = call[t].fills \o F,
           \A d \in Threads \ {t} : call'[d] = call[d],
           \A x \in Contracts : pos'[x] = pos[x] + Net(F)[x],
           UNCHANGED <<book, raised>>
    PROVE  PosInv'
  <1> SUFFICES ASSUME ~raised, NEW x \in Contracts
               PROVE  Balanced(Runners', Moves(x)', book.pos[x], pos'[x])
    BY DEF PosInv
  <1>1. PICK M, N : M = Moves(x) /\ N = Moves(x)'
    OBVIOUS
  <1>2. PICK d \in Int : d = Net(F)[x]
    BY NetMoves, ZeroType
  <1>3. t \in Runners /\ Runners' = Runners
    BY DEF Runners
  <1>4. \A u \in Runners : M[u] = Net(call[u].fills)[x] /\ M[u] \in Int
    BY <1>1, PosTypes DEF Moves, Runners
  <1>5. \A u \in Runners \ {t} : N[u] = M[u]
    <2>1. \A u \in Runners \ {t} : u \in Threads \ {t} /\ u \in Runners'
      BY <1>3 DEF Runners
    <2> QED BY <1>1, <2>1 DEF Moves
  <1>6. N[t] = M[t] + d
    <2>1. PICK G \in Seq(Fill) : G = call[t].fills
      BY CallFacts
    <2>2. Net(G \o F)[x] = Net(G)[x] + Net(F)[x]
      BY NetConcat
    <2>3. N[t] = Net(G \o F)[x]
      BY <1>1, <1>3, <2>1 DEF Moves
    <2> QED BY <1>2, <1>3, <1>4, <2>1, <2>2, <2>3
  <1>7. PICK b \in Int, p \in Int : b = book.pos[x] /\ p = pos[x]
    BY PosTypes
  <1>8. Balanced(Runners, M, b, p)
    BY <1>1, <1>7 DEF PosInv
  <1>9. Balanced(Runners, N, b, p + d)
    BY <1>3, <1>4, <1>5, <1>6, <1>8, BalancedChange
  <1> QED BY <1>1, <1>2, <1>3, <1>7, <1>9

\* A run is committed.
LEMMA PosCommit ==
    ASSUME TypeOK, PosInv, NEW t \in Threads, call[t].pc = "append",
           call'[t].pc = "idle", \A d \in Threads \ {t} : call'[d] = call[d],
           book' = ApplyFills(book, call[t].fills), UNCHANGED <<pos, raised>>
    PROVE  PosInv'
  <1> SUFFICES ASSUME ~raised, NEW x \in Contracts
               PROVE  Balanced(Runners', Moves(x)', book'.pos[x], pos[x])
    BY DEF PosInv
  <1>1. PICK M, N : M = Moves(x) /\ N = Moves(x)'
    OBVIOUS
  <1>2. t \in Runners /\ Runners' = Runners \ {t}
    BY DEF Runners
  <1>3. \A u \in Runners : M[u] \in Int /\ M[u] = Net(call[u].fills)[x]
    BY <1>1, PosTypes DEF Moves, Runners
  <1>4. \A u \in Runners \ {t} : N[u] = M[u]
    <2>1. \A u \in Runners \ {t} : u \in Threads \ {t} /\ u \in Runners'
      BY <1>2 DEF Runners
    <2> QED BY <1>1, <2>1 DEF Moves
  <1>5. book'.pos[x] = book.pos[x] + M[t]
    <2>1. book \in Account /\ call[t].fills \in Seq(Fill)
      BY PosTypes DEF TypeOK
    <2>2. book'.pos = Plus(book.pos, Net(call[t].fills))
      BY <2>1, NetMoves
    <2> QED BY <1>2, <1>3, <2>2 DEF Plus
  <1>6. PICK b \in Int, p \in Int : b = book.pos[x] /\ p = pos[x]
    BY PosTypes
  <1>7. Balanced(Runners, M, b, p)
    BY <1>1, <1>6 DEF PosInv
  <1>8. Balanced(Runners \ {t}, N, b + M[t], p)
    BY <1>2, <1>3, <1>4, <1>7, BalancedLess
  <1> QED BY <1>1, <1>2, <1>5, <1>6, <1>8

\* A thread that raised leaves nothing to balance; one that went on applied
\* the fills its handler applied.
LEMMA PosHandle ==
    ASSUME TypeOK, PosInv, NEW c \in Threads, call[c].pc = "run",
           NEW evs \in Seq(Event), NEW rows \in SUBSET Rows, NEW F \in Seq(Fill),
           Raised(c) \/ (/\ Proceeded(c, evs, rows, F)
                         /\ \A x \in Contracts : pos'[x] = pos[x] + Net(F)[x]),
           book' = book
    PROVE  PosInv'
  <1>1. CASE Raised(c)
    BY <1>1 DEF Raised, PosInv
  <1>2. CASE /\ Proceeded(c, evs, rows, F)
             /\ \A x \in Contracts : pos'[x] = pos[x] + Net(F)[x]
    <2>1. /\ call'[c].pc = "run" /\ call'[c].fills = call[c].fills \o F
          /\ \A d \in Threads \ {c} : call'[d] = call[d]
      <3>1. Proceeded(c, evs, rows, F)
        BY <1>2
      <3>2. /\ call'[c].pc = call[c].pc /\ call'[c].fills = call[c].fills \o F
            /\ \A d \in Threads \ {c} : call'[d] = call[d]
        <4>1. CallOK(call[c]) /\ DOMAIN call = Threads
          BY DEF TypeOK
        <4> QED BY <3>1, <4>1 DEF Proceeded, CallOK
      <3> QED BY <3>2
    <2>2. raised' = raised
      BY <1>2 DEF Proceeded
    <2> QED BY <1>2, <2>1, <2>2, PosFill
  <1> QED BY <1>1, <1>2

LEMMA PosStep ==
    ASSUME TypeOK, FlowInv, PosInv, [Next]_vars
    PROVE  PosInv'
  <1>0. CallInv
    BY DEF FlowInv
  <1>1. \A x \in Contracts : pos[x] = pos[x] + Net(<<>>)[x]
    BY NetShort, PosTypes
  <1>2. /\ <<>> \in Seq(Event) /\ <<>> \in Seq(Fill) /\ {} \in SUBSET Rows
        /\ \A d \in Event : <<d>> \in Seq(Event)
        /\ \A k \in Ids, w \in {"intent", "refused", "approved", "filled", "rejected"} :
              {<<k, w>>} \in SUBSET Rows
    BY DEF Rows
  <1>3. ASSUME NEW c \in Threads, NEW y, Becomes(c, y), y.pc \notin {"run", "append"},
               call[c].pc \notin {"run", "append"}, UNCHANGED <<pos, book, raised>>
        PROVE  PosInv'
    <2>1. /\ call'[c].pc \notin {"run", "append"}
          /\ \A d \in Threads \ {c} : call'[d] = call[d]
      BY <1>3 DEF Becomes
    <2>2. Runners' = Runners
      BY <1>3, <2>1 DEF Runners
    <2>3. \A t \in Runners : call'[t].fills = call[t].fills
      BY <1>3, <2>1 DEF Runners
    <2> QED BY <1>3, <2>2, <2>3, PosSame
  <1>4. ASSUME NEW c \in Threads, NEW y, Becomes(c, y), y.pc \in {"run", "append"},
               call[c].pc \in {"run", "append"}, y.fills = call[c].fills,
               UNCHANGED <<pos, book, raised>>
        PROVE  PosInv'
    <2>1. /\ call'[c].pc \in {"run", "append"} /\ call'[c].fills = call[c].fills
          /\ \A d \in Threads \ {c} : call'[d] = call[d]
      BY <1>4 DEF Becomes
    <2>2. Runners' = Runners
      BY <1>4, <2>1 DEF Runners
    <2>3. \A t \in Runners : call'[t].fills = call[t].fills
      BY <2>1 DEF Runners
    <2> QED BY <1>4, <2>2, <2>3, PosSame
  <1>5. ASSUME NEW c \in Threads, NEW y, NEW k, Becomes(c, y), Begun(y, "run", k),
               call[c].pc \in {"idle", "reserved"}, UNCHANGED <<pos, book, raised>>
        PROVE  PosInv'
    <2>1. /\ call'[c].pc = "run" /\ call'[c].fills = <<>>
          /\ \A d \in Threads \ {c} : call'[d] = call[d]
      BY <1>5 DEF Becomes, Begun
    <2> QED BY <1>5, <2>1, PosEnter
  <1>6. ASSUME NEW c \in Threads, NEW k \in Keys, NEW kind \in Kinds,
               NEW side \in {-1, 1}, NEW qty \in Lots, ReserveKey(c, k, kind, side, qty)
        PROVE  PosInv'
    <2>1. PICK y : Becomes(c, y) /\ Begun(y, "reserved", k)
      BY <1>6, ReserveShape
    <2>2. call[c].pc = "idle" /\ UNCHANGED <<pos, book, raised>>
      BY <1>6, ReserveShape DEF memory, ghosts
    <2>3. y.pc = "reserved"
      BY <2>1 DEF Begun
    <2> QED BY <1>3, <2>1, <2>2, <2>3
  <1>7. ASSUME NEW c \in Threads, PublishRefused(c) PROVE PosInv'
    <2>1. /\ call[c].pc = "reserved" /\ call' = [call EXCEPT ![c] = IdleCall]
          /\ UNCHANGED <<pos, book, raised>>
      BY <1>7 DEF PublishRefused, store, ghosts
    <2>2. Becomes(c, IdleCall)
      BY <2>1, IdleFacts
    <2> QED BY <1>3, <2>1, <2>2, IdleType
  <1>8. ASSUME NEW c \in Threads, Publish(c) PROVE PosInv'
    <2>1. PICK y : Becomes(c, y) /\ Begun(y, "run", call[c].key)
      BY <1>8, PublishShape
    <2>2. call[c].pc = "reserved" /\ UNCHANGED <<pos, book, raised>>
      BY <1>8, PublishShape DEF store
    <2> QED BY <1>5, <2>1, <2>2
  <1>9. ASSUME NEW c \in Threads, Pop(c) PROVE PosInv'
    <2>1. PICK e \in events : \E y : /\ Becomes(c, y) /\ y.pc = call[c].pc
                                     /\ y.fills = call[c].fills
      BY <1>9, PopShape
    <2>2. PICK y : Becomes(c, y) /\ y.pc = call[c].pc /\ y.fills = call[c].fills
      BY <2>1
    <2>3. call[c].pc = "run" /\ UNCHANGED <<pos, book, raised>>
      BY <1>9, PopShape DEF store, ghosts
    <2> QED BY <1>4, <2>2, <2>3
  <1>10. ASSUME NEW c \in Threads, Handle(c) PROVE call[c].pc = "run"
    <2>1. \/ call[c].ev.kind \in {"intent", "decision", "status", "fill", "bar"}
          \/ call[c].ev # NoEvent
      BY <1>10, BarShape DEF Handle, HandleIntent, HandleDecision, HandleStatus,
                             HandleFill, ClockRefuses
    <2> QED BY <1>0, <2>1, IdleType DEF CallInv
  <1>11. ASSUME NEW c \in Threads, NEW evs \in Seq(Event), NEW rows \in SUBSET Rows,
                Raised(c) \/ Proceeded(c, evs, rows, <<>>), call[c].pc = "run",
                UNCHANGED <<pos, book>>
         PROVE  PosInv'
    <2>1. \A x \in Contracts : pos'[x] = pos[x] + Net(<<>>)[x]
      BY <1>1, <1>11
    <2> QED BY <1>2, <1>11, <2>1, PosHandle
  <1>12. ASSUME NEW c \in Threads, HandleIntent(c) PROVE PosInv'
    <2>1. PICK k \in Ids : k = call[c].ev.id
      BY CallFacts
    <2>2. \E d \in Event : Raised(c) \/ Proceeded(c, <<d>>, {<<k, "intent">>}, <<>>)
      BY <1>12, <2>1, IntentShape
    <2>3. UNCHANGED <<pos, book>> /\ call[c].pc = "run"
      BY <1>10, <1>12 DEF HandleIntent, store, Handle
    <2> QED BY <1>2, <1>11, <2>2, <2>3
  <1>13. ASSUME NEW c \in Threads, HandleDecision(c) PROVE PosInv'
    <2>1. PICK k \in Ids : k = call[c].ev.id
      BY CallFacts
    <2>2. \/ Raised(c)
          \/ Proceeded(c, <<>>, {<<k, "refused">>}, <<>>)
          \/ Proceeded(c, <<>>, {<<k, "approved">>}, <<>>)
          \/ \E d \in Event : Proceeded(c, <<d>>, {<<k, "approved">>}, <<>>)
      BY <1>13, <2>1, DecisionShape
    <2>3. UNCHANGED <<pos, book>> /\ call[c].pc = "run"
      BY <1>10, <1>13 DEF HandleDecision, store, Handle
    <2> QED BY <1>2, <1>11, <2>2, <2>3
  <1>14. ASSUME NEW c \in Threads, HandleStatus(c) PROVE PosInv'
    <2>1. PICK k \in Ids : k = call[c].ev.id
      BY CallFacts
    <2>2. Proceeded(c, <<>>, {<<k, "rejected">>}, <<>>)
      BY <1>14, <2>1, StatusShape
    <2>3. UNCHANGED <<pos, book>> /\ call[c].pc = "run"
      BY <1>10, <1>14 DEF HandleStatus, store, Handle
    <2> QED BY <1>2, <1>11, <2>2, <2>3
  <1>15. ASSUME NEW c \in Threads, HandleFill(c) PROVE PosInv'
    <2>1. PICK k \in Ids : k = call[c].ev.id
      BY CallFacts
    <2>2. PICK f \in Fill, acc \in Account :
             /\ acc = [pos |-> pos, risk |-> risk] /\ pos' = ApplyFill(acc, f).pos
             /\ Raised(c) \/ Proceeded(c, <<>>, {<<k, "filled">>}, <<f>>)
      BY <1>15, <2>1, FillShape
    <2>3. book' = book /\ call[c].pc = "run"
      BY <1>10, <1>15 DEF HandleFill, store, Handle
    <2>4. PICK F \in Seq(Fill) : F = <<f>> /\ ApplyFills(acc, F) = ApplyFill(acc, f)
      BY OneFill, Zenon
    <2>5. \A x \in Contracts : pos'[x] = pos[x] + Net(F)[x]
      <3>1. pos' = Plus(acc.pos, Net(F)) /\ acc.pos = pos
        BY <2>2, <2>4, NetMoves
      <3> QED BY <3>1 DEF Plus
    <2> QED BY <1>2, <2>2, <2>3, <2>4, <2>5, PosHandle
  <1>16. ASSUME NEW c \in Threads, HandleBar(c) PROVE PosInv'
    <2>1. PICK evs : BarEvents(evs) /\ (Raised(c) \/ Proceeded(c, evs, {}, <<>>))
      BY <1>16, BarShape
    <2>2. evs \in Seq(Event)
      BY <2>1 DEF BarEvents
    <2>3. UNCHANGED <<pos, book>> /\ call[c].pc = "run"
      BY <1>10, <1>16 DEF HandleBar, store, Handle
    <2> QED BY <1>2, <1>11, <2>1, <2>2, <2>3
  <1>17. ASSUME NEW c \in Threads, ClockRefuses(c) PROVE PosInv'
    <2>1. Raise(c, FALSE) /\ UNCHANGED <<pos, book>> /\ call[c].pc = "run"
      BY <1>10, <1>17 DEF ClockRefuses, store, Handle
    <2>2. Raised(c)
      BY <2>1, EmitFacts
    <2> QED BY <1>2, <1>11, <2>1, <2>2
  <1>18. ASSUME NEW c \in Threads, RunEnds(c) PROVE PosInv'
    <2>1. PICK y : Becomes(c, y) /\ y.pc = "append" /\ y.fills = call[c].fills
      BY <1>18, EndShape
    <2>2. call[c].pc = "run" /\ UNCHANGED <<pos, book, raised>>
      BY <1>18, EndShape DEF memory, store, ghosts
    <2> QED BY <1>4, <2>1, <2>2
  <1>19. ASSUME NEW c \in Threads, AppendEvents(c) PROVE PosInv'
    <2>1. /\ call[c].pc = "append" /\ Becomes(c, IdleCall)
          /\ book' = ApplyFills(book, call[c].fills) /\ UNCHANGED <<pos, raised>>
      BY <1>19, AppendShape DEF memory
    <2>2. call'[c].pc = "idle" /\ \A d \in Threads \ {c} : call'[d] = call[d]
      BY <2>1, IdleType DEF Becomes
    <2> QED BY <2>1, <2>2, PosCommit
  <1>20. ASSUME UNCHANGED <<pos, call, raised>>, book'.pos = book.pos
         PROVE  PosInv'
    BY <1>20, PosSame DEF Runners
  <1>21. CASE LastTick \/ DropBar \/ UNCHANGED vars
    BY <1>20, <1>21 DEF LastTick, DropBar, vars, memory, store, ghosts
  <1>22. CASE OnBar
    <2>1. PICK y : Becomes("loop", y) /\ Begun(y, "run", "bar")
      BY <1>22, OnBarShape
    <2>2. call["loop"].pc = "idle" /\ UNCHANGED <<pos, book, raised>> /\ "loop" \in Threads
      BY <1>22, OnBarShape DEF store, Threads
    <2> QED BY <1>5, <2>1, <2>2
  <1>23. CASE ActivateKill \/ ResetKill
    <2>1. PICK z : book' = [book EXCEPT !.risk.kill = z]
      BY <1>23 DEF ActivateKill, ResetKill
    <2>2. book'.pos = book.pos
      BY <2>1 DEF TypeOK, Account
    <2> QED BY <1>20, <1>23, <2>2 DEF ActivateKill, ResetKill
  <1>24. CASE Restart
    <2>1. \A t \in Threads : call'[t].pc = "idle"
      BY <1>24, RestartShape, IdleType
    <2>2. Runners' = {}
      BY <2>1 DEF Runners
    <2>3. pos' = book.pos /\ book' = book
      BY <1>24, RestartShape DEF store
    <2>4. \A x \in Contracts : Balanced(Runners', Moves(x)', book'.pos[x], pos'[x])
      BY <2>2, <2>3, PosTypes, BalancedNone
    <2> QED BY <2>4 DEF PosInv
  <1> QED BY <1>6, <1>7, <1>8, <1>9, <1>12, <1>13, <1>14, <1>15, <1>16, <1>17, <1>18, <1>19,
             <1>21, <1>22, <1>23, <1>24 DEF Next, Submit, Run, Handle

LEMMA PosInit == Init => PosInv
  <1> SUFFICES ASSUME Init PROVE PosInv
    OBVIOUS
  <1>1. Runners = {}
    BY IdleType DEF Init, Runners
  <1>2. \A x \in Contracts : pos[x] = 0 /\ book.pos[x] = 0
    BY DEF Init
  <1>3. \A x \in Contracts : Balanced({}, Moves(x), book.pos[x], pos[x])
    BY <1>2, BalancedNone
  <1> QED BY <1>1, <1>3 DEF PosInv

\* With no thread in the engine and no run that raised, a restart brings back
\* the positions memory has: the half of StoreMatchesMemory about positions.
THEOREM PositionsAreStored == Spec => [](Quiet /\ ~raised => pos = book.pos)
  <1>1. TypeOK /\ PosInv => (Quiet /\ ~raised => pos = book.pos)
    <2> SUFFICES ASSUME TypeOK, PosInv, Quiet, ~raised PROVE pos = book.pos
      OBVIOUS
    <2>1. Runners = {}
      BY DEF Quiet, Runners
    <2>2. \A x \in Contracts : pos[x] = book.pos[x]
      BY <2>1, PosTypes, BalancedNone DEF PosInv
    <2>3. pos \in [Contracts -> Int] /\ book.pos \in [Contracts -> Int]
      BY DEF TypeOK, Account
    <2> QED BY <2>2, <2>3
  <1> QED BY <1>1, PosInit, PosStep, FlowInit, FlowStep, PaperTypes, PTL DEF Spec
=============================================================================
