----------------------- MODULE PositionGuardianProofs -----------------------
(***************************************************************************)
(* Proofs about PositionGuardian, for every set of orders, exit reasons    *)
(* and prices and for every bound. What the managed row says of the saved  *)
(* position does not depend on what OpenPosition computes; that exits only *)
(* reduce does, and its sums over the deals are proved equal to counts by  *)
(* a least counterexample.                                                 *)
(***************************************************************************)
EXTENDS PositionGuardian, FiniteSetTheorems, SequenceTheorems,
        WellFoundedInduction, TLAPS

------------------------------------------------------------------------------
(* The inductive invariant *)

\* A managed position is a record with these fields, whatever they hold.
IsRow(p) == p = [state |-> p.state, qty |-> p.qty, avg |-> p.avg,
                 gen |-> p.gen, exit |-> p.exit, pending |-> p.pending]

\* The table's row and the row synchronize() has prepared.
ShapeInv ==
    /\ IsRow(pos) /\ IsRow(sync.row)
    /\ sync = [pc |-> sync.pc, row |-> sync.row, clean |-> sync.clean]
    /\ sync.clean \in BOOLEAN

\* PendingOutranksActive, of any row.
Outranks(p) ==
    p.exit # NoExit /\ p.pending # "none"
        => Priority(p.pending) > Priority(p.exit.reason)

\* The prepared row is as good as the one it will replace.
RankInv == Outranks(pos) /\ Outranks(sync.row)

\* Before there is a row its quantity counts as 0; a row about to be written
\* without an exception has the saved position, which no other task replaces
\* before the write.
TruthInv ==
    /\ pos.state = "absent" => pos.qty = 0
    /\ sync.pc = "write" => sync.row.state # "absent"
    /\ sync.pc = "write" /\ sync.clean => sync.row.qty = truth.position
    /\ ProtectionMatchesTruth

IInv == ShapeInv /\ RankInv /\ TruthInv
------------------------------------------------------------------------------
(* Rows *)

\* mark_flat on any row.
LEMMA FlatFacts ==
    ASSUME NEW p, IsRow(p), Outranks(p), p.state = "absent" => p.qty = 0
    PROVE  /\ IsRow(Flat(p)) /\ Outranks(Flat(p))
           /\ Flat(p).qty = 0
  <1>1. CASE p.state = "absent"
    BY <1>1 DEF Flat
  <1>2. CASE p.state # "absent"
    <2>1. Flat(p) = [state |-> "flat", qty |-> 0, avg |-> p.avg,
                     gen |-> p.gen, exit |-> NoExit, pending |-> "none"]
      BY <1>2 DEF Flat, IsRow
    <2>2. QED BY <2>1 DEF IsRow, Outranks
  <1>3. QED BY <1>1, <1>2

\* The row synchronize() prepares.
LEMMA RebuiltFacts ==
    ASSUME NEW p, Outranks(pos)
    PROVE  /\ IsRow(Rebuilt(p)) /\ Outranks(Rebuilt(p))
           /\ Rebuilt(p).qty = p.qty /\ Rebuilt(p).state # "absent"
  <1> DEFINE st == ord[pos.exit].st
  <1>1. StateFromExit(st) # "absent"
    BY DEF StateFromExit, Done
  <1> DEFINE s == IF pos.exit = NoExit THEN "active" ELSE StateFromExit(st)
             x == IF pos.exit = NoExit \/ st \in Done THEN NoExit ELSE pos.exit
             d == IF pos.exit = NoExit THEN "none" ELSE pos.pending
  <1>2. Rebuilt(p) = [qty |-> p.qty, avg |-> p.avg, gen |-> NextGeneration(p),
                      state |-> s, exit |-> x, pending |-> d]
    BY DEF Rebuilt
  <1>3. s # "absent"
    BY <1>1
  <1>4. x # NoExit /\ d # "none" => Priority(d) > Priority(x.reason)
    BY DEF Outranks
  <1> HIDE DEF s, x, d
  <1>5. IsRow(Rebuilt(p))
    BY <1>2 DEF IsRow
  <1>6. QED BY <1>2, <1>3, <1>4, <1>5 DEF Outranks
------------------------------------------------------------------------------
(* The steps *)

\* A step that leaves the row, the prepared row, the snapshot and the lock
\* alone, or only locks, keeps the invariant.
LEMMA Locked ==
    ASSUME IInv, pos' = pos, truth' = truth, sync' = sync,
           \/ recovery' = recovery /\ service' = service
           \/ recovery' = "locked"
           \/ service' # "running"
    PROVE  IInv'
  BY DEF IInv, ShapeInv, RankInv, TruthInv, IsRow, Outranks,
         ProtectionMatchesTruth, Ready

\* A step that changes the row but neither its quantity nor the snapshot.
LEMMA RowStep ==
    ASSUME IInv, truth' = truth, sync' = sync, service' = service,
           recovery' = recovery \/ recovery' = "locked",
           IsRow(pos'), Outranks(pos'), pos'.qty = pos.qty,
           pos'.state = "absent" => pos.state = "absent"
    PROVE  IInv'
  BY DEF IInv, ShapeInv, RankInv, TruthInv, IsRow, Outranks,
         ProtectionMatchesTruth, Ready

\* The transaction of reserve_exit.
LEMMA ReserveExitStep ==
    ASSUME IInv, NEW w \in Workers, ReserveExit(w)
    PROVE  IInv'
  <1>1. recovery' = recovery \/ recovery' = "locked"
    BY DEF ReserveExit, Raise, ForceLock
  <1>2. CASE pos' = pos
    BY <1>1, <1>2, Locked DEF ReserveExit
  <1>3. CASE /\ pos.exit # NoExit
             /\ Priority(req[w].reason) > Priority(pos.exit.reason)
             /\ pos' = [pos EXCEPT !.pending = req[w].reason]
    <2>1. pos' = [state |-> pos.state, qty |-> pos.qty, avg |-> pos.avg,
                  gen |-> pos.gen, exit |-> pos.exit,
                  pending |-> req[w].reason]
      BY <1>3 DEF IInv, ShapeInv, IsRow
    <2>2. IsRow(pos') /\ Outranks(pos')
      BY <2>1, <1>3 DEF IsRow, Outranks
    <2>3. QED BY <2>1, <2>2, <1>1, RowStep DEF ReserveExit
  <1>4. CASE pos' = [pos EXCEPT !.state = "exit_pending",
                                !.exit = req[w].exit, !.pending = "none"]
    <2>1. pos' = [state |-> "exit_pending", qty |-> pos.qty, avg |-> pos.avg,
                  gen |-> pos.gen, exit |-> req[w].exit, pending |-> "none"]
      BY <1>4 DEF IInv, ShapeInv, IsRow
    <2>2. IsRow(pos') /\ Outranks(pos')
      BY <2>1 DEF IsRow, Outranks
    <2>3. QED BY <2>1, <2>2, <1>1, RowStep DEF ReserveExit
  <1>5. QED BY <1>2, <1>3, <1>4 DEF ReserveExit

\* A reservation whose order could not be created is released.
LEMMA ReleaseExitStep ==
    ASSUME IInv, NEW w \in Workers, ReleaseExit(w)
    PROVE  IInv'
  <1>1. recovery' = recovery \/ recovery' = "locked"
    BY DEF ReleaseExit, Raise, ForceLock
  <1>2. CASE pos' = pos
    BY <1>1, <1>2, Locked DEF ReleaseExit
  <1>3. CASE pos' = [pos EXCEPT !.state = "active", !.exit = NoExit]
    <2>1. pos' = [state |-> "active", qty |-> pos.qty, avg |-> pos.avg,
                  gen |-> pos.gen, exit |-> NoExit, pending |-> pos.pending]
      BY <1>3 DEF IInv, ShapeInv, IsRow
    <2>2. IsRow(pos') /\ Outranks(pos')
      BY <2>1 DEF IsRow, Outranks
    <2>3. QED BY <2>1, <2>2, <1>1, RowStep DEF ReleaseExit
  <1>4. QED BY <1>2, <1>3 DEF ReleaseExit

\* mark_order_unknown locks the position of an exit with an UNKNOWN result.
LEMMA MarkStep ==
    ASSUME IInv, MarkOrderUnknown
    PROVE  IInv'
  <1>1. CASE pos' = pos
    BY <1>1, Locked DEF MarkOrderUnknown
  <1>2. CASE pos' = [pos EXCEPT !.state = "unknown"]
    <2>1. pos' = [state |-> "unknown", qty |-> pos.qty, avg |-> pos.avg,
                  gen |-> pos.gen, exit |-> pos.exit, pending |-> pos.pending]
      BY <1>2 DEF IInv, ShapeInv, IsRow
    <2>2. IsRow(pos') /\ Outranks(pos')
      BY <2>1 DEF IsRow, Outranks, IInv, RankInv
    <2>3. QED BY <2>1, <2>2, RowStep DEF MarkOrderUnknown
  <1>3. QED BY <1>1, <1>2 DEF MarkOrderUnknown

\* The steps of a reconciliation, up to the guardian's part of it.
LEMMA ReconcileStep ==
    ASSUME IInv, BeginReconcile \/ CompleteReconcile \/ FailReconcile
    PROVE  IInv'
  <1> DEFINE From(r, b) == \/ sync' = [pc |-> "idle", row |-> r, clean |-> b]
                            \/ sync' = [pc |-> "reconcile", row |-> r,
                                         clean |-> b]
                            \/ sync' = [pc |-> "read", row |-> r, clean |-> b]
  <1>a. From(NoPosition, FALSE) \/ From(sync.row, sync.clean)
    <2>1. CASE BeginReconcile \/ FailReconcile
      BY <2>1 DEF BeginReconcile, FailReconcile, IdleSync
    <2>2. CASE CompleteReconcile
      <3>1. CASE sync' = IdleSync
        BY <3>1 DEF IdleSync
      <3>2. CASE sync' = [sync EXCEPT !.pc = "read"]
        <4>1. sync' = [pc |-> "read", row |-> sync.row, clean |-> sync.clean]
          BY <3>2 DEF IInv, ShapeInv
        <4>2. QED BY <4>1
      <3>3. QED BY <2>2, <3>1, <3>2 DEF CompleteReconcile
    <2>3. QED BY <2>1, <2>2
  <1>b. pos' = pos
    BY DEF BeginReconcile, CompleteReconcile, FailReconcile
  <1>c. sync.clean \in BOOLEAN
    BY DEF IInv, ShapeInv
  <1>1. /\ sync'.row = sync.row \/ sync'.row = NoPosition
        /\ sync' = [pc |-> sync'.pc, row |-> sync'.row, clean |-> sync'.clean]
        /\ sync'.clean \in BOOLEAN
        /\ sync'.pc \in {"idle", "reconcile", "read"}
    <2>1. ASSUME NEW r, NEW b \in BOOLEAN, From(r, b)
          PROVE  /\ sync'.row = r /\ sync'.clean = b
                 /\ sync'.pc \in {"idle", "reconcile", "read"}
                 /\ sync' = [pc |-> sync'.pc, row |-> sync'.row,
                             clean |-> sync'.clean]
      BY <2>1
    <2> HIDE DEF From
    <2>2. CASE From(NoPosition, FALSE)
      BY <2>1, <2>2
    <2>3. CASE From(sync.row, sync.clean)
      BY <2>1, <2>3, <1>c
    <2>4. QED BY <1>a, <2>2, <2>3
  <1> HIDE DEF From
  <1>2. ShapeInv'
    BY <1>1, <1>b DEF IInv, ShapeInv, IsRow, NoPosition
  <1>3. RankInv'
    BY <1>1, <1>b DEF IInv, RankInv, Outranks, NoPosition
  <1>4. sync'.pc = "idle" => recovery' = "locked"
    BY DEF IInv, ShapeInv, BeginReconcile, CompleteReconcile, FailReconcile,
           IdleSync, ForceLock
  <1>5. TruthInv'
    BY <1>1, <1>4, <1>b DEF IInv, TruthInv, ProtectionMatchesTruth, Ready
  <1>6. QED BY <1>2, <1>3, <1>5 DEF IInv

\* synchronize() up to its write.
LEMMA SyncReadStep ==
    ASSUME IInv, SyncRead
    PROVE  IInv'
  <1> DEFINE p     == OpenPosition(truth.deals)
             agree == p.qty = truth.position
  <1>a. /\ IsRow(pos) /\ IsRow(sync.row) /\ Outranks(pos) /\ Outranks(sync.row)
        /\ pos.state = "absent" => pos.qty = 0
    BY DEF IInv, ShapeInv, RankInv, TruthInv
  <1>b. truth' = truth /\ service' = service
    BY DEF SyncRead
  <1>c. IsRow(NoPosition) /\ Outranks(NoPosition)
    BY DEF IsRow, Outranks, NoPosition
  <1>1. CASE /\ p.qty = 0
             /\ pos' = IF truth.deals # <<>> \/ agree THEN Flat(pos) ELSE pos
             /\ sync' = IdleSync
             /\ IF agree THEN UNCHANGED recovery ELSE ForceLock
    <2> HIDE DEF p
    <2>1. IsRow(Flat(pos)) /\ Outranks(Flat(pos)) /\ Flat(pos).qty = 0
      BY <1>a, FlatFacts
    <2>2. IsRow(pos') /\ Outranks(pos')
      BY <1>1, <1>a, <2>1
    <2>3. pos'.state = "absent" => pos'.qty = 0
      BY <1>1, <1>a, <2>1
    <2>4. agree => pos'.qty = truth.position
      BY <1>1, <2>1
    <2>5. ~agree => recovery' = "locked"
      BY <1>1 DEF ForceLock
    <2>6. ShapeInv' /\ RankInv'
      BY <1>1, <1>c, <2>2 DEF ShapeInv, RankInv, IdleSync, IsRow, Outranks
    <2>7. TruthInv'
      BY <1>1, <1>b, <2>3, <2>4, <2>5
         DEF TruthInv, ProtectionMatchesTruth, Ready, IdleSync
    <2>8. QED BY <2>6, <2>7 DEF IInv
  <1>2. CASE /\ sync' = [pc |-> "write", row |-> Rebuilt(p), clean |-> agree]
             /\ UNCHANGED <<pos, recovery>>
    <2> HIDE DEF p
    <2>1. /\ IsRow(Rebuilt(p)) /\ Outranks(Rebuilt(p))
          /\ Rebuilt(p).qty = p.qty /\ Rebuilt(p).state # "absent"
      BY <1>a, RebuiltFacts
    <2>2. /\ sync'.pc = "write" /\ sync'.row = Rebuilt(p)
          /\ sync'.clean = agree /\ sync'.clean \in BOOLEAN
          /\ sync' = [pc |-> sync'.pc, row |-> sync'.row, clean |-> sync'.clean]
      BY <1>2
    <2>3. ShapeInv' /\ RankInv'
      BY <1>a, <1>2, <2>1, <2>2 DEF ShapeInv, RankInv, IsRow, Outranks
    <2>4. TruthInv'
      BY <1>a, <1>b, <1>2, <2>1, <2>2 DEF TruthInv, ProtectionMatchesTruth
    <2>5. QED BY <2>3, <2>4 DEF IInv
  <1>3. CASE ForceLock /\ sync' = IdleSync /\ UNCHANGED pos
    <2>1. ShapeInv' /\ RankInv'
      BY <1>a, <1>c, <1>3 DEF ShapeInv, RankInv, IdleSync, IsRow, Outranks
    <2>2. TruthInv'
      BY <1>a, <1>3 DEF TruthInv, ProtectionMatchesTruth, Ready, ForceLock,
                        IdleSync
    <2>3. QED BY <2>1, <2>2 DEF IInv
  <1>4. QED BY <1>1, <1>2, <1>3 DEF SyncRead

\* store.synchronize.
LEMMA SyncWriteStep ==
    ASSUME IInv, SyncWrite
    PROVE  IInv'
  <1>1. /\ pos' = sync.row /\ sync' = IdleSync /\ truth' = truth
        /\ sync.pc = "write"
        /\ IF sync.clean THEN UNCHANGED recovery ELSE ForceLock
    BY DEF SyncWrite
  <1>2. IsRow(NoPosition) /\ Outranks(NoPosition)
    BY DEF IsRow, Outranks, NoPosition
  <1>3. ShapeInv' /\ RankInv'
    BY <1>1, <1>2 DEF IInv, ShapeInv, RankInv, IdleSync, IsRow, Outranks
  <1>4. sync.clean => pos'.qty = truth.position
    BY <1>1 DEF IInv, TruthInv
  <1>5. ~sync.clean => recovery' = "locked"
    BY <1>1 DEF ForceLock
  <1>6. TruthInv'
    BY <1>1, <1>4, <1>5 DEF IInv, TruthInv, ProtectionMatchesTruth, Ready,
                             IdleSync
  <1>7. QED BY <1>3, <1>6 DEF IInv

\* The service dies: what its threads held is gone.
LEMMA CrashStep ==
    ASSUME IInv, Crash
    PROVE  IInv'
  <1>1. /\ pos' = pos /\ sync' = IdleSync /\ truth' = truth
        /\ service' = "down"
    BY DEF Crash
  <1>2. IsRow(NoPosition) /\ Outranks(NoPosition)
    BY DEF IsRow, Outranks, NoPosition
  <1>3. ShapeInv' /\ RankInv'
    BY <1>1, <1>2 DEF IInv, ShapeInv, RankInv, IdleSync, IsRow, Outranks
  <1>4. TruthInv'
    BY <1>1 DEF IInv, TruthInv, ProtectionMatchesTruth, IdleSync
  <1>5. QED BY <1>3, <1>4 DEF IInv
------------------------------------------------------------------------------
(* The theorems *)

\* Before the first boot there is no managed position.
LEMMA InitIInv == Init => IInv
  BY DEF Init, IInv, ShapeInv, RankInv, TruthInv, IsRow, Outranks, NoPosition,
         IdleSync, ProtectionMatchesTruth, Ready

\* Every action preserves the invariant.
LEMMA NextIInv == IInv /\ [Next]_vars => IInv'
  <1> SUFFICES ASSUME IInv, [Next]_vars PROVE IInv'
    OBVIOUS
  <1>1. CASE Api
    <2>1. /\ pos' = pos /\ truth' = truth /\ sync' = sync
          /\ recovery' = recovery /\ service' = service
      BY <1>1 DEF Api, CreateEntry, CreateClose, ActivateFlatten, ApiCrash
    <2>2. QED BY <2>1, Locked
  <1>2. CASE Guardian
    <2>1. CASE FlattenReview
      BY <2>1, Locked DEF FlattenReview, ForceLock
    <2>2. ASSUME NEW w \in Workers, RequestStep(w) PROVE IInv'
      <3>1. CASE GetPosition(w)
        BY <3>1, Locked DEF GetPosition, Raise, ForceLock
      <3>2. CASE CreateExit(w)
        BY <3>2, Locked DEF CreateExit
      <3>3. QED
        BY <2>2, <3>1, <3>2, ReserveExitStep, ReleaseExitStep DEF RequestStep
    <2>3. ASSUME NEW w \in Workers, NEW r \in Reasons, Ask(w, r) PROVE IInv'
      BY <2>3, Locked DEF Ask
    <2>4. QED BY <1>2, <2>1, <2>2, <2>3 DEF Guardian
  <1>3. CASE Dispatcher
    <2>1. CASE Dispatch
      BY <2>1, Locked DEF Dispatch
    <2>2. CASE BlockDispatch
      BY <2>2, Locked DEF BlockDispatch
    <2>3. CASE LockUnknown
      BY <2>3, Locked DEF LockUnknown, ForceLock
    <2>4. ASSUME NEW o \in OrderIds, Callback(o) PROVE IInv'
      BY <2>4, Locked DEF Callback
    <2>5. QED BY <1>3, <2>1, <2>2, <2>3, <2>4, MarkStep DEF Dispatcher
  <1>4. CASE Reconciler
    BY <1>4, ReconcileStep, SyncReadStep, SyncWriteStep DEF Reconciler
  <1>5. CASE Broker
    <2>1. /\ pos' = pos /\ truth' = truth /\ sync' = sync
          /\ recovery' = recovery /\ service' = service
      BY <1>5 DEF Broker, NewSession, BrokerFill, BrokerEnd
    <2>2. QED BY <2>1, Locked
  <1>6. CASE PersistLock \/ Start
    BY <1>6, Locked DEF PersistLock, Start, ForceLock
  <1>7. CASE Compose
    BY <1>7, Locked DEF Compose
  <1>8. CASE UNCHANGED vars
    BY <1>8, Locked DEF vars
  <1>9. QED
    BY <1>1, <1>2, <1>3, <1>4, <1>5, <1>6, <1>7, <1>8, CrashStep DEF Next

\* The invariant holds in every reachable state.
LEMMA Invariance == Spec => []IInv
  BY InitIInv, NextIInv, PTL DEF Spec

\* Whenever the account is READY and no synchronisation is under way, the
\* managed position is the saved broker position, for any orders, reasons and
\* number of locks, crashes and sessions.
THEOREM ProtectionTruth == Spec => []ProtectionMatchesTruth
  <1>1. IInv => ProtectionMatchesTruth
    BY DEF IInv, TruthInv
  <1>2. QED BY <1>1, Invariance, PTL

\* A deferred exit reason outranks the active one, although synchronize()
\* writes rows it prepared earlier.
THEOREM DeferredOutranks == Spec => []PendingOutranksActive
  <1>1. IInv => PendingOutranksActive
    BY DEF IInv, RankInv, Outranks, PendingOutranksActive
  <1>2. QED BY <1>1, Invariance, PTL
------------------------------------------------------------------------------
(* Sums over the deals of a session *)

\* A fill of one lot.
Deal == [side : {-1, 1}, price : Prices]

\* Lots on one side among the first n deals.
Lots(ds, n, s) == Cardinality({i \in 1..n : ds[i].side = s})
Buys(ds)  == Lots(ds, Len(ds), 1)
Sells(ds) == Lots(ds, Len(ds), -1)

\* b is how ds begins.
Begins(b, ds) == Len(b) <= Len(ds) /\ \A i \in 1..Len(b) : b[i] = ds[i]

\* At most so many positions of one lot can ds have passed through.
Cap(ds) == IF Buys(ds) <= Sells(ds) THEN Buys(ds) ELSE Sells(ds) + 1

\* A set of naturals that is not empty has a least element.
LEMMA NatMin ==
    ASSUME NEW T \in SUBSET Nat, T # {}
    PROVE  \E x \in T : \A y \in T : x <= y
  <1>1. PICK x \in T : \A y \in T : ~(<<y, x>> \in OpToRel(<, Nat))
    BY NatLessThanWellFounded, WFMin
  <1>2. ASSUME NEW y \in T PROVE x <= y
    <2>1. x \in Nat /\ y \in Nat
      OBVIOUS
    <2>2. ~(y < x)
      BY <1>1, <2>1, Zenon DEF OpToRel
    <2> QED
      BY <2>1, <2>2
  <1> QED
    BY <1>2

\* What holds of 0 and passes from n to n + 1 holds up to N.
LEMMA Climb ==
    ASSUME NEW N \in Nat, NEW T \in SUBSET Nat, 0 \in T,
           \A n \in 0..N : n \in T /\ n < N => n + 1 \in T
    PROVE  \A n \in 0..N : n \in T
  <1> DEFINE S == {n \in 0..N : n \notin T}
  <1> SUFFICES ASSUME S # {} PROVE FALSE
    OBVIOUS
  <1>0. S \in SUBSET Nat
    OBVIOUS
  <1> HIDE DEF S
  <1>1. PICK m \in S : \A k \in S : m <= k
    BY <1>0, NatMin
  <1> USE DEF S
  <1>2. m # 0 /\ m - 1 \in 0..N /\ m - 1 < N /\ m \notin T
    BY <1>1
  <1>3. m - 1 \in T
    BY <1>1, <1>2
  <1>4. (m - 1) + 1 \in T
    BY <1>2, <1>3
  <1> QED
    BY <1>2, <1>4

LEMMA NetRec ==
    ASSUME NEW ds \in Seq(Deal)
    PROVE  \E net : /\ Net(ds) = net[Len(ds)]
                    /\ net = [n \in 0..Len(ds) |->
                          IF n = 0 THEN 0 ELSE net[n - 1] + ds[n].side]
  <1> DEFINE R(f, m) == f = [n \in 0..m |->
                          IF n = 0 THEN 0 ELSE f[n - 1] + ds[n].side]
             T == {m \in Nat : \E f : R(f, m)}
  <1>1. 0 \in T
    <2>1. R([n \in 0..0 |-> 0], 0)
      OBVIOUS
    <2> QED BY <2>1
  <1>2. ASSUME NEW m \in 0..Len(ds), m \in T, m < Len(ds) PROVE m + 1 \in T
    <2>1. PICK f : R(f, m)
      BY <1>2
    <2> DEFINE g == [n \in 0..(m + 1) |->
                       IF n = m + 1 THEN f[m] + ds[m + 1].side ELSE f[n]]
    <2>2. ASSUME NEW n \in 0..(m + 1)
          PROVE g[n] = IF n = 0 THEN 0 ELSE g[n - 1] + ds[n].side
      <3>1. CASE n = 0
        BY <2>1, <3>1
      <3>2. CASE n \in 1..m
        <4>1. g[n] = f[n] /\ g[n - 1] = f[n - 1]
          BY <3>2
        <4>2. n \in 0..m /\ n # 0
          BY <3>2
        <4>3. f[n] = f[n - 1] + ds[n].side
          BY <2>1, <4>2, Zenon
        <4> QED BY <4>1, <4>2, <4>3
      <3>3. CASE n = m + 1
        <4>1. g[n] = f[m] + ds[n].side /\ g[n - 1] = f[m] /\ n # 0
          BY <3>3
        <4> QED BY <4>1
      <3> QED BY <3>1, <3>2, <3>3
    <2>3. R(g, m + 1)
      BY <2>2
    <2> HIDE DEF g
    <2> QED BY <2>3
  <1>3. \E f : R(f, Len(ds))
    <2>0. Len(ds) \in Nat /\ T \in SUBSET Nat
      OBVIOUS
    <2> HIDE DEF T
    <2>1. \A m \in 0..Len(ds) : m \in T
      BY <2>0, <1>1, <1>2, Climb
    <2> QED BY <2>1 DEF T
  <1> QED BY <1>3 DEF Net

\* The same of _open_position.
LEMMA OpenRec ==
    ASSUME NEW ds \in Seq(Deal)
    PROVE  \E open : /\ OpenPosition(ds) = open[Len(ds)]
                     /\ open = [n \in 0..Len(ds) |->
                           IF n = 0 THEN [qty |-> 0, avg |-> <<0, 1>>]
                           ELSE AddDeal(open[n - 1], ds[n])]
  <1> DEFINE R(f, m) == f = [n \in 0..m |->
                           IF n = 0 THEN [qty |-> 0, avg |-> <<0, 1>>]
                           ELSE AddDeal(f[n - 1], ds[n])]
             T == {m \in Nat : \E f : R(f, m)}
  <1>1. 0 \in T
    <2>1. R([n \in 0..0 |-> [qty |-> 0, avg |-> <<0, 1>>]], 0)
      OBVIOUS
    <2> QED BY <2>1
  <1>2. ASSUME NEW m \in 0..Len(ds), m \in T, m < Len(ds) PROVE m + 1 \in T
    <2>1. PICK f : R(f, m)
      BY <1>2
    <2> DEFINE g == [n \in 0..(m + 1) |->
                       IF n = m + 1 THEN AddDeal(f[m], ds[m + 1]) ELSE f[n]]
    <2>2. ASSUME NEW n \in 0..(m + 1)
          PROVE g[n] = IF n = 0 THEN [qty |-> 0, avg |-> <<0, 1>>]
                       ELSE AddDeal(g[n - 1], ds[n])
      <3>1. CASE n = 0
        BY <2>1, <3>1
      <3>2. CASE n \in 1..m
        <4>1. g[n] = f[n] /\ g[n - 1] = f[n - 1]
          BY <3>2
        <4>2. n \in 0..m /\ n # 0
          BY <3>2
        <4>3. f[n] = AddDeal(f[n - 1], ds[n])
          BY <2>1, <4>2, Zenon
        <4> QED BY <4>1, <4>2, <4>3
      <3>3. CASE n = m + 1
        <4>1. g[n] = AddDeal(f[m], ds[n]) /\ g[n - 1] = f[m] /\ n # 0
          BY <3>3
        <4> QED BY <4>1
      <3> QED BY <3>1, <3>2, <3>3
    <2>3. R(g, m + 1)
      BY <2>2
    <2> HIDE DEF g
    <2> QED BY <2>3
  <1>3. \E f : R(f, Len(ds))
    <2>0. Len(ds) \in Nat /\ T \in SUBSET Nat
      OBVIOUS
    <2> HIDE DEF T
    <2>1. \A m \in 0..Len(ds) : m \in T
      BY <2>0, <1>1, <1>2, Climb
    <2> QED BY <2>0, <2>1 DEF T
  <1> QED BY <1>3 DEF OpenPosition

\* Counting deals on one side.
LEMMA LotsFacts ==
    ASSUME NEW ds, NEW s, NEW n \in Nat
    PROVE  /\ IsFiniteSet({i \in 1..n : ds[i].side = s})
           /\ Lots(ds, n, s) \in Nat
           /\ Lots(ds, 0, s) = 0
           /\ Lots(ds, n + 1, s) =
                 Lots(ds, n, s) + (IF ds[n + 1].side = s THEN 1 ELSE 0)
  <1> DEFINE S == {i \in 1..n : ds[i].side = s}
             S1 == {i \in 1..(n + 1) : ds[i].side = s}
  <1>1. IsFiniteSet(S)
    <2>1. IsFiniteSet(1..n) /\ S \subseteq 1..n
      BY FS_Interval
    <2> QED BY <2>1, FS_Subset
  <1>2. {i \in 1..0 : ds[i].side = s} = {}
    OBVIOUS
  <1>3. n + 1 \notin S
    OBVIOUS
  <1>4. S1 = IF ds[n + 1].side = s THEN S \cup {n + 1} ELSE S
    <2>1. 1..(n + 1) = (1..n) \cup {n + 1}
      OBVIOUS
    <2> QED BY <2>1
  <1> HIDE DEF S, S1
  <1>5. Cardinality(S) \in Nat
    BY <1>1, FS_CardinalityType
  <1>6. Cardinality(S \cup {n + 1}) = Cardinality(S) + 1
    BY <1>1, <1>3, FS_AddElement
  <1>7. Cardinality(S1) = Cardinality(S) + (IF ds[n + 1].side = s THEN 1 ELSE 0)
    BY <1>4, <1>5, <1>6
  <1>8. Lots(ds, n, s) = Cardinality(S) /\ Lots(ds, n + 1, s) = Cardinality(S1)
    BY DEF Lots, S, S1
  <1>9. Lots(ds, 0, s) = 0
    BY <1>2, FS_EmptySet DEF Lots
  <1> QED BY <1>1, <1>5, <1>7, <1>8, <1>9 DEF S

\* A sequence that goes on holds at least as many deals of each side.
LEMMA LotsGrow ==
    ASSUME NEW b, NEW ds, NEW n \in Nat, NEW m \in Nat, n <= m, NEW s,
           \A i \in 1..n : b[i] = ds[i]
    PROVE  Lots(b, n, s) <= Lots(ds, m, s)
  <1> DEFINE S == {i \in 1..n : b[i].side = s}
             U == {i \in 1..m : ds[i].side = s}
  <1>1. S \subseteq U
    OBVIOUS
  <1>2. IsFiniteSet(U)
    <2>1. IsFiniteSet(1..m) /\ U \subseteq 1..m
      BY FS_Interval
    <2> QED BY <2>1, FS_Subset
  <1> HIDE DEF S, U
  <1>3. Cardinality(S) <= Cardinality(U)
    BY <1>1, <1>2, FS_Subset
  <1> QED BY <1>3 DEF Lots, S, U

\* Every deal is on one of the two sides, and each lot counts once in the net
\* position and in the open position.
LEMMA NetFacts ==
    ASSUME NEW ds \in Seq(Deal)
    PROVE  /\ Buys(ds) \in Nat /\ Sells(ds) \in Nat
           /\ Buys(ds) + Sells(ds) = Len(ds)
           /\ Net(ds) = Buys(ds) - Sells(ds) /\ Net(ds) \in Int
           /\ OpenPosition(ds).qty = Net(ds)
  <1> DEFINE B(n) == Lots(ds, n, 1)
             S(n) == Lots(ds, n, -1)
  <1>1. PICK net : /\ Net(ds) = net[Len(ds)]
                   /\ net = [n \in 0..Len(ds) |->
                          IF n = 0 THEN 0 ELSE net[n - 1] + ds[n].side]
    BY NetRec
  <1>2. PICK open : /\ OpenPosition(ds) = open[Len(ds)]
                    /\ open = [n \in 0..Len(ds) |->
                           IF n = 0 THEN [qty |-> 0, avg |-> <<0, 1>>]
                           ELSE AddDeal(open[n - 1], ds[n])]
    BY OpenRec
  <1>3. Len(ds) \in Nat
    OBVIOUS
  <1>4. ASSUME NEW n \in Nat
        PROVE  B(n) \in Nat /\ S(n) \in Nat /\ B(0) = 0 /\ S(0) = 0
    BY LotsFacts
  <1>5. ASSUME NEW n \in 0..Len(ds), n < Len(ds)
        PROVE  /\ ds[n + 1].side \in {-1, 1}
               /\ B(n + 1) = B(n) + (IF ds[n + 1].side = 1 THEN 1 ELSE 0)
               /\ S(n + 1) = S(n) + (IF ds[n + 1].side = -1 THEN 1 ELSE 0)
    <2>1. ds[n + 1] \in Deal /\ n \in Nat
      BY <1>5
    <2>2. ASSUME NEW s
          PROVE  Lots(ds, n + 1, s) =
                    Lots(ds, n, s) + (IF ds[n + 1].side = s THEN 1 ELSE 0)
      BY <2>1, LotsFacts
    <2> QED BY <2>1, <2>2 DEF Deal
  <1> HIDE DEF B, S
  <1>6. ASSUME NEW n \in 0..Len(ds), n < Len(ds)
        PROVE  /\ net[n + 1] = net[n] + ds[n + 1].side
               /\ open[n + 1].qty = open[n].qty + ds[n + 1].side
    <2>1. net[n + 1] = net[n] + ds[n + 1].side
      BY <1>1, <1>6
    <2>2. open[n + 1] = AddDeal(open[n], ds[n + 1])
      <3>1. n + 1 \in 0..Len(ds) /\ n + 1 # 0 /\ (n + 1) - 1 = n
        BY <1>6
      <3> QED BY <1>2, <3>1
    <2> QED BY <2>1, <2>2 DEF AddDeal
  <1>7. net[0] = 0 /\ open[0].qty = 0
    BY <1>1, <1>2
  <1> DEFINE T == {n \in Nat : /\ B(n) + S(n) = n /\ net[n] = B(n) - S(n)
                               /\ open[n].qty = net[n]}
  <1>8. 0 \in T
    <2>1. B(0) = 0 /\ S(0) = 0 /\ 0 \in Nat
      BY <1>4
    <2> QED BY <2>1, <1>7
  <1>9. ASSUME NEW n \in 0..Len(ds), n \in T, n < Len(ds) PROVE n + 1 \in T
    <2>1. B(n) \in Nat /\ S(n) \in Nat
      BY <1>4
    <2> QED BY <2>1, <1>5, <1>6, <1>9, SMTT(30)
  <1>10. \A n \in 0..Len(ds) : n \in T
    <2>1. T \in SUBSET Nat
      OBVIOUS
    <2> HIDE DEF T
    <2> QED BY <2>1, <1>3, <1>8, <1>9, Climb
  <1>11. Len(ds) \in T
    BY <1>3, <1>10
  <1> QED BY <1>1, <1>2, <1>3, <1>4, <1>11 DEF B, S, Buys, Sells

\* A deal more.
LEMMA AppendFacts ==
    ASSUME NEW ds \in Seq(Deal), NEW d \in Deal
    PROVE  /\ Append(ds, d) \in Seq(Deal)
           /\ Buys(Append(ds, d)) = Buys(ds) + (IF d.side = 1 THEN 1 ELSE 0)
           /\ Sells(Append(ds, d)) = Sells(ds) + (IF d.side = -1 THEN 1 ELSE 0)
           /\ Net(Append(ds, d)) = Net(ds) + d.side
           /\ Begins(ds, Append(ds, d))
  <1> DEFINE e == Append(ds, d)
  <1>1. /\ e \in Seq(Deal) /\ Len(e) = Len(ds) + 1 /\ Len(ds) \in Nat
        /\ e[Len(ds) + 1] = d /\ \A i \in 1..Len(ds) : e[i] = ds[i]
    OBVIOUS
  <1> HIDE DEF e
  <1>2. Begins(ds, e)
    BY <1>1 DEF Begins
  <1>3. ASSUME NEW s
        PROVE Lots(e, Len(e), s) = Lots(ds, Len(ds), s) + (IF d.side = s THEN 1 ELSE 0)
    <2>1. Lots(e, Len(ds) + 1, s) =
             Lots(e, Len(ds), s) + (IF d.side = s THEN 1 ELSE 0)
      BY <1>1, LotsFacts
    <2>2. {i \in 1..Len(ds) : e[i].side = s} = {i \in 1..Len(ds) : ds[i].side = s}
      BY <1>1
    <2>3. Lots(e, Len(ds), s) = Lots(ds, Len(ds), s)
      BY <2>2 DEF Lots
    <2> QED BY <1>1, <2>1, <2>3
  <1>4. /\ Buys(e) = Buys(ds) + (IF d.side = 1 THEN 1 ELSE 0)
        /\ Sells(e) = Sells(ds) + (IF d.side = -1 THEN 1 ELSE 0)
    BY <1>3 DEF Buys, Sells
  <1>5. Net(e) = Net(ds) + d.side
    <2>1. /\ Net(e) = Buys(e) - Sells(e) /\ Net(ds) = Buys(ds) - Sells(ds)
          /\ Buys(ds) \in Nat /\ Sells(ds) \in Nat
      BY <1>1, NetFacts
    <2> QED BY <1>4, <2>1 DEF Deal
  <1> QED BY <1>1, <1>2, <1>4, <1>5 DEF e

\* Of a sequence and how it begins: it has passed through at least as many
\* one-lot positions, and more if it ends in one and is longer.
LEMMA CapFacts ==
    ASSUME NEW b \in Seq(Deal), NEW ds \in Seq(Deal), Begins(b, ds)
    PROVE  /\ Cap(b) \in Nat /\ Cap(b) <= Cap(ds) /\ Cap(ds) <= Buys(ds)
           /\ Net(ds) = 1 /\ b # ds => Cap(b) < Cap(ds)
  <1>1. Len(b) \in Nat /\ Len(ds) \in Nat
    OBVIOUS
  <1>2. Buys(b) <= Buys(ds) /\ Sells(b) <= Sells(ds)
    BY <1>1, LotsGrow DEF Begins, Buys, Sells
  <1>3. /\ Buys(b) \in Nat /\ Sells(b) \in Nat /\ Buys(b) + Sells(b) = Len(b)
        /\ Buys(ds) \in Nat /\ Sells(ds) \in Nat
        /\ Buys(ds) + Sells(ds) = Len(ds)
        /\ Net(ds) = Buys(ds) - Sells(ds)
    BY NetFacts
  <1>4. Len(b) = Len(ds) => b = ds
    BY SeqEqual DEF Begins
  <1> QED BY <1>2, <1>3, <1>4 DEF Cap

\* Nothing has traded at the start of a session.
LEMMA EmptyFacts ==
    /\ <<>> \in Seq(Deal) /\ Buys(<<>>) = 0 /\ Net(<<>>) = 0 /\ Cap(<<>>) = 0
    /\ Begins(<<>>, <<>>)
  <1>1. <<>> \in Seq(Deal) /\ Len(<<>>) = 0
    OBVIOUS
  <1>2. /\ Buys(<<>>) \in Nat /\ Sells(<<>>) \in Nat
        /\ Buys(<<>>) + Sells(<<>>) = 0 /\ Net(<<>>) = Buys(<<>>) - Sells(<<>>)
    BY <1>1, NetFacts
  <1>3. Buys(<<>>) = 0 /\ Sells(<<>>) = 0
    BY <1>2
  <1> QED BY <1>1, <1>2, <1>3 DEF Cap, Begins

------------------------------------------------------------------------------
(* Which positions were sold *)

\* Orders that traded, by side.
Bought == {o \in OrderIds : bro[o] = "filled" /\ ord[o].side = 1}
Sold   == {o \in OrderIds : bro[o] = "filled" /\ ord[o].side = -1}

\* Generations with one lot that somebody still holds: an exit order that
\* sells, a request in progress, the managed position itself.
SellGens ==
    {x.gen : x \in {y \in ExitIds \ Closes :
                        ord[y].st # "absent" /\ ord[y].side = -1}}
    \cup {req[w].exit.gen : w \in {v \in Workers :
                        req[v].pc \in {"got", "reserved"} /\ req[v].qty = 1}}
    \cup (IF pos.qty = 1 THEN {pos.gen} ELSE {})

\* The generation synchronize() is about to write, if it has one lot.
NextGens ==
    IF sync.pc = "read"
    THEN IF OpenPosition(truth.deals).qty = 1
         THEN {NextGeneration(OpenPosition(truth.deals))} ELSE {}
    ELSE IF sync.pc = "write" /\ sync.row.qty = 1 THEN {sync.row.gen} ELSE {}

\* Lots bought in earlier sessions.
Earlier == Cardinality(Bought) - Buys(deals)

\* An order's row, its place in the outbox and the broker's order: it is
\* queued and sent once, has a side from the start, and only closes and exits
\* sell.
OrderInv ==
    /\ ord \in [OrderIds -> [st : OrderState, side : -1..1]]
    /\ bro \in [OrderIds -> {"none", "working"} \cup Done]
    /\ queue \in Seq(OrderIds)
    /\ \A i \in 1..Len(queue) : ord[queue[i]].st = "pending"
    /\ \A i, j \in 1..Len(queue) : queue[i] = queue[j] => i = j
    /\ \A o \in OrderIds :
          /\ ord[o].st \in {"absent", "pending", "blocked"} => bro[o] = "none"
          /\ ord[o].st # "absent" => ord[o].side # 0
          /\ ord[o].side = -1 => o \in Closes \cup ExitIds

\* A row with a quantity has a generation.
Generated(p) == p.qty \in Int /\ p.gen \in 0..MaxPosition
                /\ (p.qty # 0 => p.gen # 0)

RequestType == [pc : {"idle", "asked", "got", "reserved"},
                reason : Reasons \cup {"none"}, qty : Int,
                exit : [gen : 0..MaxPosition, reason : Reasons \cup {"none"}]]

\* So has a request that read it.
Requested(r) == /\ r.pc = "asked" => r.reason \in Reasons
                /\ r.pc \in {"got", "reserved"} /\ r.qty # 0
                      => r.exit \in ExitIds

GenerationInv ==
    /\ Generated(pos) /\ Generated(sync.row)
    /\ req \in [Workers -> RequestType]
    /\ \A w \in Workers : Requested(req[w])

\* The broker's position is what its orders bought less what they sold.
CountInv ==
    /\ deals \in Seq(Deal) /\ truth.deals \in Seq(Deal)
    /\ carried \in Int /\ truth.position \in Int
    /\ IsFiniteSet(Bought) /\ IsFiniteSet(Sold)
    /\ BrokerPosition = Cardinality(Bought) - Cardinality(Sold)

\* The row is the open position after the deals b.
RowOf(p, b) == /\ p.qty = 1 /\ p.state # "absent"
               /\ p.avg = OpenPosition(b).avg

\* b is how this session began when the managed position was built and m when
\* synchronize() read it, nothing if that was in an earlier session: the
\* generations with one lot are no more than the positions of one lot that
\* the deals passed through.
Built(b, m) ==
    /\ Begins(b, m) /\ Begins(m, deals)
    /\ Cardinality(SellGens) <= Earlier + Cap(b)
    /\ Cardinality(SellGens \cup NextGens) <= Earlier + Cap(m)
    /\ Net(b) = 1 => RowOf(pos, b)
    /\ sync.pc = "read" => m = <<>> \/ m = truth.deals
    /\ sync.pc = "write" /\ Net(m) = 1 => RowOf(sync.row, m)

BuiltInv == \E b, m \in Seq(Deal) : Built(b, m)

SoldInv == IInv /\ OrderInv /\ GenerationInv /\ CountInv /\ BuiltInv

\* Two exits of one generation, or a close, have traded.
ClosedTwice ==
    \/ \E c \in Closes : Traded(c)
    \/ \E x, y \in ExitIds : x.gen = y.gen /\ x # y /\ Traded(x) /\ Traded(y)

\* The generations counted are finitely many.
LEMMA GensFinite ==
    ASSUME GenerationInv
    PROVE  IsFiniteSet(SellGens) /\ IsFiniteSet(NextGens)
  <1>1. SellGens \subseteq 0..MaxPosition
    BY BoundsAssumption DEF GenerationInv, Generated, RequestType, SellGens,
                            ExitIds
  <1>2. IsFiniteSet(0..MaxPosition)
    BY FS_Interval, BoundsAssumption
  <1>3. \A x : IsFiniteSet({x})
    BY FS_Singleton
  <1>4. IsFiniteSet(NextGens)
    BY <1>3, FS_EmptySet DEF NextGens
  <1> QED BY <1>1, <1>2, <1>4, FS_Subset

\* What follows for the broker's position.
LEMMA SoldFewer ==
    ASSUME SoldInv, ~ClosedTwice
    PROVE  BrokerPosition >= 0
  <1>1. ASSUME NEW o \in Sold PROVE o \in ExitIds \ Closes /\ o.gen \in SellGens
    <2>1. o \in OrderIds /\ Traded(o) /\ ord[o].side = -1
      BY DEF Sold, Traded
    <2>2. o \notin Closes /\ o \in ExitIds
      BY <2>1 DEF ClosedTwice, SoldInv, OrderInv
    <2>3. ord[o].st # "absent"
      BY <2>1 DEF SoldInv, OrderInv, Traded
    <2> QED BY <2>1, <2>2, <2>3 DEF SellGens
  <1> DEFINE f == [o \in Sold |-> o.gen]
  <1>2. f \in Injection(Sold, SellGens)
    <2>1. ASSUME NEW o \in Sold, NEW p \in Sold, o.gen = p.gen PROVE o = p
      <3>1. Traded(o) /\ Traded(p) /\ o \in ExitIds /\ p \in ExitIds
        BY <1>1 DEF Sold, Traded
      <3> QED BY <2>1, <3>1 DEF ClosedTwice
    <2>2. f \in [Sold -> SellGens]
      BY <1>1
    <2>3. \A o, p \in Sold : f[o] = f[p] => o = p
      BY <2>1
    <2> HIDE DEF f
    <2> QED BY <2>2, <2>3 DEF Injection, IsInjective
  <1>3. IsFiniteSet(SellGens)
    BY GensFinite DEF SoldInv
  <1>4. Cardinality(Sold) <= Cardinality(SellGens)
    BY <1>2, <1>3, FS_Injection
  <1>5. PICK b \in Seq(Deal), m \in Seq(Deal) : Built(b, m)
    BY DEF SoldInv, BuiltInv
  <1>6. /\ Cardinality(SellGens) <= Earlier + Cap(b)
        /\ Begins(b, m) /\ Begins(m, deals) /\ deals \in Seq(Deal)
    BY <1>5 DEF Built, SoldInv, CountInv
  <1>7. Cap(b) \in Nat /\ Cap(b) <= Cap(m) /\ Cap(m) \in Nat
        /\ Cap(m) <= Cap(deals) /\ Cap(deals) \in Nat
        /\ Cap(deals) <= Buys(deals) /\ Buys(deals) \in Nat
    <2>1. Cap(b) \in Nat /\ Cap(b) <= Cap(m)
      BY <1>6, CapFacts
    <2>2. Cap(m) \in Nat /\ Cap(m) <= Cap(deals) /\ Cap(deals) <= Buys(deals)
      BY <1>6, CapFacts
    <2>3. Buys(deals) \in Nat /\ Sells(deals) \in Nat
      BY <1>6, NetFacts
    <2> QED BY <2>1, <2>2, <2>3 DEF Cap
  <1>8. /\ Cardinality(Sold) \in Nat /\ Cardinality(Bought) \in Nat
        /\ Cardinality(SellGens) \in Nat
        /\ BrokerPosition = Cardinality(Bought) - Cardinality(Sold)
    BY <1>3, FS_CardinalityType DEF SoldInv, CountInv
  <1> QED BY <1>4, <1>6, <1>7, <1>8 DEF Earlier

------------------------------------------------------------------------------
(* Orders *)

\* No order trades, no order changes its side or appears.
OrdersKept ==
    /\ OrderInv'
    /\ Bought' = Bought /\ Sold' = Sold
    /\ \A o \in OrderIds : /\ ord'[o].side = ord[o].side
                           /\ ord'[o].st = "absent" <=> ord[o].st = "absent"

\* Only the states of order rows change, to states that fit the broker's.
LEMMA KeptStep ==
    ASSUME OrderInv,
           ord' \in [OrderIds -> [st : OrderState, side : -1..1]],
           bro' \in [OrderIds -> {"none", "working"} \cup Done],
           queue' \in Seq(OrderIds),
           \A i \in 1..Len(queue') : ord'[queue'[i]].st = "pending",
           \A i, j \in 1..Len(queue') : queue'[i] = queue'[j] => i = j,
           \A o \in OrderIds :
              /\ ord'[o].st \in {"absent", "pending", "blocked"}
                    => bro'[o] = "none"
              /\ ord'[o].side = ord[o].side
              /\ ord'[o].st = "absent" <=> ord[o].st = "absent"
              /\ bro'[o] = "filled" <=> bro[o] = "filled"
    PROVE  OrdersKept
  <1>1. Bought' = Bought /\ Sold' = Sold
    BY DEF Bought, Sold
  <1>2. OrderInv'
    BY DEF OrderInv
  <1> QED BY <1>1, <1>2 DEF OrdersKept

\* Nothing happens to the orders.
LEMMA KeptOrders ==
    ASSUME OrderInv, UNCHANGED <<ord, queue, bro>>
    PROVE  OrdersKept
  BY DEF OrdersKept, OrderInv, Bought, Sold

\* claim_next and the broker's answer.
LEMMA DispatchOrders ==
    ASSUME OrderInv, Dispatch \/ BlockDispatch
    PROVE  OrdersKept
  <1> DEFINE h == Head(queue)
  <1>1. /\ queue # <<>> /\ queue \in Seq(OrderIds) /\ queue' = Tail(queue)
    BY DEF OrderInv, Dispatch, BlockDispatch
  <1>2. /\ h = queue[1] /\ h \in OrderIds /\ queue' \in Seq(OrderIds)
        /\ Len(queue) \in Nat \ {0} /\ Len(queue') = Len(queue) - 1
        /\ \A i \in 1..Len(queue') : queue'[i] = queue[i + 1]
    BY <1>1
  <1>3. ord[h].st = "pending" /\ bro[h] = "none"
    BY <1>2 DEF OrderInv
  <1>4. \A i \in 1..Len(queue') : ord[queue'[i]].st = "pending" /\ queue'[i] # h
    BY <1>2, SMTT(40) DEF OrderInv
  <1>5. ASSUME NEW i \in 1..Len(queue'), NEW j \in 1..Len(queue'),
               queue'[i] = queue'[j]
        PROVE  i = j
    <2>1. i + 1 \in 1..Len(queue) /\ j + 1 \in 1..Len(queue)
      BY <1>2
    <2>2. queue[i + 1] = queue[j + 1]
      BY <1>2, <1>5
    <2>3. i + 1 = j + 1
      BY <2>1, <2>2 DEF OrderInv
    <2> QED BY <1>2, <2>3
  <1>6. \E st \in OrderState \ {"absent", "pending"} :
           /\ ord' = [ord EXCEPT ![h].st = st]
           /\ \/ bro' = bro /\ st = "blocked"
              \/ /\ st # "blocked"
                 /\ \E b \in {"none", "ended", "working"} :
                       bro' = [bro EXCEPT ![h] = b]
    <2>1. CASE Dispatch
      <3>1. PICK b \in {"none", "ended", "working"}, lost \in BOOLEAN :
               /\ bro' = [bro EXCEPT ![h] = b]
               /\ ord' = [ord EXCEPT ![h].st =
                     IF lost THEN "unknown"
                     ELSE IF b = "ended" THEN "ended" ELSE "accepted"]
        BY <2>1 DEF Dispatch
      <3> DEFINE st == IF lost THEN "unknown"
                       ELSE IF b = "ended" THEN "ended" ELSE "accepted"
      <3>2. st \in OrderState \ {"absent", "pending"} /\ st # "blocked"
        BY DEF OrderState
      <3>3. ord' = [ord EXCEPT ![h].st = st]
        BY <3>1
      <3> HIDE DEF st, h
      <3> QED BY <3>1, <3>2, <3>3
    <2>2. CASE BlockDispatch
      BY <2>2 DEF BlockDispatch, OrderState, external
    <2> QED BY <2>1, <2>2
  <1> HIDE DEF h
  <1>7. PICK st \in OrderState \ {"absent", "pending"} :
           /\ ord' = [ord EXCEPT ![h].st = st]
           /\ \/ bro' = bro /\ st = "blocked"
              \/ /\ st # "blocked"
                 /\ \E b \in {"none", "ended", "working"} :
                       bro' = [bro EXCEPT ![h] = b]
    BY <1>6
  <1>8. /\ ord' \in [OrderIds -> [st : OrderState, side : -1..1]]
        /\ ord'[h].st = st
        /\ \A o \in OrderIds : /\ ord'[o].side = ord[o].side
                               /\ o # h => ord'[o] = ord[o]
    BY <1>2, <1>7 DEF OrderInv
  <1>9. /\ bro' \in [OrderIds -> {"none", "working"} \cup Done]
        /\ \A o \in OrderIds : o # h => bro'[o] = bro[o]
        /\ bro'[h] # "filled" /\ (st = "blocked" => bro'[h] = "none")
    BY <1>2, <1>3, <1>7 DEF OrderInv, Done
  <1>10. \A i \in 1..Len(queue') : ord'[queue'[i]].st = "pending"
    BY <1>2, <1>4, <1>8
  <1>11. ASSUME NEW o \in OrderIds
         PROVE  /\ ord'[o].st \in {"absent", "pending", "blocked"}
                      => bro'[o] = "none"
                /\ ord'[o].side = ord[o].side
                /\ ord'[o].st = "absent" <=> ord[o].st = "absent"
                /\ bro'[o] = "filled" <=> bro[o] = "filled"
    <2>1. CASE o = h
      BY <2>1, <1>3, <1>7, <1>8, <1>9
    <2>2. CASE o # h
      BY <2>2, <1>8, <1>9 DEF OrderInv
    <2> QED BY <2>1, <2>2
  <1> QED BY <1>2, <1>5, <1>8, <1>9, <1>10, <1>11, KeptStep

\* Refreshing rows from the broker, blocking what is queued at boot, and an
\* order the broker ends.
LEMMA RefreshOrders ==
    ASSUME OrderInv,
           \/ \E o \in OrderIds : Callback(o) \/ BrokerEnd(o)
           \/ CompleteReconcile
           \/ Compose
    PROVE  OrdersKept
  <1>1. CASE \E o \in OrderIds : Callback(o)
    <2>1. PICK o \in OrderIds : Callback(o)
      BY <1>1
    <2>2. /\ ord' = [ord EXCEPT ![o].st = bro[o]] /\ queue' = queue
          /\ bro' = bro /\ ord[o].st = "accepted" /\ bro[o] \in Done
      BY <2>1 DEF Callback, Finished, external
    <2>3. /\ ord' \in [OrderIds -> [st : OrderState, side : -1..1]]
          /\ ord'[o].st = bro[o]
          /\ \A q \in OrderIds : /\ ord'[q].side = ord[q].side
                                 /\ q # o => ord'[q] = ord[q]
      BY <2>2 DEF OrderInv, OrderState, Done
    <2>4. \A i \in 1..Len(queue) : queue[i] # o /\ queue[i] \in OrderIds
      BY <2>2 DEF OrderInv
    <2>5. \A i \in 1..Len(queue) : ord'[queue[i]].st = "pending"
      BY <2>3, <2>4 DEF OrderInv
    <2>6. \A q \in OrderIds :
             /\ ord'[q].st \in {"absent", "pending", "blocked"} => bro[q] = "none"
             /\ ord'[q].st = "absent" <=> ord[q].st = "absent"
      BY <2>2, <2>3 DEF OrderInv, Done
    <2> QED BY <2>2, <2>3, <2>5, <2>6, KeptStep DEF OrderInv
  <1>2. CASE \E o \in OrderIds : BrokerEnd(o)
    <2>1. PICK o \in OrderIds : BrokerEnd(o)
      BY <1>2
    <2>2. /\ ord' = ord /\ queue' = queue
          /\ bro' = [bro EXCEPT ![o] = "ended"] /\ bro[o] = "working"
      BY <2>1 DEF BrokerEnd, orders
    <2> QED BY <2>2, KeptStep DEF OrderInv, Done
  <1>3. CASE CompleteReconcile
    <2>1. /\ queue' = queue /\ bro' = bro
          /\ ord' = [o \in OrderIds |->
                IF Finished(o) THEN [ord[o] EXCEPT !.st = bro[o]] ELSE ord[o]]
      BY <1>3 DEF CompleteReconcile, external
    <2>2. ASSUME NEW o \in OrderIds
          PROVE  /\ ord'[o] \in [st : OrderState, side : -1..1]
                 /\ ord'[o].side = ord[o].side
                 /\ ord'[o].st = "absent" <=> ord[o].st = "absent"
                 /\ ord[o].st = "pending" => ord'[o].st = "pending"
                 /\ ord'[o].st \in {"absent", "pending", "blocked"}
                       => bro[o] = "none"
      <3>1. ord[o] \in [st : OrderState, side : -1..1]
        BY DEF OrderInv
      <3>2. CASE Finished(o)
        <4>1. /\ ord'[o] = [ord[o] EXCEPT !.st = bro[o]]
              /\ bro[o] \in Done /\ ord[o].st = "accepted"
          BY <2>1, <3>2 DEF Finished
        <4> QED BY <3>1, <4>1 DEF OrderState, Done
      <3>3. CASE ~Finished(o)
        BY <2>1, <3>1, <3>3 DEF OrderInv
      <3> QED BY <3>2, <3>3
    <2>3. ord' \in [OrderIds -> [st : OrderState, side : -1..1]]
      BY <2>1, <2>2
    <2>4. \A i \in 1..Len(queue) : ord'[queue[i]].st = "pending"
      BY <2>2 DEF OrderInv
    <2> QED BY <2>1, <2>2, <2>3, <2>4, KeptStep DEF OrderInv
  <1>4. CASE Compose
    <2>1. /\ queue' = <<>> /\ bro' = bro
          /\ ord' = [o \in OrderIds |->
                IF ord[o].st = "pending" THEN [ord[o] EXCEPT !.st = "blocked"]
                ELSE ord[o]]
      BY <1>4 DEF Compose, external
    <2>2. ASSUME NEW o \in OrderIds
          PROVE  /\ ord'[o] \in [st : OrderState, side : -1..1]
                 /\ ord'[o].side = ord[o].side
                 /\ ord'[o].st = "absent" <=> ord[o].st = "absent"
                 /\ ord'[o].st \in {"absent", "pending", "blocked"}
                       => bro[o] = "none"
      <3>1. ord[o] \in [st : OrderState, side : -1..1]
        BY DEF OrderInv
      <3> QED BY <2>1, <3>1 DEF OrderInv, OrderState
    <2>3. ord' \in [OrderIds -> [st : OrderState, side : -1..1]]
      BY <2>1, <2>2
    <2>4. queue' \in Seq(OrderIds) /\ Len(queue') = 0
      BY <2>1
    <2> QED BY <2>1, <2>2, <2>3, <2>4, KeptStep DEF OrderInv
  <1> QED BY <1>1, <1>2, <1>3, <1>4

\* A new order row, or the one that exists.
LEMMA ReserveOrders ==
    ASSUME OrderInv, NEW o \in OrderIds, NEW side \in {-1, 1},
           side = -1 => o \in Closes \cup ExitIds,
           Reserve(o, side), bro' = bro
    PROVE  /\ OrderInv' /\ Bought' = Bought /\ Sold' = Sold
           /\ \A q \in OrderIds : q # o => ord'[q] = ord[q]
           /\ ord'[o] = ord[o] \/ ord'[o].side = side
  <1>1. CASE ord[o].st # "absent"
    <2>1. UNCHANGED <<ord, queue>>
      BY <1>1 DEF Reserve, orders
    <2> QED BY <2>1, KeptOrders DEF OrdersKept
  <1>2. CASE ord[o].st = "absent"
    <2>1. /\ ord' = [ord EXCEPT ![o] = [st |-> "pending", side |-> side]]
          /\ queue' = Append(queue, o)
      BY <1>2 DEF Reserve
    <2>2. /\ ord' \in [OrderIds -> [st : OrderState, side : -1..1]]
          /\ ord'[o].st = "pending" /\ ord'[o].side = side
          /\ \A q \in OrderIds : q # o => ord'[q] = ord[q]
      BY <2>1 DEF OrderInv, OrderState
    <2>3. bro[o] = "none"
      BY <1>2 DEF OrderInv
    <2>4. Bought' = Bought /\ Sold' = Sold
      BY <2>2, <2>3 DEF Bought, Sold
    <2>5. /\ queue' \in Seq(OrderIds) /\ Len(queue') = Len(queue) + 1
          /\ Len(queue) \in Nat /\ queue'[Len(queue) + 1] = o
          /\ \A i \in 1..Len(queue) : queue'[i] = queue[i]
      BY <2>1 DEF OrderInv
    <2>6. \A i \in 1..Len(queue) : queue[i] # o /\ queue[i] \in OrderIds
      BY <1>2 DEF OrderInv
    <2>7. \A i \in 1..Len(queue') : ord'[queue'[i]].st = "pending"
      <3>1. \A i \in 1..Len(queue') : i \in 1..Len(queue) \/ i = Len(queue) + 1
        BY <2>5
      <3> QED BY <2>2, <2>5, <2>6, <3>1, SMTT(40) DEF OrderInv
    <2>8. ASSUME NEW i \in 1..Len(queue'), NEW j \in 1..Len(queue'),
                 queue'[i] = queue'[j]
          PROVE  i = j
      <3>1. \A k \in 1..Len(queue') : k \in 1..Len(queue) \/ k = Len(queue) + 1
        BY <2>5
      <3>2. CASE i \in 1..Len(queue) /\ j \in 1..Len(queue)
        BY <2>5, <2>8, <3>2 DEF OrderInv
      <3>3. CASE i = Len(queue) + 1 \/ j = Len(queue) + 1
        BY <2>5, <2>6, <2>8, <3>1, <3>3
      <3> QED BY <3>1, <3>2, <3>3
    <2>9. OrderInv'
      <3>1. ASSUME NEW q \in OrderIds
            PROVE  /\ ord'[q].st \in {"absent", "pending", "blocked"}
                         => bro[q] = "none"
                   /\ ord'[q].st # "absent" => ord'[q].side # 0
                   /\ ord'[q].side = -1 => q \in Closes \cup ExitIds
        <4>1. CASE q = o
          BY <4>1, <2>2, <2>3
        <4>2. CASE q # o
          BY <4>2, <2>2 DEF OrderInv
        <4> QED BY <4>1, <4>2
      <3>2. bro' \in [OrderIds -> {"none", "working"} \cup Done]
        BY DEF OrderInv
      <3> QED BY <2>2, <2>5, <2>7, <2>8, <3>1, <3>2 DEF OrderInv
    <2> QED BY <2>2, <2>4, <2>9
  <1> QED BY <1>1, <1>2

------------------------------------------------------------------------------
(* Requests and generations *)

\* A request that has ended, or has only been asked for.
LEMMA IdleFacts ==
    /\ IdleRequest \in RequestType /\ Requested(IdleRequest)
    /\ IdleRequest.pc = "idle"
    /\ Generated(NoPosition)
  BY BoundsAssumption DEF IdleRequest, RequestType, Requested, NoExit,
                          Generated, NoPosition

\* One request goes on.
LEMMA RequestStepInv ==
    ASSUME GenerationInv, NEW w \in Workers, NEW r \in RequestType,
           Requested(r), req' = [req EXCEPT ![w] = r],
           Generated(pos'), Generated(sync'.row)
    PROVE  /\ GenerationInv'
           /\ req'[w] = r
           /\ \A v \in Workers : v # w => req'[v] = req[v]
  <1>1. /\ req' \in [Workers -> RequestType] /\ req'[w] = r
        /\ \A v \in Workers : v # w => req'[v] = req[v]
    BY DEF GenerationInv
  <1>2. \A v \in Workers : Requested(req'[v])
    BY <1>1 DEF GenerationInv
  <1> QED BY <1>1, <1>2 DEF GenerationInv

\* The requests that hold the generation of one lot.
Holding(r) == r.pc \in {"got", "reserved"} /\ r.qty = 1

\* What is in SellGens, and what it takes to add nothing to a set.
LEMMA GensHold ==
    /\ \A y \in ExitIds \ Closes :
          ord[y].st # "absent" /\ ord[y].side = -1 => y.gen \in SellGens
    /\ \A w \in Workers : Holding(req[w]) => req[w].exit.gen \in SellGens
    /\ pos.qty = 1 => pos.gen \in SellGens
  BY DEF SellGens, Holding

LEMMA GensWithin ==
    ASSUME NEW G,
           \A y \in ExitIds \ Closes :
              ord'[y].st # "absent" /\ ord'[y].side = -1 => y.gen \in G,
           \A w \in Workers : Holding(req'[w]) => req'[w].exit.gen \in G,
           pos'.qty = 1 => pos'.gen \in G
    PROVE  SellGens' \subseteq G
  BY DEF SellGens, Holding

\* Orders that keep their sides add nothing.
LEMMA GensKept ==
    ASSUME OrdersKept, pos'.qty = pos.qty, pos'.gen = pos.gen,
           \A w \in Workers : Holding(req'[w]) => req'[w].exit.gen \in SellGens
    PROVE  SellGens' \subseteq SellGens
  <1>1. \A y \in ExitIds \ Closes :
           ord'[y].st # "absent" /\ ord'[y].side = -1 => y.gen \in SellGens
    BY GensHold DEF OrdersKept, OrderIds
  <1>2. pos'.qty = 1 => pos'.gen \in SellGens
    BY GensHold
  <1> QED BY <1>1, <1>2, GensWithin

\* The row changes in nothing that makes a generation.
SameRow == /\ pos'.qty = pos.qty /\ pos'.avg = pos.avg /\ pos'.gen = pos.gen
           /\ pos'.state = "absent" => pos.state = "absent"

\* b begins m and m begins ds.
LEMMA BeginsTrans ==
    ASSUME NEW b \in Seq(Deal), NEW m \in Seq(Deal), NEW ds \in Seq(Deal),
           Begins(b, m), Begins(m, ds)
    PROVE  Begins(b, ds)
  <1>1. Len(b) \in Nat /\ Len(m) \in Nat /\ Len(ds) \in Nat
    OBVIOUS
  <1> QED BY <1>1 DEF Begins

\* A smaller set of generations is not more of them.
LEMMA FewerGens ==
    ASSUME NEW A, NEW B, IsFiniteSet(B), A \subseteq B, NEW n \in Int,
           Cardinality(B) <= n
    PROVE  Cardinality(A) <= n
  <1>1. /\ Cardinality(A) <= Cardinality(B) /\ IsFiniteSet(A)
        /\ Cardinality(A) \in Nat /\ Cardinality(B) \in Nat
    BY FS_Subset, FS_CardinalityType
  <1> QED BY <1>1

\* The numbers in Built.
LEMMA BuiltTypes ==
    ASSUME CountInv, NEW b \in Seq(Deal)
    PROVE  Earlier \in Int /\ Cap(b) \in Nat /\ Earlier + Cap(b) \in Int
  <1>1. Cardinality(Bought) \in Nat
    BY FS_CardinalityType DEF CountInv
  <1>2. Buys(deals) \in Nat /\ Buys(b) \in Nat /\ Sells(b) \in Nat
    BY NetFacts DEF CountInv
  <1> QED BY <1>1, <1>2 DEF Earlier, Cap

\* Nothing trades, no row is built and no generation is added; the
\* synchronisation stays where it is or is not past its reconciliation.
LEMMA BuiltQuiet ==
    ASSUME GenerationInv, CountInv, BuiltInv, deals' = deals,
           Bought' = Bought, SameRow, SellGens' \subseteq SellGens,
           \/ sync' = sync /\ truth' = truth
           \/ sync'.pc \in {"idle", "reconcile"}
    PROVE  BuiltInv'
  <1>1. PICK b \in Seq(Deal), m \in Seq(Deal) : Built(b, m)
    BY DEF BuiltInv
  <1>2. Earlier' = Earlier
    BY DEF Earlier
  <1>3. IsFiniteSet(SellGens) /\ IsFiniteSet(SellGens \cup NextGens)
    BY GensFinite, FS_Union
  <1>4. Earlier + Cap(b) \in Int /\ Earlier + Cap(m) \in Int
    BY BuiltTypes
  <1>5. Cardinality(SellGens') <= Earlier + Cap(b)
    BY <1>1, <1>3, <1>4, FewerGens DEF Built
  <1>6. Net(b) = 1 => RowOf(pos', b)
    BY <1>1 DEF Built, RowOf, SameRow
  <1>7. CASE sync' = sync /\ truth' = truth
    <2>1. NextGens' \subseteq SellGens \cup NextGens
      <3>1. CASE sync.pc = "read"
        <4>0. PICK p : p = OpenPosition(truth.deals)
          OBVIOUS
        <4>1. NextGens = IF p.qty = 1 THEN {NextGeneration(p)} ELSE {}
          BY <3>1, <4>0 DEF NextGens
        <4>2. NextGens' = IF p.qty = 1 THEN {NextGeneration(p)'} ELSE {}
          BY <3>1, <1>7, <4>0 DEF NextGens
        <4>3. p.qty = 1 =>
                 \/ NextGeneration(p)' = NextGeneration(p)
                 \/ NextGeneration(p)' = pos.gen /\ pos.qty = 1
          BY DEF NextGeneration, SameRow
        <4> QED BY <4>1, <4>2, <4>3, GensHold
      <3>2. CASE sync.pc # "read"
        BY <3>2, <1>7 DEF NextGens
      <3> QED BY <3>1, <3>2
    <2>2. (SellGens \cup NextGens)' \subseteq SellGens \cup NextGens
      BY <2>1
    <2>3. Cardinality((SellGens \cup NextGens)') <= Earlier + Cap(m)
      BY <1>1, <1>3, <1>4, <2>2, FewerGens DEF Built
    <2>4. Built(b, m)'
      BY <1>1, <1>2, <1>5, <1>6, <1>7, <2>3 DEF Built, RowOf
    <2> QED BY <2>4 DEF BuiltInv
  <1>8. CASE sync'.pc \in {"idle", "reconcile"}
    <2>1. NextGens' = {}
      BY <1>8 DEF NextGens
    <2>2. (SellGens \cup NextGens)' = SellGens'
      BY <2>1
    <2>3. Begins(b, deals) /\ Begins(b, b)
      BY <1>1, BeginsTrans DEF Built, CountInv, Begins
    <2>4. Built(b, b)'
      BY <1>2, <1>5, <1>6, <1>8, <2>2, <2>3 DEF Built
    <2> QED BY <2>4 DEF BuiltInv
  <1> QED BY <1>7, <1>8

\* The counts stay when no order trades and no session ends.
LEMMA CountQuiet ==
    ASSUME CountInv, Bought' = Bought, Sold' = Sold, deals' = deals,
           carried' = carried, truth' = truth
    PROVE  CountInv'
  BY DEF CountInv, BrokerPosition

------------------------------------------------------------------------------
(* The steps, once more *)

\* A step that trades nothing, builds no row and lets no new request hold a
\* generation.
LEMMA QuietStep ==
    ASSUME SoldInv, IInv', OrdersKept, GenerationInv', SameRow,
           deals' = deals, carried' = carried, truth' = truth,
           sync' = sync \/ sync'.pc \in {"idle", "reconcile"},
           \A w \in Workers : Holding(req'[w]) => req'[w].exit.gen \in SellGens
    PROVE  SoldInv'
  <1>1. OrderInv' /\ Bought' = Bought /\ Sold' = Sold
    BY DEF OrdersKept
  <1>2. SellGens' \subseteq SellGens
    BY GensKept DEF SameRow
  <1>3. CountInv'
    BY <1>1, CountQuiet DEF SoldInv
  <1>4. BuiltInv'
    BY <1>1, <1>2, BuiltQuiet DEF SoldInv
  <1> QED BY <1>1, <1>3, <1>4 DEF SoldInv

\* A step of which the row, the requests and the deals see nothing.
LEMMA StillStep ==
    ASSUME SoldInv, IInv', OrdersKept, UNCHANGED <<pos, req, sync, truth>>,
           deals' = deals, carried' = carried
    PROVE  SoldInv'
  <1>1. GenerationInv' /\ SameRow
    BY DEF SoldInv, GenerationInv, SameRow, Generated
  <1>2. \A w \in Workers : Holding(req'[w]) => req'[w].exit.gen \in SellGens
    BY GensHold
  <1> QED BY <1>1, <1>2, QuietStep

\* A step of a request that leaves the row's quantity and the orders alone.
LEMMA RequestMoves ==
    ASSUME SoldInv, IInv', NEW w \in Workers, NEW r \in RequestType,
           Requested(r), req' = [req EXCEPT ![w] = r], SameRow,
           Holding(r) => r.exit.gen \in SellGens,
           UNCHANGED <<ord, queue, bro, sync, truth>>,
           deals' = deals, carried' = carried
    PROVE  SoldInv'
  <1>1. Generated(pos') /\ Generated(sync'.row)
    BY DEF SoldInv, GenerationInv, Generated, SameRow
  <1>2. /\ GenerationInv' /\ req'[w] = r
        /\ \A v \in Workers : v # w => req'[v] = req[v]
    BY <1>1, RequestStepInv DEF SoldInv
  <1>3. \A v \in Workers : Holding(req'[v]) => req'[v].exit.gen \in SellGens
    BY <1>2, GensHold
  <1>4. OrdersKept
    BY KeptOrders DEF SoldInv
  <1> QED BY <1>2, <1>3, <1>4, QuietStep

\* The request of w ends.
LEMMA RequestEnds ==
    ASSUME SoldInv, IInv', NEW w \in Workers,
           req' = [req EXCEPT ![w] = IdleRequest], SameRow,
           UNCHANGED <<ord, queue, bro, sync, truth>>,
           deals' = deals, carried' = carried
    PROVE  SoldInv'
  <1>1. ~Holding(IdleRequest)
    BY IdleFacts DEF Holding
  <1> QED BY <1>1, IdleFacts, RequestMoves

\* request_exit is asked for.
LEMMA AskSold ==
    ASSUME SoldInv, IInv', NEW w \in Workers, NEW a \in Reasons, Ask(w, a)
    PROVE  SoldInv'
  <1>1. PICK i : i = IdleRequest
    OBVIOUS
  <1> DEFINE r == [i EXCEPT !.pc = "asked", !.reason = a]
  <1>2. i \in RequestType
    BY <1>1, IdleFacts
  <1>3. r \in RequestType /\ r.pc = "asked" /\ r.reason = a
    BY <1>2 DEF RequestType
  <1>4. req' = [req EXCEPT ![w] = r]
    BY <1>1 DEF Ask
  <1>5. Requested(r) /\ ~Holding(r)
    BY <1>3 DEF Requested, Holding
  <1>6. SameRow
    BY DEF Ask, SameRow
  <1> HIDE DEF r
  <1> QED BY <1>3, <1>4, <1>5, <1>6, RequestMoves DEF Ask, orders, external

\* store.get: the request holds the generation of the row it read.
LEMMA GetPositionSold ==
    ASSUME SoldInv, IInv', NEW w \in Workers, GetPosition(w)
    PROVE  SoldInv'
  <1>0. /\ SameRow /\ UNCHANGED <<ord, queue, bro, sync, truth>>
        /\ deals' = deals /\ carried' = carried
    BY DEF GetPosition, SameRow, orders, external
  <1>1. CASE req' = [req EXCEPT ![w] = IdleRequest]
    BY <1>0, <1>1, RequestEnds
  <1> DEFINE r == [pc |-> "got", reason |-> req[w].reason, qty |-> pos.qty,
                   exit |-> [gen |-> pos.gen, reason |-> req[w].reason]]
  <1>2. CASE req' = [req EXCEPT ![w] = r]
    <2>1. /\ req[w] \in RequestType /\ req[w].pc = "asked"
          /\ req[w].reason \in Reasons /\ Generated(pos)
      BY DEF GetPosition, SoldInv, GenerationInv, Requested
    <2>2. r \in RequestType
      BY <2>1 DEF RequestType, Generated
    <2>3. Requested(r)
      BY <2>1, BoundsAssumption DEF Requested, Generated, ExitIds
    <2>4. Holding(r) => r.exit.gen \in SellGens
      BY GensHold DEF Holding
    <2> HIDE DEF r
    <2> QED BY <1>0, <1>2, <2>2, <2>3, <2>4, RequestMoves
  <1> QED BY <1>1, <1>2 DEF GetPosition, Raise

\* reserve_exit: the row names the exit, its quantity stays.
LEMMA ReserveExitSold ==
    ASSUME SoldInv, IInv', NEW w \in Workers, ReserveExit(w)
    PROVE  SoldInv'
  <1>0. /\ UNCHANGED <<ord, queue, bro, sync, truth>>
        /\ deals' = deals /\ carried' = carried
    BY DEF ReserveExit, orders, external
  <1>1. SameRow
    <2>1. pos = [state |-> pos.state, qty |-> pos.qty, avg |-> pos.avg,
                 gen |-> pos.gen, exit |-> pos.exit, pending |-> pos.pending]
      BY DEF SoldInv, IInv, ShapeInv, IsRow
    <2>2. CASE pos' = pos
      BY <2>2 DEF SameRow
    <2>3. CASE pos' = [pos EXCEPT !.pending = req[w].reason]
      BY <2>1, <2>3 DEF SameRow
    <2>4. CASE pos' = [pos EXCEPT !.state = "exit_pending",
                                  !.exit = req[w].exit, !.pending = "none"]
      BY <2>1, <2>4 DEF SameRow
    <2> QED BY <2>2, <2>3, <2>4 DEF ReserveExit
  <1>2. CASE req' = [req EXCEPT ![w] = IdleRequest]
    BY <1>0, <1>1, <1>2, RequestEnds
  <1>3. CASE req' = [req EXCEPT ![w].pc = "reserved"]
    <2> DEFINE r == [req[w] EXCEPT !.pc = "reserved"]
    <2>1. req[w] \in RequestType /\ req[w].pc = "got" /\ Requested(req[w])
      BY DEF ReserveExit, SoldInv, GenerationInv
    <2>2. /\ r \in RequestType /\ r.pc = "reserved"
          /\ r.qty = req[w].qty /\ r.exit = req[w].exit
      BY <2>1 DEF RequestType
    <2>3. req' = [req EXCEPT ![w] = r]
      BY <1>3 DEF SoldInv, GenerationInv
    <2> HIDE DEF r
    <2>4. Requested(r) /\ (Holding(r) => Holding(req[w]))
      BY <2>1, <2>2 DEF Requested, Holding
    <2>5. Holding(r) => r.exit.gen \in SellGens
      BY <2>2, <2>4, GensHold
    <2> QED BY <1>0, <1>1, <2>2, <2>3, <2>4, <2>5, RequestMoves
  <1> QED BY <1>2, <1>3 DEF ReserveExit, Raise

\* release_exit.
LEMMA ReleaseExitSold ==
    ASSUME SoldInv, IInv', NEW w \in Workers, ReleaseExit(w)
    PROVE  SoldInv'
  <1>0. /\ UNCHANGED <<ord, queue, bro, sync, truth>>
        /\ deals' = deals /\ carried' = carried
        /\ req' = [req EXCEPT ![w] = IdleRequest]
    BY DEF ReleaseExit, Raise, orders, external
  <1>1. SameRow
    <2>1. pos = [state |-> pos.state, qty |-> pos.qty, avg |-> pos.avg,
                 gen |-> pos.gen, exit |-> pos.exit, pending |-> pos.pending]
      BY DEF SoldInv, IInv, ShapeInv, IsRow
    <2>2. CASE pos' = pos
      BY <2>2 DEF SameRow
    <2>3. CASE pos' = [pos EXCEPT !.state = "active", !.exit = NoExit]
      BY <2>1, <2>3 DEF SameRow
    <2> QED BY <2>2, <2>3 DEF ReleaseExit
  <1> QED BY <1>0, <1>1, RequestEnds

\* mark_order_unknown changes the state of the row only.
LEMMA MarkSold ==
    ASSUME SoldInv, IInv', MarkOrderUnknown
    PROVE  SoldInv'
  <1>0. /\ UNCHANGED <<ord, queue, bro, sync, truth, req>>
        /\ deals' = deals /\ carried' = carried
    BY DEF MarkOrderUnknown, orders, external
  <1>1. SameRow
    <2>1. pos = [state |-> pos.state, qty |-> pos.qty, avg |-> pos.avg,
                 gen |-> pos.gen, exit |-> pos.exit, pending |-> pos.pending]
      BY DEF SoldInv, IInv, ShapeInv, IsRow
    <2>2. CASE pos' = pos
      BY <2>2 DEF SameRow
    <2>3. CASE pos' = [pos EXCEPT !.state = "unknown"]
      BY <2>1, <2>3 DEF SameRow
    <2> QED BY <2>2, <2>3 DEF MarkOrderUnknown
  <1>2. OrdersKept
    BY <1>0, KeptOrders DEF SoldInv
  <1>3. GenerationInv'
    BY <1>0, <1>1 DEF SoldInv, GenerationInv, Generated, SameRow
  <1>4. \A v \in Workers : Holding(req'[v]) => req'[v].exit.gen \in SellGens
    BY <1>0, GensHold
  <1> QED BY <1>0, <1>1, <1>2, <1>3, <1>4, QuietStep

\* An order row is created: an entry buys, a close is not a guardian's exit,
\* an exit sells the generation its request holds.
LEMMA CreateSold ==
    ASSUME SoldInv, IInv', NEW o \in OrderIds, NEW side \in {-1, 1},
           side = -1 => o \in Closes \cup ExitIds, Reserve(o, side),
           side = -1 /\ o \notin Closes => o.gen \in SellGens,
           UNCHANGED <<pos, bro, sync, truth>>, deals' = deals,
           carried' = carried, GenerationInv',
           \A w \in Workers : Holding(req'[w]) => req'[w].exit.gen \in SellGens
    PROVE  SoldInv'
  <1>1. /\ OrderInv' /\ Bought' = Bought /\ Sold' = Sold
        /\ \A q \in OrderIds : q # o => ord'[q] = ord[q]
        /\ ord'[o] = ord[o] \/ ord'[o].side = side
    BY ReserveOrders DEF SoldInv
  <1>2. ASSUME NEW y \in ExitIds \ Closes, ord'[y].st # "absent",
               ord'[y].side = -1
        PROVE  y.gen \in SellGens
    <2>1. CASE ord'[y] = ord[y]
      BY <1>2, <2>1, GensHold
    <2>2. CASE y = o /\ ord'[o].side = side
      BY <1>2, <2>2
    <2> QED BY <1>1, <2>1, <2>2 DEF OrderIds
  <1>3. SellGens' \subseteq SellGens
    BY <1>2, GensHold, GensWithin
  <1>4. SameRow
    BY DEF SameRow
  <1>5. CountInv'
    BY <1>1, CountQuiet DEF SoldInv
  <1>6. BuiltInv'
    BY <1>1, <1>3, <1>4, BuiltQuiet DEF SoldInv
  <1> QED BY <1>1, <1>5, <1>6 DEF SoldInv

\* The manual orders.
LEMMA ManualSold ==
    ASSUME SoldInv, IInv',
           (\E e \in Entries : CreateEntry(e)) \/ (\E c \in Closes : CreateClose(c))
    PROVE  SoldInv'
  <1>0. /\ UNCHANGED <<pos, bro, sync, truth, req>>
        /\ deals' = deals /\ carried' = carried
    BY DEF CreateEntry, CreateClose, external
  <1>1. GenerationInv'
    BY <1>0 DEF SoldInv, GenerationInv, Generated
  <1>2. \A w \in Workers : Holding(req'[w]) => req'[w].exit.gen \in SellGens
    BY <1>0, GensHold
  <1>3. ASSUME NEW e \in Entries, CreateEntry(e) PROVE SoldInv'
    <2>1. e \in OrderIds /\ Reserve(e, 1)
      BY <1>3 DEF CreateEntry, OrderIds
    <2> QED BY <1>0, <1>1, <1>2, <2>1, CreateSold
  <1>4. ASSUME NEW c \in Closes, CreateClose(c) PROVE SoldInv'
    <2>1. /\ c \in OrderIds /\ Reserve(c, -truth.position)
          /\ -truth.position \in {-1, 1}
      BY <1>4 DEF CreateClose, OrderIds, Abs, SoldInv, CountInv
    <2> QED BY <1>0, <1>1, <1>2, <2>1, CreateSold
  <1> QED BY <1>3, <1>4

\* LiveOrderManager.create for the guardian's exit.
LEMMA CreateExitSold ==
    ASSUME SoldInv, IInv', NEW w \in Workers, CreateExit(w)
    PROVE  SoldInv'
  <1> DEFINE r == req[w]
             side == -Sign(r.qty)
  <1>0. /\ UNCHANGED <<pos, bro, sync, truth>>
        /\ deals' = deals /\ carried' = carried
        /\ req' = [req EXCEPT ![w] = IdleRequest]
        /\ Reserve(r.exit, side) /\ r.pc = "reserved" /\ Abs(r.qty) = 1
    BY DEF CreateExit, external
  <1>1. r \in RequestType /\ r.qty \in Int /\ Requested(r)
    BY DEF SoldInv, GenerationInv, RequestType
  <1>2. /\ side \in {-1, 1} /\ (side = -1 => r.qty = 1)
        /\ r.qty # 0
    <2>1. PICK q \in Int : q = r.qty
      BY <1>1
    <2>2. Abs(q) = 1 /\ side = -Sign(q)
      BY <1>0, <2>1
    <2> HIDE DEF r, side
    <2>3. q = 1 \/ q = -1
      BY <2>2 DEF Abs
    <2>4. Sign(1) = 1 /\ Sign(-1) = -1
      BY DEF Sign
    <2>5. CASE q = 1
      BY <2>1, <2>2, <2>4, <2>5
    <2>6. CASE q = -1
      BY <2>1, <2>2, <2>4, <2>6
    <2> QED BY <2>3, <2>5, <2>6
  <1>3. r.exit \in ExitIds /\ r.exit \in OrderIds
    BY <1>0, <1>1, <1>2 DEF Requested, OrderIds
  <1>4. side = -1 => r.exit.gen \in SellGens
    <2>1. side = -1 => Holding(req[w])
      BY <1>0, <1>2 DEF Holding
    <2> QED BY <2>1, GensHold
  <1>5. Generated(pos') /\ Generated(sync'.row)
    BY <1>0 DEF SoldInv, GenerationInv, Generated
  <1>6. /\ GenerationInv' /\ req'[w] = IdleRequest
        /\ \A v \in Workers : v # w => req'[v] = req[v]
    BY <1>0, <1>5, IdleFacts, RequestStepInv DEF SoldInv
  <1>7. \A v \in Workers : Holding(req'[v]) => req'[v].exit.gen \in SellGens
    BY <1>6, IdleFacts, GensHold DEF Holding
  <1> HIDE DEF r, side
  <1> QED BY <1>0, <1>2, <1>3, <1>4, <1>6, <1>7, CreateSold

\* A reconciliation that begins, fails or finds the account locked.
LEMMA RestartSyncSold ==
    ASSUME SoldInv, IInv', OrdersKept, UNCHANGED <<pos, req>>,
           deals' = deals, carried' = carried, truth'.deals \in Seq(Deal),
           truth'.position \in Int, sync'.pc \in {"idle", "reconcile"},
           Generated(sync'.row)
    PROVE  SoldInv'
  <1>1. OrderInv' /\ Bought' = Bought /\ Sold' = Sold
    BY DEF OrdersKept
  <1>2. GenerationInv' /\ SameRow
    BY DEF SoldInv, GenerationInv, SameRow, Generated
  <1>3. SellGens' \subseteq SellGens
    BY GensKept, GensHold
  <1>4. CountInv'
    BY <1>1 DEF SoldInv, CountInv, BrokerPosition
  <1>5. BuiltInv'
    BY <1>1, <1>2, <1>3, BuiltQuiet DEF SoldInv
  <1> QED BY <1>1, <1>2, <1>4, <1>5 DEF SoldInv

\* The saved deals are how the session has gone so far: if they end in a
\* position of one lot that was not built before, they have passed through
\* one more of those.
LEMMA SnapshotSold ==
    ASSUME SoldInv, IInv', OrdersKept, UNCHANGED <<pos, req>>,
           deals' = deals, carried' = carried,
           truth'.deals = deals, truth'.position \in Int,
           sync'.pc = "read", sync'.row = sync.row
    PROVE  SoldInv'
  <1>1. OrderInv' /\ Bought' = Bought /\ Sold' = Sold
    BY DEF OrdersKept
  <1>2. GenerationInv'
    BY DEF SoldInv, GenerationInv, Generated
  <1>3. SellGens' \subseteq SellGens
    BY GensKept, GensHold
  <1>4. CountInv'
    BY <1>1 DEF SoldInv, CountInv, BrokerPosition
  <1>5. PICK b \in Seq(Deal), m \in Seq(Deal) : Built(b, m)
    BY DEF SoldInv, BuiltInv
  <1>6. deals \in Seq(Deal) /\ Begins(b, deals) /\ Begins(deals, deals)
    BY <1>5, BeginsTrans DEF Built, SoldInv, CountInv, Begins
  <1>7. Earlier' = Earlier
    BY <1>1 DEF Earlier
  <1>8. /\ IsFiniteSet(SellGens) /\ Earlier \in Int
        /\ Cap(b) \in Nat /\ Cap(deals) \in Nat
        /\ Cardinality(SellGens) \in Nat
    BY <1>6, GensFinite, BuiltTypes, FS_CardinalityType DEF SoldInv
  <1>9. /\ Cap(b) <= Cap(deals)
        /\ Net(deals) = 1 /\ b # deals => Cap(b) < Cap(deals)
        /\ OpenPosition(deals).qty = Net(deals)
    BY <1>6, CapFacts, NetFacts
  <1>10. Cardinality(SellGens) <= Earlier + Cap(b)
    BY <1>5 DEF Built
  <1>11. Cardinality(SellGens') <= Earlier + Cap(b)
    BY <1>3, <1>8, <1>10, FewerGens
  <1>12. PICK p : p = OpenPosition(deals)
    OBVIOUS
  <1>13. NextGens' = IF p.qty = 1 THEN {NextGeneration(p)} ELSE {}
    BY <1>12 DEF NextGens, NextGeneration
  <1>14. Cardinality((SellGens \cup NextGens)') <= Earlier + Cap(deals)
    <2>1. CASE p.qty # 1
      <3>1. (SellGens \cup NextGens)' \subseteq SellGens
        BY <1>3, <1>13, <2>1
      <3>2. Cardinality(SellGens) <= Earlier + Cap(deals)
        BY <1>8, <1>9, <1>10
      <3> QED BY <3>1, <3>2, <1>8, FewerGens
    <2>2. CASE p.qty = 1 /\ b = deals
      <3>1. RowOf(pos, b)
        BY <1>5, <1>9, <1>12, <2>2 DEF Built
      <3>2. NextGeneration(p) = pos.gen
        BY <3>1, <1>12, <2>2 DEF RowOf, NextGeneration, SameAverage
      <3>3. pos.gen \in SellGens
        BY <3>1, GensHold DEF RowOf
      <3>4. (SellGens \cup NextGens)' \subseteq SellGens
        BY <1>3, <1>13, <3>2, <3>3
      <3> QED BY <3>4, <2>2, <1>8, <1>10, FewerGens
    <2>3. CASE p.qty = 1 /\ b # deals
      <3> DEFINE G == SellGens \cup {NextGeneration(p)}
      <3>1. (SellGens \cup NextGens)' \subseteq G
        BY <1>3, <1>13
      <3>2. IsFiniteSet(G) /\ Cardinality(G) <= Cardinality(SellGens) + 1
        <4>1. CASE NextGeneration(p) \in SellGens
          <5>1. G = SellGens
            BY <4>1
          <5> HIDE DEF G
          <5> QED BY <1>8, <5>1
        <4>2. CASE NextGeneration(p) \notin SellGens
          <5>1. PICK g : g = NextGeneration(p)
            OBVIOUS
          <5>2. /\ IsFiniteSet(SellGens \cup {g})
                /\ Cardinality(SellGens \cup {g}) = Cardinality(SellGens) + 1
            BY <1>8, <4>2, <5>1, FS_AddElement
          <5> QED BY <1>8, <5>1, <5>2
        <4> QED BY <4>1, <4>2
      <3>3. Cardinality(G) \in Nat
        BY <3>2, FS_CardinalityType
      <3>4. Cap(b) < Cap(deals)
        BY <1>9, <1>12, <2>3
      <3> HIDE DEF G
      <3>5. Cardinality(G) <= Earlier + Cap(deals)
        BY <1>8, <1>10, <3>2, <3>3, <3>4
      <3> QED BY <3>1, <3>2, <3>5, <1>8, FewerGens
    <2> QED BY <2>1, <2>2, <2>3
  <1>15. Built(b, deals)'
    <2>1. Net(b) = 1 => RowOf(pos', b)
      BY <1>5 DEF Built, RowOf
    <2> QED BY <1>6, <1>7, <1>11, <1>14, <2>1 DEF Built
  <1>16. BuiltInv'
    BY <1>6, <1>15 DEF BuiltInv
  <1> QED BY <1>1, <1>2, <1>4, <1>16 DEF SoldInv

\* The steps of a reconciliation, up to the guardian's part of it.
LEMMA ReconcileSold ==
    ASSUME SoldInv, IInv', BeginReconcile \/ CompleteReconcile \/ FailReconcile
    PROVE  SoldInv'
  <1>1. CASE BeginReconcile \/ FailReconcile
    <2>1. /\ UNCHANGED <<ord, queue, bro, pos, req, truth>>
          /\ deals' = deals /\ carried' = carried
      BY <1>1 DEF BeginReconcile, FailReconcile, orders, external
    <2>2. sync'.pc \in {"idle", "reconcile"} /\ sync'.row = NoPosition
      <3>1. CASE FailReconcile
        BY <3>1 DEF FailReconcile, IdleSync
      <3>2. CASE BeginReconcile
        BY <3>2 DEF BeginReconcile, IdleSync
      <3> QED BY <1>1, <3>1, <3>2
    <2>3. OrdersKept
      BY <2>1, KeptOrders DEF SoldInv
    <2>4. Generated(sync'.row)
      BY <2>2, IdleFacts
    <2> QED BY <2>1, <2>2, <2>3, <2>4, RestartSyncSold DEF SoldInv, CountInv
  <1>2. CASE CompleteReconcile
    <2>1. /\ UNCHANGED <<pos, req>> /\ deals' = deals /\ carried' = carried
          /\ truth' = [deals |-> deals, position |-> BrokerPosition]
      BY <1>2 DEF CompleteReconcile, external
    <2>2. truth'.deals = deals /\ truth'.position = BrokerPosition
      BY <2>1
    <2>3. deals \in Seq(Deal) /\ BrokerPosition \in Int
      BY NetFacts DEF BrokerPosition, SoldInv, CountInv
    <2>4. OrdersKept
      BY <1>2, RefreshOrders DEF SoldInv
    <2>5. CASE sync' = IdleSync
      <3>1. sync'.pc = "idle" /\ Generated(sync'.row)
        BY <2>5, IdleFacts DEF IdleSync
      <3> QED BY <2>1, <2>2, <2>3, <2>4, <3>1, RestartSyncSold
    <2>6. CASE sync' = [sync EXCEPT !.pc = "read"]
      <3>1. sync'.pc = "read" /\ sync'.row = sync.row
        BY <2>6 DEF SoldInv, IInv, ShapeInv
      <3> QED BY <2>1, <2>2, <2>3, <2>4, <3>1, SnapshotSold
    <2> QED BY <1>2, <2>5, <2>6 DEF CompleteReconcile
  <1> QED BY <1>1, <1>2

\* synchronize() up to its write.
LEMMA SyncReadSold ==
    ASSUME SoldInv, IInv', SyncRead
    PROVE  SoldInv'
  <1>0. /\ UNCHANGED <<ord, queue, bro, req, truth>>
        /\ deals' = deals /\ carried' = carried /\ sync.pc = "read"
    BY DEF SyncRead, orders, external
  <1>1. OrdersKept
    BY <1>0, KeptOrders DEF SoldInv
  <1>2. OrderInv' /\ Bought' = Bought /\ Sold' = Sold
    BY <1>1 DEF OrdersKept
  <1>3. CountInv'
    BY <1>0, <1>2, CountQuiet DEF SoldInv
  <1>4. PICK b \in Seq(Deal), m \in Seq(Deal) : Built(b, m)
    BY DEF SoldInv, BuiltInv
  <1>5. PICK p : p = OpenPosition(truth.deals)
    OBVIOUS
  <1>6. /\ m = <<>> \/ m = truth.deals
        /\ Begins(b, m) /\ Begins(m, deals) /\ Begins(m, m)
        /\ Cardinality(SellGens) <= Earlier + Cap(b)
        /\ Cardinality(SellGens \cup NextGens) <= Earlier + Cap(m)
        /\ NextGens = IF p.qty = 1 THEN {NextGeneration(p)} ELSE {}
    BY <1>0, <1>4, <1>5 DEF Built, NextGens, Begins
  <1>6a. p.qty = Net(truth.deals) /\ p.qty \in Int
    <2>1. truth.deals \in Seq(Deal)
      BY DEF SoldInv, CountInv
    <2>2. /\ OpenPosition(truth.deals).qty = Net(truth.deals)
          /\ Net(truth.deals) \in Int
      BY <2>1, NetFacts
    <2> QED BY <1>5, <2>2
  <1>7. Net(m) = 1 => m = truth.deals /\ p.qty = 1
    BY <1>6, <1>6a, EmptyFacts
  <1>8. Earlier' = Earlier
    BY <1>0, <1>2 DEF Earlier
  <1>9. /\ IsFiniteSet(SellGens) /\ IsFiniteSet(SellGens \cup NextGens)
        /\ Earlier + Cap(m) \in Int /\ Earlier + Cap(b) \in Int
    BY GensFinite, FS_Union, BuiltTypes DEF SoldInv
  <1>10. CASE /\ p.qty = 0 /\ sync' = IdleSync
              /\ (pos' = pos \/ pos' = Flat(pos))
    <2>1. /\ pos'.gen = pos.gen /\ pos'.avg = pos.avg
          /\ pos'.qty = pos.qty \/ pos'.qty = 0
      <3>1. pos = [state |-> pos.state, qty |-> pos.qty, avg |-> pos.avg,
                   gen |-> pos.gen, exit |-> pos.exit, pending |-> pos.pending]
        BY DEF SoldInv, IInv, ShapeInv, IsRow
      <3> QED BY <1>10, <3>1 DEF Flat
    <2>2. sync'.pc = "idle" /\ Generated(sync'.row)
      BY <1>10, IdleFacts DEF IdleSync
    <2>3. GenerationInv'
      BY <1>0, <2>1, <2>2 DEF SoldInv, GenerationInv, Generated
    <2>4. SellGens' \subseteq SellGens
      <3>1. \A y \in ExitIds \ Closes :
               ord'[y].st # "absent" /\ ord'[y].side = -1 => y.gen \in SellGens
        BY <1>0, GensHold
      <3>2. pos'.qty = 1 => pos'.gen \in SellGens
        BY <2>1, GensHold
      <3> QED BY <1>0, <3>1, <3>2, GensHold, GensWithin
    <2>5. NextGens' = {}
      BY <2>2 DEF NextGens
    <2>6. (SellGens \cup NextGens)' \subseteq SellGens \cup NextGens
      BY <2>4, <2>5
    <2>7. /\ Cardinality(SellGens') <= Earlier + Cap(m)
          /\ Cardinality((SellGens \cup NextGens)') <= Earlier + Cap(m)
      BY <1>6, <1>9, <2>4, <2>6, FewerGens
    <2>8. Net(m) # 1
      BY <1>7, <1>10
    <2>9. Built(m, m)'
      BY <1>0, <1>6, <1>8, <2>2, <2>7, <2>8 DEF Built
    <2> QED BY <1>2, <1>3, <2>3, <2>9 DEF SoldInv, BuiltInv
  <1>11. CASE /\ p.qty # 0 /\ NextGeneration(p) <= MaxPosition
              /\ \E c \in BOOLEAN :
                    sync' = [pc |-> "write", row |-> Rebuilt(p), clean |-> c]
              /\ pos' = pos
    <2>1. sync'.pc = "write" /\ sync'.row = Rebuilt(p)
      BY <1>11
    <2>2. /\ Rebuilt(p).qty = p.qty /\ Rebuilt(p).state # "absent"
          /\ Rebuilt(p).avg = p.avg /\ Rebuilt(p).gen = NextGeneration(p)
      <3>1. Rebuilt(p).qty = p.qty /\ Rebuilt(p).state # "absent"
        BY RebuiltFacts DEF SoldInv, IInv, RankInv
      <3> QED BY <3>1 DEF Rebuilt
    <2>3. Generated(sync'.row)
      <3>1. p.qty \in Int
        BY <1>5, <1>6a
      <3>2. NextGeneration(p) \in 1..MaxPosition
        BY <1>11, BoundsAssumption
           DEF NextGeneration, SoldInv, GenerationInv, Generated
      <3> QED BY <2>1, <2>2, <3>1, <3>2 DEF Generated
    <2>4. GenerationInv'
      BY <1>0, <1>11, <2>3 DEF SoldInv, GenerationInv, Generated
    <2>5. SellGens' \subseteq SellGens
      BY <1>0, <1>1, <1>11, GensKept, GensHold
    <2>6. NextGens' = NextGens
      BY <1>6, <2>1, <2>2 DEF NextGens
    <2>7. (SellGens \cup NextGens)' \subseteq SellGens \cup NextGens
      BY <2>5, <2>6
    <2>8. /\ Cardinality(SellGens') <= Earlier + Cap(b)
          /\ Cardinality((SellGens \cup NextGens)') <= Earlier + Cap(m)
      BY <1>6, <1>9, <2>5, <2>7, FewerGens
    <2>9. Net(m) = 1 => RowOf(sync'.row, m)
      BY <1>5, <1>7, <2>1, <2>2 DEF RowOf
    <2>10. Net(b) = 1 => RowOf(pos', b)
      BY <1>4, <1>11 DEF Built, RowOf
    <2>11. Built(b, m)'
      BY <1>0, <1>6, <1>8, <2>1, <2>8, <2>9, <2>10 DEF Built
    <2> QED BY <1>2, <1>3, <2>4, <2>11 DEF SoldInv, BuiltInv
  <1>12. CASE sync' = IdleSync /\ pos' = pos
    <2>1. sync'.pc = "idle" /\ Generated(sync'.row)
      BY <1>12, IdleFacts DEF IdleSync
    <2> QED BY <1>0, <1>1, <1>12, <2>1, RestartSyncSold DEF SoldInv, CountInv
  <1>13. (p.qty = truth.position) \in BOOLEAN
    OBVIOUS
  <1> QED BY <1>5, <1>10, <1>11, <1>12, <1>13 DEF SyncRead

\* store.synchronize.
LEMMA SyncWriteSold ==
    ASSUME SoldInv, IInv', SyncWrite
    PROVE  SoldInv'
  <1>0. /\ UNCHANGED <<ord, queue, bro, req, truth>>
        /\ deals' = deals /\ carried' = carried /\ sync.pc = "write"
        /\ pos' = sync.row /\ sync' = IdleSync
    BY DEF SyncWrite, orders, external
  <1>1. OrderInv' /\ Bought' = Bought /\ Sold' = Sold
    BY <1>0, KeptOrders DEF SoldInv, OrdersKept
  <1>2. CountInv'
    BY <1>0, <1>1, CountQuiet DEF SoldInv
  <1>3. sync'.pc = "idle" /\ Generated(sync'.row)
    BY <1>0, IdleFacts DEF IdleSync
  <1>4. GenerationInv'
    BY <1>0, <1>3 DEF SoldInv, GenerationInv, Generated
  <1>5. PICK b \in Seq(Deal), m \in Seq(Deal) : Built(b, m)
    BY DEF SoldInv, BuiltInv
  <1>6. NextGens = IF sync.row.qty = 1 THEN {sync.row.gen} ELSE {}
    BY <1>0 DEF NextGens
  <1>7. SellGens' \subseteq SellGens \cup NextGens
    <2>1. \A y \in ExitIds \ Closes :
             ord'[y].st # "absent" /\ ord'[y].side = -1
                => y.gen \in SellGens \cup NextGens
      BY <1>0, GensHold
    <2>2. pos'.qty = 1 => pos'.gen \in SellGens \cup NextGens
      BY <1>0, <1>6
    <2>3. \A w \in Workers :
             Holding(req'[w]) => req'[w].exit.gen \in SellGens \cup NextGens
      BY <1>0, GensHold
    <2> QED BY <2>1, <2>2, <2>3, GensWithin
  <1>8. NextGens' = {}
    BY <1>3 DEF NextGens
  <1>9. (SellGens \cup NextGens)' = SellGens'
    BY <1>8
  <1>10. Earlier' = Earlier
    BY <1>0, <1>1 DEF Earlier
  <1>11. Cardinality(SellGens') <= Earlier + Cap(m)
    <2>1. IsFiniteSet(SellGens \cup NextGens) /\ Earlier + Cap(m) \in Int
      BY GensFinite, FS_Union, BuiltTypes DEF SoldInv
    <2> QED BY <1>5, <1>7, <2>1, FewerGens DEF Built
  <1>12. Built(m, m)'
    <2>1. Begins(m, deals) /\ Begins(m, m)
      BY <1>5 DEF Built, Begins
    <2>2. Net(m) = 1 => RowOf(pos', m)
      BY <1>0, <1>5 DEF Built, RowOf
    <2> QED BY <1>0, <1>3, <1>9, <1>10, <1>11, <2>1, <2>2 DEF Built
  <1> QED BY <1>1, <1>2, <1>4, <1>12 DEF SoldInv, BuiltInv

\* A fill: the broker's position and the deals of the session move together.
LEMMA FillSold ==
    ASSUME SoldInv, IInv', NEW o \in OrderIds, BrokerFill(o)
    PROVE  SoldInv'
  <1>0. /\ UNCHANGED <<ord, queue, pos, req, sync, truth>> /\ carried' = carried
        /\ bro[o] = "working" /\ bro' = [bro EXCEPT ![o] = "filled"]
    BY DEF BrokerFill, orders
  <1>1. ord[o].side \in {-1, 1}
    <2>1. ord[o].st # "absent" /\ ord[o] \in [st : OrderState, side : -1..1]
      BY <1>0 DEF SoldInv, OrderInv
    <2>2. ord[o].side # 0 /\ ord[o].side \in -1..1
      BY <2>1 DEF SoldInv, OrderInv
    <2> QED BY <2>2
  <1>2. PICK d \in Deal : deals' = Append(deals, d) /\ d.side = ord[o].side
    <2>1. PICK price \in Prices :
             deals' = Append(deals, [side |-> ord[o].side, price |-> price])
      BY DEF BrokerFill
    <2>2. [side |-> ord[o].side, price |-> price] \in Deal
      BY <1>1 DEF Deal
    <2> QED BY <2>1, <2>2
  <1>3. /\ deals \in Seq(Deal) /\ deals' \in Seq(Deal)
        /\ Buys(deals') = Buys(deals) + (IF d.side = 1 THEN 1 ELSE 0)
        /\ Net(deals') = Net(deals) + d.side
        /\ Begins(deals, deals')
        /\ Buys(deals) \in Nat /\ Net(deals) \in Int
    <2>1. deals \in Seq(Deal)
      BY DEF SoldInv, CountInv
    <2> QED BY <1>2, <2>1, AppendFacts, NetFacts
  <1>4. OrderInv'
    BY <1>0 DEF SoldInv, OrderInv, Done
  <1>5. GenerationInv'
    BY <1>0 DEF SoldInv, GenerationInv, Generated
  <1>6. o \notin Bought /\ o \notin Sold
    BY <1>0 DEF Bought, Sold
  <1>7. /\ Bought' = IF ord[o].side = 1 THEN Bought \cup {o} ELSE Bought
        /\ Sold' = IF ord[o].side = -1 THEN Sold \cup {o} ELSE Sold
    <2>1. \A q \in OrderIds : bro'[q] = "filled" <=> bro[q] = "filled" \/ q = o
      BY <1>0 DEF SoldInv, OrderInv
    <2> QED BY <1>0, <1>1, <2>1 DEF Bought, Sold
  <1>8. /\ IsFiniteSet(Bought) /\ IsFiniteSet(Sold) /\ carried \in Int
        /\ carried + Net(deals) = Cardinality(Bought) - Cardinality(Sold)
        /\ Cardinality(Bought) \in Nat /\ Cardinality(Sold) \in Nat
    BY FS_CardinalityType DEF SoldInv, CountInv, BrokerPosition
  <1>9. /\ IsFiniteSet(Bought') /\ IsFiniteSet(Sold')
        /\ Cardinality(Bought') =
              Cardinality(Bought) + (IF ord[o].side = 1 THEN 1 ELSE 0)
        /\ Cardinality(Sold') =
              Cardinality(Sold) + (IF ord[o].side = -1 THEN 1 ELSE 0)
    <2>1. /\ IsFiniteSet(Bought \cup {o}) /\ IsFiniteSet(Sold \cup {o})
          /\ Cardinality(Bought \cup {o}) = Cardinality(Bought) + 1
          /\ Cardinality(Sold \cup {o}) = Cardinality(Sold) + 1
      BY <1>6, <1>8, FS_AddElement
    <2> QED BY <1>7, <1>8, <2>1
  <1>10. CountInv'
    <2>0. BrokerPosition' = carried + (Net(deals) + ord[o].side)
      BY <1>0, <1>2, <1>3 DEF BrokerPosition
    <2>1. BrokerPosition' = Cardinality(Bought') - Cardinality(Sold')
      <3>1. CASE ord[o].side = 1
        BY <1>3, <1>8, <1>9, <2>0, <3>1
      <3>2. CASE ord[o].side = -1
        <4>1. /\ Cardinality(Bought') = Cardinality(Bought)
              /\ Cardinality(Sold') = Cardinality(Sold) + 1
          BY <1>8, <1>9, <3>2
        <4>2. BrokerPosition' = (carried + Net(deals)) - 1
          BY <1>3, <1>8, <2>0, <3>2
        <4> QED BY <1>3, <1>8, <4>1, <4>2
      <3> QED BY <1>1, <3>1, <3>2
    <2> QED BY <1>0, <1>3, <1>9, <2>1 DEF SoldInv, CountInv
  <1>11. Earlier' = Earlier
    BY <1>2, <1>3, <1>8, <1>9 DEF Earlier
  <1>12. PICK b \in Seq(Deal), m \in Seq(Deal) : Built(b, m)
    BY DEF SoldInv, BuiltInv
  <1>13. SellGens' = SellGens /\ NextGens' = NextGens
    BY <1>0 DEF SellGens, NextGens, NextGeneration
  <1>14. Begins(m, deals')
    BY <1>3, <1>12, BeginsTrans DEF Built
  <1>15. Built(b, m)'
    BY <1>0, <1>11, <1>12, <1>13, <1>14 DEF Built, RowOf
  <1> QED BY <1>4, <1>5, <1>10, <1>15 DEF SoldInv, BuiltInv

\* A new session: what was built belongs to an earlier one now.
LEMMA SessionSold ==
    ASSUME SoldInv, IInv', NewSession
    PROVE  SoldInv'
  <1>0. /\ UNCHANGED <<ord, queue, bro, pos, req, sync, truth>>
        /\ deals' = <<>> /\ carried' = BrokerPosition
    BY DEF NewSession, orders
  <1>1. OrderInv' /\ Bought' = Bought /\ Sold' = Sold
    BY <1>0, KeptOrders DEF SoldInv, OrdersKept
  <1>2. GenerationInv'
    BY <1>0 DEF SoldInv, GenerationInv, Generated
  <1>3. /\ deals \in Seq(Deal) /\ Net(deals) \in Int /\ Buys(deals) \in Nat
        /\ carried \in Int /\ BrokerPosition \in Int
    <2>1. deals \in Seq(Deal) /\ carried \in Int
      BY DEF SoldInv, CountInv
    <2>2. Net(deals) \in Int /\ Buys(deals) \in Nat
      BY <2>1, NetFacts
    <2> QED BY <2>1, <2>2 DEF BrokerPosition
  <1>4. BrokerPosition' = BrokerPosition
    BY <1>0, <1>3, EmptyFacts DEF BrokerPosition
  <1>5. CountInv'
    BY <1>0, <1>1, <1>3, <1>4, EmptyFacts DEF SoldInv, CountInv
  <1>6. PICK b \in Seq(Deal), m \in Seq(Deal) : Built(b, m)
    BY DEF SoldInv, BuiltInv
  <1>7. SellGens' = SellGens /\ NextGens' = NextGens
    BY <1>0 DEF SellGens, NextGens, NextGeneration
  <1>8. Cardinality(Bought) \in Nat
    BY FS_CardinalityType DEF SoldInv, CountInv
  <1>9. Earlier' = Cardinality(Bought)
    BY <1>0, <1>1, <1>8, EmptyFacts DEF Earlier
  <1>10. /\ Cap(b) \in Nat /\ Cap(m) \in Nat
         /\ Cap(b) <= Buys(deals) /\ Cap(m) <= Buys(deals)
    <2>1. Cap(b) \in Nat /\ Cap(b) <= Cap(m)
      BY <1>6, CapFacts DEF Built
    <2>2. Cap(m) \in Nat /\ Cap(m) <= Cap(deals) /\ Cap(deals) <= Buys(deals)
      BY <1>3, <1>6, CapFacts DEF Built
    <2>3. Cap(deals) \in Nat
      BY <1>3, BuiltTypes DEF SoldInv
    <2> QED BY <1>3, <2>1, <2>2, <2>3
  <1>11. /\ Earlier + Cap(b) <= Cardinality(Bought)
         /\ Earlier + Cap(m) <= Cardinality(Bought)
         /\ Earlier + Cap(b) \in Int /\ Earlier + Cap(m) \in Int
    BY <1>3, <1>8, <1>10 DEF Earlier
  <1>12. /\ Cardinality(SellGens) <= Cardinality(Bought)
         /\ Cardinality(SellGens \cup NextGens) <= Cardinality(Bought)
    <2>1. /\ Cardinality(SellGens) \in Nat
          /\ Cardinality(SellGens \cup NextGens) \in Nat
      BY GensFinite, FS_Union, FS_CardinalityType DEF SoldInv
    <2> QED BY <1>6, <1>8, <1>11, <2>1 DEF Built
  <1>13. Built(<<>>, <<>>)'
    <2>1. /\ Net(<<>>) # 1 /\ Cap(<<>>) = 0 /\ <<>> \in Seq(Deal)
          /\ Begins(<<>>, <<>>)
      BY EmptyFacts
    <2> QED BY <1>0, <1>7, <1>8, <1>9, <1>12, <2>1 DEF Built
  <1>14. BuiltInv'
    BY <1>13, EmptyFacts DEF BuiltInv
  <1> QED BY <1>1, <1>2, <1>5, <1>14 DEF SoldInv

\* The service dies, or a request of the API process does.
LEMMA CrashSold ==
    ASSUME SoldInv, IInv', Crash \/ ApiCrash
    PROVE  SoldInv'
  <1>1. /\ UNCHANGED <<ord, queue, bro, pos, truth>>
        /\ deals' = deals /\ carried' = carried
    BY DEF Crash, ApiCrash, orders, external
  <1>2. sync' = sync \/ sync' = IdleSync
    BY DEF Crash, ApiCrash
  <1>3. PICK w \in Workers : req' = [req EXCEPT ![w] = IdleRequest]
    BY DEF Crash, ApiCrash, Workers
  <1>4. Generated(pos') /\ Generated(sync'.row)
    BY <1>1, <1>2, IdleFacts DEF SoldInv, GenerationInv, Generated, IdleSync
  <1>5. sync' = sync \/ sync'.pc = "idle"
    BY <1>2 DEF IdleSync
  <1>6. /\ GenerationInv' /\ req'[w] = IdleRequest
        /\ \A v \in Workers : v # w => req'[v] = req[v]
    BY <1>3, <1>4, IdleFacts, RequestStepInv DEF SoldInv
  <1>7. \A v \in Workers : Holding(req'[v]) => req'[v].exit.gen \in SellGens
    BY <1>6, IdleFacts, GensHold DEF Holding
  <1>8. OrdersKept /\ SameRow
    BY <1>1, KeptOrders DEF SoldInv, SameRow
  <1> QED BY <1>1, <1>5, <1>6, <1>7, <1>8, QuietStep

\* Nothing was ordered, built or traded before the first boot.
LEMMA InitSold == Init => SoldInv
  <1> SUFFICES ASSUME Init PROVE SoldInv
    OBVIOUS
  <1>1. IInv
    BY InitIInv
  <1>2. OrderInv
    BY DEF Init, OrderInv, OrderState
  <1>3. GenerationInv
    BY IdleFacts DEF Init, GenerationInv, IdleSync
  <1>4. Bought = {} /\ Sold = {}
    BY DEF Init, Bought, Sold
  <1>5. IsFiniteSet({}) /\ Cardinality({}) = 0
    BY FS_EmptySet
  <1>6. CountInv
    BY <1>4, <1>5, EmptyFacts DEF Init, CountInv, BrokerPosition
  <1>7. SellGens = {} /\ NextGens = {}
    <2>1. /\ \A w \in Workers : req[w].pc = "idle"
          /\ \A y \in ExitIds : ord[y].st = "absent"
          /\ pos.qty = 0 /\ sync.pc = "idle"
      BY DEF Init, IdleRequest, IdleSync, NoPosition, OrderIds
    <2>2. {y \in ExitIds \ Closes : ord[y].st # "absent" /\ ord[y].side = -1} = {}
      BY <2>1
    <2>3. {w \in Workers : req[w].pc \in {"got", "reserved"} /\ req[w].qty = 1}
             = {}
      BY <2>1
    <2> QED BY <2>1, <2>2, <2>3 DEF SellGens, NextGens
  <1>8. Earlier = 0
    BY <1>4, <1>5, EmptyFacts DEF Init, Earlier
  <1>9. Built(<<>>, <<>>)
    <2>1. deals = <<>> /\ sync.pc = "idle"
      BY DEF Init, IdleSync
    <2>2. SellGens \cup NextGens = {}
      BY <1>7
    <2>3. /\ Net(<<>>) # 1 /\ Cap(<<>>) = 0 /\ Begins(<<>>, <<>>)
      BY EmptyFacts
    <2> QED BY <1>5, <1>7, <1>8, <2>1, <2>2, <2>3 DEF Built
  <1>10. BuiltInv
    BY <1>9, EmptyFacts DEF BuiltInv
  <1> QED BY <1>1, <1>2, <1>3, <1>6, <1>10 DEF SoldInv

\* Every action preserves the invariant.
LEMMA NextSold == SoldInv /\ [Next]_vars => SoldInv'
  <1> SUFFICES ASSUME SoldInv, [Next]_vars PROVE SoldInv'
    OBVIOUS
  <1>0. IInv'
    BY NextIInv DEF SoldInv
  <1>1. CASE Api
    <2>1. CASE ActivateFlatten
      <3>1. /\ UNCHANGED <<ord, queue, bro, pos, req, sync, truth>>
            /\ deals' = deals /\ carried' = carried
        BY <2>1 DEF ActivateFlatten, orders, external
      <3> QED BY <1>0, <3>1, KeptOrders, StillStep DEF SoldInv
    <2> QED BY <1>0, <1>1, <2>1, ManualSold, CrashSold DEF Api
  <1>2. CASE Guardian
    <2>1. CASE FlattenReview
      <3>1. /\ UNCHANGED <<ord, queue, bro, pos, req, sync, truth>>
            /\ deals' = deals /\ carried' = carried
        BY <2>1 DEF FlattenReview, orders, external
      <3> QED BY <1>0, <3>1, KeptOrders, StillStep DEF SoldInv
    <2>2. ASSUME NEW w \in Workers, RequestStep(w) PROVE SoldInv'
      BY <1>0, <2>2, GetPositionSold, ReserveExitSold, CreateExitSold,
         ReleaseExitSold DEF RequestStep
    <2>3. ASSUME NEW w \in Workers, NEW r \in Reasons, Ask(w, r) PROVE SoldInv'
      BY <1>0, <2>3, AskSold
    <2> QED BY <1>2, <2>1, <2>2, <2>3 DEF Guardian
  <1>3. CASE Dispatcher
    <2>1. CASE Dispatch \/ BlockDispatch
      <3>1. /\ UNCHANGED <<pos, req, sync, truth>>
            /\ deals' = deals /\ carried' = carried
        BY <2>1 DEF Dispatch, BlockDispatch, external
      <3> QED BY <1>0, <2>1, <3>1, DispatchOrders, StillStep DEF SoldInv
    <2>2. CASE LockUnknown
      <3>1. /\ UNCHANGED <<ord, queue, bro, pos, req, sync, truth>>
            /\ deals' = deals /\ carried' = carried
        BY <2>2 DEF LockUnknown, orders, external
      <3> QED BY <1>0, <3>1, KeptOrders, StillStep DEF SoldInv
    <2>3. ASSUME NEW o \in OrderIds, Callback(o) PROVE SoldInv'
      <3>1. /\ UNCHANGED <<pos, req, sync, truth>>
            /\ deals' = deals /\ carried' = carried
        BY <2>3 DEF Callback, external
      <3>2. OrdersKept
        BY <2>3, RefreshOrders DEF SoldInv
      <3> QED BY <1>0, <3>1, <3>2, StillStep
    <2> QED BY <1>0, <1>3, <2>1, <2>2, <2>3, MarkSold DEF Dispatcher
  <1>4. CASE Reconciler
    BY <1>0, <1>4, ReconcileSold, SyncReadSold, SyncWriteSold DEF Reconciler
  <1>5. CASE Broker
    <2>1. ASSUME NEW o \in OrderIds, BrokerEnd(o) PROVE SoldInv'
      <3>1. /\ UNCHANGED <<pos, req, sync, truth>>
            /\ deals' = deals /\ carried' = carried
        BY <2>1 DEF BrokerEnd
      <3>2. OrdersKept
        BY <2>1, RefreshOrders DEF SoldInv
      <3> QED BY <1>0, <3>1, <3>2, StillStep
    <2> QED BY <1>0, <1>5, <2>1, SessionSold, FillSold DEF Broker
  <1>6. CASE PersistLock \/ Start
    <2>1. /\ UNCHANGED <<ord, queue, bro, pos, req, sync, truth>>
          /\ deals' = deals /\ carried' = carried
      BY <1>6 DEF PersistLock, Start, orders, external
    <2> QED BY <1>0, <2>1, KeptOrders, StillStep DEF SoldInv
  <1>7. CASE Compose
    <2>1. /\ UNCHANGED <<pos, req, sync, truth>>
          /\ deals' = deals /\ carried' = carried
      BY <1>7 DEF Compose, external
    <2>2. OrdersKept
      BY <1>7, RefreshOrders DEF SoldInv
    <2> QED BY <1>0, <2>1, <2>2, StillStep
  <1>8. CASE UNCHANGED vars
    <2>1. /\ UNCHANGED <<ord, queue, bro, pos, req, sync, truth>>
          /\ deals' = deals /\ carried' = carried
      BY <1>8 DEF vars, orders, external
    <2> QED BY <1>0, <2>1, KeptOrders, StillStep DEF SoldInv
  <1> QED
    BY <1>0, <1>1, <1>2, <1>3, <1>4, <1>5, <1>6, <1>7, <1>8, CrashSold DEF Next

\* The broker's position is turned round only when two closes of one position
\* both trade: however often an exit is requested, reserved, released, lost or
\* found again, each generation of one lot was bought before, and exits of one
\* reason sell it once.
THEOREM ExitsOnlyReduce == Spec => []NeverReversed
  <1>1. SoldInv => NeverReversed
    <2> SUFFICES ASSUME SoldInv, ~ClosedTwice PROVE ~(BrokerPosition < 0)
      BY DEF NeverReversed, ClosedTwice
    <2>1. BrokerPosition >= 0
      BY SoldFewer
    <2>2. BrokerPosition \in Int
      <3>1. carried \in Int /\ deals \in Seq(Deal)
        BY DEF SoldInv, CountInv
      <3>2. Net(deals) \in Int
        BY <3>1, NetFacts
      <3> QED BY <3>1, <3>2 DEF BrokerPosition
    <2> QED BY <2>1, <2>2
  <1>2. QED BY <1>1, InitSold, NextSold, PTL DEF Spec
=============================================================================
