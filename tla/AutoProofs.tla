----------------------------- MODULE AutoProofs -----------------------------
(***************************************************************************)
(* Proofs about LiveAuto: the ARM of a runtime and the entries sent under  *)
(* it, for any runtimes, API threads, decisions and number of ARMs.        *)
(***************************************************************************)
EXTENDS LiveAuto, TLAPS

\* The row and the memory of the ARM, and the ids given out so far. An id is
\* never used twice: what comes next is larger than all that are in use.
ArmInv ==
    /\ opened \in Nat
    /\ arms \in [Runtimes -> 0..opened]
    /\ shared \in [id : 0..opened, by : Runtimes \cup {Manual, Nobody}]
    /\ shared.by \in Runtimes => shared.id # NoArm
    /\ ops \in [Threads -> [kind : OpKind, rt : Runtimes \cup {Nobody}]]
    /\ \A t \in Threads : ops[t].rt = Nobody => ops[t] = Idle
    /\ SharedArmBacked

\* An order, or a decision on its way to be one, carries an ARM that was
\* opened for its own runtime: while the row has that id, it is the
\* runtime's.
ConsentInv ==
    /\ orders \in [Decisions -> [state : OrderState, arm : 0..opened]]
    /\ \A d \in Decisions :
          orders[d].arm # NoArm /\ shared.id = orders[d].arm
              /\ shared.by \in Runtimes => shared.by = d[1]
    /\ \A d \in Decisions : orders[d].state \in {"pending", "claimed"}
                                => orders[d].arm # NoArm
    /\ route.stage = "idle" \/ route \in [stage : {"read", "approved", "admitted"},
                                          decision : Decisions, arm : 0..opened]
    /\ route.stage \in {"approved", "admitted"} =>
          /\ route.arm # NoArm
          /\ shared.id = route.arm /\ shared.by \in Runtimes
                => shared.by = route.decision[1]

\* The one market thread looks for a working entry before it approves one, and
\* nobody else makes any: a decision past that check finds none.
EntryInv ==
    /\ route.stage \in {"approved", "admitted"} => ~ActiveEntry
    /\ OneAutoEntry

AutoInv == ArmInv /\ ConsentInv /\ EntryInv

LEMMA AutoStart == Init => AutoInv
  <1> SUFFICES ASSUME Init PROVE AutoInv
    OBVIOUS
  <1> USE DEF Init, NoShared, NoArm, Idle, NoRoute
  <1>1. ArmInv
    BY RuntimesAssumption DEF ArmInv, SharedArmBacked, OpKind
  <1>2. ConsentInv
    BY DEF ConsentInv, OrderState
  <1>3. EntryInv
    BY DEF EntryInv, OneAutoEntry, Outstanding
  <1> QED
    BY <1>1, <1>2, <1>3 DEF AutoInv

\* _active_arm forgets only an ARM that the row no longer backs.
LEMMA CheckedFacts ==
    ASSUME ArmInv, NEW r \in Runtimes
    PROVE  /\ Checked(r) \in [Runtimes -> 0..opened]
           /\ shared.by \in Runtimes /\ shared.id \notin expired
                 /\ arms[shared.by] = shared.id
                 => Checked(r)[shared.by] = shared.id
  BY DEF ArmInv, Checked, ActiveArm, SharedActive, NoArm

\* A thread's step leaves the table of threads in shape.
OpsShape(o) == /\ o \in [Threads -> [kind : OpKind, rt : Runtimes \cup {Nobody}]]
               /\ \A u \in Threads : o[u].rt = Nobody => o[u] = Idle

LEMMA OpsFacts ==
    ASSUME ArmInv, NEW t \in Threads,
           \/ Finish(t)
           \/ \E k \in {"armed", "stopping", "status", "locking", "lock"} :
                 Step(t, k) /\ ops[t] # Idle
           \/ \E k \in {"arm", "disarm", "stop", "checking"}, r \in Runtimes :
                 ops' = [ops EXCEPT ![t] = [kind |-> k, rt |-> r]]
    PROVE  OpsShape(ops')
  <1> USE RuntimesAssumption DEF ArmInv, Idle, OpKind, OpsShape
  <1>1. CASE Finish(t)
    BY <1>1 DEF Finish
  <1>2. ASSUME NEW k \in {"armed", "stopping", "status", "locking", "lock"},
               Step(t, k), ops[t] # Idle
        PROVE  OpsShape(ops')
    BY <1>2 DEF Step
  <1>3. ASSUME NEW k \in {"arm", "disarm", "stop", "checking"}, NEW r \in Runtimes,
               ops' = [ops EXCEPT ![t] = [kind |-> k, rt |-> r]]
        PROVE  OpsShape(ops')
    BY <1>3
  <1> QED
    BY <1>1, <1>2, <1>3

LEMMA StepArm == AutoInv /\ [Next]_vars => ArmInv'
  <1> SUFFICES ASSUME ArmInv, ConsentInv, [Next]_vars PROVE ArmInv'
    BY DEF AutoInv
  <1> USE RuntimesAssumption DEF NoArm
  \* What no request of the API and no boot changes.
  <1>1. CASE UNCHANGED <<arms, shared, opened, ops, apiUp>> /\ expired \subseteq expired'
    BY <1>1 DEF ArmInv, SharedArmBacked
  <1>2. CASE UNCHANGED <<arms, shared, opened, expired, apiUp>>
             /\ \E t \in Threads, r \in Runtimes : ArmStart(t, r)
    BY <1>2, OpsFacts DEF OpsShape, ArmStart, Start, ArmInv, SharedArmBacked
  <1>3. ASSUME NEW t \in Threads, ArmOpen(t) PROVE ArmInv'
    <2>1. ops[t].rt \in Runtimes /\ ops[t] # Idle
      BY <1>3 DEF ArmOpen, ArmInv, Idle
    <2>2. CASE OtherArmed(ops[t].rt)
      BY <1>3, <2>2, OpsFacts DEF OpsShape, ArmOpen, ArmInv, SharedArmBacked
    <2>3. CASE ~OtherArmed(ops[t].rt)
      <3>1. /\ opened' = opened + 1 /\ Step(t, "armed")
            /\ arms' = [arms EXCEPT ![ops[t].rt] = opened + 1]
            /\ shared' = [id |-> opened + 1, by |-> ops[t].rt]
            /\ UNCHANGED <<expired, apiUp>>
        BY <1>3, <2>3 DEF ArmOpen
      <3>2. /\ opened' \in Nat /\ arms' \in [Runtimes -> 0..opened']
            /\ shared' \in [id : 0..opened', by : Runtimes \cup {Manual, Nobody}]
            /\ shared'.id # NoArm /\ arms'[shared'.by] = shared'.id
        BY <2>1, <3>1 DEF ArmInv
      <3> QED
        BY <2>1, <3>1, <3>2, OpsFacts DEF OpsShape, ArmInv, SharedArmBacked
    <2> QED
      BY <2>2, <2>3
  <1>4. ASSUME NEW t \in Threads, NEW r \in Runtimes, NEW k \in {"disarm", "stop"},
               DisarmStart(t, k, r)
        PROVE  ArmInv'
    <2>1. OpsShape(ops')
      BY <1>4, OpsFacts DEF DisarmStart, Start
    <2> QED
      BY <1>4, <2>1
         DEF DisarmStart, DisarmShared, NoShared, OpsShape, ArmInv, SharedArmBacked
  <1>5. ASSUME NEW t \in Threads, WriteStatus(t) PROVE ArmInv'
    <2>1. ops[t] # Idle
      BY <1>5 DEF WriteStatus, Written, Idle
    <2>2. Finish(t) \/ \E k \in {"armed", "stopping", "status"} : Step(t, k)
      BY <1>5 DEF WriteStatus, Written, After
    <2> QED
      BY <1>5, <2>1, <2>2, OpsFacts DEF OpsShape, WriteStatus, ArmInv, SharedArmBacked
  <1>6. ASSUME NEW t \in Threads, NEW r \in Runtimes, StatusRead(t, r)
        PROVE  ArmInv'
    <2>1. OpsShape(ops')
      BY <1>6, OpsFacts DEF StatusRead
    <2> QED
      BY <1>6, <2>1, CheckedFacts DEF StatusRead, OpsShape, ArmInv, SharedArmBacked
  <1>7. CASE ManualArm
    BY <1>7 DEF ManualArm, ArmInv, SharedArmBacked
  <1>8. CASE ManualDisarm
    BY <1>8 DEF ManualDisarm, DisarmShared, NoShared, ArmInv, SharedArmBacked
  <1>9. ASSUME NEW r \in Runtimes, arms' = Checked(r),
               UNCHANGED <<shared, opened, expired, ops, apiUp>>
        PROVE  ArmInv'
    BY <1>9, CheckedFacts DEF ArmInv, SharedArmBacked
  <1>10. CASE Expire
    BY <1>1, <1>10 DEF Expire
  <1>11. CASE ExecutorRestart
    BY <1>11 DEF ExecutorRestart, ClearArms, NoShared, ArmInv, SharedArmBacked
  <1>12. CASE ApiCrash
    BY <1>12 DEF ApiCrash, Idle, OpKind, ArmInv, SharedArmBacked
  <1>13. CASE ApiBoot
    BY <1>13 DEF ApiBoot, ClearArms, NoShared, ArmInv, SharedArmBacked
  <1>14. CASE ApproveEntry \/ AdmitEntry
    <2>1. route.decision[1] \in Runtimes
      BY <1>14 DEF ApproveEntry, AdmitEntry, ConsentInv, Decisions
    <2> QED
      BY <1>9, <1>14, <2>1 DEF ApproveEntry, AdmitEntry
  <1>15. ASSUME NEW d \in Decisions, ReadRuntime(d) \/ Claim(d) \/ Dispatch(d)
                                     \/ Answered(d)
         PROVE  ArmInv'
    BY <1>1, <1>15 DEF ReadRuntime, Claim, Dispatch, Answered
  <1>16. CASE ReserveEntry \/ Reconcile \/ LoseReady \/ UNCHANGED vars
    BY <1>1, <1>16 DEF ReserveEntry, Reconcile, LoseReady, vars
  <1>17. ASSUME NEW t \in Threads, NEW r \in Runtimes, ArmStart(t, r)
         PROVE  ArmInv'
    BY <1>2, <1>17 DEF ArmStart
  <1>18. ASSUME NEW t \in Threads, StatusCheck(t) PROVE ArmInv'
    <2>1. OpsShape(ops')
      BY <1>18, OpsFacts DEF StatusCheck, Idle
    <2> QED
      BY <1>18, <2>1 DEF StatusCheck, OpsShape, ArmInv, SharedArmBacked
  <1>19. ASSUME NEW t \in Threads, StatusLock(t) PROVE ArmInv'
    <2>1. OpsShape(ops')
      <3>1. Step(t, "lock") /\ ops[t] # Idle
        BY <1>19 DEF StatusLock, Idle
      <3> QED
        BY <3>1, OpsFacts
    <2>2. /\ shared' = NoShared /\ UNCHANGED <<opened, expired, apiUp>>
          /\ arms' = [arms EXCEPT ![ops[t].rt] = NoArm]
      BY <1>19 DEF StatusLock, DisarmShared
    <2>3. arms' \in [Runtimes -> 0..opened'] /\ opened' \in Nat
      <3>1. opened \in Nat /\ arms \in [Runtimes -> 0..opened] /\ NoArm \in 0..opened
        BY DEF ArmInv
      <3> HIDE DEF NoArm
      <3>2. [arms EXCEPT ![ops[t].rt] = NoArm] \in [Runtimes -> 0..opened]
        BY <3>1
      <3> QED
        BY <2>2, <3>1, <3>2
    <2> QED
      BY <2>1, <2>2, <2>3 DEF NoShared, OpsShape, ArmInv, SharedArmBacked
  <1> QED
    BY <1>3, <1>4, <1>5, <1>6, <1>7, <1>8, <1>10, <1>11, <1>12, <1>13, <1>14,
       <1>15, <1>16, <1>17, <1>18, <1>19 DEF Next

\* Consent survives whatever leaves the orders and the route alone, as long as
\* the row stays, goes, or takes an id that was never used.
LEMMA ConsentStays ==
    ASSUME ArmInv, ConsentInv, UNCHANGED <<orders, route>>,
           \/ UNCHANGED <<shared, opened>>
           \/ shared' = NoShared /\ UNCHANGED opened
           \/ shared'.id = opened + 1 /\ opened' = opened + 1
    PROVE  ConsentInv'
  <1> USE DEF NoShared, NoArm
  <1>1. opened \in Nat /\ opened' \in Nat /\ opened <= opened'
    BY DEF ArmInv
  <1>2. 0..opened \subseteq 0..opened'
    BY <1>1
  <1>3. /\ orders' \in [Decisions -> [state : OrderState, arm : 0..opened']]
        /\ \/ route'.stage = "idle"
           \/ route' \in [stage : {"read", "approved", "admitted"},
                          decision : Decisions, arm : 0..opened']
    BY <1>1, <1>2 DEF ConsentInv
  <1>4. \A d \in Decisions :
           orders'[d].arm # NoArm /\ shared'.id = orders'[d].arm
               /\ shared'.by \in Runtimes => shared'.by = d[1]
    BY <1>1, RuntimesAssumption DEF ConsentInv
  <1>5. route'.stage \in {"approved", "admitted"} =>
          /\ route'.arm # NoArm
          /\ shared'.id = route'.arm /\ shared'.by \in Runtimes
                => shared'.by = route'.decision[1]
    BY <1>1, RuntimesAssumption DEF ConsentInv
  <1> QED
    BY <1>3, <1>4, <1>5 DEF ConsentInv

\* Orders that only change their state keep their ARM.
LEMMA ConsentOfOrders ==
    ASSUME ConsentInv, UNCHANGED <<route, shared, opened>>,
           orders' \in [Decisions -> [state : OrderState, arm : 0..opened]],
           \A d \in Decisions :
              /\ orders'[d].arm = orders[d].arm
              /\ orders'[d].state \in {"pending", "claimed"}
                    => orders[d].state \in {"pending", "claimed"}
    PROVE  ConsentInv'
  BY DEF ConsentInv

LEMMA StepConsent == AutoInv /\ [Next]_vars => ConsentInv'
  <1> SUFFICES ASSUME ArmInv, ConsentInv, [Next]_vars PROVE ConsentInv'
    BY DEF AutoInv
  <1>1. ASSUME NEW t \in Threads, ArmOpen(t) PROVE ConsentInv'
    BY <1>1, ConsentStays DEF ArmOpen
  <1>2. ASSUME NEW t \in Threads, NEW r \in Runtimes,
               \/ ArmStart(t, r) \/ StatusRead(t, r)
               \/ DisarmStart(t, "disarm", r) \/ DisarmStart(t, "stop", r)
        PROVE  ConsentInv'
    BY <1>2, ConsentStays
       DEF ArmStart, StatusRead, DisarmStart, DisarmShared
  <1>3. ASSUME NEW t \in Threads, WriteStatus(t) \/ StatusCheck(t) \/ StatusLock(t)
        PROVE  ConsentInv'
    BY <1>3, ConsentStays DEF WriteStatus, StatusCheck, StatusLock, DisarmShared
  <1>4. CASE ManualArm \/ ManualDisarm
    BY <1>4, ConsentStays DEF ManualArm, ManualDisarm, DisarmShared
  <1>5. CASE LoseReady \/ Expire \/ ApiBoot \/ UNCHANGED vars
    BY <1>5, ConsentStays DEF LoseReady, Expire, ApiBoot, ClearArms, vars
  <1>6. ASSUME NEW d \in Decisions, ReadRuntime(d) PROVE ConsentInv'
    BY <1>6 DEF ReadRuntime, Refuse, NoRoute, NoArm, ConsentInv, ArmInv
  <1>7. CASE ApproveEntry
    <2>1. CASE Refuse(route.decision)
      BY <1>7, <2>1 DEF ApproveEntry, Refuse, NoRoute, ConsentInv
    <2>2. CASE /\ EntryAllowed(route.decision[1])
               /\ route' = [route EXCEPT !.stage = "approved",
                                         !.arm = ActiveArm(route.decision[1])]
      <3>1. route.decision \in Decisions /\ route.decision[1] \in Runtimes
        BY <1>7 DEF ApproveEntry, ConsentInv, Decisions
      <3>2. /\ ActiveArm(route.decision[1]) # NoArm
            /\ ActiveArm(route.decision[1]) \in 0..opened
            /\ shared.by = route.decision[1]
        BY <2>2, <3>1 DEF EntryAllowed, ActiveArm, ArmInv
      <3> QED
        BY <1>7, <2>2, <3>1, <3>2 DEF ApproveEntry, ConsentInv
    <2> QED
      BY <1>7, <2>1, <2>2 DEF ApproveEntry
  <1>8. CASE AdmitEntry
    BY <1>8 DEF AdmitEntry, Refuse, NoRoute, ConsentInv
  <1>9. CASE ReserveEntry
    <2>1. /\ route.decision \in Decisions /\ route.arm \in 0..opened
          /\ route.arm # NoArm
      BY <1>9 DEF ReserveEntry, ConsentInv
    <2> QED
      BY <1>9, <2>1 DEF ReserveEntry, NoRoute, OrderState, ConsentInv
  <1>10. ASSUME NEW d \in Decisions, Claim(d) \/ Dispatch(d) \/ Answered(d)
         PROVE  ConsentInv'
    <2>1. \/ \E s \in {"submitted", "blocked", "done", "unknown"} : SetOrder(d, s)
          \/ SetOrder(d, "claimed") /\ orders[d].state = "pending"
      BY <1>10 DEF Claim, Dispatch, Answered
    <2> QED
      BY <1>10, <2>1, ConsentOfOrders
         DEF Claim, Dispatch, Answered, SetOrder, OrderState, ConsentInv
  <1>11. CASE Reconcile
    BY <1>11, ConsentOfOrders DEF Reconcile, OrderState, ConsentInv
  <1>12. CASE ExecutorRestart
    <2>1. \A d \in Decisions :
             /\ Recovered(orders[d]) \in [state : OrderState, arm : 0..opened]
             /\ Recovered(orders[d]).arm = orders[d].arm
             /\ Recovered(orders[d]).state \notin {"pending", "claimed"}
      BY DEF Recovered, OrderState, ConsentInv
    <2> QED
      BY <1>12, <2>1, RuntimesAssumption
         DEF ExecutorRestart, ClearArms, NoShared, ConsentInv
  <1>13. CASE ApiCrash
    BY <1>13 DEF ApiCrash, NoRoute, ConsentInv
  <1> QED
    BY <1>1, <1>2, <1>3, <1>4, <1>5, <1>6, <1>7, <1>8, <1>9, <1>10, <1>11,
       <1>12, <1>13 DEF Next

\* An order that is outstanding was so before, unless it is the one reserved.
LEMMA EntryStays ==
    ASSUME EntryInv, route'.stage \in {"approved", "admitted"} =>
                         route.stage \in {"approved", "admitted"} \/ ~ActiveEntry,
           \A d \in Decisions : orders'[d].state \in Outstanding
                                   => orders[d].state \in Outstanding
    PROVE  EntryInv'
  <1>1. ActiveEntry' => ActiveEntry
    BY DEF ActiveEntry, Outstanding
  <1>2. OneAutoEntry'
    BY DEF EntryInv, OneAutoEntry, Outstanding
  <1> QED
    BY <1>1, <1>2 DEF EntryInv

LEMMA StepEntry == AutoInv /\ [Next]_vars => EntryInv'
  <1> SUFFICES ASSUME ConsentInv, EntryInv, [Next]_vars PROVE EntryInv'
    BY DEF AutoInv
  <1>1. CASE UNCHANGED <<orders, route>>
    BY <1>1, EntryStays
  <1>2. ASSUME NEW d \in Decisions, ReadRuntime(d) PROVE EntryInv'
    BY <1>2, EntryStays DEF ReadRuntime, Refuse, NoRoute
  <1>3. CASE ApproveEntry
    BY <1>3, EntryStays
       DEF ApproveEntry, Refuse, NoRoute, EntryAllowed, ConsentInv
  <1>4. CASE AdmitEntry
    BY <1>4, EntryStays DEF AdmitEntry, Refuse, NoRoute
  <1>5. CASE ReserveEntry
    <2>1. \A d \in Decisions : orders[d].state \notin Outstanding
      BY <1>5 DEF ReserveEntry, EntryInv, ActiveEntry, Outstanding
    <2>2. \A d \in Decisions : d # route.decision => orders'[d] = orders[d]
      BY <1>5 DEF ReserveEntry, ConsentInv
    <2>3. route'.stage = "idle"
      BY <1>5 DEF ReserveEntry, NoRoute
    <2> QED
      BY <2>1, <2>2, <2>3 DEF EntryInv, OneAutoEntry, Outstanding
  <1>6. ASSUME NEW d \in Decisions, Claim(d) \/ Dispatch(d) \/ Answered(d)
        PROVE  EntryInv'
    <2>1. /\ orders[d].state \in Outstanding /\ UNCHANGED route
          /\ \E s \in OrderState : SetOrder(d, s)
      BY <1>6 DEF Claim, Dispatch, Answered, Outstanding, OrderState
    <2> QED
      BY <2>1, EntryStays DEF SetOrder, ConsentInv
  <1>7. CASE Reconcile
    BY <1>7, EntryStays DEF Reconcile, ConsentInv, Outstanding
  <1>8. CASE ExecutorRestart
    <2>1. \A d \in Decisions : Recovered(orders[d]).state \in Outstanding
                                 => orders[d].state \in Outstanding
      BY DEF Recovered, Outstanding, ConsentInv
    <2> QED
      BY <1>8, <2>1, EntryStays DEF ExecutorRestart
  <1>9. CASE ApiCrash
    BY <1>9, EntryStays DEF ApiCrash, NoRoute
  <1>10. ASSUME NEW t \in Threads, NEW r \in Runtimes,
               \/ ArmStart(t, r) \/ StatusRead(t, r)
               \/ DisarmStart(t, "disarm", r) \/ DisarmStart(t, "stop", r)
         PROVE  EntryInv'
    BY <1>1, <1>10 DEF ArmStart, StatusRead, DisarmStart
  <1>11. ASSUME NEW t \in Threads,
                ArmOpen(t) \/ WriteStatus(t) \/ StatusCheck(t) \/ StatusLock(t)
         PROVE  EntryInv'
    BY <1>1, <1>11 DEF ArmOpen, WriteStatus, StatusCheck, StatusLock
  <1>12. CASE \/ ManualArm \/ ManualDisarm \/ LoseReady \/ Expire \/ ApiBoot
              \/ UNCHANGED vars
    BY <1>1, <1>12
       DEF ManualArm, ManualDisarm, LoseReady, Expire, ApiBoot, vars
  <1> QED
    BY <1>2, <1>3, <1>4, <1>5, <1>6, <1>7, <1>8, <1>9, <1>10, <1>11, <1>12
       DEF Next

\* The three parts of the invariant hold in every reachable state.
THEOREM AutoSafe == Spec => []AutoInv
  <1>1. AutoInv /\ [Next]_vars => AutoInv'
    BY StepArm, StepConsent, StepEntry DEF AutoInv
  <1> QED
    BY <1>1, AutoStart, PTL DEF Spec

\* An auto ARM in the database that can still admit an order is the one
\* LiveAutoService holds for that runtime (live_auto.py, arm, disarm, stop,
\* the operational lock; canary_repository.py), however requests interleave.
THEOREM ArmBacked == Spec => []SharedArmBacked
  <1>1. AutoInv => SharedArmBacked
    BY DEF AutoInv, ArmInv
  <1> QED
    BY <1>1, AutoSafe, PTL

\* At most one automatic entry of the account is outstanding
\* (live_auto.py, on_decision), over ARM sessions and restarts.
THEOREM SingleEntry == Spec => []OneAutoEntry
  <1>1. AutoInv => OneAutoEntry
    BY DEF AutoInv, EntryInv
  <1> QED
    BY <1>1, AutoSafe, PTL

\* An order is submitted only by Dispatch, whose gate asks for the order's own
\* ARM; that id can only be the ARM of the order's runtime.
LEMMA SubmitConsents ==
    AutoInv /\ [Next]_vars =>
        \A d \in Decisions : Submitted(d) /\ apiUp =>
            arms[d[1]] = orders[d].arm /\ orders[d].arm \notin expired
  <1> SUFFICES ASSUME ArmInv, ConsentInv, [Next]_vars,
                      NEW d \in Decisions, Submitted(d), apiUp
               PROVE  arms[d[1]] = orders[d].arm /\ orders[d].arm \notin expired
    BY DEF AutoInv
  <1>1. Dispatch(d)
    <2>1. ~UNCHANGED orders
      BY DEF Submitted
    <2>2. ASSUME NEW e \in Decisions, Dispatch(e) PROVE e = d
      BY <2>2 DEF Dispatch, SetOrder, Submitted, ConsentInv
    <2>3. ASSUME NEW e \in Decisions, Claim(e) \/ Answered(e) PROVE FALSE
      BY <2>3 DEF Claim, Answered, SetOrder, Submitted, ConsentInv
    <2>4. ASSUME ReserveEntry PROVE FALSE
      <3>1. orders'[d] = orders[d] \/ orders'[d] = [state |-> "pending", arm |-> route.arm]
        BY <2>4 DEF ReserveEntry, ConsentInv
      <3> QED
        BY <3>1 DEF Submitted
    <2>5. ~Reconcile
      BY DEF Reconcile, Submitted, ConsentInv
    <2>6. ASSUME ExecutorRestart PROVE FALSE
      <3>1. orders'[d] = Recovered(orders[d])
        BY <2>6 DEF ExecutorRestart
      <3>2. Recovered(orders[d]).state # "submitted"
        BY DEF Recovered, ConsentInv
      <3> QED
        BY <3>1, <3>2 DEF Submitted
    <2>7. CASE UNCHANGED vars
      BY <2>1, <2>7 DEF vars
    <2>8. ASSUME NEW t \in Threads, NEW r \in Runtimes,
                 \/ ArmStart(t, r) \/ StatusRead(t, r)
                 \/ DisarmStart(t, "disarm", r) \/ DisarmStart(t, "stop", r)
          PROVE  FALSE
      BY <2>1, <2>8 DEF ArmStart, StatusRead, DisarmStart
    <2>9. ASSUME NEW t \in Threads,
                 ArmOpen(t) \/ WriteStatus(t) \/ StatusCheck(t) \/ StatusLock(t)
          PROVE  FALSE
      BY <2>1, <2>9 DEF ArmOpen, WriteStatus, StatusCheck, StatusLock
    <2>10. ASSUME NEW e \in Decisions, ReadRuntime(e) PROVE FALSE
      BY <2>1, <2>10 DEF ReadRuntime
    <2>11. ~(\/ ManualArm \/ ManualDisarm \/ ApproveEntry \/ AdmitEntry
             \/ LoseReady \/ Expire \/ ApiCrash \/ ApiBoot)
      BY <2>1 DEF ManualArm, ManualDisarm, ApproveEntry, AdmitEntry, LoseReady,
                  Expire, ApiCrash, ApiBoot
    <2> QED
      BY <2>2, <2>3, <2>4, <2>5, <2>6, <2>7, <2>8, <2>9, <2>10, <2>11 DEF Next
  <1>2. Gate(orders[d].arm)
    BY <1>1 DEF Dispatch, SetOrder, Submitted, ConsentInv
  <1>3. /\ shared.by \in Runtimes /\ shared.id = orders[d].arm
        /\ shared.id \notin expired
    BY <1>2 DEF Gate, SharedActive
  <1>4. shared.by = d[1]
    BY <1>3 DEF ConsentInv, ArmInv
  <1> QED
    BY <1>3, <1>4 DEF ArmInv, SharedArmBacked

\* An entry is sent only under the ARM it was reserved under, while that ARM is
\* still the one of its runtime (canary.py, assert_order_allowed): no disarm,
\* stop, expiry, manual ARM, restart or new ARM in between revives it.
THEOREM ConsentedSubmits == Spec => SubmitsUnderConsent
  <1>1. AutoInv /\ [Next]_vars =>
           [\A d \in Decisions : Submitted(d) /\ apiUp =>
               arms[d[1]] = orders[d].arm /\ orders[d].arm \notin expired]_vars
    BY SubmitConsents
  <1> QED
    BY <1>1, AutoSafe, PTL DEF Spec, SubmitsUnderConsent
=============================================================================
