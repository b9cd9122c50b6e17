------------------------ MODULE LiveExecutionProofs ------------------------
(***************************************************************************)
(* Proofs about LiveExecution, for every set of orders, quantity, guardian *)
(* setting and generation bound. In order: what is known of types, claims, *)
(* calls and copies (IInv); broker ids and the recovery lock (IdInv,       *)
(* LockInv), and the refinement of RecoveryLock; orders that reach the     *)
(* broker after a lock (LateInv); filled quantities (FillInv).             *)
(***************************************************************************)
EXTENDS LiveExecution, TLAPS

------------------------------------------------------------------------------
(* The inductive invariant *)

\* The dispatcher's program counters at which it holds a submit or a cancel.
SubmitPc == {"claimed", "admitted", "placed", "answered"}
CancelPc == {"cancel_claimed", "cancel_admitted", "cancel_answered"}

\* A task that works on an order names it; a submit owns its outbox row; an
\* order being cancelled, or answered, is one the broker has.
TaskInv ==
    /\ service # "running" => disp.pc = "idle"
    /\ disp.pc \in SubmitPc =>
          disp.order \in Orders /\ outbox[disp.order] = "processing"
    /\ disp.pc \in CancelPc =>
          disp.order \in Orders /\ broker[disp.order].status # "none"
    /\ disp.pc \in SubmitPc \cup CancelPc => disp.base.status # "absent"
    /\ disp.pc = "placed" => broker[disp.order].status # "none"
    /\ callb.pc = "refresh" => callb.order \in Orders

\* How the durable state bounds the calls made.
CallsInv ==
    \A o \in Orders :
        /\ calls[o] <= 1
        /\ calls[o] = 0 => broker[o].status = "none"
        /\ outbox[o] \in {"none", "pending"} => calls[o] = 0
        /\ row[o].status = "absent" => outbox[o] = "none"
        /\ cancelbox[o] # "none" => /\ broker[o].status # "none"
                                    /\ row[o].status # "absent"
        /\ disp.pc \in {"claimed", "admitted"} /\ disp.order = o
              => calls[o] = 0

\* What a copy r of an order's record, however old, may say of the broker's
\* record b: an id only of an order the broker has, an end only if it ended.
Copy(r, b) ==
    /\ r.bid => b.status # "none" /\ r.status # "absent"
    /\ r.status \in Terminal => r.status = b.status /\ r.filled = b.filled

\* The same of a report p that a task still holds.
Answer(p, b) ==
    /\ b.status # "none"
    /\ p.status \in Terminal => p.status = b.status /\ p.filled = b.filled

CopyInv ==
    \A o \in Orders :
        /\ Copy(row[o], broker[o])
        /\ Copy(recon.rows[o], broker[o])
        /\ disp.order = o => Copy(disp.base, broker[o])
        /\ disp.order = o /\ disp.report # Error =>
              Answer(disp.report, broker[o])
        /\ callb.order = o => Copy(callb.base, broker[o])

IInv == TypeOK /\ TaskInv /\ CallsInv /\ CopyInv

------------------------------------------------------------------------------
(* Facts about the order record and its transitions *)

\* Turning a record into UNKNOWN keeps its id.
LEMMA UnknownFacts ==
    ASSUME NEW r \in Row
    PROVE  /\ ToUnknown(r) \in Row
           /\ ToUnknown(r).status = "unknown"
           /\ ToUnknown(r).bid = r.bid
  BY DEF ToUnknown, TransitionOrder, Repeats, Row, Status

\* Applying a report ends in the report's status, and in its quantity unless
\* the record had that status already.
LEMMA ApplyFacts ==
    ASSUME NEW r \in Row, NEW p \in Report
    PROVE  /\ ApplyReport(r, p) \in Row
           /\ ApplyReport(r, p).status = p.status
           /\ ApplyReport(r, p) = r \/ ApplyReport(r, p).filled = p.filled
           /\ p.status # "absent"
  BY DEF ApplyReport, TransitionOrder, Repeats, Row, Status, Report,
         ReportStatus, Terminal

\* Requesting a cancel of a record keeps its id.
LEMMA PendingFacts ==
    ASSUME NEW r \in Row
    PROVE  LET c == TransitionOrder(r, "cancel_pending", FALSE, r.filled) IN
           c \in Row /\ c.status = "cancel_pending" /\ c.bid = r.bid
  BY DEF TransitionOrder, Repeats, Row, Status

\* The records the tasks start from.
LEMMA ConstantFacts ==
    /\ AbsentRow \in Row /\ AbsentRow.status = "absent" /\ ~AbsentRow.bid
    /\ ReservedRow \in Row /\ ReservedRow.status = "risk_approved"
    /\ ~ReservedRow.bid
    /\ SubmittingRow \in Row /\ SubmittingRow.status = "submitting"
    /\ ~SubmittingRow.bid
    /\ Error \notin Report
    /\ NoOrder \notin Orders
    /\ NoBrokerOrder \in BrokerOrder
  <1>1. AbsentRow \in Row /\ AbsentRow.status = "absent" /\ ~AbsentRow.bid
    BY QuantityAssumption DEF AbsentRow, Row
  <1>2. /\ ReservedRow \in Row /\ ReservedRow.status = "risk_approved"
        /\ ~ReservedRow.bid
    BY QuantityAssumption DEF ReservedRow, Row, Status
  <1>3. /\ SubmittingRow \in Row /\ SubmittingRow.status = "submitting"
        /\ ~SubmittingRow.bid
    BY QuantityAssumption DEF SubmittingRow, Row, Status
  <1>4. Error \notin Report
    BY DEF Error, Report, ReportStatus, Terminal
  <1>5. NoOrder \notin Orders
    BY OrdersAssumption DEF NoOrder
  <1>6. NoBrokerOrder \in BrokerOrder
    BY QuantityAssumption DEF NoBrokerOrder, BrokerOrder
  <1> QED
    BY <1>1, <1>2, <1>3, <1>4, <1>5, <1>6
------------------------------------------------------------------------------
(* What a task may record, from the copies and the answer it holds *)

\* The broker's state of an order it has is a report.
LEMMA ReportOfFacts ==
    ASSUME TypeOK, NEW o \in Orders, broker[o].status # "none"
    PROVE  ReportOf(o) \in Report /\ Answer(ReportOf(o), broker[o])
  BY DEF TypeOK, ReportOf, Report, BrokerOrder, Answer

\* A report that is true of b, applied to a copy that is, gives a true copy.
LEMMA ApplyKeepsCopy ==
    ASSUME NEW r \in Row, NEW p \in Report, NEW b \in BrokerOrder,
           Copy(r, b), Answer(p, b)
    PROVE  Copy(ApplyReport(r, p), b)
  BY ApplyFacts DEF Copy, Answer

\* The same for a record turned into UNKNOWN.
LEMMA UnknownKeepsCopy ==
    ASSUME NEW r \in Row, NEW b \in BrokerOrder, Copy(r, b)
    PROVE  Copy(ToUnknown(r), b)
  BY UnknownFacts DEF Copy, Terminal

\* A refresh of a true copy is a true copy that is not absent.
LEMMA RefreshFacts ==
    ASSUME TypeOK, NEW o \in Orders, NEW r \in Row, Copy(r, broker[o])
    PROVE  /\ Refreshed(r, o) \in Row
           /\ Refreshed(r, o).status # "absent"
           /\ Copy(Refreshed(r, o), broker[o])
  <1>1. broker[o] \in BrokerOrder
    BY DEF TypeOK
  <1>2. CASE Found(r, o)
    <2>1. broker[o].status # "none"
      BY <1>2 DEF Found, Copy
    <2> QED
      BY <1>1, <1>2, <2>1, ReportOfFacts, ApplyFacts, ApplyKeepsCopy
         DEF Refreshed
  <1>3. CASE ~Found(r, o)
    BY <1>1, <1>3, UnknownFacts, UnknownKeepsCopy DEF Refreshed
  <1> QED
    BY <1>2, <1>3

\* The result of a submit.
LEMMA SubmitFacts ==
    ASSUME IInv, disp.pc = "answered"
    PROVE  /\ SubmitResult \in Row
           /\ SubmitResult.status # "absent"
           /\ Copy(SubmitResult, broker[disp.order])
  <1>1. /\ disp.order \in Orders /\ disp.base \in Row
        /\ disp.report \in Report \cup {Error}
        /\ broker[disp.order] \in BrokerOrder
        /\ Copy(disp.base, broker[disp.order])
        /\ disp.report # Error => Answer(disp.report, broker[disp.order])
    BY DEF IInv, TypeOK, TaskInv, SubmitPc, CopyInv
  <1>2. Copy(SubmittingRow, broker[disp.order])
    BY ConstantFacts DEF Copy, Terminal
  <1>3. CASE disp.report # Error /\ CanApply(SubmittingRow, disp.report)
    BY <1>1, <1>2, <1>3, ConstantFacts, ApplyFacts, ApplyKeepsCopy
       DEF SubmitResult
  <1>4. CASE ~(disp.report # Error /\ CanApply(SubmittingRow, disp.report))
    BY <1>1, <1>4, UnknownFacts, UnknownKeepsCopy DEF SubmitResult
  <1> QED
    BY <1>3, <1>4

\* The result of a cancel.
LEMMA CancelFacts ==
    ASSUME IInv, disp.pc = "cancel_answered"
    PROVE  /\ CancelResult \in Row
           /\ CancelResult.status # "absent"
           /\ Copy(CancelResult, broker[disp.order])
  <1>1. /\ disp.order \in Orders /\ disp.base \in Row
        /\ disp.report \in Report \cup {Error}
        /\ broker[disp.order] \in BrokerOrder
        /\ Copy(disp.base, broker[disp.order])
        /\ disp.report # Error => Answer(disp.report, broker[disp.order])
    BY DEF IInv, TypeOK, TaskInv, CancelPc, CopyInv
  <1>2. PendingCopy \in Row /\ Copy(PendingCopy, broker[disp.order])
    BY <1>1, PendingFacts DEF Copy, Terminal, PendingCopy
  <1>3. CASE disp.report # Error /\ CanApply(PendingCopy, disp.report)
    BY <1>1, <1>2, <1>3, ApplyFacts, ApplyKeepsCopy DEF CancelResult
  <1>4. CASE ~(disp.report # Error /\ CanApply(PendingCopy, disp.report))
    BY <1>1, <1>4, UnknownFacts, UnknownKeepsCopy DEF CancelResult
  <1> QED
    BY <1>3, <1>4
------------------------------------------------------------------------------
(* Type correctness *)

\* Before the first boot there is nothing to recover.
LEMMA InitHolds == Init => IInv
  <1> SUFFICES ASSUME Init PROVE IInv
    OBVIOUS
  <1>1. TypeOK
    BY ConstantFacts, QuantityAssumption
       DEF Init, TypeOK, BoxState, IdleDispatch, IdleReconcile, IdleCallback,
           DispatchPc
  <1>2. TaskInv
    BY DEF Init, TaskInv, IdleDispatch, IdleCallback, SubmitPc, CancelPc
  <1>3. CallsInv
    BY ConstantFacts
       DEF Init, CallsInv, IdleDispatch, NoBrokerOrder
  <1>4. CopyInv
    BY ConstantFacts
       DEF Init, CopyInv, Copy, IdleDispatch, IdleReconcile, IdleCallback,
           Terminal
  <1> QED
    BY <1>1, <1>2, <1>3, <1>4 DEF IInv

\* Every step keeps every variable to its type.
LEMMA StepType == IInv /\ [Next]_vars => TypeOK'
  <1> SUFFICES ASSUME IInv, [Next]_vars PROVE TypeOK'
    OBVIOUS
  <1> USE DEF IInv
  <1>1. ASSUME NEW o \in Orders, Create(o) PROVE TypeOK'
    BY <1>1, ConstantFacts
       DEF Create, TypeOK, BoxState, tasks, ghosts
  <1>2. ASSUME NEW o \in Orders, RequestCancel(o) PROVE TypeOK'
    <2>1. TransitionOrder(row[o], "cancel_pending", FALSE, row[o].filled)
             \in Row
      BY PendingFacts DEF TypeOK
    <2>2. row' \in [Orders -> Row] /\ cancelbox' \in [Orders -> BoxState]
      <3>1. row \in [Orders -> Row] /\ cancelbox \in [Orders -> BoxState]
        BY DEF TypeOK
      <3>2. "pending" \in BoxState
        BY DEF BoxState
      <3> QED
        BY <1>2, <2>1, <3>1, <3>2 DEF RequestCancel
    <2>3. renewal' \in [Orders -> {"none", "blocked", "again"}]
      BY <1>2 DEF RequestCancel, TypeOK
    <2> QED
      BY <1>2, <2>2, <2>3 DEF RequestCancel, TypeOK, tasks
  <1>3. ASSUME NEW o \in Orders, ClaimNext(o) PROVE TypeOK'
    BY <1>3 DEF ClaimNext, TypeOK, BoxState, DispatchPc, ghosts
  <1>4. ASSUME NEW o \in Orders, ClaimNextCancel(o) PROVE TypeOK'
    BY <1>4 DEF ClaimNextCancel, TypeOK, BoxState, DispatchPc, ghosts
  <1>5. CASE AdmitOrder
    BY <1>5 DEF AdmitOrder, TypeOK, DispatchPc, store, ghosts
  <1>6. CASE BlockDispatch
    BY <1>6, ConstantFacts
       DEF BlockDispatch, TypeOK, BoxState, DispatchPc, IdleDispatch, ghosts
  <1>7. CASE RefuseSubmit
    <2>1. ToUnknown(disp.base) \in Row
      BY UnknownFacts DEF TypeOK
    <2> QED
      BY <1>7, <2>1, ConstantFacts
         DEF RefuseSubmit, RecordSubmit, TypeOK, BoxState, DispatchPc,
             IdleDispatch, ghosts
  <1>8. CASE PlaceOrder
    <2>1. \A s \in {"accepted", "rejected"} :
             [status |-> s, filled |-> 0, listed |-> TRUE] \in BrokerOrder
      BY QuantityAssumption DEF BrokerOrder, ReportStatus, Terminal
    <2>2. /\ broker \in [Orders -> BrokerOrder] /\ calls \in [Orders -> Nat]
          /\ lateCalls \in Nat /\ disp.order \in Orders
      BY <1>8 DEF TypeOK, PlaceOrder, TaskInv, SubmitPc
    <2>3. broker' \in [Orders -> BrokerOrder]
      BY <1>8, <2>1, <2>2 DEF PlaceOrder
    <2>4. calls' \in [Orders -> Nat] /\ lateCalls' \in Nat
      BY <1>8, <2>2 DEF PlaceOrder
    <2> QED
      BY <1>8, <2>3, <2>4 DEF PlaceOrder, TypeOK, DispatchPc, store
  <1>9. CASE AnswerSubmit
    <2>1. disp.order \in Orders /\ ReportOf(disp.order) \in Report
      BY <1>9, ReportOfFacts DEF AnswerSubmit, TaskInv, SubmitPc
    <2>2. SubmitAnswers(disp.order) \subseteq Report \cup {Error}
      BY <2>1, QuantityAssumption
         DEF SubmitAnswers, Report, ReportStatus
    <2> QED
      BY <1>9, <2>2, ZenonT(60) DEF AnswerSubmit, TypeOK, DispatchPc, store, ghosts
  <1>10. CASE FinishDispatch
    BY <1>10, SubmitFacts, ConstantFacts, ZenonT(60)
       DEF FinishDispatch, RecordSubmit, TypeOK, BoxState, DispatchPc,
           IdleDispatch, ghosts
  <1>11. CASE PersistUnknownLock
    BY <1>11, ConstantFacts
       DEF PersistUnknownLock, ForceLock, TypeOK, DispatchPc, IdleDispatch,
           store, ghosts
  <1>12. CASE AdmitCancel
    BY <1>12 DEF AdmitCancel, TypeOK, DispatchPc, store, ghosts
  <1>13. CASE BlockCancel
    BY <1>13, ConstantFacts
       DEF BlockCancel, AfterCancel, TypeOK, BoxState, DispatchPc, IdleDispatch
  <1>14. CASE SkipCancel
    <2>1. ToUnknown(disp.base) \in Row
      BY UnknownFacts DEF TypeOK
    <2> QED
      BY <1>14, <2>1, ConstantFacts
         DEF SkipCancel, RecordCancel, AfterCancel, TypeOK, BoxState,
             DispatchPc, IdleDispatch
  <1>15. CASE CallCancel
    <2>1. disp.order \in Orders /\ broker[disp.order].status # "none"
      BY <1>15 DEF CallCancel, TaskInv, CancelPc
    <2>2. broker' \in [Orders -> BrokerOrder]
      <3>1. broker \in [Orders -> BrokerOrder]
        BY DEF TypeOK
      <3>2. [broker[disp.order] EXCEPT !.status = "cancelled"] \in BrokerOrder
        BY <2>1, <3>1 DEF BrokerOrder, ReportStatus, Terminal
      <3> QED
        BY <1>15, <3>1, <3>2 DEF CallCancel
    <2>3. broker'[disp.order].status # "none"
      BY <1>15, <2>1 DEF CallCancel, TypeOK, BrokerOrder
    <2>4. [status |-> broker'[disp.order].status,
           filled |-> broker'[disp.order].filled] \in Report
      BY <2>1, <2>2, <2>3 DEF BrokerOrder, Report
    <2>5. disp' \in [pc : DispatchPc, order : Orders \cup {NoOrder},
                     base : Row, report : Report \cup {Error}]
      <3>1. disp \in [pc : DispatchPc, order : Orders \cup {NoOrder},
                      base : Row, report : Report \cup {Error}]
        BY DEF TypeOK
      <3>2. "cancel_answered" \in DispatchPc
        BY DEF DispatchPc
      <3> QED
        BY <1>15, <2>4, <3>1, <3>2 DEF CallCancel
    <2> QED
      BY <1>15, <2>2, <2>5 DEF CallCancel, TypeOK, store, ghosts
  <1>16. CASE FinishCancel
    BY <1>16, CancelFacts, ConstantFacts, ZenonT(60)
       DEF FinishCancel, RecordCancel, AfterCancel, TypeOK, BoxState,
           DispatchPc, IdleDispatch
  <1>17. CASE BeginReconcile
    BY <1>17 DEF BeginReconcile, Candidates, TypeOK, store, ghosts
  <1>18. ASSUME NEW o \in Orders, RefreshCandidate(o) PROVE TypeOK'
    <2>1. /\ Refreshed(recon.rows[o], o) \in Row
          /\ ToUnknown(recon.rows[o]) \in Row
      BY RefreshFacts, UnknownFacts DEF TypeOK, CopyInv
    <2> QED
      BY <1>18, <2>1
         DEF RefreshCandidate, SaveReconciliation, TypeOK, BoxState, ghosts
  <1>19. CASE ReadLocalOrders
    BY <1>19 DEF ReadLocalOrders, TypeOK, store, ghosts
  <1>20. CASE CompleteReconcile
    <2>1. recovery' \in [status : {"locked", "reconciling", "ready"},
                         generation : Nat]
      BY <1>20 DEF CompleteReconcile, Complete, ForceLock, TypeOK
    <2>2. /\ truth' \in [Orders -> 0..Quantity]
          /\ ledger' \in [Orders -> 0..Quantity]
      BY <1>20
         DEF CompleteReconcile, RecordFills, BrokerFills, TypeOK, BrokerOrder
    <2> QED
      BY <1>20, <2>1, <2>2, ConstantFacts
         DEF CompleteReconcile, TypeOK, IdleReconcile
  <1>21. CASE FailReconcile
    BY <1>21, ConstantFacts
       DEF FailReconcile, Complete, ForceLock, TypeOK, IdleReconcile, store,
           ghosts
  <1>22. CASE TimeoutReconcile
    BY <1>22, ConstantFacts
       DEF TimeoutReconcile, ForceLock, TypeOK, IdleReconcile, store, ghosts
  <1>23. ASSUME NEW o \in Orders, TakeCallback(o) PROVE TypeOK'
    BY <1>23 DEF TakeCallback, ForceLock, TypeOK, store, ghosts
  <1>24. CASE RefreshCallback
    <2>1. Refreshed(callb.base, callb.order) \in Row /\ callb.order \in Orders
      BY <1>24, RefreshFacts DEF RefreshCallback, TypeOK, TaskInv, CopyInv
    <2> QED
      BY <1>24, <2>1, ConstantFacts
         DEF RefreshCallback, SaveReconciliation, TypeOK, BoxState,
             IdleCallback, ghosts
  <1>25. CASE FailCallback
    BY <1>25, ConstantFacts
       DEF FailCallback, ForceLock, TypeOK, IdleCallback, store, ghosts
  <1>26. CASE PersistLock
    BY <1>26 DEF PersistLock, ForceLock, TypeOK, store, tasks, ghosts
  <1>27. CASE Crash
    BY <1>27, ConstantFacts
       DEF Crash, TypeOK, DispatchPc, IdleDispatch, IdleReconcile,
           IdleCallback, store, ghosts
  <1>28. CASE Compose
    <2>1. \A o \in Orders : BootRow(o) \in Row
      BY ZenonT(60) DEF BootRow, TypeOK, Row, Status
    <2>2. \A b \in BoxState : BootBox(b) \in BoxState
      BY DEF BootBox, BoxState
    <2> QED
      BY <1>28, <2>1, <2>2 DEF Compose, TypeOK, tasks
  <1>29. CASE Start
    BY <1>29 DEF Start, ForceLock, TypeOK, store, tasks, ghosts
  <1>30. ASSUME NEW o \in Orders,
                BrokerFill(o) \/ BrokerEnd(o) \/ BrokerDelist(o)
         PROVE  TypeOK'
    <2>1. broker \in [Orders -> BrokerOrder]
      BY DEF TypeOK
    <2>2. ASSUME BrokerFill(o) PROVE broker' \in [Orders -> BrokerOrder]
      <3>1. broker[o].filled + 1 \in 0..Quantity
        BY <2>1, <2>2, QuantityAssumption DEF BrokerFill, BrokerOrder
      <3> QED
        BY <2>1, <2>2, <3>1 DEF BrokerFill, BrokerOrder, ReportStatus, Terminal
    <2>3. ASSUME BrokerEnd(o) PROVE broker' \in [Orders -> BrokerOrder]
      BY <2>1, <2>3 DEF BrokerEnd, BrokerOrder, ReportStatus, Terminal
    <2>4. ASSUME BrokerDelist(o) PROVE broker' \in [Orders -> BrokerOrder]
      <3>1. [status |-> broker[o].status, filled |-> broker[o].filled,
             listed |-> FALSE] \in BrokerOrder
        BY <2>1 DEF BrokerOrder
      <3> QED
        BY <2>1, <2>4, <3>1 DEF BrokerDelist
    <2> QED
      BY <1>30, <2>2, <2>3, <2>4
         DEF BrokerFill, BrokerEnd, BrokerDelist, TypeOK, store, tasks, ghosts
  <1>31. CASE UNCHANGED vars
    BY <1>31 DEF TypeOK, vars, store, tasks, ghosts
  <1> QED
    BY <1>1, <1>2, <1>3, <1>4, <1>5, <1>6, <1>7, <1>8, <1>9, <1>10, <1>11,
       <1>12, <1>13, <1>14, <1>15, <1>16, <1>17, <1>18, <1>19, <1>20, <1>21,
       <1>22, <1>23, <1>24, <1>25, <1>26, <1>27, <1>28, <1>29, <1>30, <1>31
       DEF Next, Api, Dispatcher, Reconciler, Callbacks, Broker
------------------------------------------------------------------------------
(* The broker's record of an order only moves forward *)

Evolves(b, c) ==
    /\ b.status # "none" => c.status # "none"
    /\ b.status \in Terminal => c.status = b.status /\ c.filled = b.filled

\* A copy or an answer that was true stays true.
LEMMA EvolvesKeeps ==
    ASSUME NEW b \in BrokerOrder, NEW c \in BrokerOrder, Evolves(b, c),
           NEW r \in Row, NEW p \in Report \cup {Error}
    PROVE  (Copy(r, b) => Copy(r, c)) /\ (Answer(p, b) => Answer(p, c))
  BY DEF Evolves, Copy, Answer

\* No step takes an order away from the broker or reopens a finished one.
LEMMA BrokerEvolves ==
    IInv /\ [Next]_vars => \A o \in Orders : Evolves(broker[o], broker'[o])
  <1> SUFFICES ASSUME IInv, [Next]_vars
               PROVE  \A o \in Orders : Evolves(broker[o], broker'[o])
    OBVIOUS
  <1>1. broker \in [Orders -> BrokerOrder]
    BY DEF IInv, TypeOK
  <1>2. CASE UNCHANGED broker
    BY <1>2 DEF Evolves
  <1>3. CASE PlaceOrder
    <2>1. disp.order \in Orders /\ broker[disp.order].status = "none"
      BY <1>3 DEF IInv, TaskInv, SubmitPc, CallsInv, PlaceOrder
    <2> QED
      BY <1>1, <1>3, <2>1 DEF PlaceOrder, Evolves, Terminal
  <1>4. CASE CallCancel
    <2>1. \/ UNCHANGED broker
          \/ /\ Working(disp.order)
             /\ broker' = [broker EXCEPT ![disp.order].status = "cancelled"]
      BY <1>4 DEF CallCancel
    <2>2. disp.order \in Orders
      BY <1>4 DEF IInv, TaskInv, CancelPc, CallCancel
    <2> QED
      BY <1>1, <1>2, <2>1, <2>2 DEF Working, Evolves, Terminal, BrokerOrder
  <1>5. ASSUME NEW o \in Orders,
               BrokerFill(o) \/ BrokerEnd(o) \/ BrokerDelist(o)
        PROVE  \A q \in Orders : Evolves(broker[q], broker'[q])
    <2>1. ASSUME BrokerFill(o)
          PROVE  \A q \in Orders : Evolves(broker[q], broker'[q])
      BY <1>1, <2>1 DEF BrokerFill, Working, Evolves, Terminal
    <2>2. ASSUME BrokerEnd(o)
          PROVE  \A q \in Orders : Evolves(broker[q], broker'[q])
      BY <1>1, <2>2 DEF BrokerEnd, Working, Evolves, Terminal
    <2>3. ASSUME BrokerDelist(o)
          PROVE  \A q \in Orders : Evolves(broker[q], broker'[q])
      BY <1>1, <2>3 DEF BrokerDelist, Evolves
    <2> QED
      BY <1>5, <2>1, <2>2, <2>3
  <1>6. \/ UNCHANGED broker \/ PlaceOrder \/ CallCancel
        \/ \E o \in Orders : BrokerFill(o) \/ BrokerEnd(o) \/ BrokerDelist(o)
    BY DEF Next, Api, Dispatcher, Reconciler, Callbacks, Broker, vars, Create,
           RequestCancel, ClaimNext, ClaimNextCancel, AdmitOrder,
           BlockDispatch, RefuseSubmit, RecordSubmit, AnswerSubmit,
           FinishDispatch, PersistUnknownLock, AdmitCancel, BlockCancel,
           SkipCancel, RecordCancel, FinishCancel, BeginReconcile,
           RefreshCandidate, ReadLocalOrders, CompleteReconcile,
           FailReconcile, TimeoutReconcile, TakeCallback, RefreshCallback,
           FailCallback, PersistLock, Crash, Compose, Start
  <1> QED
    BY <1>2, <1>3, <1>4, <1>5, <1>6
------------------------------------------------------------------------------
(* The tasks keep hold of what they claimed *)

\* No step takes an outbox row or an order from the task that holds it.
LEMMA StepTask == IInv /\ [Next]_vars => TaskInv'
  <1> SUFFICES ASSUME IInv, [Next]_vars PROVE TaskInv'
    OBVIOUS
  <1> USE DEF SubmitPc, CancelPc
  <1>0. TaskInv /\ CallsInv /\ TypeOK
    BY DEF IInv
  <1>t. /\ outbox \in [Orders -> BoxState]
        /\ disp \in [pc : DispatchPc, order : Orders \cup {NoOrder},
                     base : Row, report : Report \cup {Error}]
        /\ broker \in [Orders -> BrokerOrder]
    BY <1>0 DEF TypeOK
  <1>e. \A o \in Orders : broker[o].status # "none" => broker'[o].status # "none"
    BY BrokerEvolves DEF Evolves
  <1>1. ASSUME NEW o \in Orders, Create(o) PROVE TaskInv'
    BY <1>0, <1>t, <1>1 DEF Create, TaskInv, CallsInv, tasks
  <1>2. ASSUME NEW o \in Orders, RequestCancel(o) PROVE TaskInv'
    BY <1>0, <1>2 DEF RequestCancel, TaskInv, tasks
  <1>3. ASSUME NEW o \in Orders, ClaimNext(o) PROVE TaskInv'
    BY <1>0, <1>t, <1>3 DEF ClaimNext, TaskInv, CallsInv
  <1>4. ASSUME NEW o \in Orders, ClaimNextCancel(o) PROVE TaskInv'
    BY <1>0, <1>t, <1>4 DEF ClaimNextCancel, TaskInv, CallsInv
  <1>5. CASE AdmitOrder
    BY <1>0, <1>t, <1>5 DEF AdmitOrder, TaskInv, store
  <1>6. CASE BlockDispatch \/ RefuseSubmit \/ FinishDispatch
    BY <1>0, <1>t, <1>6
       DEF BlockDispatch, RefuseSubmit, FinishDispatch, RecordSubmit, TaskInv,
           IdleDispatch
  <1>7. CASE PlaceOrder
    BY <1>0, <1>t, <1>7 DEF PlaceOrder, TaskInv, store
  <1>8. CASE AnswerSubmit
    BY <1>0, <1>t, <1>8 DEF AnswerSubmit, TaskInv, store
  <1>9. CASE PersistUnknownLock
    BY <1>0, <1>9 DEF PersistUnknownLock, TaskInv, IdleDispatch
  <1>10. CASE AdmitCancel
    BY <1>0, <1>t, <1>10 DEF AdmitCancel, TaskInv, store
  <1>11. CASE BlockCancel \/ SkipCancel \/ FinishCancel
    BY <1>0, <1>t, <1>11
       DEF BlockCancel, SkipCancel, FinishCancel, RecordCancel, AfterCancel,
           TaskInv, IdleDispatch
  <1>12. CASE CallCancel
    BY <1>0, <1>t, <1>e, <1>12 DEF CallCancel, TaskInv, store
  <1>13. CASE BeginReconcile \/ ReadLocalOrders \/ CompleteReconcile
              \/ FailReconcile \/ TimeoutReconcile
    BY <1>0, <1>13
       DEF BeginReconcile, ReadLocalOrders, CompleteReconcile, FailReconcile,
           TimeoutReconcile, TaskInv, store
  <1>14. ASSUME NEW o \in Orders, RefreshCandidate(o) PROVE TaskInv'
    BY <1>0, <1>t, <1>14 DEF RefreshCandidate, SaveReconciliation, TaskInv
  <1>15. ASSUME NEW o \in Orders, TakeCallback(o) PROVE TaskInv'
    BY <1>0, <1>15 DEF TakeCallback, TaskInv, store
  <1>16. CASE RefreshCallback
    BY <1>0, <1>t, <1>16
       DEF RefreshCallback, SaveReconciliation, TaskInv, IdleCallback
  <1>17. CASE FailCallback \/ PersistLock \/ Start
    BY <1>0, <1>17
       DEF FailCallback, PersistLock, Start, TaskInv, IdleCallback, store,
           tasks
  <1>18. CASE Crash
    BY <1>18 DEF Crash, TaskInv, IdleDispatch, IdleCallback
  <1>19. CASE Compose
    BY <1>0, <1>19 DEF Compose, TaskInv, tasks
  <1>20. ASSUME NEW o \in Orders,
                BrokerFill(o) \/ BrokerEnd(o) \/ BrokerDelist(o)
         PROVE  TaskInv'
    BY <1>0, <1>e, <1>20
       DEF BrokerFill, BrokerEnd, BrokerDelist, TaskInv, store, tasks
  <1>21. CASE UNCHANGED vars
    BY <1>0, <1>21 DEF TaskInv, vars, store, tasks
  <1> QED
    BY <1>1, <1>2, <1>3, <1>4, <1>5, <1>6, <1>7, <1>8, <1>9, <1>10, <1>11,
       <1>12, <1>13, <1>14, <1>15, <1>16, <1>17, <1>18, <1>19, <1>20, <1>21
       DEF Next, Api, Dispatcher, Reconciler, Callbacks, Broker
------------------------------------------------------------------------------
(* The durable state bounds the calls *)

\* No step makes a row that was submitted pending again.
LEMMA StepCalls == IInv /\ [Next]_vars => CallsInv'
  <1> SUFFICES ASSUME IInv, [Next]_vars PROVE CallsInv'
    OBVIOUS
  <1> USE DEF SubmitPc, CancelPc
  <1>0. TaskInv /\ CallsInv /\ CopyInv /\ TypeOK
    BY DEF IInv
  <1>t. /\ row \in [Orders -> Row]
        /\ outbox \in [Orders -> BoxState]
        /\ cancelbox \in [Orders -> BoxState]
        /\ disp \in [pc : DispatchPc, order : Orders \cup {NoOrder},
                     base : Row, report : Report \cup {Error}]
        /\ broker \in [Orders -> BrokerOrder]
        /\ calls \in [Orders -> Nat]
    BY <1>0 DEF TypeOK
  <1>1. ASSUME NEW o \in Orders, Create(o) PROVE CallsInv'
    BY <1>0, <1>t, <1>1, ConstantFacts
       DEF Create, CallsInv, TaskInv, tasks, ghosts
  <1>2. ASSUME NEW o \in Orders, RequestCancel(o) PROVE CallsInv'
    <2>1. TransitionOrder(row[o], "cancel_pending", FALSE,
                          row[o].filled).status = "cancel_pending"
      BY <1>t, PendingFacts
    <2>2. broker[o].status # "none" /\ row[o].status # "absent"
      BY <1>0, <1>2 DEF RequestCancel, CopyInv, Copy
    <2> QED
      BY <1>0, <1>t, <1>2, <2>1, <2>2, ZenonT(60) DEF RequestCancel, CallsInv, tasks
  <1>3. ASSUME NEW o \in Orders, ClaimNext(o) PROVE CallsInv'
    BY <1>0, <1>t, <1>3 DEF ClaimNext, CallsInv, ghosts
  <1>4. ASSUME NEW o \in Orders, ClaimNextCancel(o) PROVE CallsInv'
    BY <1>0, <1>t, <1>4 DEF ClaimNextCancel, CallsInv, ghosts
  <1>5. CASE AdmitOrder
    BY <1>0, <1>t, <1>5 DEF AdmitOrder, CallsInv, store, ghosts
  <1>6. CASE BlockDispatch
    BY <1>0, <1>t, <1>6
       DEF BlockDispatch, CallsInv, TaskInv, IdleDispatch, ghosts
  <1>7. CASE RefuseSubmit
    BY <1>0, <1>t, <1>7, UnknownFacts
       DEF RefuseSubmit, RecordSubmit, CallsInv, TaskInv, IdleDispatch, ghosts
  <1>8. CASE PlaceOrder
    BY <1>0, <1>t, <1>8 DEF PlaceOrder, CallsInv, TaskInv, store
  <1>9. CASE AnswerSubmit
    BY <1>0, <1>t, <1>9 DEF AnswerSubmit, CallsInv, store, ghosts
  <1>10. CASE FinishDispatch
    BY <1>0, <1>t, <1>10, SubmitFacts
       DEF FinishDispatch, RecordSubmit, CallsInv, TaskInv, IdleDispatch,
           ghosts
  <1>11. CASE PersistUnknownLock
    BY <1>0, <1>11
       DEF PersistUnknownLock, CallsInv, IdleDispatch, store, ghosts
  <1>12. CASE AdmitCancel
    BY <1>0, <1>t, <1>12 DEF AdmitCancel, CallsInv, store, ghosts
  <1>13. CASE BlockCancel
    BY <1>0, <1>t, <1>13
       DEF BlockCancel, AfterCancel, CallsInv, TaskInv, IdleDispatch
  <1>14. CASE SkipCancel
    BY <1>0, <1>t, <1>14, UnknownFacts
       DEF SkipCancel, RecordCancel, AfterCancel, CallsInv, TaskInv,
           IdleDispatch
  <1>15. CASE CallCancel
    <2>1. broker[disp.order].status # "none" /\ disp.order \in Orders
      BY <1>0, <1>15 DEF CallCancel, TaskInv
    <2>2. \A o \in Orders :
             broker'[o].status = "none" <=> broker[o].status = "none"
      BY <1>t, <1>15, <2>1 DEF CallCancel, BrokerOrder
    <2>3. disp'.pc = "cancel_answered"
      BY <1>t, <1>15 DEF CallCancel
    <2> QED
      BY <1>0, <1>15, <2>2, <2>3 DEF CallCancel, CallsInv, store, ghosts
  <1>16. CASE FinishCancel
    BY <1>0, <1>t, <1>16, CancelFacts
       DEF FinishCancel, RecordCancel, AfterCancel, CallsInv, TaskInv,
           IdleDispatch
  <1>17. CASE BeginReconcile \/ ReadLocalOrders \/ CompleteReconcile
              \/ FailReconcile \/ TimeoutReconcile
    BY <1>0, <1>17
       DEF BeginReconcile, ReadLocalOrders, CompleteReconcile, FailReconcile,
           TimeoutReconcile, CallsInv, store, ghosts
  <1>18. ASSUME NEW o \in Orders, RefreshCandidate(o) PROVE CallsInv'
    <2>1. /\ Refreshed(recon.rows[o], o).status # "absent"
          /\ ToUnknown(recon.rows[o]).status # "absent"
      BY <1>0, RefreshFacts, UnknownFacts DEF TypeOK, CopyInv
    <2> QED
      BY <1>0, <1>t, <1>18, <2>1
         DEF RefreshCandidate, SaveReconciliation, CallsInv, ghosts
  <1>19. ASSUME NEW o \in Orders, TakeCallback(o) PROVE CallsInv'
    BY <1>0, <1>19 DEF TakeCallback, CallsInv, store, ghosts
  <1>20. CASE RefreshCallback
    <2>1. /\ callb.order \in Orders
          /\ Refreshed(callb.base, callb.order).status # "absent"
      BY <1>0, <1>20, RefreshFacts
         DEF RefreshCallback, TypeOK, TaskInv, CopyInv
    <2> QED
      BY <1>0, <1>t, <1>20, <2>1
         DEF RefreshCallback, SaveReconciliation, CallsInv, ghosts
  <1>21. CASE FailCallback \/ PersistLock \/ Start
    BY <1>0, <1>21
       DEF FailCallback, PersistLock, Start, CallsInv, store, tasks, ghosts
  <1>22. CASE Crash
    BY <1>0, <1>22 DEF Crash, CallsInv, IdleDispatch, store, ghosts
  <1>23. CASE Compose
    <2>1. \A o \in Orders : row'[o].status = "absent" => row[o].status = "absent"
      BY <1>t, <1>23 DEF Compose, BootRow, Row
    <2>2. \A o \in Orders :
             /\ outbox'[o] \in {"none", "pending"} => outbox'[o] = outbox[o]
             /\ outbox[o] = "none" => outbox'[o] = "none"
             /\ cancelbox'[o] # "none" => cancelbox[o] # "none"
      BY <1>23 DEF Compose, BootBox, InFlight
    <2> QED
      BY <1>0, <1>23, <2>1, <2>2 DEF Compose, CallsInv, tasks
  <1>24. ASSUME NEW o \in Orders,
                BrokerFill(o) \/ BrokerEnd(o) \/ BrokerDelist(o)
         PROVE  CallsInv'
    <2>1. \A q \in Orders :
             broker'[q].status = "none" <=> broker[q].status = "none"
      BY <1>t, <1>24
         DEF BrokerFill, BrokerEnd, BrokerDelist, Working, Terminal,
             BrokerOrder
    <2> QED
      BY <1>0, <1>24, <2>1
         DEF BrokerFill, BrokerEnd, BrokerDelist, CallsInv, store, tasks,
             ghosts
  <1>25. CASE UNCHANGED vars
    BY <1>0, <1>25 DEF CallsInv, vars, store, tasks, ghosts
  <1> QED
    BY <1>1, <1>2, <1>3, <1>4, <1>5, <1>6, <1>7, <1>8, <1>9, <1>10, <1>11,
       <1>12, <1>13, <1>14, <1>15, <1>16, <1>17, <1>18, <1>19, <1>20, <1>21,
       <1>22, <1>23, <1>24, <1>25
       DEF Next, Api, Dispatcher, Reconciler, Callbacks, Broker
------------------------------------------------------------------------------
(* Every copy, however old, stays true of the broker *)

\* No step writes or takes a copy that is not true of the broker.
LEMMA StepCopy == IInv /\ [Next]_vars => CopyInv'
  <1> SUFFICES ASSUME IInv, [Next]_vars PROVE CopyInv'
    OBVIOUS
  <1> USE DEF SubmitPc, CancelPc
  <1>0. TaskInv /\ CopyInv /\ TypeOK
    BY DEF IInv
  <1>t. /\ row \in [Orders -> Row]
        /\ disp \in [pc : DispatchPc, order : Orders \cup {NoOrder},
                     base : Row, report : Report \cup {Error}]
        /\ recon \in [pc : {"idle", "refresh", "snapshot"}, gen : Nat,
                      todo : SUBSET Orders, rows : [Orders -> Row]]
        /\ callb \in [pc : {"idle", "refresh"}, order : Orders \cup {NoOrder},
                      base : Row]
        /\ broker \in [Orders -> BrokerOrder]
    BY <1>0 DEF TypeOK
  \* The old copies, against the new broker record.
  <1>k. \A o \in Orders :
           /\ Copy(row[o], broker'[o])
           /\ Copy(recon.rows[o], broker'[o])
           /\ disp.order = o => Copy(disp.base, broker'[o])
           /\ disp.order = o /\ disp.report # Error =>
                 Answer(disp.report, broker'[o])
           /\ callb.order = o => Copy(callb.base, broker'[o])
    <2>1. broker' \in [Orders -> BrokerOrder]
      BY StepType DEF TypeOK
    <2> QED
      BY <1>0, <1>t, <2>1, BrokerEvolves, EvolvesKeeps DEF CopyInv
  \* A task that is idle holds no copy.
  <1>n. NoOrder \notin Orders
    BY ConstantFacts
  <1>1. ASSUME NEW o \in Orders, Create(o) PROVE CopyInv'
    <2>1. Copy(ReservedRow, broker'[o])
      BY ConstantFacts DEF Copy, Terminal
    <2> QED
      BY <1>t, <1>k, <1>1, <2>1 DEF Create, CopyInv, tasks
  <1>2. ASSUME NEW o \in Orders, RequestCancel(o) PROVE CopyInv'
    <2>1. Copy(TransitionOrder(row[o], "cancel_pending", FALSE,
                               row[o].filled), broker'[o])
      BY <1>t, <1>k, PendingFacts DEF Copy, Terminal
    <2> QED
      BY <1>t, <1>k, <1>2, <2>1 DEF RequestCancel, CopyInv, tasks
  <1>3. ASSUME NEW o \in Orders, ClaimNext(o) \/ ClaimNextCancel(o)
        PROVE  CopyInv'
    BY <1>t, <1>k, <1>3 DEF ClaimNext, ClaimNextCancel, CopyInv
  <1>4. CASE AdmitOrder \/ AdmitCancel
    BY <1>t, <1>k, <1>4 DEF AdmitOrder, AdmitCancel, CopyInv, store
  <1>5. CASE BlockDispatch \/ BlockCancel
    BY <1>0, <1>t, <1>k, <1>n, <1>5
       DEF BlockDispatch, BlockCancel, AfterCancel, TaskInv, CopyInv,
           IdleDispatch
  <1>6. CASE RefuseSubmit
    <2>1. disp.order \in Orders
      BY <1>0, <1>6 DEF RefuseSubmit, TaskInv
    <2>2. Copy(ToUnknown(disp.base), broker'[disp.order])
      BY <1>t, <1>k, <2>1, UnknownFacts DEF Copy, Terminal
    <2> QED
      BY <1>t, <1>k, <1>n, <1>6, <2>1, <2>2
         DEF RefuseSubmit, RecordSubmit, CopyInv, IdleDispatch
  <1>7. CASE PlaceOrder
    BY <1>t, <1>k, <1>7 DEF PlaceOrder, CopyInv, store
  <1>8. CASE AnswerSubmit
    <2>1. /\ disp.order \in Orders /\ broker[disp.order].status # "none"
          /\ UNCHANGED <<row, recon, callb, broker>>
      BY <1>0, <1>8 DEF AnswerSubmit, TaskInv, store
    <2>2. \A r \in SubmitAnswers(disp.order) :
             r # Error => Answer(r, broker[disp.order])
      BY <2>1, <1>0, ReportOfFacts DEF SubmitAnswers, Answer, Terminal
    <2>3. PICK r \in SubmitAnswers(disp.order) :
             disp' = [disp EXCEPT !.pc = "answered", !.report = r]
      BY <1>8 DEF AnswerSubmit
    <2>4. disp'.order = disp.order /\ disp'.base = disp.base /\ disp'.report = r
      BY <1>t, <2>3
    <2> QED
      BY <1>k, <2>1, <2>2, <2>4 DEF CopyInv
  <1>9. CASE FinishDispatch
    <2>1. disp.order \in Orders /\ UNCHANGED broker
      BY <1>0, <1>9 DEF FinishDispatch, RecordSubmit, TaskInv
    <2>2. Copy(SubmitResult, broker[disp.order])
      BY <1>9, SubmitFacts DEF FinishDispatch
    <2> QED
      BY <1>t, <1>k, <1>n, <1>9, <2>1, <2>2
         DEF FinishDispatch, RecordSubmit, CopyInv, IdleDispatch
  <1>10. CASE PersistUnknownLock
    BY <1>k, <1>n, <1>10 DEF PersistUnknownLock, CopyInv, IdleDispatch, store
  <1>11. CASE SkipCancel
    <2>1. disp.order \in Orders
      BY <1>0, <1>11 DEF SkipCancel, TaskInv
    <2>2. /\ Copy(ToUnknown(disp.base), broker'[disp.order])
          /\ Copy(disp.base, broker'[disp.order])
      BY <1>t, <1>k, <2>1, UnknownFacts DEF Copy, Terminal
    <2> QED
      BY <1>t, <1>k, <1>n, <1>11, <2>1, <2>2
         DEF SkipCancel, RecordCancel, AfterCancel, CopyInv, IdleDispatch
  <1>12. CASE CallCancel
    <2>1. disp.order \in Orders /\ UNCHANGED <<row, recon, callb>>
      BY <1>0, <1>12 DEF CallCancel, TaskInv, store
    <2>2. broker'[disp.order].status # "none"
      BY <1>0, <1>12, <2>1, BrokerEvolves DEF CallCancel, TaskInv, Evolves
    <2>3. PICK r \in {Error, [status |-> broker'[disp.order].status,
                              filled |-> broker'[disp.order].filled]} :
             disp' = [disp EXCEPT !.pc = "cancel_answered", !.report = r]
      BY <1>12 DEF CallCancel
    <2>4. disp'.order = disp.order /\ disp'.base = disp.base /\ disp'.report = r
      BY <1>t, <2>3
    <2>5. r # Error => Answer(r, broker'[disp.order])
      BY <2>2, <2>3 DEF Answer
    <2> QED
      BY <1>k, <2>1, <2>4, <2>5 DEF CopyInv
  <1>13. CASE FinishCancel
    <2>1. disp.order \in Orders /\ UNCHANGED broker
      BY <1>0, <1>13 DEF FinishCancel, RecordCancel, TaskInv
    <2>2. Copy(CancelResult, broker[disp.order])
      BY <1>13, CancelFacts DEF FinishCancel
    <2> QED
      BY <1>t, <1>k, <1>n, <1>13, <2>1, <2>2
         DEF FinishCancel, RecordCancel, AfterCancel, CopyInv, IdleDispatch
  <1>14. CASE BeginReconcile \/ ReadLocalOrders
    <2>1. UNCHANGED <<row, disp, callb>> /\ recon'.rows = row
      <3>1. CASE BeginReconcile
        BY <3>1 DEF BeginReconcile, store
      <3>2. CASE ReadLocalOrders
        BY <1>t, <3>2 DEF ReadLocalOrders, store
      <3> QED
        BY <1>14, <3>1, <3>2
    <2> QED
      BY <1>k, <2>1 DEF CopyInv
  <1>15. CASE CompleteReconcile \/ FailReconcile \/ TimeoutReconcile
    <2>1. /\ UNCHANGED <<row, disp, callb>>
          /\ recon' = IdleReconcile
      BY <1>15 DEF CompleteReconcile, FailReconcile, TimeoutReconcile, store
    <2>2. \A o \in Orders : Copy(IdleReconcile.rows[o], broker'[o])
      BY ConstantFacts DEF IdleReconcile, Copy, Terminal
    <2> QED
      BY <1>k, <2>1, <2>2 DEF CopyInv
  <1>16. ASSUME NEW o \in Orders, RefreshCandidate(o) PROVE CopyInv'
    <2>1. recon.rows[o] \in Row /\ Copy(recon.rows[o], broker[o])
      BY <1>0, <1>t DEF CopyInv
    <2>2. /\ Copy(Refreshed(recon.rows[o], o), broker[o])
          /\ Copy(ToUnknown(recon.rows[o]), broker[o])
      BY <1>0, <1>t, <2>1, RefreshFacts, UnknownKeepsCopy
    <2>3. /\ UNCHANGED <<disp, callb, broker>>
          /\ recon'.rows = recon.rows
      BY <1>t, <1>16 DEF RefreshCandidate
    <2>4. \/ row' = [row EXCEPT ![o] = Refreshed(recon.rows[o], o)]
          \/ row' = [row EXCEPT ![o] = ToUnknown(recon.rows[o])]
      BY <1>16 DEF RefreshCandidate, SaveReconciliation
    <2> QED
      BY <1>t, <1>k, <2>2, <2>3, <2>4 DEF CopyInv
  <1>17. ASSUME NEW o \in Orders, TakeCallback(o) PROVE CopyInv'
    <2>1. UNCHANGED <<row, disp, recon>>
      BY <1>17 DEF TakeCallback, store
    <2>2. \/ callb' = [pc |-> "refresh", order |-> o, base |-> row[o]]
          \/ UNCHANGED callb
      BY <1>17 DEF TakeCallback
    <2>3. \A q \in Orders : callb'.order = q => Copy(callb'.base, broker'[q])
      BY <1>k, <2>2
    <2> QED
      BY <1>k, <2>1, <2>3 DEF CopyInv
  <1>18. CASE RefreshCallback
    <2>1. /\ callb.order \in Orders /\ callb.base \in Row
          /\ Copy(callb.base, broker[callb.order])
      <3>1. callb.order \in Orders
        BY <1>0, <1>18 DEF RefreshCallback, TaskInv
      <3>2. callb.base \in Row
        BY <1>t
      <3> QED
        BY <1>0, <3>1, <3>2 DEF CopyInv
    <2>2. Copy(Refreshed(callb.base, callb.order), broker[callb.order])
      BY <1>0, <2>1, RefreshFacts
    <2>3. /\ UNCHANGED <<disp, recon, broker>> /\ callb'.order = NoOrder
          /\ row' = [row EXCEPT ![callb.order] =
                        Refreshed(callb.base, callb.order)]
      BY <1>18 DEF RefreshCallback, SaveReconciliation, IdleCallback
    <2> QED
      BY <1>t, <1>k, <1>n, <2>1, <2>2, <2>3 DEF CopyInv
  <1>19. CASE FailCallback \/ PersistLock \/ Start
    BY <1>k, <1>n, <1>19
       DEF FailCallback, PersistLock, Start, CopyInv, IdleCallback, store,
           tasks
  <1>20. CASE Crash
    <2>1. /\ UNCHANGED row /\ disp'.order = NoOrder /\ callb'.order = NoOrder
          /\ \A o \in Orders : recon'.rows[o] = AbsentRow
      BY <1>20
         DEF Crash, IdleDispatch, IdleReconcile, IdleCallback, store
    <2>2. \A o \in Orders : Copy(AbsentRow, broker'[o])
      BY ConstantFacts DEF Copy, Terminal
    <2> QED
      BY <1>k, <1>n, <2>1, <2>2 DEF CopyInv
  <1>21. CASE Compose
    <2>1. \A o \in Orders : Copy(BootRow(o), broker'[o])
      BY <1>t, <1>k DEF BootRow, Copy, Terminal, Row
    <2> QED
      BY <1>k, <1>21, <2>1 DEF Compose, CopyInv, tasks
  <1>22. ASSUME NEW o \in Orders,
                BrokerFill(o) \/ BrokerEnd(o) \/ BrokerDelist(o)
         PROVE  CopyInv'
    BY <1>k, <1>22
       DEF BrokerFill, BrokerEnd, BrokerDelist, CopyInv, store, tasks
  <1>23. CASE UNCHANGED vars
    BY <1>k, <1>23 DEF CopyInv, vars, store, tasks
  <1> QED
    BY <1>1, <1>2, <1>3, <1>4, <1>5, <1>6, <1>7, <1>8, <1>9, <1>10, <1>11,
       <1>12, <1>13, <1>14, <1>15, <1>16, <1>17, <1>18, <1>19, <1>20, <1>21,
       <1>22, <1>23
       DEF Next, Api, Dispatcher, Reconciler, Callbacks, Broker
------------------------------------------------------------------------------
(* The theorems *)

\* IInv is inductive.
THEOREM Inductive == Spec => []IInv
  <1>1. Init => IInv
    BY InitHolds
  <1>2. IInv /\ [Next]_vars => IInv'
    BY StepType, StepTask, StepCalls, StepCopy DEF IInv
  <1> QED
    BY <1>1, <1>2, PTL DEF Spec

\* Tables, tasks and the recovery lock never leave their types.
THEOREM TypeCorrect == Spec => []TypeOK
  <1>1. IInv => TypeOK
    BY DEF IInv
  <1> QED
    BY <1>1, Inductive, PTL

\* No client order id is ever submitted twice, for any number of orders,
\* crashes, restarts, ambiguous answers and reconciliations: claim_next,
\* finish_dispatch, block_pending_dispatches and
\* recover_interrupted_dispatches never make a claimed row pending again.
THEOREM AtMostOnce == Spec => []AtMostOneSubmission
  <1>1. IInv => AtMostOneSubmission
    BY DEF IInv, CallsInv, AtMostOneSubmission
  <1> QED
    BY <1>1, Inductive, PTL

\* A terminal row always states how the broker's own order ended, although
\* dispatcher, reconciler and callbacks overwrite rows from old copies.
THEOREM TerminalTruth == Spec => []TerminalIsBrokerTruth
  <1>1. IInv => TerminalIsBrokerTruth
    BY DEF IInv, CopyInv, Copy, TerminalIsBrokerTruth
  <1> QED
    BY <1>1, Inductive, PTL
------------------------------------------------------------------------------
(* Ids and the lock: the inductive invariant on top of IInv. No           *)
(* reconciliation, however it interleaves with the dispatcher, leaves the  *)
(* account READY over an UNKNOWN order without a broker id, but for the    *)
(* moment until the dispatcher's or the restarted worker's lock.          *)

\* Broker ids are never lost: an unsent order is as it was reserved, a record
\* past submission has an id or is UNKNOWN, whoever cancels or refreshes by id
\* holds a copy with the id, and no copy knows an id the row does not.
IdInv ==
    \A o \in Orders :
        /\ outbox[o] \in InFlight =>
              row[o].status = "risk_approved" /\ ~row[o].bid
        /\ row[o].status \notin {"absent", "risk_approved", "unknown"}
              => row[o].bid
        /\ cancelbox[o] # "none" => row[o].bid
        /\ disp.pc \in SubmitPc /\ disp.order = o =>
              disp.base.status = "risk_approved" /\ ~disp.base.bid
        /\ disp.pc \in CancelPc /\ disp.order = o =>
              disp.base.bid /\ row[o].bid
        /\ callb.pc = "refresh" /\ callb.order = o =>
              callb.base.bid /\ row[o].bid
        /\ recon.rows[o].bid => row[o].bid
        /\ o \in recon.todo /\ ~recon.rows[o].bid => Ambiguous(o)

\* An attempt in progress keeps the account from being READY. One that may
\* still complete (its generation is the current one) has seen every ambiguous
\* order, or the dispatcher that made it ambiguous has not locked yet.
LockInv ==
    /\ service # "running" => recon.pc = "idle"
    /\ recon.pc # "idle" => /\ recovery.status # "ready"
                            /\ recon.gen <= recovery.generation
    /\ recon.pc = "snapshot" /\ recon.gen = recovery.generation =>
          \A o \in Orders : Ambiguous(o) =>
              \/ recon.rows[o].status = "unknown" /\ ~recon.rows[o].bid
              \/ disp.pc = "lock"
    /\ AmbiguousIsLocked
------------------------------------------------------------------------------
(* What the tasks record, as to ids *)

\* A report gives its id to a record it changes or that has one already.
LEMMA ApplyId ==
    ASSUME NEW r \in Row, NEW p \in Report, r.bid \/ r.status # p.status
    PROVE  ApplyReport(r, p).bid
  BY DEF ApplyReport, TransitionOrder, Repeats, Row, Report

\* A refresh keeps the id; without one it ends in UNKNOWN.
LEMMA RefreshId ==
    ASSUME TypeOK, NEW o \in Orders, NEW r \in Row, Copy(r, broker[o])
    PROVE  /\ Refreshed(r, o).bid = r.bid
           /\ r.bid \/ Refreshed(r, o).status = "unknown"
  <1>1. CASE Found(r, o)
    <2>1. r.bid /\ ReportOf(o) \in Report
      BY <1>1, ReportOfFacts DEF Found, Copy
    <2>2. ApplyReport(r, ReportOf(o)).bid
      BY <2>1, ApplyId
    <2>3. ApplyReport(r, ReportOf(o)) \in Row
      BY <2>1, ApplyFacts
    <2> QED
      BY <1>1, <2>1, <2>2, <2>3 DEF Refreshed, Row
  <1>2. CASE ~Found(r, o)
    BY <1>2, UnknownFacts DEF Refreshed
  <1> QED
    BY <1>1, <1>2

\* A submit is recorded with an id, or as UNKNOWN.
LEMMA SubmitId ==
    ASSUME IInv, disp.pc = "answered"
    PROVE  SubmitResult.bid \/ SubmitResult.status = "unknown"
  <1>1. disp.base \in Row /\ disp.report \in Report \cup {Error}
    BY DEF IInv, TypeOK
  <1>2. CASE disp.report # Error /\ CanApply(SubmittingRow, disp.report)
    <2>1. disp.report \in Report /\ disp.report.status # "submitting"
      BY <1>1, <1>2 DEF Report, ReportStatus, Terminal
    <2> QED
      BY <1>2, <2>1, ApplyId, ConstantFacts DEF SubmitResult
  <1>3. CASE ~(disp.report # Error /\ CanApply(SubmittingRow, disp.report))
    BY <1>1, <1>3, UnknownFacts DEF SubmitResult
  <1> QED
    BY <1>2, <1>3

\* A cancel is recorded with the id it was sent with.
LEMMA CancelId ==
    ASSUME IInv, disp.pc = "cancel_answered", disp.base.bid
    PROVE  CancelResult.bid
  <1>1. disp.base \in Row /\ disp.report \in Report \cup {Error}
    BY DEF IInv, TypeOK
  <1>2. PendingCopy \in Row /\ PendingCopy.bid
    BY <1>1, PendingFacts DEF PendingCopy
  <1>3. CASE disp.report # Error /\ CanApply(PendingCopy, disp.report)
    BY <1>1, <1>2, <1>3, ApplyId DEF CancelResult
  <1>4. CASE ~(disp.report # Error /\ CanApply(PendingCopy, disp.report))
    BY <1>1, <1>4, UnknownFacts DEF CancelResult
  <1> QED
    BY <1>3, <1>4
------------------------------------------------------------------------------
(* Ids are never lost *)

\* No row, copy or claim exists before the first boot.
LEMMA InitLock == Init => IdInv /\ LockInv
  <1> SUFFICES ASSUME Init PROVE IdInv /\ LockInv
    OBVIOUS
  <1>1. IdInv
    BY ConstantFacts
       DEF Init, IdInv, InFlight, IdleDispatch, IdleReconcile, IdleCallback,
           SubmitPc, CancelPc
  <1>2. LockInv
    BY ConstantFacts
       DEF Init, LockInv, AmbiguousIsLocked, Ambiguous, Ready, IdleReconcile
  <1> QED
    BY <1>1, <1>2

\* Every step keeps the ids: only the owner of an outbox row writes an unsent
\* order, and whoever overwrites a row with an id writes one with an id.
LEMMA StepId == IInv /\ IdInv /\ [Next]_vars => IdInv'
  <1> SUFFICES ASSUME IInv, IdInv, [Next]_vars PROVE IdInv'
    OBVIOUS
  <1> USE DEF SubmitPc, CancelPc, InFlight
  <1>0. TaskInv /\ CopyInv /\ TypeOK /\ CallsInv /\ IdInv
    BY DEF IInv
  <1>t. /\ row \in [Orders -> Row]
        /\ outbox \in [Orders -> BoxState]
        /\ cancelbox \in [Orders -> BoxState]
        /\ disp \in [pc : DispatchPc, order : Orders \cup {NoOrder},
                     base : Row, report : Report \cup {Error}]
        /\ recon \in [pc : {"idle", "refresh", "snapshot"}, gen : Nat,
                      todo : SUBSET Orders, rows : [Orders -> Row]]
        /\ callb \in [pc : {"idle", "refresh"}, order : Orders \cup {NoOrder},
                      base : Row]
    BY <1>0 DEF TypeOK
  <1>1. ASSUME NEW o \in Orders, Create(o) PROVE IdInv'
    BY <1>0, <1>t, <1>1, ConstantFacts
       DEF Create, IdInv, Ambiguous, CallsInv, TaskInv, CopyInv, Copy, tasks
  <1>2. ASSUME NEW o \in Orders, RequestCancel(o) PROVE IdInv'
    <2> DEFINE c == TransitionOrder(row[o], "cancel_pending", FALSE,
                                    row[o].filled)
    <2>1. row[o].bid /\ c.bid
      BY <1>t, <1>2, PendingFacts DEF RequestCancel
    <2>2. /\ UNCHANGED <<outbox, disp, recon, callb>>
          /\ \A q \in Orders : /\ q # o => row'[q] = row[q]
                               /\ row'[o] \in {row[o], c}
                               /\ q # o => cancelbox'[q] = cancelbox[q]
      BY <1>t, <1>2 DEF RequestCancel, tasks
    <2> HIDE DEF c
    <2>3. row'[o].bid
      BY <2>1, <2>2
    <2> QED
      BY <1>0, <2>1, <2>2, <2>3 DEF IdInv, Ambiguous
  <1>3. ASSUME NEW o \in Orders, ClaimNext(o) PROVE IdInv'
    BY <1>0, <1>t, <1>3 DEF ClaimNext, IdInv, Ambiguous
  <1>4. ASSUME NEW o \in Orders, ClaimNextCancel(o) PROVE IdInv'
    BY <1>0, <1>t, <1>4 DEF ClaimNextCancel, IdInv, Ambiguous
  <1>5. CASE AdmitOrder \/ AdmitCancel
    BY <1>0, <1>t, <1>5 DEF AdmitOrder, AdmitCancel, IdInv, Ambiguous, store
  <1>6. CASE BlockDispatch
    BY <1>0, <1>t, <1>6
       DEF BlockDispatch, TaskInv, IdInv, Ambiguous, IdleDispatch
  <1>7. CASE RefuseSubmit
    <2>1. ToUnknown(disp.base) \in Row
          /\ ToUnknown(disp.base).status = "unknown"
      BY <1>t, UnknownFacts
    <2> QED
      BY <1>0, <1>t, <1>7, <2>1
         DEF RefuseSubmit, RecordSubmit, TaskInv, IdInv, Ambiguous,
             IdleDispatch
  <1>8. CASE PlaceOrder \/ AnswerSubmit
    <2>1. /\ UNCHANGED <<row, outbox, cancelbox, recon, callb>>
          /\ disp.pc \in SubmitPc /\ disp'.pc \in SubmitPc
          /\ disp'.order = disp.order /\ disp'.base = disp.base
      BY <1>t, <1>8 DEF PlaceOrder, AnswerSubmit, store
    <2> QED
      BY <1>0, <2>1 DEF IdInv, Ambiguous
  <1>9. CASE FinishDispatch
    BY <1>0, <1>t, <1>9, SubmitFacts, SubmitId
       DEF FinishDispatch, RecordSubmit, TaskInv, IdInv, Ambiguous,
           IdleDispatch
  <1>10. CASE PersistUnknownLock
    BY <1>0, <1>10
       DEF PersistUnknownLock, IdInv, Ambiguous, IdleDispatch, store
  <1>11. CASE BlockCancel
    BY <1>0, <1>t, <1>11
       DEF BlockCancel, AfterCancel, TaskInv, IdInv, Ambiguous, IdleDispatch
  <1>12. CASE SkipCancel
    <2>1. ToUnknown(disp.base).bid = disp.base.bid
      BY <1>t, UnknownFacts
    <2> QED
      BY <1>0, <1>t, <1>12, <2>1
         DEF SkipCancel, RecordCancel, AfterCancel, TaskInv, IdInv, Ambiguous,
             IdleDispatch
  <1>13. CASE CallCancel
    BY <1>0, <1>t, <1>13 DEF CallCancel, IdInv, Ambiguous, store
  <1>14. CASE FinishCancel
    <2>1. disp.order \in Orders /\ CancelResult.bid
      BY <1>0, <1>14, CancelId DEF FinishCancel, TaskInv, IdInv
    <2> QED
      BY <1>0, <1>t, <1>14, <2>1
         DEF FinishCancel, RecordCancel, AfterCancel, IdInv, Ambiguous,
             IdleDispatch
  <1>15. CASE BeginReconcile
    BY <1>0, <1>t, <1>15
       DEF BeginReconcile, Candidates, IdInv, Ambiguous, store
  <1>16. CASE ReadLocalOrders
    BY <1>0, <1>t, <1>16 DEF ReadLocalOrders, IdInv, Ambiguous, store
  <1>17. CASE CompleteReconcile \/ FailReconcile \/ TimeoutReconcile
    <2>1. /\ UNCHANGED <<row, outbox, cancelbox, disp, callb>>
          /\ recon' = IdleReconcile
      BY <1>17
         DEF CompleteReconcile, FailReconcile, TimeoutReconcile, store
    <2>2. recon'.todo = {} /\ \A o \in Orders : recon'.rows[o] = AbsentRow
      BY <2>1 DEF IdleReconcile
    <2> QED
      BY <1>0, <2>1, <2>2, ConstantFacts DEF IdInv, Ambiguous
  <1>18. ASSUME NEW o \in Orders, RefreshCandidate(o) PROVE IdInv'
    <2>1. recon.rows[o] \in Row /\ Copy(recon.rows[o], broker[o])
      BY <1>0, <1>t DEF CopyInv
    <2>2. PICK r \in {Refreshed(recon.rows[o], o), ToUnknown(recon.rows[o])} :
             SaveReconciliation(o, r)
      BY <1>18 DEF RefreshCandidate
    <2>3. r.bid = recon.rows[o].bid /\ (r.bid \/ r.status = "unknown")
      BY <1>0, <2>1, <2>2, RefreshId, UnknownFacts
    <2>4. row[o].bid = r.bid /\ (r.bid \/ Ambiguous(o))
      BY <1>0, <1>t, <1>18, <2>1, <2>3
         DEF RefreshCandidate, IdInv, Ambiguous, Row
    <2>5. /\ UNCHANGED <<cancelbox, disp, callb>>
          /\ row' = [row EXCEPT ![o] = r]
          /\ \A q \in Orders : outbox'[q] \in InFlight => outbox'[q] = outbox[q]
          /\ recon'.todo \subseteq recon.todo /\ recon'.rows = recon.rows
      BY <1>t, <1>18, <2>2 DEF RefreshCandidate, SaveReconciliation
    <2>6. outbox[o] \notin InFlight
      BY <1>0, <2>4 DEF IdInv, Ambiguous
    <2> QED
      BY <1>0, <1>t, <2>3, <2>4, <2>5, <2>6 DEF IdInv, Ambiguous
  <1>19. ASSUME NEW o \in Orders, TakeCallback(o) PROVE IdInv'
    BY <1>0, <1>t, <1>19 DEF TakeCallback, IdInv, Ambiguous, store
  <1>20. CASE RefreshCallback
    <2>1. /\ callb.order \in Orders /\ callb.base \in Row
          /\ callb.base.bid /\ row[callb.order].bid
          /\ Copy(callb.base, broker[callb.order])
      BY <1>0, <1>t, <1>20 DEF RefreshCallback, TaskInv, IdInv, CopyInv
    <2>2. Refreshed(callb.base, callb.order).bid
      BY <1>0, <2>1, RefreshId
    <2>3. /\ UNCHANGED <<cancelbox, disp, recon>> /\ callb' = IdleCallback
          /\ row' = [row EXCEPT ![callb.order] =
                        Refreshed(callb.base, callb.order)]
          /\ \A q \in Orders : outbox'[q] \in InFlight => outbox'[q] = outbox[q]
      BY <1>t, <1>20 DEF RefreshCallback, SaveReconciliation
    <2> QED
      BY <1>0, <1>t, <2>1, <2>2, <2>3 DEF IdInv, Ambiguous, IdleCallback
  <1>21. CASE FailCallback \/ PersistLock \/ Start
    BY <1>0, <1>21
       DEF FailCallback, PersistLock, Start, IdInv, Ambiguous, IdleCallback,
           store, tasks
  <1>22. CASE Crash
    BY <1>0, <1>22, ConstantFacts
       DEF Crash, IdInv, Ambiguous, IdleDispatch, IdleReconcile, IdleCallback,
           store
  <1>23. CASE Compose
    <2>1. UNCHANGED <<disp, recon, callb>>
      BY <1>23 DEF Compose, tasks
    <2>2. \A o \in Orders :
             /\ row'[o].bid = row[o].bid
             /\ row'[o].status \in {row[o].status, "unknown"}
             /\ outbox'[o] \notin InFlight
             /\ cancelbox'[o] # "none" => cancelbox[o] # "none"
      BY <1>t, <1>23 DEF Compose, BootRow, BootBox, Row
    <2> QED
      BY <1>0, <2>1, <2>2 DEF IdInv, Ambiguous
  <1>24. ASSUME NEW o \in Orders,
                BrokerFill(o) \/ BrokerEnd(o) \/ BrokerDelist(o)
         PROVE  IdInv'
    BY <1>0, <1>24
       DEF BrokerFill, BrokerEnd, BrokerDelist, IdInv, Ambiguous, store, tasks
  <1>25. CASE UNCHANGED vars
    BY <1>0, <1>25 DEF IdInv, Ambiguous, vars, store, tasks
  <1> QED
    BY <1>1, <1>2, <1>3, <1>4, <1>5, <1>6, <1>7, <1>8, <1>9, <1>10, <1>11,
       <1>12, <1>13, <1>14, <1>15, <1>16, <1>17, <1>18, <1>19, <1>20, <1>21,
       <1>22, <1>23, <1>24, <1>25
       DEF Next, Api, Dispatcher, Reconciler, Callbacks, Broker
------------------------------------------------------------------------------
(* Ambiguity and the lock *)

\* Every step keeps the lock over ambiguous orders: the dispatcher that makes
\* one is about to lock, a lock outdates the attempt in progress, and an
\* attempt that is up to date has the ambiguous orders among those it compares.
LEMMA StepLock == IInv /\ IdInv /\ LockInv /\ [Next]_vars => LockInv'
  <1> SUFFICES ASSUME IInv, IdInv, LockInv, [Next]_vars PROVE LockInv'
    OBVIOUS
  <1> USE DEF SubmitPc, CancelPc
  <1>0. TaskInv /\ CopyInv /\ TypeOK /\ IdInv /\ LockInv
    BY DEF IInv
  <1>t. /\ row \in [Orders -> Row]
        /\ recovery \in [status : {"locked", "reconciling", "ready"},
                         generation : Nat]
        /\ disp \in [pc : DispatchPc, order : Orders \cup {NoOrder},
                     base : Row, report : Report \cup {Error}]
        /\ recon \in [pc : {"idle", "refresh", "snapshot"}, gen : Nat,
                      todo : SUBSET Orders, rows : [Orders -> Row]]
    BY <1>0 DEF TypeOK
  \* A step that adds no ambiguity and leaves lock, attempt and service alone.
  <1>a. ASSUME UNCHANGED <<recovery, service, recon>>,
               \A q \in Orders : Ambiguous(q)' => Ambiguous(q),
               disp.pc = "lock" => disp'.pc = "lock"
        PROVE  LockInv'
    BY <1>0, <1>a DEF LockInv, AmbiguousIsLocked, Ready
  \* A step that persists a lock.
  <1>f. ASSUME ForceLock, UNCHANGED recon,
               service' = "running" \/ UNCHANGED service
        PROVE  LockInv'
    BY <1>0, <1>t, <1>f DEF LockInv, AmbiguousIsLocked, Ready, ForceLock
  \* Writing a record that is not ambiguous.
  <1>r. ASSUME NEW o \in Orders, NEW r, row' = [row EXCEPT ![o] = r],
               r.bid \/ r.status # "unknown"
        PROVE  \A q \in Orders : Ambiguous(q)' => Ambiguous(q)
    BY <1>t, <1>r DEF Ambiguous
  <1>1. ASSUME NEW o \in Orders, Create(o) PROVE LockInv'
    BY <1>a, <1>r, <1>1, ConstantFacts DEF Create, tasks
  <1>2. ASSUME NEW o \in Orders, RequestCancel(o) PROVE LockInv'
    <2>1. TransitionOrder(row[o], "cancel_pending", FALSE, row[o].filled).bid
      BY <1>t, <1>2, PendingFacts DEF RequestCancel
    <2>2. \A q \in Orders : Ambiguous(q)' => Ambiguous(q)
      BY <1>t, <1>2, <2>1 DEF RequestCancel, Ambiguous
    <2> QED
      BY <1>a, <1>2, <2>2 DEF RequestCancel, tasks
  <1>3. ASSUME NEW o \in Orders, ClaimNext(o) \/ ClaimNextCancel(o)
        PROVE  LockInv'
    BY <1>a, <1>3 DEF ClaimNext, ClaimNextCancel, Ambiguous
  <1>4. CASE AdmitOrder \/ AdmitCancel \/ PlaceOrder \/ AnswerSubmit
             \/ CallCancel
    <2>1. UNCHANGED <<recovery, service, recon, row>> /\ disp.pc # "lock"
      BY <1>4
         DEF AdmitOrder, AdmitCancel, PlaceOrder, AnswerSubmit, CallCancel,
             store
    <2> QED
      BY <1>a, <2>1 DEF Ambiguous
  <1>5. CASE BlockDispatch
    <2>1. disp.order \in Orders /\ disp.base.status = "risk_approved"
      BY <1>0, <1>5 DEF BlockDispatch, TaskInv, IdInv
    <2> QED
      BY <1>a, <1>r, <1>5, <2>1 DEF BlockDispatch
  <1>6. CASE BlockCancel \/ SkipCancel \/ FinishCancel
    <2>1. disp.order \in Orders /\ disp.base.bid /\ disp.pc # "lock"
      BY <1>0, <1>6
         DEF BlockCancel, SkipCancel, FinishCancel, TaskInv, IdInv
    <2>2. ToUnknown(disp.base).bid
      BY <1>t, <2>1, UnknownFacts
    <2>3. FinishCancel => CancelResult.bid
      BY <2>1, CancelId DEF FinishCancel
    <2>4. PICK r \in {disp.base, ToUnknown(disp.base), CancelResult} :
             r.bid /\ row' = [row EXCEPT ![disp.order] = r]
      BY <1>6, <2>1, <2>2, <2>3
         DEF BlockCancel, SkipCancel, FinishCancel, RecordCancel
    <2>5. UNCHANGED <<recovery, service, recon>>
      BY <1>6 DEF BlockCancel, SkipCancel, FinishCancel, RecordCancel
    <2> QED
      BY <1>a, <1>r, <2>1, <2>4, <2>5
  <1>7. CASE RefuseSubmit \/ FinishDispatch
    <2>1. disp.order \in Orders
      BY <1>0, <1>7 DEF RefuseSubmit, FinishDispatch, TaskInv
    <2>2. PICK r : RecordSubmit(r)
      BY <1>7 DEF RefuseSubmit, FinishDispatch
    <2>3. CASE r.status = "unknown"
      <3>1. disp'.pc = "lock" /\ UNCHANGED <<recovery, service, recon>>
        BY <2>2, <2>3 DEF RecordSubmit, IdleDispatch
      <3> QED
        BY <1>0, <3>1 DEF LockInv, AmbiguousIsLocked
    <2>4. CASE r.status # "unknown"
      <3>1. disp.pc # "lock"
        BY <1>7 DEF RefuseSubmit, FinishDispatch
      <3> QED
        BY <1>a, <1>r, <2>1, <2>2, <2>4, <3>1 DEF RecordSubmit
    <2> QED
      BY <2>3, <2>4
  <1>8. CASE PersistUnknownLock \/ FailCallback \/ PersistLock \/ Start
    BY <1>f, <1>8
       DEF PersistUnknownLock, FailCallback, PersistLock, Start, tasks
  <1>9. CASE BeginReconcile
    BY <1>0, <1>t, <1>9
       DEF BeginReconcile, LoopFree, LockInv, AmbiguousIsLocked, Ready
  <1>10. ASSUME NEW o \in Orders, RefreshCandidate(o) PROVE LockInv'
    <2>1. /\ UNCHANGED <<recovery, service>> /\ service = "running"
          /\ recon.pc = "refresh" /\ recon'.pc = "refresh"
          /\ recon'.gen = recon.gen
      BY <1>t, <1>10 DEF RefreshCandidate, LoopFree
    <2> QED
      BY <1>0, <2>1 DEF LockInv, AmbiguousIsLocked, Ready
  <1>11. CASE ReadLocalOrders
    <2>1. /\ UNCHANGED <<recovery, service, row, disp>> /\ service = "running"
          /\ recon.pc = "refresh" /\ recon'.pc = "snapshot"
          /\ recon'.gen = recon.gen /\ recon'.rows = row
      BY <1>t, <1>11 DEF ReadLocalOrders, LoopFree, store
    <2> QED
      BY <1>0, <2>1 DEF LockInv, AmbiguousIsLocked, Ready, Ambiguous
  <1>12. CASE CompleteReconcile
    <2>1. /\ UNCHANGED <<row, disp, service>> /\ recon'.pc = "idle"
          /\ recon.pc = "snapshot" /\ Complete(NoIssues(recon.rows))
      BY <1>12 DEF CompleteReconcile, IdleReconcile
    <2>2. ASSUME recovery'.status = "ready", NEW q \in Orders, Ambiguous(q)
          PROVE  disp.pc = "lock"
      <3>1. recon.gen = recovery.generation /\ NoIssues(recon.rows)
        BY <1>t, <2>1, <2>2 DEF Complete, ForceLock
      <3>2. ~(recon.rows[q].status = "unknown" /\ ~recon.rows[q].bid)
        BY <3>1 DEF NoIssues, NoOrderIssues
      <3> QED
        BY <1>0, <2>1, <2>2, <3>1, <3>2 DEF LockInv
    <2> QED
      BY <2>1, <2>2 DEF LockInv, AmbiguousIsLocked, Ready, Ambiguous
  <1>13. CASE FailReconcile \/ TimeoutReconcile
    <2>1. recon'.pc = "idle" /\ recovery'.status = "locked"
      BY <1>t, <1>13
         DEF FailReconcile, TimeoutReconcile, Complete, ForceLock,
             IdleReconcile
    <2> QED
      BY <2>1 DEF LockInv, AmbiguousIsLocked, Ready
  <1>14. ASSUME NEW o \in Orders, TakeCallback(o) PROVE LockInv'
    BY <1>a, <1>f, <1>14 DEF TakeCallback, Ambiguous, store
  <1>15. CASE RefreshCallback
    <2>1. /\ callb.order \in Orders /\ callb.base \in Row /\ callb.base.bid
          /\ Copy(callb.base, broker[callb.order])
      BY <1>0, <1>15 DEF RefreshCallback, TaskInv, IdInv, CopyInv, TypeOK
    <2>2. Refreshed(callb.base, callb.order).bid
      BY <1>0, <2>1, RefreshId
    <2> QED
      BY <1>a, <1>r, <1>15, <2>1, <2>2
         DEF RefreshCallback, SaveReconciliation
  <1>16. CASE Crash
    BY <1>16 DEF Crash, LockInv, AmbiguousIsLocked, IdleReconcile
  <1>17. CASE Compose
    <2>1. UNCHANGED recon /\ service # "running" /\ service' # "running"
      BY <1>17 DEF Compose, tasks
    <2> QED
      BY <1>0, <2>1 DEF LockInv, AmbiguousIsLocked
  <1>18. ASSUME NEW o \in Orders,
                BrokerFill(o) \/ BrokerEnd(o) \/ BrokerDelist(o)
         PROVE  LockInv'
    BY <1>a, <1>18
       DEF BrokerFill, BrokerEnd, BrokerDelist, Ambiguous, store, tasks
  <1>19. CASE UNCHANGED vars
    BY <1>a, <1>19 DEF Ambiguous, vars, store, tasks
  <1> QED
    BY <1>1, <1>2, <1>3, <1>4, <1>5, <1>6, <1>7, <1>8, <1>9, <1>10, <1>11,
       <1>12, <1>13, <1>14, <1>15, <1>16, <1>17, <1>18, <1>19
       DEF Next, Api, Dispatcher, Reconciler, Callbacks, Broker
------------------------------------------------------------------------------
(* The lock theorem *)

\* An order whose submission is ambiguous keeps the account locked, however
\* reconciliation attempts, callbacks, crashes and restarts interleave with
\* dispatch_once, but for the moment until the dispatcher, or the restarted
\* worker, persists the lock.
THEOREM AmbiguityLocked == Spec => []AmbiguousIsLocked
  <1>1. Init => IdInv /\ LockInv
    BY InitLock
  <1>2. IInv /\ IdInv /\ LockInv /\ [Next]_vars => IdInv' /\ LockInv'
    BY StepId, StepLock
  <1>3. LockInv => AmbiguousIsLocked
    BY DEF LockInv
  <1> QED
    BY <1>1, <1>2, <1>3, Inductive, PTL DEF Spec
------------------------------------------------------------------------------
(* The worker implements the recovery lock *)

\* What a step may do to the lock and to the reconciliation attempt: nothing
\* (an attempt may move on or die), a lock, the begin of an attempt, or the
\* end of one.
LockStep ==
    \/ UNCHANGED recovery /\ (recon'.pc = "idle" \/ recon'.gen = recon.gen)
                          /\ (recon'.pc # "idle" => recon.pc # "idle")
    \/ ForceLock /\ (recon'.pc = "idle" \/ UNCHANGED recon)
    \/ /\ recovery' = [status |-> "reconciling",
                       generation |-> recovery.generation + 1]
       /\ recon'.gen = recovery.generation + 1
    \/ /\ recon.pc # "idle" /\ recon'.pc = "idle"
       /\ \E clean \in BOOLEAN : Complete(clean)

\* The attempt that holds the current generation finds the row RECONCILING.
HolderInv ==
    recon.pc # "idle" /\ recon.gen = recovery.generation
        => recovery.status = "reconciling"

\* Every action is one of the four.
LEMMA StepIsLockStep == IInv /\ [Next]_vars => LockStep
  <1> SUFFICES ASSUME IInv, [Next]_vars PROVE LockStep
    OBVIOUS
  <1>t. recon \in [pc : {"idle", "refresh", "snapshot"}, gen : Nat,
                   todo : SUBSET Orders, rows : [Orders -> Row]]
    BY DEF IInv, TypeOK
  <1>1. CASE UNCHANGED <<recovery, recon>>
    BY <1>1 DEF LockStep
  <1>2. ASSUME NEW o \in Orders, Create(o) \/ RequestCancel(o)
                                 \/ ClaimNext(o) \/ ClaimNextCancel(o)
        PROVE  LockStep
    BY <1>1, <1>2
       DEF Create, RequestCancel, ClaimNext, ClaimNextCancel, tasks
  <1>3. CASE AdmitOrder \/ PlaceOrder \/ AnswerSubmit \/ FinishDispatch
             \/ BlockDispatch \/ RefuseSubmit
    BY <1>1, <1>3
       DEF AdmitOrder, PlaceOrder, AnswerSubmit, FinishDispatch,
           BlockDispatch, RefuseSubmit, RecordSubmit
  <1>4. CASE AdmitCancel \/ BlockCancel \/ SkipCancel \/ CallCancel
             \/ FinishCancel
    BY <1>1, <1>4
       DEF AdmitCancel, BlockCancel, SkipCancel, CallCancel, FinishCancel,
           RecordCancel
  <1>5. CASE PersistUnknownLock \/ FailCallback \/ PersistLock \/ Start
    BY <1>5
       DEF PersistUnknownLock, FailCallback, PersistLock, Start, tasks,
           LockStep
  <1>6. CASE BeginReconcile
    BY <1>6 DEF BeginReconcile, LockStep
  <1>7. ASSUME NEW o \in Orders, RefreshCandidate(o) PROVE LockStep
    <2>1. recon'.gen = recon.gen /\ recon.pc = "refresh" /\ UNCHANGED recovery
      BY <1>t, <1>7 DEF RefreshCandidate
    <2> QED
      BY <2>1 DEF LockStep
  <1>8. CASE ReadLocalOrders
    <2>1. recon'.gen = recon.gen /\ recon.pc = "refresh" /\ UNCHANGED recovery
      BY <1>t, <1>8 DEF ReadLocalOrders
    <2> QED
      BY <2>1 DEF LockStep
  <1>9. CASE CompleteReconcile
    <2>1. NoIssues(recon.rows) \in BOOLEAN
      BY DEF NoIssues, NoOrderIssues, NoPositionIssues
    <2> QED
      BY <1>9, <2>1 DEF CompleteReconcile, IdleReconcile, LockStep
  <1>10. CASE FailReconcile
    BY <1>10 DEF FailReconcile, IdleReconcile, LockStep
  <1>11. CASE TimeoutReconcile
    BY <1>11 DEF TimeoutReconcile, IdleReconcile, LockStep
  <1>12. ASSUME NEW o \in Orders, TakeCallback(o) PROVE LockStep
    BY <1>1, <1>12 DEF TakeCallback, LockStep
  <1>13. CASE RefreshCallback
    BY <1>1, <1>13 DEF RefreshCallback
  <1>14. CASE Crash
    BY <1>14 DEF Crash, IdleReconcile, LockStep
  <1>15. CASE Compose
    BY <1>1, <1>15 DEF Compose, tasks
  <1>16. ASSUME NEW o \in Orders,
                BrokerFill(o) \/ BrokerEnd(o) \/ BrokerDelist(o)
         PROVE  LockStep
    BY <1>1, <1>16 DEF BrokerFill, BrokerEnd, BrokerDelist, tasks
  <1>17. CASE UNCHANGED vars
    BY <1>1, <1>17 DEF vars, tasks
  <1> QED
    BY <1>2, <1>3, <1>4, <1>5, <1>6, <1>7, <1>8, <1>9, <1>10, <1>11, <1>12,
       <1>13, <1>14, <1>15, <1>16, <1>17
       DEF Next, Api, Dispatcher, Reconciler, Callbacks, Broker

\* A lock outdates the attempt in progress, so the holder's row stays
\* RECONCILING until it completes.
LEMMA StepHolder ==
    IInv /\ LockInv /\ HolderInv /\ LockStep => HolderInv'
  <1> SUFFICES ASSUME IInv, LockInv, HolderInv, LockStep PROVE HolderInv'
    OBVIOUS
  <1>1. /\ recovery \in [status : {"locked", "reconciling", "ready"},
                         generation : Nat]
        /\ recon \in [pc : {"idle", "refresh", "snapshot"}, gen : Nat,
                      todo : SUBSET Orders, rows : [Orders -> Row]]
        /\ recon.pc # "idle" => recon.gen <= recovery.generation
    BY DEF IInv, TypeOK, LockInv
  <1> QED
    BY <1>1 DEF LockStep, HolderInv, ForceLock

\* Each of the four is a step of the abstract lock, or leaves it alone.
LEMMA StepAbstract ==
    IInv /\ HolderInv /\ LockStep => [Abstract!Next]_(Abstract!lock)
  <1> SUFFICES ASSUME IInv, HolderInv, LockStep
               PROVE  [Abstract!Next]_(Abstract!lock)
    OBVIOUS
  <1>1. recovery \in [status : {"locked", "reconciling", "ready"},
                      generation : Nat]
    BY DEF IInv, TypeOK
  <1>2. CASE UNCHANGED recovery
    BY <1>2 DEF Abstract!lock
  <1>3. CASE ForceLock
    BY <1>3 DEF ForceLock, Abstract!Next, Abstract!Lock
  <1>4. CASE recovery' = [status |-> "reconciling",
                          generation |-> recovery.generation + 1]
    BY <1>4 DEF Abstract!Next, Abstract!Begin
  <1>5. ASSUME recon.pc # "idle", NEW clean \in BOOLEAN, Complete(clean)
        PROVE  [Abstract!Next]_(Abstract!lock)
    <2>1. CASE recon.gen = recovery.generation
      BY <1>1, <1>5, <2>1
         DEF Complete, HolderInv, Abstract!Next, Abstract!Complete
    <2> QED
      BY <1>3, <1>5, <2>1 DEF Complete
  <1> QED
    BY <1>2, <1>3, <1>4, <1>5 DEF LockStep

\* LiveExecution implements RecoveryLock: whatever the dispatcher, the
\* callbacks, timeouts, crashes and restarts do, an account becomes READY only
\* through the reconciliation that began last, with no lock since.
THEOREM ImplementsRecoveryLock == Spec => RefinesRecoveryLock
  <1>1. Init => IdInv /\ LockInv
    BY InitLock
  <1>2. IInv /\ IdInv /\ LockInv /\ [Next]_vars => IdInv' /\ LockInv'
    BY StepId, StepLock
  <1>3. Init => HolderInv /\ Abstract!Init
    BY DEF Init, HolderInv, IdleReconcile, Abstract!Init
  <1>4. IInv /\ LockInv /\ HolderInv /\ [Next]_vars => HolderInv'
    BY StepIsLockStep, StepHolder
  <1>5. IInv /\ HolderInv /\ [Next]_vars => [Abstract!Next]_(Abstract!lock)
    BY StepIsLockStep, StepAbstract
  <1> QED
    BY <1>1, <1>2, <1>3, <1>4, <1>5, Inductive, PTL
       DEF Spec, RefinesRecoveryLock, Abstract!Spec
------------------------------------------------------------------------------
(* Orders that reach the broker after the lock *)

\* No late call is counted while the account is READY or a submit is admitted:
\* it was admitted READY, and the dispatcher makes one call at a time.
LateInv ==
    /\ lateCalls \in Nat /\ lateCalls <= 1
    /\ Ready \/ disp.pc = "admitted" => lateCalls = 0

\* Only CompleteReconcile makes an account READY.
LEMMA ReadyStep ==
    IInv /\ [Next]_vars =>
        \/ CompleteReconcile
        \/ recovery'.status = "ready" => recovery.status = "ready"
  <1> SUFFICES ASSUME IInv, [Next]_vars, ~CompleteReconcile,
                      recovery'.status = "ready"
               PROVE  recovery.status = "ready"
    OBVIOUS
  <1>1. recovery \in [status : {"locked", "reconciling", "ready"},
                      generation : Nat]
    BY DEF IInv, TypeOK
  <1>2. ~ForceLock /\ ~Complete(FALSE) /\ ~BeginReconcile
    BY <1>1 DEF ForceLock, Complete, BeginReconcile
  <1>3. UNCHANGED recovery
    BY <1>2
       DEF Next, Api, Dispatcher, Reconciler, Callbacks, Broker, vars, Create,
           RequestCancel, ClaimNext, ClaimNextCancel, AdmitOrder, PlaceOrder,
           BlockDispatch, RefuseSubmit, RecordSubmit, AnswerSubmit,
           FinishDispatch, PersistUnknownLock, AdmitCancel, BlockCancel,
           SkipCancel, RecordCancel, CallCancel, FinishCancel,
           RefreshCandidate, ReadLocalOrders, FailReconcile, TimeoutReconcile,
           TakeCallback, RefreshCallback, FailCallback, PersistLock, Crash,
           Compose, Start, BrokerFill, BrokerEnd, BrokerDelist
  <1> QED
    BY <1>3

LEMMA StepLate == IInv /\ LateInv /\ [Next]_vars => LateInv'
  <1> SUFFICES ASSUME IInv, LateInv, [Next]_vars PROVE LateInv'
    OBVIOUS
  <1>t. /\ recovery \in [status : {"locked", "reconciling", "ready"},
                         generation : Nat]
        /\ disp \in [pc : DispatchPc, order : Orders \cup {NoOrder},
                     base : Row, report : Report \cup {Error}]
    BY DEF IInv, TypeOK
  <1>1. CASE PlaceOrder
    <2>1. disp.pc = "admitted" /\ disp'.pc # "admitted" /\ UNCHANGED recovery
      BY <1>t, <1>1 DEF PlaceOrder
    <2>2. lateCalls' = IF recovery.status = "ready" THEN lateCalls
                       ELSE lateCalls + 1
      BY <1>1 DEF PlaceOrder
    <2> QED
      BY <2>1, <2>2 DEF LateInv, Ready
  <1>2. CASE CompleteReconcile
    BY <1>2 DEF CompleteReconcile, LateInv, Ready
  <1>3. CASE AdmitOrder
    BY <1>3 DEF AdmitOrder, Admissible, LateInv, Ready, ghosts
  <1>4. CASE ~PlaceOrder /\ ~CompleteReconcile /\ ~AdmitOrder
    <2>1. Ready' => Ready
      BY <1>4, ReadyStep DEF Ready
    <2>2. disp'.pc = "admitted" => disp.pc = "admitted"
      <3>1. \/ UNCHANGED disp
            \/ disp'.pc # "admitted"
        <4>1. \A o : ClaimNext(o) \/ ClaimNextCancel(o) => disp'.pc # "admitted"
          BY DEF ClaimNext, ClaimNextCancel
        <4>2. \A r : RecordSubmit(r) \/ RecordCancel(r) => disp'.pc # "admitted"
          BY DEF RecordSubmit, RecordCancel, AfterCancel, IdleDispatch
        <4>3. BlockDispatch \/ BlockCancel \/ PersistUnknownLock \/ Crash
                => disp'.pc # "admitted"
          BY DEF BlockDispatch, BlockCancel, AfterCancel, PersistUnknownLock,
                 Crash, IdleDispatch
        <4>4. AnswerSubmit \/ AdmitCancel \/ CallCancel => disp'.pc # "admitted"
          BY <1>t DEF AnswerSubmit, AdmitCancel, CallCancel
        <4> QED
          BY <1>4, <4>1, <4>2, <4>3, <4>4
             DEF Next, Api, Dispatcher, Reconciler, Callbacks, Broker, vars,
                 tasks, Create, RequestCancel, RefuseSubmit, FinishDispatch,
                 SkipCancel, FinishCancel, BeginReconcile, RefreshCandidate,
                 ReadLocalOrders, FailReconcile, TimeoutReconcile,
                 TakeCallback, RefreshCallback, FailCallback, PersistLock,
                 Compose, Start, BrokerFill, BrokerEnd, BrokerDelist
      <3> QED
        BY <3>1
    <2>3. UNCHANGED lateCalls
      BY <1>4
         DEF Next, Api, Dispatcher, Reconciler, Callbacks, Broker, vars, ghosts,
             Create, RequestCancel, ClaimNext, ClaimNextCancel, BlockDispatch,
             RefuseSubmit, RecordSubmit, AnswerSubmit, FinishDispatch,
             PersistUnknownLock, AdmitCancel, BlockCancel, SkipCancel,
             RecordCancel, CallCancel, FinishCancel, BeginReconcile,
             RefreshCandidate, ReadLocalOrders, FailReconcile,
             TimeoutReconcile, TakeCallback, RefreshCallback, FailCallback,
             PersistLock, Crash, Compose, Start, BrokerFill, BrokerEnd,
             BrokerDelist
    <2> QED
      BY <2>1, <2>2, <2>3 DEF LateInv
  <1> QED
    BY <1>1, <1>2, <1>3, <1>4

\* Once a lock is persisted, at most the one order that _assert_order_admitted
\* had already let through still reaches place_order before the account is
\* READY again, however often locks, crashes and attempts follow each other.
THEOREM OneLateCall == Spec => []AtMostOneLateCall
  <1>1. Init => LateInv
    BY DEF Init, LateInv, Ready, IdleDispatch
  <1>2. LateInv => AtMostOneLateCall
    BY DEF LateInv, AtMostOneLateCall
  <1> QED
    BY <1>1, <1>2, StepLate, Inductive, PTL DEF Spec

\* In a worker without a guardian no attempt unlocks the account over an order
\* that is UNKNOWN without a broker id: nothing runs on the event loop between
\* the UNKNOWN result and its lock.
THEOREM UnlockUnambiguous ==
    ASSUME ~GuardianEnabled
    PROVE  Spec => UnlockNeverOverAmbiguous
  <1>1. Init => IdInv /\ LockInv
    BY InitLock
  <1>2. IInv /\ IdInv /\ LockInv /\ [Next]_vars => IdInv' /\ LockInv'
    BY StepId, StepLock
  <1>3. IInv /\ LockInv /\ [Next]_vars =>
           [Unlocks => \A o \in Orders : ~Ambiguous(o)]_vars
    <2> SUFFICES ASSUME IInv, LockInv, [Next]_vars, Unlocks,
                        NEW o \in Orders, Ambiguous(o)
                 PROVE  FALSE
      OBVIOUS
    <2>1. CompleteReconcile
      BY ReadyStep DEF Unlocks
    <2>2. recovery \in [status : {"locked", "reconciling", "ready"},
                        generation : Nat]
      BY DEF IInv, TypeOK
    <2>3. recon.gen = recovery.generation /\ NoIssues(recon.rows)
      BY <2>1, <2>2 DEF CompleteReconcile, Complete, ForceLock, Unlocks
    <2>4. ~(recon.rows[o].status = "unknown" /\ ~recon.rows[o].bid)
      BY <2>3 DEF NoIssues, NoOrderIssues
    <2>5. recon.pc = "snapshot" /\ disp.pc # "lock"
      BY <2>1 DEF CompleteReconcile, LoopFree
    <2> QED
      BY <2>3, <2>4, <2>5 DEF LockInv
  <1> QED
    BY <1>1, <1>2, <1>3, Inductive, PTL DEF Spec, UnlockNeverOverAmbiguous
------------------------------------------------------------------------------
(* Filled quantities: copies lag behind the broker *)

\* The broker lists only orders it has; what it has not taken, or has only
\* accepted, is not filled.
BrokerInv ==
    \A o \in Orders :
        /\ broker[o].listed => broker[o].status # "none"
        /\ broker[o].status \in {"none", "accepted"} => broker[o].filled = 0

\* A copy r of an order's record is never ahead of the broker's record b, and
\* a reserved order has no fills.
Behind(r, b) ==
    /\ r.filled <= b.filled
    /\ r.status \in {"absent", "risk_approved"} => r.filled = 0

BehindInv ==
    \A o \in Orders :
        /\ Behind(row[o], broker[o])
        /\ Behind(recon.rows[o], broker[o])
        /\ ledger[o] <= broker[o].filled
        /\ disp.order = o => Behind(disp.base, broker[o])
        /\ disp.order = o => disp.report.filled <= broker[o].filled
        /\ callb.order = o => Behind(callb.base, broker[o])

\* The record of a claimed cancel is the row's, as to fills; the answer of a
\* cancel is not behind the row, as nobody else asks the broker meanwhile.
HeldInv ==
    \A o \in Orders :
        /\ disp.pc = "cancel_claimed" /\ disp.order = o =>
              disp.base.filled = row[o].filled
        /\ disp.pc = "cancel_answered" /\ disp.order = o
                                       /\ disp.report # Error =>
              row[o].filled <= disp.report.filled

\* As long as an attempt may still complete, the row of a listed order has not
\* fallen behind what the attempt has read of it.
ReadInv ==
    /\ recon.pc = "snapshot" /\ recon.gen = recovery.generation
    /\ disp.pc # "cancel_lock"
    => \A o \in Orders : broker[o].listed =>
          recon.rows[o].filled <= row[o].filled

\* What a step may do to the broker's record of an order.
Grows(b, c) ==
    /\ b.filled <= c.filled
    /\ c.listed => b.listed \/ b.status = "none"

LEMMA BrokerGrows ==
    IInv /\ BrokerInv /\ [Next]_vars =>
        BrokerInv' /\ \A o \in Orders : Grows(broker[o], broker'[o])
  <1> SUFFICES ASSUME IInv, BrokerInv, [Next]_vars
               PROVE  BrokerInv' /\ \A o \in Orders : Grows(broker[o], broker'[o])
    OBVIOUS
  <1>t. broker \in [Orders -> BrokerOrder]
    BY DEF IInv, TypeOK
  <1>i. \A o \in Orders : broker[o].filled \in 0..Quantity /\ Quantity \in Nat
    BY <1>t, QuantityAssumption DEF BrokerOrder
  <1>1. CASE UNCHANGED broker
    BY <1>i, <1>1 DEF BrokerInv, Grows
  <1>2. CASE PlaceOrder
    <2>1. disp.order \in Orders /\ broker[disp.order].status = "none"
      BY <1>2 DEF IInv, TaskInv, SubmitPc, CallsInv, PlaceOrder
    <2>2. \/ UNCHANGED broker
          \/ \E s \in {"accepted", "rejected"} :
                broker' = [broker EXCEPT ![disp.order] =
                    [status |-> s, filled |-> 0, listed |-> TRUE]]
      BY <1>2 DEF PlaceOrder
    <2> QED
      BY <1>t, <1>i, <1>1, <2>1, <2>2 DEF BrokerInv, Grows
  <1>3. CASE CallCancel
    <2>1. disp.order \in Orders
      BY <1>3 DEF IInv, TaskInv, CancelPc, CallCancel
    <2>2. \/ UNCHANGED broker
          \/ broker' = [broker EXCEPT ![disp.order].status = "cancelled"]
      BY <1>3 DEF CallCancel
    <2> QED
      BY <1>t, <1>i, <1>1, <2>1, <2>2 DEF BrokerInv, Grows, BrokerOrder
  <1>4. ASSUME NEW o \in Orders, BrokerFill(o)
        PROVE  BrokerInv' /\ \A q \in Orders : Grows(broker[q], broker'[q])
    BY <1>t, <1>i, <1>4 DEF BrokerFill, Working, BrokerInv, Grows
  <1>5. ASSUME NEW o \in Orders, BrokerEnd(o)
        PROVE  BrokerInv' /\ \A q \in Orders : Grows(broker[q], broker'[q])
    BY <1>t, <1>i, <1>5 DEF BrokerEnd, Working, BrokerInv, Grows, BrokerOrder
  <1>6. ASSUME NEW o \in Orders, BrokerDelist(o)
        PROVE  BrokerInv' /\ \A q \in Orders : Grows(broker[q], broker'[q])
    BY <1>t, <1>i, <1>6 DEF BrokerDelist, BrokerInv, Grows
  <1>7. \/ UNCHANGED broker \/ PlaceOrder \/ CallCancel
        \/ \E o \in Orders : BrokerFill(o) \/ BrokerEnd(o) \/ BrokerDelist(o)
    BY DEF Next, Api, Dispatcher, Reconciler, Callbacks, Broker, vars, Create,
           RequestCancel, ClaimNext, ClaimNextCancel, AdmitOrder,
           BlockDispatch, RefuseSubmit, RecordSubmit, AnswerSubmit,
           FinishDispatch, PersistUnknownLock, AdmitCancel, BlockCancel,
           SkipCancel, RecordCancel, FinishCancel, BeginReconcile,
           RefreshCandidate, ReadLocalOrders, CompleteReconcile,
           FailReconcile, TimeoutReconcile, TakeCallback, RefreshCallback,
           FailCallback, PersistLock, Crash, Compose, Start
  <1> QED
    BY <1>1, <1>2, <1>3, <1>4, <1>5, <1>6, <1>7

\* Turning a record into UNKNOWN, or requesting its cancel, keeps its fills.
LEMMA UnknownFill ==
    ASSUME NEW r \in Row
    PROVE  /\ ToUnknown(r).filled = r.filled
           /\ TransitionOrder(r, "cancel_pending", FALSE, r.filled).filled = r.filled
  BY DEF ToUnknown, TransitionOrder, Repeats, Row

LEMMA UnknownBehind ==
    ASSUME NEW r \in Row, NEW b, Behind(r, b)
    PROVE  Behind(ToUnknown(r), b)
  BY UnknownFill, UnknownFacts DEF Behind

\* A report applied to a copy.
LEMMA ApplyBehind ==
    ASSUME NEW r \in Row, NEW p \in Report, NEW b, Behind(r, b),
           p.filled <= b.filled
    PROVE  Behind(ApplyReport(r, p), b)
  BY ApplyFacts DEF Behind, Report, ReportStatus, Terminal

\* A refresh is not ahead of the broker; one of a listed order by its id has
\* caught up with it.
LEMMA RefreshBehind ==
    ASSUME TypeOK, BrokerInv, NEW o \in Orders, NEW r \in Row,
           Copy(r, broker[o]), Behind(r, broker[o])
    PROVE  /\ Behind(Refreshed(r, o), broker[o])
           /\ Found(r, o) => Refreshed(r, o).filled = broker[o].filled
  <1>1. broker[o] \in BrokerOrder /\ broker[o].filled \in Nat /\ r.filled \in Nat
    BY QuantityAssumption DEF TypeOK, BrokerOrder, Row
  <1>2. CASE Found(r, o)
    <2>1. broker[o].status # "none"
      BY <1>2 DEF Found, BrokerInv
    <2>2. /\ ReportOf(o) \in Report /\ ReportOf(o).filled = broker[o].filled
          /\ ReportOf(o).status = broker[o].status
      BY <2>1, ReportOfFacts DEF ReportOf
    <2>3. Behind(ApplyReport(r, ReportOf(o)), broker[o])
      BY <1>1, <2>2, ApplyBehind
    <2>4. ApplyReport(r, ReportOf(o)).filled = broker[o].filled
      <3>1. CASE Repeats(r, broker[o].status)
        <4>1. r.status = broker[o].status /\ r.status \in {"accepted"} \cup Terminal
          BY <1>1, <2>1, <3>1 DEF Repeats, BrokerOrder, ReportStatus
        <4>2. r.filled = broker[o].filled
          BY <1>1, <4>1 DEF Copy, BrokerInv, Behind
        <4> QED
          BY <2>2, <3>1, <4>2 DEF ApplyReport, TransitionOrder
      <3>2. CASE ~Repeats(r, broker[o].status)
        BY <2>2, <3>2 DEF ApplyReport, TransitionOrder
      <3> QED
        BY <3>1, <3>2
    <2> QED
      BY <1>2, <2>3, <2>4 DEF Refreshed
  <1>3. CASE ~Found(r, o)
    BY <1>3, UnknownBehind DEF Refreshed
  <1> QED
    BY <1>2, <1>3

\* The results of a submit and of a cancel.
LEMMA ResultsBehind ==
    ASSUME IInv, BehindInv, disp.order \in Orders
    PROVE  /\ disp.pc = "answered" => Behind(SubmitResult, broker[disp.order])
           /\ Behind(CancelResult, broker[disp.order])
           /\ CancelResult.status = "unknown"
                 \/ (disp.report # Error /\ CancelResult.filled = disp.report.filled)
  <1>1. /\ disp.base \in Row /\ disp.report \in Report \cup {Error}
        /\ Behind(disp.base, broker[disp.order])
        /\ disp.report.filled <= broker[disp.order].filled
        /\ broker[disp.order].filled \in Nat
    BY QuantityAssumption DEF IInv, TypeOK, BehindInv, BrokerOrder
  <1>2. Behind(SubmittingRow, broker[disp.order])
    BY <1>1 DEF Behind, SubmittingRow
  <1>3. /\ PendingCopy \in Row /\ PendingCopy.status = "cancel_pending"
        /\ PendingCopy.filled = disp.base.filled
    BY <1>1, PendingFacts, UnknownFill DEF PendingCopy
  <1>4. Behind(PendingCopy, broker[disp.order])
    BY <1>1, <1>3 DEF Behind
  <1>5. Behind(SubmitResult, broker[disp.order])
    BY <1>1, <1>2, ConstantFacts, ApplyBehind, UnknownBehind DEF SubmitResult
  <1>6. Behind(CancelResult, broker[disp.order])
    BY <1>1, <1>3, <1>4, ApplyBehind, UnknownBehind DEF CancelResult
  <1>7. CASE disp.report # Error /\ CanApply(PendingCopy, disp.report)
    <2>1. disp.report \in Report /\ ~Repeats(PendingCopy, disp.report.status)
      BY <1>1, <1>3, <1>7 DEF Report, ReportStatus, Terminal, Repeats
    <2>2. ApplyReport(PendingCopy, disp.report).filled = disp.report.filled
      BY <2>1 DEF ApplyReport, TransitionOrder
    <2> QED
      BY <1>5, <1>6, <1>7, <2>2 DEF CancelResult
  <1>8. CASE ~(disp.report # Error /\ CanApply(PendingCopy, disp.report))
    BY <1>1, <1>5, <1>6, <1>8, UnknownFacts DEF CancelResult
  <1> QED
    BY <1>7, <1>8

\* No step writes, takes or is given a quantity the broker has not filled.
LEMMA StepBehind == IInv /\ BrokerInv /\ BehindInv /\ [Next]_vars => BehindInv'
  <1> SUFFICES ASSUME IInv, BrokerInv, BehindInv, [Next]_vars PROVE BehindInv'
    OBVIOUS
  <1> USE DEF SubmitPc, CancelPc
  <1>0. TaskInv /\ CopyInv /\ TypeOK
    BY DEF IInv
  <1>t. /\ row \in [Orders -> Row]
        /\ disp \in [pc : DispatchPc, order : Orders \cup {NoOrder},
                     base : Row, report : Report \cup {Error}]
        /\ recon \in [pc : {"idle", "refresh", "snapshot"}, gen : Nat,
                      todo : SUBSET Orders, rows : [Orders -> Row]]
        /\ callb \in [pc : {"idle", "refresh"}, order : Orders \cup {NoOrder},
                      base : Row]
        /\ broker \in [Orders -> BrokerOrder]
    BY <1>0 DEF TypeOK
  <1>i. \A o \in Orders : broker[o].filled \in Nat /\ broker'[o].filled \in Nat
    <2>1. broker' \in [Orders -> BrokerOrder]
      BY StepType DEF TypeOK
    <2> QED
      BY <1>t, <2>1, QuantityAssumption DEF BrokerOrder
  \* What was behind the old record is behind the new one.
  <1>g. \A o \in Orders : \A n \in Nat :
           n <= broker[o].filled => n <= broker'[o].filled
    BY <1>i, BrokerGrows DEF Grows
  <1>b. \A o \in Orders : \A r \in Row :
           Behind(r, broker[o]) => Behind(r, broker'[o])
    BY <1>g, QuantityAssumption DEF Behind, Row
  <1>k. \A o \in Orders :
           /\ Behind(row[o], broker'[o])
           /\ Behind(recon.rows[o], broker'[o])
           /\ ledger[o] <= broker'[o].filled
           /\ disp.order = o => Behind(disp.base, broker'[o])
           /\ disp.order = o => disp.report.filled <= broker'[o].filled
           /\ callb.order = o => Behind(callb.base, broker'[o])
    <2>1. \A o \in Orders : ledger[o] \in Nat
      BY <1>0, QuantityAssumption DEF TypeOK
    <2>2. disp.report.filled \in Nat
      BY <1>t, QuantityAssumption DEF Report, Error
    <2> QED
      BY <1>t, <1>g, <1>b, <2>1, <2>2 DEF BehindInv
  <1>n. NoOrder \notin Orders
    BY ConstantFacts
  <1>z. \A o \in Orders : Behind(AbsentRow, broker'[o]) /\ Behind(ReservedRow, broker'[o])
    BY <1>i DEF Behind, AbsentRow, ReservedRow
  \* Writing a record that is behind, where the broker's record stays.
  <1>w. ASSUME NEW o \in Orders, NEW r, row' = [row EXCEPT ![o] = r],
               Behind(r, broker'[o])
        PROVE  \A q \in Orders : Behind(row'[q], broker'[q])
    BY <1>t, <1>k, <1>w
  <1>1. ASSUME NEW o \in Orders, Create(o) PROVE BehindInv'
    BY <1>k, <1>w, <1>z, <1>1 DEF Create, BehindInv, tasks
  <1>2. ASSUME NEW o \in Orders, RequestCancel(o) PROVE BehindInv'
    <2> DEFINE c == TransitionOrder(row[o], "cancel_pending", FALSE, row[o].filled)
    <2>1. Behind(c, broker'[o])
      BY <1>t, <1>k, PendingFacts, UnknownFill DEF Behind
    <2> HIDE DEF c
    <2>2. UNCHANGED row \/ row' = [row EXCEPT ![o] = c]
      BY <1>2 DEF RequestCancel, c
    <2>3. \A q \in Orders : Behind(row'[q], broker'[q])
      BY <1>k, <1>w, <2>1, <2>2
    <2> QED
      BY <1>k, <1>2, <2>3 DEF RequestCancel, BehindInv, tasks
  <1>3. ASSUME NEW o \in Orders, ClaimNext(o) \/ ClaimNextCancel(o)
        PROVE  BehindInv'
    <2>1. /\ UNCHANGED <<row, recon, callb, ledger>>
          /\ disp'.base = row[o] /\ disp'.report.filled = 0 /\ disp'.order = o
      BY <1>3 DEF ClaimNext, ClaimNextCancel, Error
    <2> QED
      BY <1>i, <1>k, <2>1 DEF BehindInv
  <1>4. CASE AdmitOrder \/ AdmitCancel \/ PlaceOrder
    <2>1. /\ UNCHANGED <<row, recon, callb, ledger>>
          /\ disp'.base = disp.base /\ disp'.order = disp.order
          /\ disp'.report = disp.report
      BY <1>t, <1>4 DEF AdmitOrder, AdmitCancel, PlaceOrder, store
    <2> QED
      BY <1>k, <2>1 DEF BehindInv
  <1>5. CASE BlockDispatch \/ RefuseSubmit \/ FinishDispatch \/ BlockCancel
             \/ SkipCancel \/ FinishCancel
    <2>1. disp.order \in Orders /\ UNCHANGED <<recon, callb, ledger, broker>>
      BY <1>0, <1>5 DEF BlockDispatch, RefuseSubmit, FinishDispatch, BlockCancel,
           SkipCancel, FinishCancel, RecordSubmit, RecordCancel, TaskInv
    <2>2. disp'.order = NoOrder
      BY <1>5 DEF BlockDispatch, RefuseSubmit, FinishDispatch, BlockCancel,
           SkipCancel, FinishCancel, RecordSubmit, RecordCancel, AfterCancel,
           IdleDispatch
    <2>3. Behind(ToUnknown(disp.base), broker'[disp.order])
      BY <1>t, <1>k, <2>1, UnknownBehind
    <2>4. PICK r : row' = [row EXCEPT ![disp.order] = r] /\ Behind(r, broker'[disp.order])
      BY <1>5, <1>k, <2>1, <2>3, ResultsBehind
         DEF BlockDispatch, RefuseSubmit, FinishDispatch, BlockCancel, SkipCancel,
             FinishCancel, RecordSubmit, RecordCancel
    <2> QED
      BY <1>k, <1>n, <1>w, <2>1, <2>2, <2>4 DEF BehindInv
  <1>6. CASE AnswerSubmit \/ CallCancel
    <2>1. disp.order \in Orders /\ UNCHANGED <<row, recon, callb, ledger>>
      BY <1>0, <1>6 DEF AnswerSubmit, CallCancel, TaskInv, store
    <2>2. /\ disp'.base = disp.base /\ disp'.order = disp.order
          /\ disp'.report.filled \in {0, broker'[disp.order].filled}
      <3>1. CASE AnswerSubmit
        BY <1>t, <3>1 DEF AnswerSubmit, SubmitAnswers, ReportOf, Error
      <3>2. CASE CallCancel
        BY <1>t, <3>2 DEF CallCancel, Error
      <3> QED
        BY <1>6, <3>1, <3>2
    <2> QED
      BY <1>i, <1>k, <2>1, <2>2 DEF BehindInv
  <1>7. CASE PersistUnknownLock
    BY <1>k, <1>n, <1>7 DEF PersistUnknownLock, BehindInv, IdleDispatch, store
  <1>8. CASE BeginReconcile \/ ReadLocalOrders
    <2>1. UNCHANGED <<row, disp, callb, ledger>> /\ recon'.rows = row
      <3>1. CASE BeginReconcile
        BY <3>1 DEF BeginReconcile, store
      <3>2. CASE ReadLocalOrders
        BY <1>t, <3>2 DEF ReadLocalOrders, store
      <3> QED
        BY <1>8, <3>1, <3>2
    <2> QED
      BY <1>k, <2>1 DEF BehindInv
  <1>9. CASE CompleteReconcile \/ FailReconcile \/ TimeoutReconcile
    <2>1. UNCHANGED <<row, disp, callb, broker>> /\ recon' = IdleReconcile
      BY <1>9 DEF CompleteReconcile, FailReconcile, TimeoutReconcile, store
    <2>2. \A o \in Orders : ledger'[o] \in {ledger[o], broker[o].filled}
      BY <1>9
         DEF CompleteReconcile, FailReconcile, TimeoutReconcile, store, RecordFills
    <2>3. \A o \in Orders : recon'.rows[o] = AbsentRow
      BY <2>1 DEF IdleReconcile
    <2> QED
      BY <1>i, <1>k, <1>z, <2>1, <2>2, <2>3 DEF BehindInv
  <1>10. ASSUME NEW o \in Orders, RefreshCandidate(o) PROVE BehindInv'
    <2>1. /\ recon.rows[o] \in Row /\ Copy(recon.rows[o], broker[o])
          /\ Behind(recon.rows[o], broker[o])
      BY <1>0, <1>t DEF CopyInv, BehindInv
    <2>2. /\ UNCHANGED <<disp, callb, broker, ledger>> /\ recon'.rows = recon.rows
      BY <1>t, <1>10 DEF RefreshCandidate, SaveReconciliation
    <2>3. PICK r \in {Refreshed(recon.rows[o], o), ToUnknown(recon.rows[o])} :
             row' = [row EXCEPT ![o] = r]
      BY <1>10 DEF RefreshCandidate, SaveReconciliation
    <2>4. Behind(r, broker'[o])
      BY <1>0, <2>1, <2>2, <2>3, RefreshBehind, UnknownBehind
    <2> QED
      BY <1>k, <1>w, <2>2, <2>3, <2>4 DEF BehindInv
  <1>11. ASSUME NEW o \in Orders, TakeCallback(o) PROVE BehindInv'
    <2>1. UNCHANGED <<row, disp, recon, ledger>>
      BY <1>11 DEF TakeCallback, store
    <2>2. \/ callb' = [pc |-> "refresh", order |-> o, base |-> row[o]]
          \/ UNCHANGED callb
      BY <1>11 DEF TakeCallback
    <2>3. \A q \in Orders : callb'.order = q => Behind(callb'.base, broker'[q])
      BY <1>k, <2>2
    <2> QED
      BY <1>k, <2>1, <2>3 DEF BehindInv
  <1>12. CASE RefreshCallback
    <2>1. callb.order \in Orders /\ callb.base \in Row
      BY <1>0, <1>t, <1>12 DEF RefreshCallback, TaskInv
    <2>2. Copy(callb.base, broker[callb.order]) /\ Behind(callb.base, broker[callb.order])
      BY <1>0, <2>1 DEF CopyInv, BehindInv
    <2>3. /\ UNCHANGED <<disp, recon, broker, ledger>> /\ callb'.order = NoOrder
          /\ row' = [row EXCEPT ![callb.order] = Refreshed(callb.base, callb.order)]
      BY <1>12 DEF RefreshCallback, SaveReconciliation, IdleCallback
    <2>4. Behind(Refreshed(callb.base, callb.order), broker'[callb.order])
      BY <1>0, <2>1, <2>2, <2>3, RefreshBehind
    <2> QED
      BY <1>k, <1>n, <1>w, <2>1, <2>3, <2>4 DEF BehindInv
  <1>13. CASE FailCallback \/ PersistLock \/ Start
    BY <1>k, <1>n, <1>13
       DEF FailCallback, PersistLock, Start, BehindInv, IdleCallback, store, tasks
  <1>14. CASE Crash
    <2>1. /\ UNCHANGED <<row, ledger>> /\ disp'.order = NoOrder
          /\ callb'.order = NoOrder
          /\ \A o \in Orders : recon'.rows[o] = AbsentRow
      BY <1>14 DEF Crash, IdleDispatch, IdleReconcile, IdleCallback, store
    <2> QED
      BY <1>k, <1>n, <1>z, <2>1 DEF BehindInv
  <1>15. CASE Compose
    <2>1. \A o \in Orders : Behind(BootRow(o), broker'[o])
      BY <1>t, <1>k DEF BootRow, Behind, Row
    <2> QED
      BY <1>k, <1>15, <2>1 DEF Compose, BehindInv, tasks
  <1>16. ASSUME NEW o \in Orders,
                BrokerFill(o) \/ BrokerEnd(o) \/ BrokerDelist(o)
         PROVE  BehindInv'
    BY <1>k, <1>16
       DEF BrokerFill, BrokerEnd, BrokerDelist, BehindInv, store, tasks
  <1>17. CASE UNCHANGED vars
    BY <1>k, <1>17 DEF BehindInv, vars, store, tasks
  <1> QED
    BY <1>1, <1>2, <1>3, <1>4, <1>5, <1>6, <1>7, <1>8, <1>9, <1>10, <1>11,
       <1>12, <1>13, <1>14, <1>15, <1>16, <1>17
       DEF Next, Api, Dispatcher, Reconciler, Callbacks, Broker

\* Who writes rows.
LEMMA RowWriters ==
    [Next]_vars =>
        \/ UNCHANGED row
        \/ \E o \in Orders : Create(o) \/ RequestCancel(o) \/ RefreshCandidate(o)
        \/ BlockDispatch \/ RefuseSubmit \/ FinishDispatch
        \/ BlockCancel \/ SkipCancel \/ FinishCancel
        \/ RefreshCallback \/ Compose
  BY DEF Next, Api, Dispatcher, Reconciler, Callbacks, Broker, vars, store,
         ClaimNext, ClaimNextCancel, AdmitOrder, PlaceOrder, AnswerSubmit,
         PersistUnknownLock, AdmitCancel, CallCancel, BeginReconcile,
         ReadLocalOrders, CompleteReconcile, FailReconcile, TimeoutReconcile,
         TakeCallback, FailCallback, PersistLock, Crash, Start, BrokerFill,
         BrokerEnd, BrokerDelist

\* An order the broker has is not created again, and a cancel request keeps
\* its fills.
LEMMA ApiFills ==
    ASSUME IInv, NEW o \in Orders, broker[o].status # "none",
           NEW p \in Orders, Create(p) \/ RequestCancel(p)
    PROVE  row'[o].filled = row[o].filled
  <1>1. row \in [Orders -> Row]
    BY DEF IInv, TypeOK
  <1>2. row[o].status # "absent"
    BY DEF IInv, CallsInv
  <1>3. CASE Create(p)
    BY <1>1, <1>2, <1>3 DEF Create
  <1>4. CASE RequestCancel(p)
    BY <1>1, <1>4, UnknownFill DEF RequestCancel
  <1> QED
    BY <1>3, <1>4

\* While a cancel is claimed, or answered, nobody changes the order's fills.
LEMMA QuietRow ==
    ASSUME IInv, [Next]_vars, UNCHANGED disp,
           disp.pc \in {"cancel_claimed", "cancel_answered"}
    PROVE  row'[disp.order].filled = row[disp.order].filled
  <1>1. /\ disp.order \in Orders /\ broker[disp.order].status # "none"
        /\ service = "running" /\ row \in [Orders -> Row]
    BY DEF IInv, TaskInv, CancelPc, TypeOK
  <1>2. ~LoopFree \/ ~SdkFree
    BY DEF LoopFree, SdkFree
  <1>3. /\ ~RefreshCallback /\ ~Compose
        /\ \A o \in Orders : ~RefreshCandidate(o)
    BY <1>1, <1>2 DEF RefreshCallback, RefreshCandidate, Compose
  <1>4. /\ ~BlockDispatch /\ ~RefuseSubmit /\ ~FinishDispatch
        /\ ~BlockCancel /\ ~SkipCancel /\ ~FinishCancel
    BY DEF BlockDispatch, RefuseSubmit, FinishDispatch, BlockCancel, SkipCancel,
           FinishCancel, RecordCancel, AfterCancel, IdleDispatch
  <1> QED
    BY <1>1, <1>3, <1>4, RowWriters, ApiFills

LEMMA StepHeld ==
    IInv /\ BrokerInv /\ BehindInv /\ HeldInv /\ [Next]_vars => HeldInv'
  <1> SUFFICES ASSUME IInv, BrokerInv, BehindInv, HeldInv, [Next]_vars
               PROVE  HeldInv'
    OBVIOUS
  <1>t. /\ row \in [Orders -> Row] /\ row' \in [Orders -> Row]
        /\ disp \in [pc : DispatchPc, order : Orders \cup {NoOrder},
                     base : Row, report : Report \cup {Error}]
    BY StepType DEF IInv, TypeOK
  <1>1. CASE UNCHANGED disp
    BY <1>1, QuietRow DEF HeldInv
  <1>2. ASSUME NEW o \in Orders, ClaimNextCancel(o) PROVE HeldInv'
    BY <1>2 DEF ClaimNextCancel, HeldInv
  <1>3. CASE CallCancel
    <2>1. PICK r \in {Error, [status |-> broker'[disp.order].status,
                              filled |-> broker'[disp.order].filled]} :
             disp' = [disp EXCEPT !.pc = "cancel_answered", !.report = r]
      BY <1>3 DEF CallCancel
    <2>2. /\ disp'.pc = "cancel_answered" /\ disp'.order = disp.order
          /\ disp'.report = r
      BY <1>t, <2>1
    <2>3. BehindInv'
      BY StepBehind
    <2>4. UNCHANGED row
      BY <1>3 DEF CallCancel, store
    <2>5. r # Error => r.filled = broker'[disp.order].filled
      BY <2>1
    <2> QED
      BY <2>2, <2>3, <2>5 DEF HeldInv, BehindInv, Behind
  <1>4. CASE disp'.pc \notin {"cancel_claimed", "cancel_answered"}
    BY <1>4 DEF HeldInv
  <1>5. ASSUME NEW o \in Orders, ClaimNext(o)
        PROVE  disp'.pc \notin {"cancel_claimed", "cancel_answered"}
    BY <1>5 DEF ClaimNext
  <1>6. ASSUME AdmitOrder \/ PlaceOrder \/ AnswerSubmit \/ AdmitCancel
        PROVE  disp'.pc \notin {"cancel_claimed", "cancel_answered"}
    BY <1>t, <1>6 DEF AdmitOrder, PlaceOrder, AnswerSubmit, AdmitCancel
  <1>7. ASSUME BlockDispatch \/ RefuseSubmit \/ FinishDispatch \/ BlockCancel
               \/ SkipCancel \/ FinishCancel \/ PersistUnknownLock \/ Crash
        PROVE  disp'.pc \notin {"cancel_claimed", "cancel_answered"}
    BY <1>7 DEF BlockDispatch, RefuseSubmit, FinishDispatch, BlockCancel,
           SkipCancel, FinishCancel, RecordSubmit, RecordCancel, AfterCancel,
           PersistUnknownLock, Crash, IdleDispatch
  <1> QED
    BY <1>1, <1>2, <1>3, <1>4, <1>5, <1>6, <1>7
       DEF Next, Api, Dispatcher, Reconciler, Callbacks, Broker, vars, tasks,
           Create, RequestCancel, BeginReconcile, RefreshCandidate,
           ReadLocalOrders, CompleteReconcile, FailReconcile, TimeoutReconcile,
           TakeCallback, RefreshCallback, FailCallback, PersistLock, Compose,
           Start, BrokerFill, BrokerEnd, BrokerDelist

\* After an attempt has read the rows, the row of a listed order only moves
\* forward, unless its cancel ended UNKNOWN and the dispatcher locks next.
LEMMA RowForward ==
    ASSUME IInv, IdInv, BrokerInv, BehindInv, HeldInv, [Next]_vars,
           recon.pc = "snapshot", disp'.pc # "cancel_lock",
           NEW o \in Orders, broker[o].listed
    PROVE  row[o].filled <= row'[o].filled
  <1>0. TaskInv /\ CopyInv /\ TypeOK
    BY DEF IInv
  <1>t. /\ row \in [Orders -> Row]
        /\ disp \in [pc : DispatchPc, order : Orders \cup {NoOrder},
                     base : Row, report : Report \cup {Error}]
    BY <1>0 DEF TypeOK
  <1>i. row[o].filled \in Nat /\ row'[o].filled \in Nat
    <2>1. row' \in [Orders -> Row]
      BY StepType DEF TypeOK
    <2> QED
      BY <1>t, <2>1, QuantityAssumption DEF Row
  <1>b. broker[o].status # "none"
    BY DEF BrokerInv
  <1>1. CASE UNCHANGED row
    BY <1>1, <1>i
  <1>2. ASSUME NEW p \in Orders, Create(p) \/ RequestCancel(p)
        PROVE  row[o].filled <= row'[o].filled
    BY <1>i, <1>b, <1>2, ApiFills
  <1>3. \A p \in Orders : ~RefreshCandidate(p)
    BY DEF RefreshCandidate
  <1>4. CASE BlockDispatch \/ RefuseSubmit \/ FinishDispatch
    <2>1. disp.order \in Orders /\ outbox[disp.order] = "processing"
      BY <1>0, <1>4 DEF BlockDispatch, RefuseSubmit, FinishDispatch, TaskInv, SubmitPc
    <2>2. row[disp.order].filled = 0
      BY <2>1 DEF IdInv, InFlight, BehindInv, Behind
    <2>3. o # disp.order => row'[o] = row[o]
      BY <1>t, <1>4 DEF BlockDispatch, RefuseSubmit, FinishDispatch, RecordSubmit
    <2> QED
      BY <1>i, <2>2, <2>3
  <1>5. CASE BlockCancel \/ SkipCancel
    <2>1. /\ disp.order \in Orders /\ disp.pc = "cancel_claimed" /\ disp.base \in Row
      BY <1>0, <1>t, <1>5 DEF BlockCancel, SkipCancel, TaskInv, CancelPc
    <2>2. row' = [row EXCEPT ![disp.order] = disp.base]
             \/ row' = [row EXCEPT ![disp.order] = ToUnknown(disp.base)]
      BY <1>5 DEF BlockCancel, SkipCancel, RecordCancel
    <2>3. disp.base.filled = row[disp.order].filled
      BY <2>1 DEF HeldInv
    <2>4. ToUnknown(disp.base).filled = disp.base.filled
      BY <2>1, UnknownFill
    <2> QED
      BY <1>t, <1>i, <2>1, <2>2, <2>3, <2>4
  <1>6. CASE FinishCancel
    <2>1. /\ disp.order \in Orders /\ disp.pc = "cancel_answered"
          /\ row' = [row EXCEPT ![disp.order] = CancelResult]
          /\ disp' = AfterCancel(CancelResult)
      BY <1>0, <1>6 DEF FinishCancel, RecordCancel, TaskInv, CancelPc
    <2>2. CancelResult.status # "unknown"
      BY <2>1 DEF AfterCancel, IdleDispatch
    <2>3. row[disp.order].filled <= CancelResult.filled
      BY <2>1, <2>2, ResultsBehind DEF HeldInv
    <2> QED
      BY <1>t, <1>i, <2>1, <2>3
  <1>7. CASE RefreshCallback
    <2>1. /\ callb.order \in Orders /\ callb.base \in Row /\ callb.base.bid
          /\ row' = [row EXCEPT ![callb.order] = Refreshed(callb.base, callb.order)]
      BY <1>0, <1>7
         DEF RefreshCallback, SaveReconciliation, TaskInv, TypeOK, IdInv
    <2>2. Copy(callb.base, broker[callb.order]) /\ Behind(callb.base, broker[callb.order])
      BY <1>0, <2>1 DEF CopyInv, BehindInv
    <2>3. CASE callb.order = o
      <3>1. Refreshed(callb.base, o).filled = broker[o].filled
        BY <1>0, <2>1, <2>2, <2>3, RefreshBehind DEF Found
      <3> QED
        BY <1>t, <2>1, <2>3, <3>1 DEF BehindInv, Behind
    <2>4. CASE callb.order # o
      BY <1>t, <1>i, <2>1, <2>4
    <2> QED
      BY <2>3, <2>4
  <1>8. CASE Compose
    <2>1. row'[o] = BootRow(o)
      BY <1>8 DEF Compose
    <2> QED
      BY <1>t, <1>i, <2>1 DEF BootRow, Row
  <1> QED
    BY <1>1, <1>2, <1>3, <1>4, <1>5, <1>6, <1>7, <1>8, RowWriters

LEMMA StepRead ==
    /\ IInv /\ IdInv /\ LockInv /\ BrokerInv /\ BehindInv /\ HeldInv /\ ReadInv
    /\ [Next]_vars
    => ReadInv'
  <1> SUFFICES ASSUME IInv, IdInv, LockInv, BrokerInv, BehindInv, HeldInv, ReadInv,
                      [Next]_vars, (recon.pc = "snapshot")',
                      (recon.gen = recovery.generation)',
                      (disp.pc # "cancel_lock")',
                      NEW o \in Orders, broker'[o].listed
               PROVE  recon'.rows[o].filled <= row'[o].filled
    BY DEF ReadInv
  <1>t. /\ recovery \in [status : {"locked", "reconciling", "ready"},
                         generation : Nat]
        /\ recon \in [pc : {"idle", "refresh", "snapshot"}, gen : Nat,
                      todo : SUBSET Orders, rows : [Orders -> Row]]
        /\ row' \in [Orders -> Row] /\ row \in [Orders -> Row]
    BY StepType DEF IInv, TypeOK
  <1>i. /\ row[o].filled \in Nat /\ row'[o].filled \in Nat
        /\ recon.rows[o].filled \in Nat
    BY <1>t, QuantityAssumption DEF Row
  <1>1. CASE ReadLocalOrders
    <2>1. recon'.rows = row /\ row' = row
      BY <1>t, <1>1 DEF ReadLocalOrders, store
    <2> QED
      BY <1>i, <2>1
  <1>2. CASE ~ReadLocalOrders
    <2>1. UNCHANGED recon
      <3>1. ~BeginReconcile /\ \A p \in Orders : ~RefreshCandidate(p)
        BY <1>t DEF BeginReconcile, RefreshCandidate
      <3>2. recon' # IdleReconcile
        BY DEF IdleReconcile
      <3>3. ~CompleteReconcile /\ ~FailReconcile /\ ~TimeoutReconcile /\ ~Crash
        BY <3>2 DEF CompleteReconcile, FailReconcile, TimeoutReconcile, Crash
      <3> QED
        BY <1>2, <3>1, <3>3
           DEF Next, Api, Dispatcher, Reconciler, Callbacks, Broker, vars, tasks,
               Create, RequestCancel, ClaimNext, ClaimNextCancel, AdmitOrder,
               PlaceOrder, BlockDispatch, RefuseSubmit, RecordSubmit,
               AnswerSubmit, FinishDispatch, PersistUnknownLock, AdmitCancel,
               BlockCancel, SkipCancel, RecordCancel, CallCancel, FinishCancel,
               TakeCallback, RefreshCallback, FailCallback, PersistLock,
               Compose, Start, BrokerFill, BrokerEnd, BrokerDelist
    <2>2. UNCHANGED recovery
      <3>1. recon.pc # "idle" /\ recon.gen <= recovery.generation
        BY <2>1 DEF LockInv
      <3>2. ~ForceLock
        BY <1>t, <2>1, <3>1 DEF ForceLock
      <3>3. LockStep
        BY StepIsLockStep
      <3>4. recovery.generation \in Nat /\ recon'.gen = recon.gen /\ recon'.pc # "idle"
        BY <1>t, <2>1
      <3> QED
        BY <3>1, <3>2, <3>3, <3>4 DEF LockStep
    <2>3. disp.pc # "cancel_lock"
      <3>1. ~PersistUnknownLock
        BY <1>t, <2>2 DEF PersistUnknownLock, ForceLock
      <3>2. ~Crash
        BY <2>1 DEF Crash, IdleReconcile
      <3> QED
        BY <3>1, <3>2
           DEF Next, Api, Dispatcher, Reconciler, Callbacks, Broker, vars, tasks,
               Create, RequestCancel, ClaimNext, ClaimNextCancel, AdmitOrder,
               PlaceOrder, BlockDispatch, RefuseSubmit, AnswerSubmit,
               FinishDispatch, AdmitCancel, BlockCancel, SkipCancel, CallCancel,
               FinishCancel, BeginReconcile, RefreshCandidate, ReadLocalOrders,
               CompleteReconcile, FailReconcile, TimeoutReconcile,
               TakeCallback, RefreshCallback, FailCallback, PersistLock,
               Compose, Start, BrokerFill, BrokerEnd, BrokerDelist
    <2>4. CASE broker[o].listed
      <3>1. recon.rows[o].filled <= row[o].filled
        BY <2>1, <2>2, <2>3, <2>4 DEF ReadInv
      <3>2. row[o].filled <= row'[o].filled
        BY <2>1, <2>4, RowForward
      <3> QED
        BY <1>i, <2>1, <3>1, <3>2
    <2>5. CASE ~broker[o].listed
      <3>1. broker[o].status = "none"
        BY <2>5, BrokerGrows DEF Grows
      <3>2. recon.rows[o].filled <= 0
        BY <3>1 DEF BrokerInv, BehindInv, Behind
      <3> QED
        BY <1>i, <2>1, <3>2
    <2> QED
      BY <2>4, <2>5
  <1> QED
    BY <1>1, <1>2
------------------------------------------------------------------------------
FillInv == BrokerInv /\ BehindInv /\ HeldInv /\ ReadInv

\* The invariants of this module, together.
LEMMA FillsSafe == Spec => [](IInv /\ IdInv /\ LockInv /\ FillInv)
  <1>1. Init => IdInv /\ LockInv
    BY InitLock
  <1>2. Init => FillInv
    <2> SUFFICES ASSUME Init PROVE FillInv
      OBVIOUS
    <2>1. BrokerInv
      BY DEF Init, BrokerInv, NoBrokerOrder
    <2>2. BehindInv
      BY ConstantFacts
         DEF Init, BehindInv, Behind, NoBrokerOrder, AbsentRow, IdleDispatch,
             IdleReconcile, IdleCallback
    <2>3. HeldInv /\ ReadInv
      BY DEF Init, HeldInv, ReadInv, IdleDispatch, IdleReconcile
    <2> QED
      BY <2>1, <2>2, <2>3 DEF FillInv
  <1>3. IInv /\ IdInv /\ LockInv /\ [Next]_vars => IdInv' /\ LockInv'
    BY StepId, StepLock
  <1>4. IInv /\ IdInv /\ LockInv /\ FillInv /\ [Next]_vars => FillInv'
    BY BrokerGrows, StepBehind, StepHeld, StepRead DEF FillInv
  <1> QED
    BY <1>1, <1>2, <1>3, <1>4, Inductive, PTL DEF Spec

\* The ledger only grows: apply_reconciled_snapshot inserts what the broker
\* lists, and what it inserted before was never more than that.
THEOREM FillsKept == Spec => FillsAreKept
  <1>1. IInv /\ BehindInv /\ [Next]_vars => [\A o \in Orders : ledger'[o] >= ledger[o]]_vars
    <2> SUFFICES ASSUME IInv, BehindInv, [Next]_vars, NEW o \in Orders
                 PROVE  ledger'[o] >= ledger[o]
      OBVIOUS
    <2>1. ledger[o] \in Nat /\ broker[o].filled \in Nat /\ ledger[o] <= broker[o].filled
      BY QuantityAssumption DEF IInv, TypeOK, BrokerOrder, BehindInv
    <2>2. CASE UNCHANGED ledger
      BY <2>1, <2>2
    <2>3. CASE CompleteReconcile
      <3>1. ledger'[o] \in {ledger[o], broker[o].filled}
        BY <2>3 DEF CompleteReconcile, RecordFills
      <3> QED
        BY <2>1, <3>1
    <2> QED
      BY <2>2, <2>3
         DEF Next, Api, Dispatcher, Reconciler, Callbacks, Broker, vars, store,
             Create, RequestCancel, ClaimNext, ClaimNextCancel, AdmitOrder,
             PlaceOrder, BlockDispatch, RefuseSubmit, RecordSubmit,
             AnswerSubmit, FinishDispatch, PersistUnknownLock, AdmitCancel,
             BlockCancel, SkipCancel, RecordCancel, CallCancel, FinishCancel,
             BeginReconcile, RefreshCandidate, SaveReconciliation,
             ReadLocalOrders, FailReconcile, TimeoutReconcile, TakeCallback,
             RefreshCallback, FailCallback, PersistLock, Crash, Compose, Start,
             BrokerFill, BrokerEnd, BrokerDelist
  <1>2. FillInv => BehindInv
    BY DEF FillInv
  <1> QED
    BY <1>1, <1>2, FillsSafe, PTL DEF Spec, FillsAreKept

\* The attempt compares rows it read before the snapshot. Whatever callbacks,
\* the dispatcher and the API wrote in between, an attempt that unlocks finds
\* every order the broker lists under its id, with the broker's fills, in the
\* rows as they are at that moment and in the ledger.
THEOREM UnlockMatches == Spec => UnlockMatchesBroker
  <1> DEFINE A == Unlocks => \A o \in Orders : broker[o].listed =>
                    /\ row'[o].bid
                    /\ row'[o].filled = broker[o].filled
                    /\ ledger'[o] = broker[o].filled
  <1>1. IInv /\ IdInv /\ LockInv /\ FillInv /\ [Next]_vars => A
    <2> SUFFICES ASSUME IInv, IdInv, LockInv, FillInv, [Next]_vars, Unlocks,
                        NEW o \in Orders, broker[o].listed
                 PROVE  /\ row'[o].bid
                        /\ row'[o].filled = broker[o].filled
                        /\ ledger'[o] = broker[o].filled
      OBVIOUS
    <2>1. CompleteReconcile
      BY ReadyStep DEF Unlocks
    <2>2. recovery \in [status : {"locked", "reconciling", "ready"},
                        generation : Nat]
      BY DEF IInv, TypeOK
    <2>3. recon.gen = recovery.generation /\ NoIssues(recon.rows)
      BY <2>1, <2>2 DEF CompleteReconcile, Complete, ForceLock, Unlocks
    <2>4. recon.rows[o].bid /\ recon.rows[o].filled = broker[o].filled
      BY <2>3 DEF NoIssues, NoOrderIssues
    <2>5. recon.pc = "snapshot" /\ disp.pc # "cancel_lock" /\ row' = row
      BY <2>1 DEF CompleteReconcile, LoopFree
    <2>6. row[o].filled >= broker[o].filled /\ row[o].filled <= broker[o].filled
      BY <2>3, <2>4, <2>5 DEF FillInv, ReadInv, BehindInv, Behind
    <2>7. row[o].filled \in Nat /\ broker[o].filled \in Nat
      BY QuantityAssumption DEF IInv, TypeOK, Row, BrokerOrder
    <2>8. row[o].bid
      BY <2>4 DEF IdInv
    <2>9. ledger'[o] = broker[o].filled
      BY <2>1, <2>3 DEF CompleteReconcile, RecordFills
    <2> QED
      BY <2>5, <2>6, <2>7, <2>8, <2>9
  <1> QED
    BY <1>1, FillsSafe, PTL DEF Spec, UnlockMatchesBroker
=============================================================================
