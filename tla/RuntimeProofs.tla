--------------------------- MODULE RuntimeProofs ---------------------------
(***************************************************************************)
(* Proofs about TradingRuntime: the entries of paper-auto runtimes and the *)
(* decision table, for any number of runtimes, bars and restarts.          *)
(***************************************************************************)
EXTENDS TradingRuntime, WellFoundedInduction, TLAPS

\* A nonempty set of numbers has a smallest one.
LEMMA NatMin ==
    ASSUME NEW T \in SUBSET Nat, T # {}
    PROVE  \E x \in T : \A y \in T : x <= y
  <1>1. PICK x \in T : \A y \in T : ~(<<y, x>> \in OpToRel(<, Nat))
    BY NatLessThanWellFounded, WFMin
  <1>2. ASSUME NEW y \in T PROVE x <= y
    <2>1. x \in Nat /\ y \in Nat
      OBVIOUS
    <2>2. ~(y < x)
      BY <1>1, <2>1, Zenon DEF OpToRel
    <2> QED
      BY <2>1, <2>2
  <1> QED
    BY <1>2

\* The next evaluation is one of those that are left.
LEMMA NextRunLeft ==
    ASSUME loop.todo \in SUBSET Runs, loop.todo # {}
    PROVE  NextRun \in loop.todo
  <1>1. \A c \in loop.todo : c[1] \in Nat /\ c[2] \in Nat /\ c = <<c[1], c[2]>>
    BY RuntimeAssumption DEF Runs, Runtimes, Bars
  <1>2. PICK m \in {c[1] : c \in loop.todo} :
           \A k \in {c[1] : c \in loop.todo} : m <= k
    <2>1. {c[1] : c \in loop.todo} \in SUBSET Nat /\ {c[1] : c \in loop.todo} # {}
      BY <1>1
    <2> QED
      BY <2>1, NatMin
  <1> DEFINE S == {c \in loop.todo : c[1] = m}
  <1>3. PICK n \in {c[2] : c \in S} : \A k \in {c[2] : c \in S} : n <= k
    <2>1. {c[2] : c \in S} \in SUBSET Nat /\ {c[2] : c \in S} # {}
      BY <1>1, <1>2
    <2> QED
      BY <2>1, NatMin
  <1>4. PICK c \in S : c[2] = n
    BY <1>3
  <1>5. \A d \in loop.todo : c[1] < d[1] \/ (c[1] = d[1] /\ c[2] <= d[2])
    <2>1. ASSUME NEW d \in loop.todo
          PROVE  c[1] < d[1] \/ (c[1] = d[1] /\ c[2] <= d[2])
      <3>1. c \in loop.todo /\ c[1] = m
        BY <1>4
      <3>2. /\ c[1] \in Nat /\ c[2] \in Nat /\ d[1] \in Nat /\ d[2] \in Nat
        BY <1>1, <3>1
      <3>3. m <= d[1]
        BY <1>2
      <3>4. d[1] = m => c[2] <= d[2]
        BY <1>3, <1>4
      <3> QED
        BY <3>1, <3>2, <3>3, <3>4
    <2> QED
      BY <2>1
  <1> QED
    BY <1>4, <1>5 DEF NextRun
------------------------------------------------------------------------------
RuntimeRow == [status : Live \cup {"absent", "stopped"}, cursor : Nat,
               issue : BOOLEAN]

LoopState == [pc : {"idle", "before", "fill", "sync", "after", "eval", "record",
                    "decide", "answer"},
              bar : Nat, todo : SUBSET Runs, tell : SUBSET Cells,
              at : Cells \cup {NoCell}]

ShapeInv ==
    /\ bars \in Nat /\ dangling \in BOOLEAN
    /\ signal \in SUBSET Cells
    /\ runtime \in [Runtimes -> RuntimeRow]
    /\ decision \in [Cells -> {"none", "pending", "skipped", "submitted",
                               "rejected", "filled"}]
    /\ order \in [Cells -> {"none", "approved", "filled", "rejected"}]
    /\ loop \in LoopState
    /\ api \in [op : {"none", "arm", "pause"}, runtime : Nat, cursor : Nat]
    /\ api.op # "none" => api.runtime \in Runtimes

\* The decision that is being executed is pending, and has an order exactly
\* when the account has answered; those still to be announced are pending and
\* have none.
AtInv ==
    /\ loop.pc \in {"decide", "answer"} => loop.at \in Cells \ loop.tell
    /\ \A c \in loop.tell : decision[c] = "pending" /\ order[c] = "none"
    /\ loop.pc \in {"decide", "answer"} => decision[loop.at] = "pending"
    /\ loop.pc = "decide" => order[loop.at] = "none"
    /\ loop.pc = "answer" => order[loop.at] \in {"approved", "rejected"}

\* What the store calls armed was armed in this process.
ArmedInv == \A r \in Runtimes : runtime[r].status = "armed" => r \in armed

RuntimeInv == /\ ShapeInv /\ AtInv /\ ArmedInv
              /\ OneEntryAtATime /\ DecisionMatchesOrder

LEMMA RuntimeStart == Init => RuntimeInv
  <1> SUFFICES ASSUME Init PROVE RuntimeInv
    OBVIOUS
  <1> USE DEF Init, Idle, NoCall
  <1>1. ShapeInv
    BY DEF ShapeInv, RuntimeRow, LoopState
  <1>2. AtInv /\ ArmedInv
    BY DEF AtInv, ArmedInv
  <1>3. OneEntryAtATime /\ DecisionMatchesOrder
    BY DEF OneEntryAtATime, DecisionMatchesOrder, Waiting
  <1> QED
    BY <1>1, <1>2, <1>3 DEF RuntimeInv

LEMMA CellFacts ==
    /\ \A c \in Cells : c[1] \in Runtimes /\ c[2] \in Nat /\ c[1] \in Nat
    /\ \A e \in Runs : e[1] \in Runtimes /\ e[2] \in Nat
  BY RuntimeAssumption DEF Cells, Runs, Runtimes, Bars

\* What the evaluation loop's record does, in both of its branches.
LEMMA RecordFacts ==
    ASSUME ShapeInv, Record
    PROVE  /\ loop.pc = "record" /\ loop.tell = {} /\ NextRun \in Runs
           /\ UNCHANGED <<bars, signal, dangling, order, open, api, armed>>
           /\ \A r \in Runtimes : runtime'[r].status = runtime[r].status
           /\ runtime' \in [Runtimes -> RuntimeRow]
           /\ loop' \in LoopState /\ loop'.pc = "record"
           /\ loop'.tell \subseteq {c \in Cells : /\ decision[c] = "none"
                                                  /\ decision'[c] = "pending"}
           /\ decision' \in [Cells -> {"none", "pending", "skipped", "submitted",
                                       "rejected", "filled"}]
           /\ \A c \in Cells : \/ decision'[c] = decision[c]
                               \/ /\ decision[c] = "none"
                                  /\ decision'[c] \in {"pending", "skipped"}
  <1> DEFINE e == NextRun
             r == runtime[e[1]]
             new == {c \in Of(e) \cap signal : decision[c] = "none"}
             live == e[2] = loop.bar
  <1>1. NextRun \in Runs
    BY NextRunLeft DEF ShapeInv, LoopState, Record
  <1>2. e[1] \in Runtimes /\ e[2] \in Nat
    BY <1>1, CellFacts
  <1>3. /\ loop.pc = "record" /\ loop.tell = {}
        /\ UNCHANGED <<bars, signal, dangling, order, open, api, armed>>
    BY DEF Record, store
  <1>4. CASE r.status \in Live /\ r.cursor < e[2]
    <2>1. /\ runtime' = [runtime EXCEPT ![e[1]].cursor = e[2]]
          /\ decision' = [c \in Cells |->
                      IF c \notin new THEN decision[c]
                      ELSE IF live THEN "pending" ELSE "skipped"]
          /\ loop' = [loop EXCEPT !.todo = @ \ {e},
                                  !.tell = IF live THEN new ELSE {}]
      BY <1>4 DEF Record
    <2>2. new \subseteq Cells
      BY DEF Of
    <2>3. /\ runtime' \in [Runtimes -> RuntimeRow]
          /\ \A q \in Runtimes : runtime'[q].status = runtime[q].status
      BY <1>2, <2>1 DEF ShapeInv, RuntimeRow
    <2>4. /\ loop' \in LoopState /\ loop'.pc = "record"
          /\ loop'.tell = IF live THEN new ELSE {}
      <3> HIDE DEF new, live, e
      <3> QED
        BY <1>3, <2>1, <2>2 DEF ShapeInv, LoopState
    <2>5. /\ decision' \in [Cells -> {"none", "pending", "skipped", "submitted",
                                      "rejected", "filled"}]
          /\ \A c \in Cells : c \notin new => decision'[c] = decision[c]
          /\ \A c \in new : /\ decision[c] = "none"
                            /\ decision'[c] = IF live THEN "pending" ELSE "skipped"
      <3>1. \A c \in new : decision[c] = "none"
        OBVIOUS
      <3> HIDE DEF new, live, e
      <3> QED
        BY <2>1, <2>2, <3>1 DEF ShapeInv
    <2> HIDE DEF new, live, e, r
    <2> QED
      BY <1>1, <1>3, <2>2, <2>3, <2>4, <2>5 DEF e
  <1>5. CASE ~(r.status \in Live /\ r.cursor < e[2])
    <2>1. /\ loop' = [loop EXCEPT !.todo = @ \ {e}]
          /\ UNCHANGED <<runtime, decision>>
      BY <1>5 DEF Record
    <2>2. loop' \in LoopState /\ loop'.pc = "record" /\ loop'.tell = {}
      <3> HIDE DEF e
      <3> QED
        BY <1>3, <2>1 DEF ShapeInv, LoopState
    <2> QED
      BY <1>1, <1>3, <2>1, <2>2 DEF ShapeInv
  <1> QED
    BY <1>4, <1>5

\* Restart rewrites every row of the runtimes.
LEMMA RestartShape == ASSUME ShapeInv, Restart PROVE ShapeInv'
  <1>1. dangling' \in BOOLEAN
    BY DEF Restart, ShapeInv
  <1>2. bars' \in Nat
    <2>1. bars' = bars \/ bars' = bars + 1
      BY DEF Restart
    <2> QED
      BY <2>1 DEF ShapeInv
  <1>3. signal' \in SUBSET Cells
    BY DEF Restart, Signals, ShapeInv
  <1>4. ASSUME NEW r \in Runtimes PROVE runtime'[r] \in RuntimeRow
    <2>1. Inconsistent(r, dangling') \in BOOLEAN
      BY <1>1 DEF Inconsistent
    <2>2. runtime'[r] = IF runtime[r].status = "absent" THEN runtime[r]
              ELSE [runtime[r] EXCEPT
                      !.status = IF r \in Locked THEN "recovery_locked" ELSE @,
                      !.issue = Inconsistent(r, dangling')]
      BY DEF Restart
    <2>3. runtime[r] \in RuntimeRow
      BY DEF ShapeInv
    <2> QED
      BY <2>1, <2>2, <2>3 DEF RuntimeRow, Live
  <1>5. runtime' \in [Runtimes -> RuntimeRow]
    BY <1>4 DEF Restart
  <1>6. /\ decision' \in [Cells -> {"none", "pending", "skipped", "submitted",
                                    "rejected", "filled"}]
        /\ order' \in [Cells -> {"none", "approved", "filled", "rejected"}]
    BY DEF Restart, ShapeInv
  <1>7. loop' \in LoopState /\ api'.op = "none"
        /\ api' \in [op : {"none", "arm", "pause"}, runtime : Nat, cursor : Nat]
    BY DEF Restart, Idle, NoCall, LoopState
  <1> QED
    BY <1>1, <1>2, <1>3, <1>5, <1>6, <1>7 DEF ShapeInv

LEMMA StepShape == RuntimeInv /\ [Next]_vars => ShapeInv'
  <1> SUFFICES ASSUME ShapeInv, AtInv, [Next]_vars PROVE ShapeInv'
    BY DEF RuntimeInv
  <1> USE DEF store, start
  <1>1. ASSUME NEW r \in Runtimes, Create(r) \/ Stop(r) PROVE ShapeInv'
    BY <1>1 DEF Create, Stop, ShapeInv, RuntimeRow, Live
  <1>2. ASSUME NEW r \in Runtimes, ArmRead(r) \/ PauseRead(r) PROVE ShapeInv'
    <2>1. r \in Nat /\ runtime[r].cursor \in Nat
      BY RuntimeAssumption DEF Runtimes, ShapeInv, RuntimeRow
    <2> QED
      BY <1>2, <2>1 DEF ArmRead, PauseRead, ShapeInv
  <1>3. CASE ArmWrite \/ PauseWrite
    BY <1>3 DEF ArmWrite, PauseWrite, NoCall, ShapeInv, RuntimeRow, Live
  <1>4. CASE CloseBar
    <2>1. bars' \in Nat
      BY <1>4 DEF CloseBar, ShapeInv
    <2>3. loop' = [pc |-> "before", bar |-> bars', todo |-> {}, tell |-> {},
                   at |-> NoCell]
      BY <1>4 DEF CloseBar, Idle
    <2>4. loop' \in LoopState
      BY <2>1, <2>3 DEF LoopState
    <2>2. signal' \in SUBSET Cells
      BY <1>4 DEF CloseBar, Signals, ShapeInv
    <2> QED
      BY <1>4, <2>1, <2>2, <2>4 DEF CloseBar, ShapeInv
  <1>5. CASE Protect \/ PaperDropsBar \/ BeginEvaluation \/ EndBar
    <2>1. CASE Protect
      <3>1. PICK p \in {"fill", "eval"} : loop' = [loop EXCEPT !.pc = p]
        BY <2>1 DEF Protect, ShapeInv, LoopState
      <3> QED
        BY <2>1, <3>1 DEF Protect, ShapeInv, LoopState
    <2>2. CASE PaperDropsBar
      BY <2>2 DEF PaperDropsBar, ShapeInv, LoopState
    <2>3. CASE BeginEvaluation
      <3>1. PICK T \in SUBSET Runs : loop' = [loop EXCEPT !.pc = "record", !.todo = T]
        BY <2>3 DEF BeginEvaluation
      <3> QED
        BY <2>3, <3>1 DEF BeginEvaluation, ShapeInv, LoopState
    <2>4. CASE EndBar
      BY <2>4 DEF EndBar, Idle, ShapeInv, LoopState
    <2> QED
      BY <1>5, <2>1, <2>2, <2>3, <2>4
  <1>6. CASE PaperOnBar
    <2>1. loop' \in LoopState
          /\ order' \in [Cells -> {"none", "approved", "filled", "rejected"}]
      BY <1>6 DEF PaperOnBar, ShapeInv, LoopState
    <2> QED
      BY <1>6, <2>1 DEF PaperOnBar, ShapeInv
  <1>7. CASE SyncDecisions
    <2>1. loop' \in LoopState
          /\ decision' \in [Cells -> {"none", "pending", "skipped", "submitted",
                                      "rejected", "filled"}]
      BY <1>7 DEF SyncDecisions, ShapeInv, LoopState
    <2> QED
      BY <1>7, <2>1 DEF SyncDecisions, ShapeInv
  <1>8. CASE Record
    BY <1>8, RecordFacts DEF ShapeInv
  <1>9. CASE SubmitDecision
    <2>1. loop' \in LoopState
          /\ order' \in [Cells -> {"none", "approved", "filled", "rejected"}]
      BY <1>9 DEF SubmitDecision, ShapeInv, LoopState, AtInv
    <2> QED
      BY <1>9, <2>1 DEF SubmitDecision, ShapeInv
  <1>10. CASE SkipDecision \/ AnswerDecision \/ AnswerRaises
    <2>1. loop' \in LoopState
          /\ decision' \in [Cells -> {"none", "pending", "skipped", "submitted",
                                      "rejected", "filled"}]
      BY <1>10 DEF SkipDecision, AnswerDecision, AnswerRaises, ShapeInv, LoopState,
                   AtInv
    <2>2. dangling' \in BOOLEAN
      BY <1>10 DEF SkipDecision, AnswerDecision, AnswerRaises, ShapeInv
    <2> QED
      BY <1>10, <2>1, <2>2 DEF SkipDecision, AnswerDecision, AnswerRaises, ShapeInv
  <1>11. CASE ListenerRaises
    <2>1. dangling' \in BOOLEAN /\ loop' \in LoopState
      BY <1>11 DEF ListenerRaises, ShapeInv, Idle, LoopState
    <2> QED
      BY <1>11, <2>1 DEF ListenerRaises, ShapeInv
  <1>12. CASE Restart
    BY <1>12, RestartShape
  <1>13. CASE Announce
    <2>1. PICK c \in loop.tell :
             loop' = [loop EXCEPT !.pc = "decide", !.at = c, !.tell = @ \ {c}]
      BY <1>13 DEF Announce
    <2>2. loop' \in LoopState
      BY <2>1 DEF ShapeInv, LoopState
    <2> QED
      BY <1>13, <2>2 DEF Announce, ShapeInv
  <1>14. CASE UNCHANGED vars
    BY <1>14 DEF vars, ShapeInv
  <1> QED
    BY <1>1, <1>2, <1>3, <1>4, <1>5, <1>6, <1>7, <1>8, <1>9, <1>10, <1>11,
       <1>12, <1>13, <1>14 DEF Next, Bar
------------------------------------------------------------------------------
(* One lemma per part of the invariant *)

LEMMA StepAt == RuntimeInv /\ [Next]_vars => AtInv'
  <1> SUFFICES ASSUME ShapeInv, AtInv, DecisionMatchesOrder, [Next]_vars
               PROVE  AtInv'
    BY DEF RuntimeInv
  <1> USE DEF store, start
  <1>1. ASSUME NEW r \in Runtimes, Create(r) \/ ArmRead(r) \/ PauseRead(r) \/ Stop(r)
        PROVE  AtInv'
    BY <1>1 DEF Create, ArmRead, PauseRead, Stop, AtInv
  <1>2. CASE ArmWrite \/ PauseWrite
    BY <1>2 DEF ArmWrite, PauseWrite, AtInv
  <1>3. CASE CloseBar \/ EndBar \/ ListenerRaises \/ Restart
    <2>1. loop'.pc \notin {"decide", "answer"} /\ loop'.tell = {}
      <3>1. CASE CloseBar
        <4>1. loop' = [pc |-> "before", bar |-> bars', todo |-> {}, tell |-> {},
                       at |-> NoCell]
          BY <3>1 DEF CloseBar, Idle
        <4> QED
          BY <4>1
      <3>2. CASE EndBar \/ ListenerRaises \/ Restart
        <4>1. loop' = Idle
          BY <3>2 DEF EndBar, ListenerRaises, Restart
        <4> QED
          BY <4>1 DEF Idle
      <3> QED
        BY <1>3, <3>1, <3>2
    <2> QED
      BY <2>1 DEF AtInv
  <1>4. CASE Protect \/ PaperDropsBar \/ BeginEvaluation
    <2>1. /\ loop'.pc \notin {"decide", "answer"} /\ loop'.tell = loop.tell
          /\ UNCHANGED <<decision, order>>
      BY <1>4 DEF Protect, PaperDropsBar, BeginEvaluation, ShapeInv, LoopState
    <2> QED
      BY <2>1 DEF AtInv
  <1>5. CASE PaperOnBar \/ SyncDecisions
    <2>1. loop'.pc \notin {"decide", "answer"} /\ loop'.tell = loop.tell
      BY <1>5 DEF PaperOnBar, SyncDecisions, ShapeInv, LoopState
    <2>2. \A c \in Cells : decision[c] = "pending" /\ order[c] = "none"
                => decision'[c] = "pending" /\ order'[c] = "none"
      BY <1>5 DEF PaperOnBar, SyncDecisions, Waiting, ShapeInv
    <2>3. loop.tell \subseteq Cells
      BY DEF ShapeInv, LoopState
    <2> QED
      BY <2>1, <2>2, <2>3 DEF AtInv
  <1>6. CASE Record
    <2>1. /\ loop'.pc = "record" /\ order' = order
          /\ \A c \in loop'.tell : /\ c \in Cells /\ decision[c] = "none"
                                   /\ decision'[c] = "pending"
      BY <1>6, RecordFacts
    <2> QED
      BY <2>1 DEF AtInv, DecisionMatchesOrder
  <1>7. CASE Announce
    <2>1. PICK c \in loop.tell :
             loop' = [loop EXCEPT !.pc = "decide", !.at = c, !.tell = @ \ {c}]
      BY <1>7 DEF Announce
    <2>2. /\ loop'.pc = "decide" /\ loop'.at = c /\ loop'.tell = loop.tell \ {c}
          /\ c \in Cells /\ UNCHANGED <<decision, order>>
      BY <1>7, <2>1 DEF Announce, ShapeInv, LoopState
    <2> QED
      BY <2>2 DEF AtInv
  <1>8. CASE SubmitDecision
    <2>1. /\ loop.pc = "decide" /\ loop'.pc = "answer" /\ loop'.at = loop.at
          /\ loop'.tell = loop.tell /\ decision' = decision
          /\ loop.at \in Cells \ loop.tell
      BY <1>8 DEF SubmitDecision, ShapeInv, LoopState, AtInv
    <2>2. /\ order'[loop.at] \in {"approved", "rejected"}
          /\ \A c \in Cells \ {loop.at} : order'[c] = order[c]
      BY <1>8, <2>1 DEF SubmitDecision, ShapeInv
    <2>3. loop.tell \subseteq Cells
      BY DEF ShapeInv, LoopState
    <2> QED
      BY <2>1, <2>2, <2>3 DEF AtInv
  <1>9. CASE SkipDecision \/ AnswerDecision \/ AnswerRaises
    <2>1. /\ loop'.pc = "record" /\ loop'.tell = loop.tell /\ order' = order
          /\ loop.at \in Cells \ loop.tell
      BY <1>9 DEF SkipDecision, AnswerDecision, AnswerRaises, ShapeInv, LoopState, AtInv
    <2>2. \A c \in Cells \ {loop.at} : decision'[c] = decision[c]
      BY <1>9, <2>1 DEF SkipDecision, AnswerDecision, AnswerRaises, ShapeInv
    <2>3. loop.tell \subseteq Cells
      BY DEF ShapeInv, LoopState
    <2> QED
      BY <2>1, <2>2, <2>3 DEF AtInv
  <1>10. CASE UNCHANGED vars
    BY <1>10 DEF vars, AtInv
  <1> QED
    BY <1>1, <1>2, <1>3, <1>4, <1>5, <1>6, <1>7, <1>8, <1>9, <1>10 DEF Next, Bar

LEMMA StepArmed == RuntimeInv /\ [Next]_vars => ArmedInv'
  <1> SUFFICES ASSUME ShapeInv, ArmedInv, [Next]_vars PROVE ArmedInv'
    BY DEF RuntimeInv
  <1> USE DEF store, start
  <1>1. ASSUME NEW r \in Runtimes, Create(r) \/ ArmRead(r) \/ PauseRead(r) \/ Stop(r)
        PROVE  ArmedInv'
    BY <1>1 DEF Create, ArmRead, PauseRead, Stop, ArmedInv, ShapeInv, RuntimeRow
  <1>2. CASE ArmWrite \/ PauseWrite
    BY <1>2 DEF ArmWrite, PauseWrite, ArmedInv, ShapeInv, RuntimeRow
  <1>3. CASE Record
    BY <1>3, RecordFacts DEF ArmedInv
  <1>4. CASE Restart
    <2>1. ASSUME NEW r \in Runtimes PROVE runtime'[r].status # "armed"
      <3>1. runtime[r] \in RuntimeRow
        BY DEF ShapeInv
      <3>2. runtime'[r] = IF runtime[r].status = "absent" THEN runtime[r]
              ELSE [runtime[r] EXCEPT
                      !.status = IF r \in Locked THEN "recovery_locked" ELSE @,
                      !.issue = Inconsistent(r, dangling')]
        BY <1>4 DEF Restart
      <3> QED
        BY <3>1, <3>2 DEF RuntimeRow, Locked
    <2> QED
      BY <2>1 DEF ArmedInv
  <1>5. CASE UNCHANGED <<runtime, armed>>
    BY <1>5 DEF ArmedInv
  <1> QED
    BY <1>1, <1>2, <1>3, <1>4, <1>5
    DEF Next, Bar, vars, CloseBar, Protect, PaperOnBar, PaperDropsBar, SyncDecisions,
        BeginEvaluation, Announce, SubmitDecision, SkipDecision, AnswerDecision,
        AnswerRaises, EndBar, ListenerRaises

\* Where no order starts to wait and no position opens, nothing can break.
LEMMA FewerEntries ==
    ASSUME OneEntryAtATime, open' \subseteq open,
           \A c \in Waiting' : c \in Waiting
    PROVE  OneEntryAtATime'
  BY DEF OneEntryAtATime, IsEntry

LEMMA StepOne == RuntimeInv /\ [Next]_vars => OneEntryAtATime'
  <1> SUFFICES ASSUME ShapeInv, AtInv, OneEntryAtATime, [Next]_vars
               PROVE  OneEntryAtATime'
    BY DEF RuntimeInv
  <1> USE DEF store, start
  <1>1. CASE Restart
    <2>1. open' = open /\ \A c \in Waiting' : c \in Waiting
      BY <1>1 DEF Restart, Waiting
    <2> QED
      BY <2>1, FewerEntries
  <1>2. CASE PaperOnBar
    <2> DEFINE due   == {c \in Waiting : c[2] < loop.bar}
               may   == {c \in due : IsEntry(c) /\ ~PrefillBlocked(c[1])}
               close == {c \in due : /\ ~IsEntry(c) /\ c[1] \in open
                              /\ \A d \in due : d[1] = c[1] /\ ~IsEntry(d)
                                                   => c[2] <= d[2]}
    <2>1. PICK good \in SUBSET may :
             /\ order' = [c \in Cells |-> IF c \in good \cup close THEN "filled"
                                          ELSE IF c \in due THEN "rejected"
                                          ELSE order[c]]
             /\ open' = (open \ {c[1] : c \in close}) \cup {c[1] : c \in good}
      BY <1>2 DEF PaperOnBar
    <2>3. \A c \in Waiting' : c \in Waiting /\ c \notin due
      BY <2>1 DEF Waiting
    <2>4. \A g \in good : g \in Waiting /\ IsEntry(g) /\ g \in due
      BY <2>1
    <2>5. ASSUME NEW c \in Waiting', IsEntry(c) PROVE c[1] \notin open'
      <3>1. c[1] \notin open
        BY <2>3, <2>5 DEF OneEntryAtATime
      <3>2. ASSUME NEW g \in good, g[1] = c[1] PROVE FALSE
        BY <2>3, <2>4, <2>5, <3>2 DEF OneEntryAtATime
      <3> QED
        BY <2>1, <3>1, <3>2
    <2> HIDE DEF due, may, close
    <2> QED
      BY <2>3, <2>5 DEF OneEntryAtATime, IsEntry
  <1>3. CASE SubmitDecision
    <2>1. loop.at \in Cells /\ Wanted(loop.at)
      BY <1>3 DEF SubmitDecision, AtInv
    <2>2. UNCHANGED open
      BY <1>3 DEF SubmitDecision
    <2>3. \A c \in Waiting' : c \in Waiting \/ c = loop.at
      BY <1>3 DEF SubmitDecision, Waiting, ShapeInv
    <2>4. IsEntry(loop.at) => /\ loop.at[1] \notin open
                              /\ \A d \in Waiting \ {loop.at} :
                                    ~(d[1] = loop.at[1] /\ IsEntry(d))
      BY <2>1 DEF Wanted, EntryBlocked
    <2> QED
      BY <2>2, <2>3, <2>4 DEF OneEntryAtATime, IsEntry
  <1>4. CASE Protect
    <2>1. open' \subseteq open /\ Waiting' = Waiting
      BY <1>4 DEF Protect, Waiting
    <2> QED
      BY <2>1, FewerEntries
  <1>5. CASE UNCHANGED <<order, open>>
    BY <1>5, FewerEntries DEF Waiting
  <1> QED
    BY <1>1, <1>2, <1>3, <1>4, <1>5
    DEF Next, Bar, vars, Create, ArmRead, PauseRead, ArmWrite, PauseWrite, Stop,
        CloseBar, PaperDropsBar, SyncDecisions, BeginEvaluation, Record, Announce,
        SkipDecision, AnswerDecision, AnswerRaises, EndBar, ListenerRaises

\* What a step may do to a decision and its order, whichever action takes it.
LEMMA DecisionSteps ==
    ASSUME RuntimeInv, [Next]_vars, NEW c \in Cells
    PROVE  \/ decision'[c] = decision[c] /\ order'[c] = order[c]
           \/ /\ decision'[c] = decision[c] /\ order[c] = "approved"
              /\ order'[c] \in {"filled", "rejected"}
           \/ /\ decision[c] = "submitted" /\ order[c] # "approved"
              /\ decision'[c] = order[c] /\ order'[c] = order[c]
           \/ /\ decision[c] = "none" /\ decision'[c] \in {"pending", "skipped"}
              /\ order'[c] = order[c]
           \/ /\ decision[c] = "pending" /\ decision'[c] = "pending"
              /\ order[c] = "none"
           \/ /\ decision[c] = "pending" /\ order'[c] = order[c]
              /\ \/ decision'[c] = "skipped"
                 \/ decision'[c] = "submitted" /\ order[c] = "approved"
                 \/ decision'[c] = "rejected" /\ order[c] = "rejected"
           \/ /\ order[c] = "approved" /\ order'[c] = "rejected"
              /\ decision'[c] = "skipped"
  <1> USE DEF store, start, RuntimeInv
  <1>1. CASE PaperOnBar
    BY <1>1 DEF PaperOnBar, Waiting, ShapeInv
  <1>2. CASE SyncDecisions
    BY <1>2 DEF SyncDecisions
  <1>3. CASE Record
    BY <1>3, RecordFacts
  <1>4. CASE SubmitDecision
    BY <1>4 DEF SubmitDecision, AtInv, ShapeInv
  <1>5. CASE SkipDecision \/ AnswerRaises
    BY <1>5 DEF SkipDecision, AnswerRaises, AtInv, ShapeInv
  <1>6. CASE AnswerDecision
    BY <1>6 DEF AnswerDecision, AtInv, ShapeInv
  <1>7. CASE Restart
    BY <1>7 DEF Restart, Waiting, ShapeInv
  <1>8. CASE UNCHANGED <<decision, order>>
    BY <1>8
  <1> QED
    BY <1>1, <1>2, <1>3, <1>4, <1>5, <1>6, <1>7, <1>8
    DEF Next, Bar, vars, Create, ArmRead, PauseRead, ArmWrite, PauseWrite, Stop,
        CloseBar, Protect, PaperDropsBar, BeginEvaluation, Announce, EndBar,
        ListenerRaises

LEMMA StepMatch == RuntimeInv /\ [Next]_vars => DecisionMatchesOrder'
  <1> SUFFICES ASSUME RuntimeInv, [Next]_vars, NEW c \in Cells
               PROVE  /\ decision'[c] = "filled" => order'[c] = "filled"
                      /\ decision'[c] = "submitted" => order'[c] # "none"
                      /\ decision'[c] = "rejected" => order'[c] = "rejected"
                      /\ decision'[c] = "none" => order'[c] = "none"
    BY DEF DecisionMatchesOrder
  <1>1. /\ decision[c] = "filled" => order[c] = "filled"
        /\ decision[c] = "submitted" => order[c] # "none"
        /\ decision[c] = "rejected" => order[c] = "rejected"
        /\ decision[c] = "none" => order[c] = "none"
        /\ order[c] \in {"none", "approved", "filled", "rejected"}
    BY DEF RuntimeInv, DecisionMatchesOrder, ShapeInv
  <1> QED
    BY <1>1, DecisionSteps
------------------------------------------------------------------------------
LEMMA RuntimeStep == RuntimeInv /\ [Next]_vars => RuntimeInv'
  <1> SUFFICES ASSUME RuntimeInv, [Next]_vars PROVE RuntimeInv'
    OBVIOUS
  <1> QED
    BY StepShape, StepAt, StepArmed, StepOne, StepMatch DEF RuntimeInv

\* The invariant holds in every reachable state.
THEOREM RuntimeSafe == Spec => []RuntimeInv
  BY RuntimeStart, RuntimeStep, PTL DEF Spec

\* EntryBlocked of paper_auto.py looks at the position and at the entries that
\* wait when it places an entry; what happens until that entry fills, is
\* refused or is dropped by a restart never brings the runtime a second one.
THEOREM SingleRuntimeEntry == Spec => []OneEntryAtATime
  <1>1. RuntimeInv => OneEntryAtATime
    BY DEF RuntimeInv
  <1> QED
    BY <1>1, RuntimeSafe, PTL

\* The execution_status of a decision never claims what the paper account did
\* not do, wherever a listener raises or the process dies between the order
\* and the update of the decision.
THEOREM DecisionsTruthful == Spec => []DecisionMatchesOrder
  <1>1. RuntimeInv => DecisionMatchesOrder
    BY DEF RuntimeInv
  <1> QED
    BY <1>1, RuntimeSafe, PTL

\* Only on_bar fills a waiting entry, and its guard reads the stored status: a
\* runtime that reads armed was armed in this process and not paused, stopped
\* or restarted since.
THEOREM ArmedFills == Spec => EntryFillsOnlyArmed
  <1> DEFINE A == \A c \in Waiting : IsEntry(c) /\ order'[c] = "filled"
                                        => c[1] \in armed
  <1>1. RuntimeInv /\ [Next]_vars => A
    <2> SUFFICES ASSUME RuntimeInv, [Next]_vars, NEW c \in Waiting, IsEntry(c),
                        order'[c] = "filled"
                 PROVE  c[1] \in armed
      OBVIOUS
    <2> USE DEF store, start
    <2>1. c \in Cells /\ c[1] \in Runtimes /\ order[c] = "approved"
      BY CellFacts DEF Waiting
    <2>2. CASE PaperOnBar
      <3>1. ~PrefillBlocked(c[1])
        BY <2>1, <2>2 DEF PaperOnBar
      <3> QED
        BY <2>1, <3>1 DEF PrefillBlocked, RuntimeInv, ArmedInv
    <2>3. CASE SubmitDecision
      BY <2>1, <2>3 DEF SubmitDecision, RuntimeInv, ShapeInv
    <2>4. CASE Restart
      BY <2>1, <2>4 DEF Restart
    <2>5. CASE UNCHANGED order
      BY <2>1, <2>5
    <2> QED
      BY <2>2, <2>3, <2>4, <2>5
      DEF Next, Bar, vars, Create, ArmRead, PauseRead, ArmWrite, PauseWrite, Stop,
          CloseBar, Protect, PaperDropsBar, SyncDecisions, BeginEvaluation, Record,
          Announce, SkipDecision, AnswerDecision, AnswerRaises, EndBar, ListenerRaises
  <1> QED
    BY <1>1, RuntimeSafe, PTL DEF Spec, EntryFillsOnlyArmed

\* A decision is executed at most once, although arm may move the cursor back
\* and have its bar evaluated again: record_runtime_evaluation ignores a row
\* that exists, and a pending decision has no order yet.
THEOREM ExecutedOnce == Spec => DecidedOnce
  <1> DEFINE A == \A c \in Cells :
         /\ decision[c] \notin {"none", "pending"}
               => decision'[c] \notin {"none", "pending"}
         /\ order[c] \in {"filled", "rejected"}
               => order'[c] = order[c]
  <1>1. RuntimeInv /\ [Next]_vars => A
    <2> SUFFICES ASSUME RuntimeInv, [Next]_vars, NEW c \in Cells
                 PROVE  /\ decision[c] \notin {"none", "pending"}
                             => decision'[c] \notin {"none", "pending"}
                        /\ order[c] \in {"filled", "rejected"}
                             => order'[c] = order[c]
      OBVIOUS
    <2>1. /\ decision[c] = "submitted" => order[c] # "none"
          /\ order[c] \in {"none", "approved", "filled", "rejected"}
      BY DEF RuntimeInv, DecisionMatchesOrder, ShapeInv
    <2> QED
      BY <2>1, DecisionSteps
  <1> QED
    BY <1>1, RuntimeSafe, PTL DEF Spec, DecidedOnce
=============================================================================
