---------------------------- MODULE StoreUpgrade ----------------------------
(***************************************************************************)
(* Opening an application database of an earlier release                   *)
(* (SQLiteBarRepository.__init__ in live/storage.py). Four tables are      *)
(* rebuilt the same way: rename the old one, create the new one, copy the  *)
(* rows, drop the old one. The runtime table has been rebuilt four times.  *)
(*                                                                         *)
(* Python's sqlite3 opens a transaction before INSERT and UPDATE only, and *)
(* executescript opens none: every other statement commits on its own, so  *)
(* a crash may fall between any two steps below.                           *)
(***************************************************************************)
EXTENDS Naturals, Sequences

CONSTANTS
    Rows,     \* rows of each table in the old database
    Crashes   \* bound on crashes while the store is being opened

Tables == {"runs", "parameters", "runtimes", "decisions"}

\* The generation of each table that this release writes: backtest runs
\* gained a strategy kind (2) and a stored summary (3), parameters an owner
\* (2), runtimes armed (2), recovery_locked (3), live_shadow (4), live_auto (5).
Latest == [runs |-> 3, parameters |-> 2, runtimes |-> 5, decisions |-> 1]

\* The stages of __init__ in order. "base" and "runtime_base" are CREATE TABLE
\* IF NOT EXISTS; the others upgrade one generation.
Stages == <<"base", "runs", "summary", "parameters", "runtime_base", "armed",
            "recovery", "shadow", "auto">>

Rebuilds == {"runs", "parameters", "armed", "recovery", "shadow", "auto"}

VARIABLES
    live,    \* the tables by their names: generation (0: absent) and rows
    old,     \* <<table, stage>>: the table that stage renamed away
    parent,  \* the table trading_decisions' foreign key names: "live", a stage
    shown,   \* backtest runs with a stored summary
    pc,      \* stage and step of the opening process
    crashes, \* crashes so far
    had      \* history: the tables the old database had

database == <<live, old, parent, shown>>
vars == <<database, pc, crashes, had>>

Absent == [gen |-> 0, rows |-> {}]
Present(t) == t.gen # 0
------------------------------------------------------------------------------
\* The generation a stage gives the table it is about.
Target == [runs |-> 3, parameters |-> 2, armed |-> 2, recovery |-> 3,
           shadow |-> 4, auto |-> 5]

\* Mutant: a runtime table that knows live_shadow counts as up to date.
NeededShort(s) ==
    CASE s \in {"base", "runtime_base"} -> TRUE
      [] s = "runs" -> live["runs"].gen = 1
      [] s = "summary" -> live["runs"].gen = 2
      [] s = "parameters" -> live["parameters"].gen = 1
      [] OTHER -> live["runtimes"].gen < Target[s] /\ s # "auto"

\* PRAGMA table_info and the text of the table decide whether a stage runs.
Needed(s) ==
    CASE s \in {"base", "runtime_base"} -> TRUE
      [] s = "runs" -> live["runs"].gen = 1
      [] s = "summary" -> live["runs"].gen = 2
      [] s = "parameters" -> live["parameters"].gen = 1
      [] OTHER -> live["runtimes"].gen < Target[s]

\* What the stages commit, step by step. The scripts of the runtime table
\* commit every statement; runs and parameters copy and drop in one
\* transaction, which their first INSERT opens.
Do(op, t) == <<[op |-> op, table |-> t]>>

RunsScript ==
    <<Do("rename", "runs"), Do("create", "runs"),
      Do("copy", "runs") \o Do("drop", "runs")>>

SummaryScript == <<Do("column", "runs"), Do("backfill", "runs")>>

ParametersScript ==
    <<Do("rename", "parameters"), Do("create", "parameters"),
      Do("copy", "parameters") \o Do("drop", "parameters")>>

ArmedScript ==
    <<Do("rename", "decisions"), Do("rename", "runtimes"),
      Do("create", "runtimes"), Do("copy", "runtimes"),
      Do("create", "decisions"), Do("copy", "decisions"),
      Do("drop", "decisions"), Do("drop", "runtimes")>>

RecoveryScript == ArmedScript
ShadowScript   == ArmedScript

\* The last upgrade leaves the decisions where they are.
AutoScript ==
    <<Do("rename", "runtimes"), Do("create", "runtimes"),
      Do("copy", "runtimes"), Do("drop", "runtimes")>>

Steps(s) ==
    CASE s = "runs"       -> RunsScript
      [] s = "summary"    -> SummaryScript
      [] s = "parameters" -> ParametersScript
      [] s = "armed"      -> ArmedScript
      [] s = "recovery"   -> RecoveryScript
      [] s = "shadow"     -> ShadowScript
      [] s = "auto"       -> AutoScript
      [] OTHER            -> <<Do(s, "runs")>>

\* CREATE TABLE IF NOT EXISTS of some tables, in their latest form.
Ensured(l, ts) ==
    [t \in Tables |-> IF t \in ts /\ ~Present(l[t])
                      THEN [gen |-> Latest[t], rows |-> {}] ELSE l[t]]

\* One statement of stage s on the database d.
Execute(d, s, stmt) ==
    LET t == stmt.table
    IN  CASE stmt.op = "base" ->
               [d EXCEPT !.live = Ensured(@, {"parameters", "runs"})]
          [] stmt.op = "runtime_base" ->
               [d EXCEPT !.live = Ensured(@, {"runtimes", "decisions"}),
                         !.parent = IF Present(d.live["decisions"]) THEN @
                                    ELSE "live"]
          [] stmt.op = "column" ->
               [d EXCEPT !.live[t].gen = 3]
          [] stmt.op = "backfill" ->
               [d EXCEPT !.shown = d.live[t].rows]
          [] stmt.op = "rename" ->
               [d EXCEPT !.live[t] = Absent, !.old[<<t, s>>] = d.live[t],
                         !.parent = IF t = "runtimes" /\ @ = "live" THEN s
                                    ELSE @]
          [] stmt.op = "create" ->
               [d EXCEPT !.live[t].gen = IF t = "decisions" THEN 1
                                         ELSE Target[s],
                         !.parent = IF t = "decisions" THEN "live" ELSE @]
          [] stmt.op = "copy" ->
               [d EXCEPT !.live[t].rows = @ \cup d.old[<<t, s>>].rows,
                         !.shown = IF t = "runs" THEN d.old[<<t, s>>].rows
                                   ELSE @]
          [] OTHER -> [d EXCEPT !.old[<<t, s>>] = Absent]

\* Mutant: a table left by an interrupted upgrade is dropped first.
BlockedNever(s, step) == FALSE

\* A rename fails on a name that is taken: __init__ raises, every time.
Blocked(s, step) ==
    \E i \in DOMAIN step : step[i].op = "rename"
                              /\ Present(old[<<step[i].table, s>>])
------------------------------------------------------------------------------
stage == Stages[pc.stage]
Opening == pc.stage <= Len(Stages)
Opened  == ~Opening

\* The stage is not needed: __init__ goes on to the next.
Skip ==
    /\ Opening /\ pc.step = 1 /\ ~Needed(stage)
    /\ pc' = [stage |-> pc.stage + 1, step |-> 1]
    /\ UNCHANGED <<database, crashes, had>>

\* The next statements of the stage are committed.
Commit ==
    LET step == Steps(stage)[pc.step]
        d0   == [live |-> live, old |-> old, parent |-> parent, shown |-> shown]
        d1   == Execute(d0, stage, step[1])
        d    == IF Len(step) = 1 THEN d1 ELSE Execute(d1, stage, step[2])
    IN  /\ Opening /\ (pc.step = 1 => Needed(stage))
        /\ ~Blocked(stage, step)
        /\ live' = d.live /\ old' = d.old /\ parent' = d.parent
        /\ shown' = d.shown
        /\ pc' = IF pc.step < Len(Steps(stage)) THEN [pc EXCEPT !.step = @ + 1]
                 ELSE [stage |-> pc.stage + 1, step |-> 1]
        /\ UNCHANGED <<crashes, had>>

\* The process dies while it opens the store and starts again.
Crash ==
    /\ Opening /\ crashes < Crashes
    /\ crashes' = crashes + 1
    /\ pc' = [stage |-> 1, step |-> 1]
    /\ UNCHANGED <<database, had>>

\* A database some earlier release wrote, or none. A table an older release
\* did not have yet is absent; runs of generation 3 have their summaries.
Init ==
    /\ \E g \in [runs : 0..3, parameters : 0..2, runtimes : 0..5] :
         live = [t \in Tables |->
            LET n == IF t = "decisions" THEN (IF g.runtimes = 0 THEN 0 ELSE 1)
                     ELSE g[t]
            IN  [gen |-> n, rows |-> IF n = 0 THEN {} ELSE Rows]]
    /\ old = [x \in Tables \X Rebuilds |-> Absent]
    /\ parent = "live"
    /\ shown = IF live["runs"].gen = 3 THEN Rows ELSE {}
    /\ pc = [stage |-> 1, step |-> 1]
    /\ crashes = 0
    /\ had = {t \in Tables : live[t].gen # 0}

Next == Skip \/ Commit \/ Crash

Spec == Init /\ [][Next]_vars
------------------------------------------------------------------------------
(* Properties *)

\* A row of the old database is in its table of this release, or still in a
\* renamed table from which it can be brought back by hand, whatever crashes
\* came between.
RowsSomewhere ==
    \A t \in had : Rows = live[t].rows \cup
        UNION {old[<<t, s>>].rows : s \in Rebuilds}

\* An upgrade that is not interrupted brings every row of every generation
\* into the table of this release, fills the summaries and leaves no renamed
\* table behind.
UpgradeKeepsRows ==
    Opened /\ crashes = 0 =>
        /\ \A t \in Tables : live[t].gen = Latest[t]
        /\ \A t \in had : live[t].rows = Rows
        /\ live["runs"].rows \subseteq shown
        /\ \A x \in DOMAIN old : ~Present(old[x])

\* live/storage.py:625: the live_auto upgrade extends the table "while
\* preserving all decisions": a runtime of the opened store can record one,
\* which needs the parent row that the foreign key of the decisions names.
DecisionsRecordable ==
    Opened => live["runtimes"].rows \subseteq
        (IF parent = "live" THEN live["runtimes"]
         ELSE old[<<"runtimes", parent>>]).rows

\* live/storage.py:729: the recovery state is added "without losing PR #99
\* data".
NothingLost == Opened => \A t \in had : live[t].rows = Rows
=============================================================================
