---------------------------- MODULE StrategyStore ----------------------------
(***************************************************************************)
(* Composite strategies, their versions, and the backtest runs that refer  *)
(* to them (live/application/strategies.py, live/application/research.py   *)
(* and the strategy half of live/storage.py), for one owner.               *)
(*                                                                         *)
(* The routes are plain functions, so the server runs each request on a    *)
(* thread of its own. One call of the repository holds the repository's    *)
(* lock; a request is several such calls, and other requests come between. *)
(*                                                                         *)
(* A stored definition embeds the definitions of the versions it refers    *)
(* to. The tree is kept as the set of its reference paths, a path being a  *)
(* sequence of <<strategy, version>> that starts below the root.           *)
(***************************************************************************)
EXTENDS Naturals, Sequences, FiniteSets

CONSTANTS
    Ids,          \* uuids that new_composite_id may draw
    Names,        \* strategy names, up to case
    Parameters,   \* parameter sets of the one atomic strategy
    Threads,      \* requests in progress at once
    MaxDepth,     \* MAX_COMPOSITE_DEPTH
    MaxVersions,  \* bound on versions of a strategy
    MaxChildren,  \* bound on strategies one definition refers to
    MaxRuns       \* bound on stored backtest runs

ASSUME StoreAssumption ==
    {MaxDepth, MaxVersions, MaxChildren, MaxRuns} \subseteq Nat

VARIABLES
    versions,      \* composite_strategies: the versions of each id, in order
    archived,      \* archived_composite_strategies
    runs,          \* backtest_runs
    parameters,    \* strategy_parameters of the atomic strategy
    inTransaction, \* a failed INSERT has left the connection's transaction open
    drawn,         \* uuids drawn so far
    work           \* what each request thread has read and will do next

store == <<versions, archived, runs, parameters>>
vars == <<store, inTransaction, drawn, work>>

Atomic == "atomic"

Definition(n, ps) == [name |-> n, paths |-> ps]

Idle == [op |-> "idle"]
------------------------------------------------------------------------------
Exists(c) == c[1] \in Ids /\ c[2] \in 1..Len(versions[c[1]])

Latest(i) == versions[i][Len(versions[i])]

Pinned == {<<i, v>> : i \in Ids, v \in 1..MaxVersions}

\* composite_strategy_dependencies of a definition: the roots of its paths.
Children(d) == {Head(p) : p \in d.paths}

\* _validate_group resolves each reference and embeds its definition.
Embed(cs) ==
    UNION {{<<c>>} \cup {<<c>> \o p : p \in versions[c[1]][c[2]].paths} : c \in cs}

\* Mutant: the walk starts with an empty path.
WalkIgnoresRoot(i, d) ==
    \A p \in d.paths : /\ \A j, k \in DOMAIN p : p[j][1] = p[k][1] => j = k
                       /\ Len(p) < MaxDepth

\* validate_composite_dependencies: no id twice on a path from the root, and
\* no more than MaxDepth levels.
Walk(i, d) ==
    \A p \in d.paths :
        /\ \A j \in DOMAIN p : p[j][1] # i
        /\ \A j, k \in DOMAIN p : p[j][1] = p[k][1] => j = k
        /\ Len(p) < MaxDepth

\* _validated_definition: every child exists, none is archived, the tree is
\* sound. The child reads are one step: what may come between two of them may
\* as well come before or after all of them.
Validated(i, n, cs, d) ==
    /\ \A c \in cs : Exists(c) /\ c[1] \notin archived
    /\ d = Definition(n, Embed(cs))
    /\ Walk(i, d)

Free(t) == work[t] = Idle
Become(t, w) == work' = [work EXCEPT ![t] = w]

\* The request of thread t ends.
Done(t) == Become(t, Idle)

ChildSets == {cs \in SUBSET Pinned : Cardinality(cs) <= MaxChildren}

\* A definition that passes validation, about to be saved under id i.
StartSave(t, i, n) ==
    \E cs \in ChildSets :
        /\ \A c \in cs : Exists(c)
        /\ LET d == Definition(n, Embed(cs))
           IN  /\ Validated(i, n, cs, d)
               /\ Become(t, [op |-> "save", id |-> i, def |-> d])

\* create_composite.
Create(t) ==
    /\ Free(t)
    /\ \E i \in Ids \ drawn, n \in Names :
          /\ StartSave(t, i, n)
          /\ drawn' = drawn \cup {i}
    /\ UNCHANGED <<store, inTransaction>>

\* update_composite: another name makes it another strategy.
Update(t) ==
    /\ Free(t)
    /\ \E i \in Ids, n \in Names :
          /\ versions[i] # <<>> /\ i \notin archived
          /\ IF n = Latest(i).name
             THEN StartSave(t, i, n) /\ UNCHANGED drawn
             ELSE \E j \in Ids \ drawn :
                     StartSave(t, j, n) /\ drawn' = drawn \cup {j}
    /\ UNCHANGED <<store, inTransaction>>

\* The name of another strategy, an archived one included.
NameTaken(i, n) ==
    \E j \in Ids \ {i} : versions[j] # <<>> /\ Latest(j).name = n

\* Mutant: archival is only checked before the definition is validated.
SaveRefusedLate(i, d) ==
    \/ versions[i] # <<>> /\ Latest(i).name # d.name
    \/ NameTaken(i, d.name)

\* The checks save_composite_strategy repeats under the lock.
SaveRefused(i, d) ==
    \/ i \in archived
    \/ versions[i] # <<>> /\ Latest(i).name # d.name
    \/ NameTaken(i, d.name)

\* save_composite_strategy: the next version and its dependencies in one
\* transaction. A child that is gone fails its foreign key; a transaction
\* left open fails BEGIN IMMEDIATE, and the rollback closes it.
Save(t) ==
    LET w == work[t]
    IN  /\ w.op = "save" /\ Done(t)
        /\ \/ /\ SaveRefused(w.id, w.def)
              /\ UNCHANGED <<versions, inTransaction>>
           \/ /\ ~SaveRefused(w.id, w.def)
              /\ inTransaction \/ \E c \in Children(w.def) : ~Exists(c)
              /\ inTransaction' = FALSE
              /\ UNCHANGED versions
           \/ /\ ~SaveRefused(w.id, w.def) /\ ~inTransaction
              /\ \A c \in Children(w.def) : Exists(c)
              /\ Len(versions[w.id]) < MaxVersions
              /\ versions' = [versions EXCEPT ![w.id] = Append(@, w.def)]
              /\ UNCHANGED inTransaction
        /\ UNCHANGED <<archived, runs, parameters, drawn>>

\* archive_composite_strategy; its INSERT joins an open transaction and the
\* commit closes it.
Archive(i) ==
    /\ versions[i] # <<>>
    /\ archived' = archived \cup {i}
    /\ inTransaction' = FALSE
    /\ UNCHANGED <<versions, runs, parameters, drawn, work>>

\* Mutant: only the parents that are not archived protect their children.
PurgeableActive(s) ==
    /\ s # {} /\ s \subseteq archived
    /\ \A r \in runs : r.id \notin s
    /\ \A i \in Ids \ (s \cup archived) : \A v \in DOMAIN versions[i] :
          \A c \in Children(versions[i][v]) : c[1] \notin s

\* What purge_archived_composite_strategies requires of the ids it deletes:
\* archived, without runs, referred to by nothing that stays.
Purgeable(s) ==
    /\ s # {} /\ s \subseteq archived
    /\ \A r \in runs : r.id \notin s
    /\ \A i \in Ids \ s : \A v \in DOMAIN versions[i] :
          \A c \in Children(versions[i][v]) : c[1] \notin s

Purge(s) ==
    /\ Purgeable(s)
    /\ \/ /\ inTransaction
          /\ inTransaction' = FALSE /\ UNCHANGED <<versions, archived>>
       \/ /\ ~inTransaction
          /\ versions' = [i \in Ids |-> IF i \in s THEN <<>> ELSE versions[i]]
          /\ archived' = archived \ s
          /\ UNCHANGED inTransaction
    /\ UNCHANGED <<runs, parameters, drawn, work>>

\* create_backtest_run of a composite: the version is looked up. An archived
\* strategy may still be tested.
StartRun(t, c) ==
    /\ Free(t) /\ Exists(c)
    /\ Become(t, [op |-> "execute", id |-> c[1], version |-> c[2],
                  snapshot |-> versions[c[1]][c[2]]])
    /\ UNCHANGED <<store, inTransaction, drawn>>

\* execute_composite reads the version again and computes the result from it.
ExecuteComposite(t) ==
    LET w == work[t]
    IN  /\ w.op = "execute"
        /\ IF Exists(<<w.id, w.version>>)
           THEN Become(t, [op |-> "store", id |-> w.id, version |-> w.version,
                           snapshot |-> w.snapshot,
                           used |-> versions[w.id][w.version]])
           ELSE Done(t)
        /\ UNCHANGED <<store, inTransaction, drawn>>

\* execute_atomic reads the parameters and computes the result from them.
ExecuteAtomic(t) ==
    /\ Free(t)
    /\ Become(t, [op |-> "snapshot", used |-> parameters])
    /\ UNCHANGED <<store, inTransaction, drawn>>

\* The parameters are read once more for the stored snapshot.
Snapshot(t) ==
    /\ work[t].op = "snapshot"
    /\ Become(t, [op |-> "store", id |-> Atomic, version |-> 0,
                  snapshot |-> parameters, used |-> work[t].used])
    /\ UNCHANGED <<store, inTransaction, drawn>>

RunAccepted(w) == w.id = Atomic \/ Exists(<<w.id, w.version>>)

RunIds == 1..MaxRuns
FreshRun == RunIds \ {r.run : r \in runs}

\* save_backtest_run: one INSERT. When its foreign key fails, the transaction
\* the driver began for it stays open.
SaveRun(t) ==
    LET w == work[t]
    IN  /\ w.op = "store" /\ Done(t)
        /\ \/ /\ ~RunAccepted(w)
              /\ inTransaction' = TRUE /\ UNCHANGED runs
           \/ /\ RunAccepted(w) /\ FreshRun # {}
              /\ \E r \in FreshRun :
                   runs' = runs \cup {[run |-> r, id |-> w.id,
                                       version |-> w.version,
                                       snapshot |-> w.snapshot,
                                       used |-> w.used]}
              /\ inTransaction' = FALSE
        /\ UNCHANGED <<versions, archived, parameters, drawn>>

\* delete_backtest_run and delete_backtest_runs: all of the chosen runs or,
\* when the connection is inside a transaction, none.
DeleteRuns(rs) ==
    /\ rs # {} /\ rs \subseteq runs
    /\ runs' = IF inTransaction THEN runs ELSE runs \ rs
    /\ inTransaction' = FALSE
    /\ UNCHANGED <<versions, archived, parameters, drawn, work>>

\* update_parameters.
UpdateParameters(p) ==
    /\ parameters' = p
    /\ inTransaction' = FALSE
    /\ UNCHANGED <<versions, archived, runs, drawn, work>>

Init ==
    /\ versions = [i \in Ids |-> <<>>]
    /\ archived = {} /\ runs = {}
    /\ parameters \in Parameters
    /\ inTransaction = FALSE
    /\ drawn = {}
    /\ work = [t \in Threads |-> Idle]

Next ==
    \/ \E t \in Threads :
          \/ Create(t) \/ Update(t) \/ Save(t)
          \/ \E c \in Pinned : StartRun(t, c)
          \/ ExecuteComposite(t) \/ ExecuteAtomic(t) \/ Snapshot(t)
          \/ SaveRun(t)
    \/ \E i \in Ids : Archive(i)
    \/ \E s \in SUBSET Ids : Purge(s)
    \/ \E rs \in SUBSET runs : DeleteRuns(rs)
    \/ \E p \in Parameters : UpdateParameters(p)

Spec == Init /\ [][Next]_vars
------------------------------------------------------------------------------
(* Properties *)

Stored == {c \in Pinned : c[2] \in DOMAIN versions[c[1]]}

\* A purge never takes away what a stored version or a backtest run refers
\* to, however the purge, the save of a new parent and the end of a running
\* backtest interleave.
ReferencesResolve ==
    /\ \A c \in Stored : \A k \in Children(versions[c[1]][c[2]]) : Exists(k)
    /\ \A r \in runs : r.id # Atomic => Exists(<<r.id, r.version>>)

\* No strategy reaches itself through the versions its definition embeds, and
\* no tree is deeper than the evaluation allows, although parents are saved
\* under ids and versions that change after their validation.
TreesBounded ==
    \A c \in Stored :
        LET d == versions[c[1]][c[2]]
        IN  \A p \in d.paths :
               /\ Len(p) < MaxDepth
               /\ Cardinality({c[1]} \cup {p[j][1] : j \in DOMAIN p}) = Len(p) + 1

\* Two strategies never have the same name, archived ones included, although
\* two requests may validate the same new name at the same time.
NamesUnique ==
    \A i, j \in Ids : versions[i] # <<>> /\ versions[j] # <<>>
        /\ Latest(i).name = Latest(j).name => i = j

\* An archived strategy gets no further version, also from an update that was
\* validated before it was archived; and no version changes while it is kept.
ArchivedFrozen ==
    [][\A i \in Ids : versions'[i] # <<>> =>
          /\ i \in archived => versions'[i] = versions[i]
          /\ versions[i] = SubSeq(versions'[i], 1, Len(versions[i]))]_vars

\* README.md:26 lists parameter snapshots and backtests that can be traced
\* back: the snapshot stored with a run is what its result was computed from.
SnapshotIsUsed == \A r \in runs : r.snapshot = r.used
=============================================================================
