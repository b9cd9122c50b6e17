---------------------------- MODULE ServiceProofs ----------------------------
(***************************************************************************)
(* Proofs about the execution service: its targets, for any owners and     *)
(* accounts and any number of commands, and the READY of its account, for  *)
(* any number of order events, callbacks and failures.                     *)
(***************************************************************************)
EXTENDS ExecutionService, TLAPS

TargetRow == [owner : Owners \cup {"none"},
              status : {"none", "locked", "active"}]

Command == [pc : {"copy", "create", "activate", "lock", "failed", "rollback"},
            owner : Owners, account : Accounts]

\* Where the command stands says what it has already secured: the directory
\* is complete before the row is made, the row is there, locked, before it is
\* activated, and no directory moves away while its target is active.
TargetsInv ==
    /\ rows \in [Accounts -> TargetRow]
    /\ dirs \in [TargetIds -> {"none", "partial", "full"}]
    /\ job = NoJob \/ job \in Command
    /\ job.pc \in {"copy", "create"} => ~Exists(job.account)
    /\ job.pc \in {"create", "activate"} => dirs[Id] = "full"
    /\ job.pc = "activate" => rows[job.account].owner = job.owner
    /\ \A a \in Accounts : rows[a].status = "active" => rows[a].owner \in Owners
    /\ job.pc \in {"failed", "rollback"} =>
          rows[job.account].status # "active"
    /\ ActiveHasSecrets

LEMMA TargetsStart == Init => TargetsInv
  <1> SUFFICES ASSUME Init PROVE TargetsInv
    OBVIOUS
  <1>1. /\ rows = [a \in Accounts |-> NoRow]
        /\ dirs = [i \in TargetIds |-> "none"]
        /\ job = NoJob
    BY DEF Init, TargetsInit
  <1> QED
    BY <1>1 DEF TargetsInv, TargetRow, NoRow, NoJob, ActiveHasSecrets, Active

\* Only the directory of the command's own target changes.
LEMMA MoveFacts ==
    ASSUME TargetsInv, job \in Command, NEW name, MoveAside(name)
    PROVE  /\ dirs' \in [TargetIds -> {"none", "partial", "full"}]
           /\ \A i \in TargetIds : i # Id => dirs'[i] = dirs[i]
  BY DEF TargetsInv, MoveAside

\* A target that is active keeps its directory when only others change.
LEMMA SecretsStay ==
    ASSUME TargetsInv, job \in Command,
           rows[job.account].status # "active", UNCHANGED rows,
           \A i \in TargetIds : i # Id => dirs'[i] = dirs[i]
    PROVE  ActiveHasSecrets'
  <1> SUFFICES ASSUME NEW a \in Accounts, rows[a].status = "active"
               PROVE  dirs'[<<rows[a].owner, a>>] = "full"
    BY DEF ActiveHasSecrets, Active
  <1>1. a # job.account
    OBVIOUS
  <1>2. dirs[<<rows[a].owner, a>>] = "full"
    BY DEF TargetsInv, ActiveHasSecrets, Active
  <1>3. <<rows[a].owner, a>> # Id
    BY <1>1 DEF Id
  <1>4. <<rows[a].owner, a>> \in TargetIds
    BY DEF TargetsInv, TargetIds
  <1> QED
    BY <1>2, <1>3, <1>4

LEMMA StepKeepsTargets == TargetsInv /\ [Next]_vars => TargetsInv'
  <1> SUFFICES ASSUME TargetsInv, [Next]_vars PROVE TargetsInv'
    OBVIOUS
  <1> USE DEF Reached, Then, Id, Exists, NoRow, NoJob, Command, TargetRow
  <1>1. CASE UNCHANGED targets
    BY <1>1 DEF targets, TargetsInv, ActiveHasSecrets, Active
  <1>2. ASSUME NEW o \in Owners, NEW a \in Accounts, Apply(o, a)
        PROVE  TargetsInv'
    <2>1. CASE Exists(a) \/ dirs[<<o, a>>] # "none"
      BY <1>2, <2>1 DEF Apply, TargetsInv, ActiveHasSecrets, Active
    <2>2. CASE ~(Exists(a) \/ dirs[<<o, a>>] # "none")
      <3>1. /\ UNCHANGED rows
            /\ dirs' = [dirs EXCEPT ![<<o, a>>] = "partial"]
            /\ job' = [pc |-> "copy", owner |-> o, account |-> a]
        BY <1>2, <2>2 DEF Apply
      <3>2. rows[a].status # "active"
        BY <2>2
      <3>3. ActiveHasSecrets'
        BY <3>1, <3>2 DEF TargetsInv, TargetIds, ActiveHasSecrets, Active
      <3> QED
        BY <2>2, <3>1, <3>2, <3>3 DEF TargetsInv
    <2> QED
      BY <2>1, <2>2
  <1>3. ASSUME NEW o \in Owners, NEW a \in Accounts, Rollback(o, a)
        PROVE  TargetsInv'
    <2>1. ActiveHasSecrets'
      BY <1>3 DEF Rollback, SetStatus, TargetsInv, ActiveHasSecrets, Active
    <2> QED
      BY <1>3, <2>1 DEF Rollback, SetStatus, TargetsInv
  <1>4. CASE Copy
    <2>1. job \in Command /\ Id \in TargetIds
      BY <1>4 DEF Copy, TargetsInv, TargetIds
    <2>2. ActiveHasSecrets'
      <3>1. rows[job.account].status # "active"
        BY <1>4 DEF Copy, TargetsInv
      <3>2. UNCHANGED rows /\ \A i \in TargetIds : i # Id => dirs'[i] = dirs[i]
        BY <1>4 DEF Copy, TargetsInv
      <3> QED
        BY <2>1, <3>1, <3>2, SecretsStay
    <2> QED
      BY <1>4, <2>1, <2>2 DEF Copy, TargetsInv
  <1>5. CASE Create
    <2>1. job \in Command
      BY <1>5 DEF Create, TargetsInv
    <2>2. ActiveHasSecrets'
      BY <1>5, <2>1 DEF Create, TargetsInv, ActiveHasSecrets, Active
    <2> QED
      BY <1>5, <2>1, <2>2 DEF Create, TargetsInv
  <1>6. CASE Activate
    <2>1. job \in Command
      BY <1>6 DEF Activate, TargetsInv
    <2>2. ActiveHasSecrets'
      BY <1>6, <2>1, ZenonT(60) DEF Activate, SetStatus, TargetsInv, ActiveHasSecrets, Active
    <2> QED
      BY <1>6, <2>1, <2>2 DEF Activate, SetStatus, TargetsInv
  <1>7. ASSUME NEW pc \in {"copy", "create", "activate"}, Fails(pc)
        PROVE  TargetsInv'
    BY <1>7 DEF Fails, TargetsInv, ActiveHasSecrets, Active
  <1>8. CASE LockFailed
    <2>1. job \in Command
      BY <1>8 DEF LockFailed, TargetsInv
    <2>2. ActiveHasSecrets'
      BY <1>8, <2>1 DEF LockFailed, SetStatus, TargetsInv, ActiveHasSecrets, Active
    <2> QED
      BY <1>8, <2>1, <2>2 DEF LockFailed, SetStatus, TargetsInv
  <1>9. ASSUME NEW name, job.pc \in {"failed", "rollback"}, MoveAside(name),
               job' = NoJob, UNCHANGED rows
        PROVE  TargetsInv'
    <2>1. job \in Command /\ rows[job.account].status # "active"
      BY <1>9 DEF TargetsInv
    <2>2. ActiveHasSecrets'
      BY <1>9, <2>1, MoveFacts, SecretsStay
    <2>3. dirs' \in [TargetIds -> {"none", "partial", "full"}]
      BY <1>9, <2>1, MoveFacts
    <2> QED
      BY <1>9, <2>2, <2>3 DEF TargetsInv
  <1>10. CASE Killed
    BY <1>10 DEF Killed, TargetsInv, ActiveHasSecrets, Active
  <1>11. CASE RenameFailed
    BY <1>9, <1>11 DEF RenameFailed
  <1>12. CASE RollbackMoves
    BY <1>9, <1>12 DEF RollbackMoves
  <1>13. CASE TargetsNext
    BY <1>2, <1>3, <1>4, <1>5, <1>6, <1>7, <1>8, <1>10, <1>11, <1>12, <1>13
       DEF TargetsNext
  <1> QED
    BY <1>1, <1>13 DEF Next, Build, vars

\* An active target has its complete secrets in every reachable state, wherever
\* the migration command fails or is killed (target_migration.py writes the
\* directory before the row, and rollback locks the row before it moves it).
THEOREM SecretsBacked == Spec => []ActiveHasSecrets
  <1>1. TargetsInv => ActiveHasSecrets
    BY DEF TargetsInv
  <1> QED
    BY <1>1, TargetsStart, StepKeepsTargets, PTL DEF Spec
------------------------------------------------------------------------------
\* The records of the worker and its client.
SessionShape ==
    /\ client \in [state : {"disconnected", "connecting", "ready", "degraded",
                            "locked"},
                   flags : BOOLEAN, dialing : BOOLEAN]
    /\ recovery \in [status : {"locked", "reconciling", "ready"}, held : BOOLEAN]
    /\ attempt \in [pc : {"idle", "begin", "refresh", "snapshot", "complete",
                          "conclude"},
                    local : Nat, clean : BOOLEAN, ready : BOOLEAN]
    /\ truth \in Nat

\* While the client connects nothing is READY, and no attempt is under way that
\* could make it so: the READY of the session before ended with it.
DialInv ==
    /\ service # "running" => attempt = Idle /\ ~client.dialing
    /\ client.dialing => At("idle") /\ ~Ready /\ ~client.flags

\* An attempt that has completed without success finds the account as it left
\* it: nothing but a completed attempt makes it READY.
WatchInv ==
    /\ service = "running" /\ At("conclude") /\ ~attempt.ready => ~Ready
    /\ ReadyIsWatched

SessionInv == SessionShape /\ DialInv /\ ReadyIsEarned /\ WatchInv

LEMMA SessionStart == Init => SessionInv
  BY DEF Init, SessionInit, SessionInv, SessionShape, DialInv, ReadyIsEarned,
         WatchInv, ReadyIsWatched, Ready, At, Idle, Closed, Client

\* A lock keeps the invariant: what is not READY needs no reason.
LEMMA LockKeeps ==
    ASSUME SessionInv, PersistLock, UNCHANGED <<service, truth>>,
           attempt' \in {attempt, Idle},
           \E st \in {client.state, "ready", "degraded"} :
              client' = [client EXCEPT !.state = st]
    PROVE  SessionInv'
  <1>1. SessionShape'
    <2>1. client' \in [state : {"disconnected", "connecting", "ready",
                                "degraded", "locked"},
                       flags : BOOLEAN, dialing : BOOLEAN]
      BY DEF SessionInv, SessionShape
    <2>2. recovery' \in [status : {"locked", "reconciling", "ready"},
                         held : BOOLEAN]
      BY DEF PersistLock, ForceLock
    <2>3. CASE attempt' = attempt
      BY <2>1, <2>2, <2>3 DEF SessionInv, SessionShape
    <2>4. CASE attempt' = Idle
      BY <2>1, <2>2, <2>4 DEF SessionInv, SessionShape, Idle
    <2> QED
      BY <2>3, <2>4
  <1>2. ~Ready'
    BY DEF PersistLock, ForceLock, Ready
  <1>3. client'.flags = client.flags /\ client'.dialing = client.dialing
    BY DEF SessionInv, SessionShape
  <1>4. attempt'.pc = "idle" \/ attempt' = attempt
    BY DEF Idle
  <1>5. DialInv'
    BY <1>2, <1>3, <1>4 DEF SessionInv, DialInv, At, Idle
  <1> QED
    BY <1>1, <1>2, <1>5
       DEF SessionInv, ReadyIsEarned, WatchInv, ReadyIsWatched

\* A read of the broker that fails only sends the attempt to its end.
LEMMA ReadFails ==
    ASSUME SessionInv, NEW pc \in {"refresh", "snapshot"}, NEW next,
           Read(pc, next), ~CanRead
    PROVE  SessionInv'
  <1> USE DEF SessionInv, SessionShape, DialInv, ReadyIsEarned, WatchInv,
              ReadyIsWatched, Ready, At, Idle
  <1>1. /\ client' = [client EXCEPT !.state = "degraded"]
        /\ attempt' = [attempt EXCEPT !.pc = "complete", !.clean = FALSE]
        /\ UNCHANGED <<service, worker, recovery, truth, earned>>
        /\ service = "running" /\ attempt.pc = pc
    BY DEF Read
  <1> QED
    BY <1>1

LEMMA StepKeepsSession == SessionInv /\ [Next]_vars => SessionInv'
  <1> SUFFICES ASSUME SessionInv, [Next]_vars PROVE SessionInv'
    OBVIOUS
  <1> USE DEF SessionInv, SessionShape, DialInv, ReadyIsEarned, WatchInv,
              ReadyIsWatched, Ready, At, Goto, Idle, Client, ClientReady,
              ForceLock, PersistLock, Fault
  <1>1. CASE UNCHANGED session
    BY <1>1 DEF session
  <1>2. CASE Build
    BY <1>2 DEF Build
  <1>3. CASE Start
    BY <1>3 DEF Start
  <1>4. CASE Reconnect
    BY <1>4 DEF Reconnect
  <1>5. CASE Connected
    BY <1>5 DEF Connected
  <1>6. CASE ConnectFails
    BY <1>6 DEF ConnectFails
  <1>7. CASE Periodic
    BY <1>7 DEF Periodic
  <1>8. CASE Begin
    BY <1>8 DEF Begin
  <1>9. CASE Refresh
    <2>1. CASE CanRead
      <3>1. /\ client' = [client EXCEPT !.state = "ready"]
            /\ attempt' = [attempt EXCEPT !.pc = "snapshot", !.local = truth]
            /\ UNCHANGED <<service, worker, recovery, truth, earned>>
        BY <1>9, <2>1 DEF Refresh, Read
      <3>2. service = "running" /\ attempt.pc = "refresh"
        BY <1>9 DEF Refresh, Read
      <3>3. SessionShape'
        BY <3>1
      <3>4. client'.dialing = client.dialing /\ attempt'.pc = "snapshot"
        BY <3>1
      <3> QED
        BY <3>1, <3>2, <3>3, <3>4
    <2>2. CASE ~CanRead
      BY <1>9, <2>2, ReadFails DEF Refresh
    <2> QED
      BY <2>1, <2>2
  <1>10. CASE Snapshot
    <2>1. CASE CanRead
      <3>1. /\ client' = [client EXCEPT !.state = "ready"]
            /\ attempt' = [attempt EXCEPT !.pc = "complete",
                                          !.clean = (attempt.local = truth)]
            /\ UNCHANGED <<service, worker, recovery, truth, earned>>
        BY <1>10, <2>1 DEF Snapshot, Read
      <3>2. (attempt.local = truth) \in BOOLEAN
        OBVIOUS
      <3>3. attempt'.pc = "complete" /\ SessionShape'
        BY <3>1, <3>2
      <3> QED
        BY <1>10, <3>1, <3>3 DEF Snapshot, Read
    <2>2. CASE ~CanRead
      BY <1>10, <2>2, ReadFails DEF Snapshot
    <2> QED
      BY <2>1, <2>2
  <1>11. CASE Complete
    <2>1. service = "running" /\ UNCHANGED <<service, client, truth>>
      BY <1>11 DEF Complete
    <2>2. CASE ~recovery.held
      <3>1. PersistLock /\ attempt' = Idle
        BY <1>11, <2>2 DEF Complete
      <3> QED
        BY <2>1, <3>1, LockKeeps
    <2>3. CASE recovery.held /\ attempt.clean
      <3>1. /\ recovery' = [status |-> "ready", held |-> FALSE]
            /\ attempt' = [attempt EXCEPT !.pc = "conclude", !.ready = TRUE]
            /\ earned'
        BY <1>11, <2>3 DEF Complete
      <3>2. ~client.dialing
        BY <1>11 DEF Complete
      <3> QED
        BY <2>1, <3>1, <3>2
    <2>4. CASE recovery.held /\ ~attempt.clean
      <3>1. /\ recovery' = [status |-> "locked", held |-> FALSE]
            /\ attempt' = [attempt EXCEPT !.pc = "conclude", !.ready = FALSE]
        BY <1>11, <2>4 DEF Complete
      <3>2. ~client.dialing
        BY <1>11 DEF Complete
      <3> QED
        BY <2>1, <3>1, <3>2
    <2> QED
      BY <2>2, <2>3, <2>4
  <1>12. CASE Conclude
    <2>1. /\ service = "running" /\ At("conclude") /\ attempt' = Idle
          /\ UNCHANGED <<service, client, truth, earned>>
      BY <1>12 DEF Conclude
    <2>2. CASE attempt.ready /\ client.flags
      BY <1>12, <2>1, <2>2 DEF Conclude
    <2>3. CASE attempt.ready /\ ~client.flags
      <3>1. PersistLock
        BY <1>12, <2>3 DEF Conclude
      <3> QED
        BY <2>1, <3>1, LockKeeps
    <2>4. CASE ~attempt.ready
      BY <1>12, <2>1, <2>4 DEF Conclude
    <2> QED
      BY <2>2, <2>3, <2>4
  <1>13. CASE Timeout
    BY <1>13 DEF Timeout
  <1>14. CASE TaskLocks
    BY <1>14 DEF TaskLocks
  <1>15. ASSUME NEW odd \in BOOLEAN, OrderEvent(odd) PROVE SessionInv'
    <2>1. /\ truth' \in Nat
          /\ UNCHANGED <<service, worker, recovery, attempt, earned>>
      BY <1>15 DEF OrderEvent
    <2>2. UNCHANGED client \/ MarkDegraded
      BY <1>15 DEF OrderEvent
    <2>3. /\ client'.flags = client.flags /\ client'.dialing = client.dialing
          /\ SessionShape'
      BY <2>1, <2>2 DEF MarkDegraded
    <2> QED
      BY <2>1, <2>3
  <1>16. CASE Consume
    <2>1. UNCHANGED <<service, attempt, truth, earned>>
      BY <1>16 DEF Consume
    <2>2. \E st \in {"ready", "degraded"} : client' = [client EXCEPT !.state = st]
      BY <1>16 DEF Consume
    <2>3. UNCHANGED <<recovery, worker>> \/ PersistLock
      BY <1>16 DEF Consume
    <2>4. CASE PersistLock
      BY <2>1, <2>2, <2>4, LockKeeps
    <2>5. CASE UNCHANGED <<recovery, worker>>
      BY <2>1, <2>2, <2>5
    <2> QED
      BY <2>3, <2>4, <2>5
  <1>17. CASE Unmatched
    BY <1>17 DEF Unmatched
  <1>18. CASE Heartbeat
    <2>1. /\ UNCHANGED <<service, client, attempt, truth, earned>>
          /\ UNCHANGED <<recovery, worker>> \/ PersistLock
      BY <1>18 DEF Heartbeat
    <2>2. CASE PersistLock
      BY <2>1, <2>2, LockKeeps
    <2>3. CASE UNCHANGED <<recovery, worker>>
      BY <2>1, <2>3
    <2> QED
      BY <2>1, <2>2, <2>3
  <1>19. CASE SnapshotAges
    BY <1>19 DEF SnapshotAges
  <1>20. CASE LinkBreaks
    BY <1>20 DEF LinkBreaks
  <1>21. CASE Crash
    BY <1>21 DEF Crash, Closed
  <1> QED
    BY <1>1, <1>2, <1>3, <1>4, <1>5, <1>6, <1>7, <1>8, <1>9, <1>10, <1>11,
       <1>12, <1>13, <1>14, <1>15, <1>16, <1>17, <1>18, <1>19, <1>20, <1>21
       DEF Next, SessionNext, WorkerStep, vars

\* READY comes only from a reconciliation of the session that is connected now
\* (worker.py, start, _reconnect, reconcile_now), never from a process that
\* was killed or a session that was lost.
THEOREM EarnedReady == Spec => []ReadyIsEarned
  <1>1. SessionInv => ReadyIsEarned
    BY DEF SessionInv
  <1> QED
    BY <1>1, SessionStart, StepKeepsSession, PTL DEF Spec

\* While the account is READY the worker is in the state the heartbeat's checks
\* ask for (worker.py, heartbeat), or about to enter it.
THEOREM WatchedReady == Spec => []ReadyIsWatched
  <1>1. SessionInv => ReadyIsWatched
    BY DEF SessionInv, WatchInv
  <1> QED
    BY <1>1, SessionStart, StepKeepsSession, PTL DEF Spec
=============================================================================
