-------------------------- MODULE ExecutionTargets --------------------------
(***************************************************************************)
(* Owned execution targets (broker/execution_targets.py,                   *)
(* broker/execution_target_repository.py) and the operator's command that  *)
(* adopts a broker account as one (execution_service/target_migration.py). *)
(* The command changes a database row and a directory of secrets; it can   *)
(* fail or be killed between any two of its steps. One command runs at a   *)
(* time. No code writes the status "disabled".                             *)
(***************************************************************************)
EXTENDS Naturals

CONSTANTS
    Owners,      \* owner_user_id
    Accounts,    \* broker accounts
    MaxCommands  \* bound on operator commands

ASSUME TargetsAssumption ==
    Owners # {} /\ Accounts # {} /\ MaxCommands \in Nat

VARIABLES
    rows,     \* execution_targets, unique by account
    dirs,     \* <secret_root>/<target_id>: "none", "partial" or "full"
    aside,    \* which renamed directories of a target exist
    job,      \* the command that runs
    commands  \* commands so far

targets == <<rows, dirs, aside, job, commands>>

\* legacy_target_id: a digest of the owner and the account.
TargetIds == Owners \X Accounts

NoRow == [owner |-> "none", status |-> "none"]
NoJob == [pc |-> "idle"]
Exists(a) == rows[a] # NoRow

\* list_active, and get_owned with the status every caller asks for
\* (OwnedExecutionTargetCatalog.resolve).
Active == {a \in Accounts : rows[a].status = "active"}
Resolves(o, a) == a \in Active /\ rows[a].owner = o

SetStatus(a, s) == rows' = [rows EXCEPT ![a].status = s]
Reached(pc) == job.pc = pc
Then(pc) == job' = [job EXCEPT !.pc = pc]
Id == <<job.owner, job.account>>

\* Path.rename onto a directory that is not empty raises: nothing moves.
MoveAside(name) ==
    IF dirs[Id] = "none" \/ name \in aside[Id] THEN UNCHANGED <<dirs, aside>>
    ELSE /\ dirs' = [dirs EXCEPT ![Id] = "none"]
         /\ aside' = [aside EXCEPT ![Id] = @ \cup {name}]
------------------------------------------------------------------------------
\* apply: an account that has a target, or whose directory was left behind,
\* changes nothing; else the directory is made.
Apply(o, a) ==
    /\ Reached("idle") /\ commands < MaxCommands
    /\ commands' = commands + 1
    /\ IF Exists(a) \/ dirs[<<o, a>>] # "none"
       THEN UNCHANGED <<dirs, job>>
       ELSE /\ dirs' = [dirs EXCEPT ![<<o, a>>] = "partial"]
            /\ job' = [pc |-> "copy", owner |-> o, account |-> a]
    /\ UNCHANGED <<rows, aside>>

\* A step of apply raises: the row is locked, then the directory is renamed.
Fails(pc) ==
    /\ Reached(pc) /\ Then("lock") /\ UNCHANGED <<rows, dirs, aside, commands>>

Copy ==
    /\ Reached("copy")
    /\ dirs' = [dirs EXCEPT ![Id] = "full"]
    /\ Then("create")
    /\ UNCHANGED <<rows, aside, commands>>

Create ==
    /\ Reached("create")
    /\ rows' = [rows EXCEPT ![job.account] =
                   [owner |-> job.owner, status |-> "locked"]]
    /\ Then("activate")
    /\ UNCHANGED <<dirs, aside, commands>>

Activate ==
    /\ Reached("activate")
    /\ SetStatus(job.account, "active")
    /\ job' = NoJob
    /\ UNCHANGED <<dirs, aside, commands>>

LockFailed ==
    /\ Reached("lock")
    /\ IF Exists(job.account) THEN SetStatus(job.account, "locked")
       ELSE UNCHANGED rows
    /\ Then("failed")
    /\ UNCHANGED <<dirs, aside, commands>>

RenameFailed ==
    /\ Reached("failed")
    /\ MoveAside("failed")
    /\ job' = NoJob
    /\ UNCHANGED <<rows, commands>>

\* Mutant: the secrets move away while the target is still active.
RollbackMovesFirst(o, a) ==
    /\ Reached("idle") /\ commands < MaxCommands
    /\ Exists(a) /\ rows[a].owner = o
    /\ commands' = commands + 1
    /\ dirs' = [dirs EXCEPT ![<<o, a>>] = "none"]
    /\ job' = [pc |-> "lock", owner |-> o, account |-> a]
    /\ UNCHANGED <<rows, aside>>

\* rollback: the target is locked before its secrets move away.
Rollback(o, a) ==
    /\ Reached("idle") /\ commands < MaxCommands
    /\ Exists(a) /\ rows[a].owner = o
    /\ commands' = commands + 1
    /\ SetStatus(a, "locked")
    /\ job' = [pc |-> "rollback", owner |-> o, account |-> a]
    /\ UNCHANGED <<dirs, aside>>

RollbackMoves ==
    /\ Reached("rollback")
    /\ MoveAside("rollback")
    /\ job' = NoJob
    /\ UNCHANGED <<rows, commands>>

\* The command's process dies.
Killed ==
    /\ ~Reached("idle") /\ job' = NoJob
    /\ UNCHANGED <<rows, dirs, aside, commands>>

TargetsInit ==
    /\ rows = [a \in Accounts |-> NoRow]
    /\ dirs = [i \in TargetIds |-> "none"]
    /\ aside = [i \in TargetIds |-> {}]
    /\ job = NoJob
    /\ commands = 0

TargetsNext ==
    \/ \E o \in Owners, a \in Accounts : Apply(o, a) \/ Rollback(o, a)
    \/ Copy \/ Create \/ Activate
    \/ Fails("copy") \/ Fails("create") \/ Fails("activate")
    \/ LockFailed \/ RenameFailed \/ RollbackMoves \/ Killed
------------------------------------------------------------------------------
\* An active target has its complete secrets: adoption and rollback order
\* their writes so that this holds wherever the command fails or is killed.
ActiveHasSecrets ==
    \A a \in Active : dirs[<<rows[a].owner, a>>] = "full"

\* apply is idempotent (execution_service/target_migration.py:21): a command
\* that ran to its end for the owner of the account leaves the target active.
ApplyActivates ==
    [][\A o \in Owners, a \in Accounts :
          Apply(o, a) /\ Exists(a) /\ rows[a].owner = o
              => rows'[a].status = "active"]_targets
=============================================================================
