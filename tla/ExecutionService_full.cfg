SPECIFICATION FairSpec
CONSTANTS
    Owners = {o1}
    Accounts = {a1, a2}
    Owner = o1
    Account = a1
    MaxCommands = 2
    QueueSize = 1
    MaxEvents = 2
    MaxFaults = 2
INVARIANTS ActiveHasSecrets ReadyIsEarned ReadyIsWatched
PROPERTY EventsArrive
CHECK_DEADLOCK FALSE
