SPECIFICATION FairSpec
CONSTANTS
    Entries = {e1}
    Closes = {c1}
    Reasons = {"strategy_exit", "emergency_flatten"}
    Prices = {1}
    MaxPosition = 3
    MaxAttempts = 3
    MaxSessions = 1
INVARIANTS ProtectionMatchesTruth PendingOutranksActive NeverReversed
PROPERTY FlattenEndsLocked
CHECK_DEADLOCK FALSE
