SPECIFICATION Spec
CONSTANTS
    Entries = {e1}
    Exits = {x1}
    Quantity = 1
    GuardianEnabled = TRUE
    MaxGeneration = 5
INVARIANTS TypeOK AtMostOneSubmission TerminalIsBrokerTruth AmbiguousIsLocked AtMostOneLateCall
PROPERTIES FillsAreKept UnlockMatchesBroker RefinesRecoveryLock
CHECK_DEADLOCK FALSE
