SPECIFICATION FairSpec
CONSTANTS
    Entries = {e1}
    Exits = {}
    Quantity = 1
    GuardianEnabled = FALSE
    MaxGeneration = 5
PROPERTIES ClaimEnds AmbiguityLocks AttemptEnds UnlockNeverOverAmbiguous
CHECK_DEADLOCK FALSE
