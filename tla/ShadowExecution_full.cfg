SPECIFICATION ShadowFairSpec
CONSTANTS
    s1 = s1
    s2 = s2
    Runtimes = {s1, s2}
    Sides = {1}
    QueueSize = 1
    Limit = 1
    MaxActive = 2
    Held <- OppositeHeld
    MaxDecisions = 2
    MaxBoots = 1
PROPERTIES ReservationFits QueuedIsAnswered
CHECK_DEADLOCK FALSE
