SPECIFICATION Spec
CONSTANTS
    Keys = {k1, k2, k3}
    Callers = {c1}
    Kinds = {"manual_entry", "manual_close", "auto_entry", "auto_exit"}
    Lots = {1}
    EntrySides = {1}
    MaxPosition = 1
    MaxTrades = 2
    MaxLoss = 1
    MaxLosses = 1
    Cooldown = 1
    LastTime = 3
    LastDay = 2
    LastContract = 2
    Restarts = 1
SYMMETRY KeySymmetry
INVARIANTS OpenWithinLimit StoreMatchesMemory
PROPERTIES ReduceOnlyReduces RestartKeepsKill
CONSTRAINT OverlapBriefly
CHECK_DEADLOCK FALSE
