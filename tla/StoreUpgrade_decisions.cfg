SPECIFICATION Spec
CONSTANTS
    Rows = {r1}
    Crashes = 0
INVARIANTS DecisionsRecordable
CHECK_DEADLOCK FALSE
