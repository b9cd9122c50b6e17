SPECIFICATION Spec
CONSTANTS
    Count = 1
    LastBar = 3
    Restarts = 1
CONSTRAINT FewSignals
INVARIANTS OneEntryAtATime DecisionMatchesOrder
 
CHECK_DEADLOCK FALSE
