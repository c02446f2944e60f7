CONSTANTS
    MaxTime = 4
    MaxPlugs = 1
    MaxFaults = 2
    None = None
SPECIFICATION AccountingSpec
INVARIANTS
    CountedOnce
    SessionFollowsCar
    RepairLeavesAlone
CHECK_DEADLOCK FALSE
