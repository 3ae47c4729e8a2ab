SPECIFICATION Spec
CONSTANTS
    Requests = {1, 2, 3, 4, 5}
    Limit = 1
    Window = 3
    HitWindow = 2
    Overlap = 2
    MaxClock = 5
    Faults = {"away", "throw", "crash"}
    MaxFaults = 1
INVARIANTS TypeOK LimitHeld ThreeHitsFlag FlagIsEarned
CHECK_DEADLOCK FALSE
