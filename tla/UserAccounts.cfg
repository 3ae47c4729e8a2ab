SPECIFICATION FairSpec
CONSTANTS
    Numbers = {n1, n2}
    Callers = {n1}
    RowIds = {1, 2}
    Servers = {p1, p2}
    None = None
    MaxVersion = 2
    Faults = {"db", "stall", "crash"}
    Batch = 1
    Programs = {{"backfill"}, {"encrypt", "rotation"}}
    Jobs = {j1}
    MaxStalled = 1
INVARIANTS TypeOK WalletsStayReadable BackfillFindsEveryone
PROPERTIES RotationIsThorough RotationEnds
CHECK_DEADLOCK FALSE
