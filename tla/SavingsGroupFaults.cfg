SPECIFICATION Spec
CONSTANTS
    N = 3
    Founders = 2
    Sessions = {s1, s2}
    Workers = {w1, w2}
    None = None
    Commands = {"JOIN", "CONTRIBUTE", "ORDER", "SKIP", "WAIT", "LEAVE", "KICK", "PROCEED"}
    Faults = {"down", "replyLost", "db", "queue", "crash"}
    Attempts = 2
    MaxExtensions = 1
    MaxCommands = 2
    MaxPeriods = 1
    MaxContributions = 1
    MaxEnds = 2
    MaxCycles = 1
SYMMETRY Symmetry
INVARIANTS TypeOK RecordsAreBacked OrderWellFormed
CHECK_DEADLOCK FALSE
