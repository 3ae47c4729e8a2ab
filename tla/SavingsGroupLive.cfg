SPECIFICATION FairSpec
CONSTANTS
    N = 2
    Founders = 2
    Sessions = {s1, s2}
    Workers = {w1}
    None = None
    Commands = {"CONTRIBUTE", "ORDER", "SKIP", "WAIT"}
    Faults = {}
    Attempts = 2
    MaxExtensions = 1
    MaxCommands = 3
    MaxPeriods = 2
    MaxContributions = 1
    MaxEnds = 4
    MaxCycles = 1
PROPERTIES FirstPotIsPaid
CHECK_DEADLOCK FALSE
