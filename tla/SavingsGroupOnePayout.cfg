SPECIFICATION FairSpec
CONSTANTS
    N = 2
    Founders = 2
    Sessions = {s1}
    Workers = {w1}
    None = None
    Commands = {"CONTRIBUTE"}
    Faults = {}
    Attempts = 1
    MaxExtensions = 1
    MaxCommands = 4
    MaxPeriods = 2
    MaxContributions = 2
    MaxEnds = 2
    MaxCycles = 1
PROPERTIES RotationGoesOn
CHECK_DEADLOCK FALSE
