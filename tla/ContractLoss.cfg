SPECIFICATION FairSpec
CONSTANTS
    Contracts = {c1}
    Slots = {w1}
    None = None
    Attempts = 1
    MaxStalled = 0
    Faults = {"crash"}
    Members = {m1}
    MaxContributions = 1
    MaxWindows = 1
    MaxFaults = 1
PROPERTIES LossIsReported
CHECK_DEADLOCK FALSE
