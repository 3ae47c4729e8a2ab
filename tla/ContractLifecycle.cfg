SPECIFICATION FairSpec
CONSTANTS
    Contracts = {c1, c2}
    Slots = {w1, w2}
    None = None
    Attempts = 2
    MaxStalled = 1
    Faults = {"rpc", "slow", "db", "queue", "stall", "crash"}
    Members = {m1}
    MaxContributions = 2
    MaxWindows = 1
    MaxFaults = 2
INVARIANTS TypeOK DeployedContractExists
PROPERTIES ContractKept MissingMoneyIsReported
CHECK_DEADLOCK FALSE
