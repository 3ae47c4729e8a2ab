SPECIFICATION FairSpec
CONSTANTS
    Messages = {m1}
    Requests = {r1}
    Workers = {w1, w2}
    None = None
    Stale = 1
    Ttl = 3
    Skew = 1
    MaxNow = 3
    MaxDeliveries = 2
    MaxStalled = 1
    Faults = {"redis", "slow", "replyLost", "db", "ledger", "stall", "crash"}
INVARIANTS TypeOK AckedIsQueued PassedOnce EffectsAccounted PaysFromItsWallet
PROPERTY QueuedIsHandled
CHECK_DEADLOCK FALSE
