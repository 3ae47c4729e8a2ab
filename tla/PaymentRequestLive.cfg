SPECIFICATION FairSpec
CONSTANTS
    Users = {u1, u2}
    RequestIds = {r1, r2}
    BalanceIds = {b1}
    Sessions = {s1, s2}
    Workers = {w1}
    None = None
    MaxPending = 1
    RecordRetries = 2
    Faults = {"ledgerDown", "ledgerReplyLost"}
INVARIANTS TransientHasOwner PendingOvershoot
PROPERTY EveryRequestResolved
CHECK_DEADLOCK FALSE
