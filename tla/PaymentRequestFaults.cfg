SPECIFICATION Spec
CONSTANTS
    Users = {u1, u2}
    RequestIds = {r1}
    BalanceIds = {b1, b2}
    Sessions = {s1, s2}
    Workers = {w1, w2}
    None = None
    MaxPending = 1
    RecordRetries = 2
    Faults = {"ledgerDown", "db", "queue", "noWallet", "stall", "crash"}
SYMMETRY Symmetry
INVARIANTS
    TypeOK
    PaidAtMostOnce
    Ownership
    Escrow
PROPERTY
    KeepsPromise
    BalanceIdStable
    FinalForever
CHECK_DEADLOCK FALSE
