SPECIFICATION Spec
CONSTANTS
    Messages = {m1}
    Requests = {r1}
    Workers = {w1}
    None = None
    Stale = 1
    Ttl = 2
    Skew = 0
    MaxNow = 2
    MaxDeliveries = 2
    MaxStalled = 1
    Faults = {"redis"}
PROPERTY DuplicateIsOnItsWay
CHECK_DEADLOCK FALSE
