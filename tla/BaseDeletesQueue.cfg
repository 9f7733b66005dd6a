CONSTANTS
    b1 = b1
    b2 = b2
    p1 = p1
    p2 = p2
    Bases = {b1}
    Partitions = {p1}
    Nowhere = Nowhere
    Home <- OneMap
    Sites <- OwnSite
    Backlog <- OneQueued
    Clients = {c1}
    Dwell = 1
    RetryDelay = 1
    MaxAge = 2
    MaxAttempts = 1
    MaxClock = 1
    MaxOutages = 1
    MaxStamps = 3
    LastRequest = 0
    MaxFaults = 1
SPECIFICATION Spec
INVARIANTS TypeOK NoRequestLost
CHECK_DEADLOCK FALSE
