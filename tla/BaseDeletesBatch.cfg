CONSTANTS
    b1 = b1
    b2 = b2
    p1 = p1
    p2 = p2
    Bases = {b1, b2}
    Partitions = {p1, p2}
    Nowhere = Nowhere
    Home <- TwoMaps
    Sites <- OwnSite
    Backlog <- BothQueued
    Clients = {c1}
    Dwell = 1
    RetryDelay = 1
    MaxAge = 2
    MaxAttempts = 1
    MaxClock = 1
    MaxOutages = 1
    MaxStamps = 2
    LastRequest = 0
    MaxFaults = 0
SPECIFICATION Spec
PROPERTIES PassDeletesAfterDisconnect
CHECK_DEADLOCK FALSE
