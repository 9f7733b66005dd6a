CONSTANTS
    b1 = b1
    b2 = b2
    p1 = p1
    p2 = p2
    Bases = {b1}
    Partitions = {p1}
    Nowhere = Nowhere
    Home <- OneMap
    Sites <- OwnSite
    Backlog <- OneQueued
    Clients = {c1}
    Dwell = 1
    RetryDelay = 1
    MaxAge = 2
    MaxAttempts = 2
    MaxClock = 2
    MaxOutages = 2
    MaxStamps = 1
    LastRequest = 0
    MaxFaults = 2
SPECIFICATION FairSpec
INVARIANTS GivesUpHonestly
PROPERTIES EveryRequestEnds RestartGoesOn
CHECK_DEADLOCK FALSE
