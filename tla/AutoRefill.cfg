CONSTANTS
    Bases = {b1}
    MaxQueues = 2
    MaxAttempts = 2
    MaxEvents = 2
SPECIFICATION FairSpec
INVARIANTS BackstopHolds FreezeHolds LastWordHolds
PROPERTIES EveryBaseSettles
