CONSTANTS
    MapKeys <- OneKey
    Battlegroup = "battlegroup"
    Partitions = {2}
    Scope <- OneScope
    Clients = {c1, c2}
    Countdown = 1
    Checkpoints = {1}
    Grace = 1
    MaxId = 2
    MaxClock = 3
    MaxCrashes = 1
SPECIFICATION Spec
INVARIANTS TypeOK QueueExclusion NoSilentDrop
PROPERTIES NeverRefiredAfterCrash
SYMMETRY ClientSymmetry
