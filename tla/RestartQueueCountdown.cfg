CONSTANTS
    MapKeys <- OneKey
    Battlegroup = "battlegroup"
    Partitions = {1, 2}
    Scope <- OneScope
    Clients = {c1}
    Countdown = 2
    Checkpoints = {1, 2}
    Grace = 1
    MaxId = 1
    MaxClock = 4
    MaxCrashes = 2
SPECIFICATION FairSpec
 
PROPERTIES NoEarlyRestart EveryCountdownEnds
