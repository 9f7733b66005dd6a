CONSTANTS
    Players = {"p"}
    Scans = {"auto", "manual-scan"}
    Window = 1
    Size = 2
    MaxMoves = 1
    MaxManual = 1
    MaxMishaps = 1
SPECIFICATION FairSpec
INVARIANTS TypeOK FirstOnlineOnce ReturnKitOnce
PROPERTIES Welcomed ReturnHonoured
