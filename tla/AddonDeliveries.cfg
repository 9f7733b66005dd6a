CONSTANTS
    Requests = {1, 2}
    Ticks = {t1, t2}
    MaxPerTick = 1
    DeferIntervals = 2
    MaxMishaps = 1
SPECIFICATION FairSpec
INVARIANTS TypeOK NobodyForgotten
PROPERTIES KeepsPromise EveryDeliverySettles
