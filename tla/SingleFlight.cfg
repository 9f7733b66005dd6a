CONSTANTS
    Callers = {c1, c2, c3}
    MaxPasses = 5
    MaxWedged = 1
SPECIFICATION FairSpec
INVARIANTS ChainInv NoOverlap PlainNeverWaits
PROPERTIES Serial EveryCallReturns
CHECK_DEADLOCK FALSE
