CONSTANTS
    c1 = c1
    c2 = c2
    c3 = c3
    Containers = {c1, c2, c3}
    Configured <- SmallAndTwoLarge
    MaxEvents = 3
SPECIFICATION FairSpec
INVARIANTS LimitsAddUp
PROPERTIES HotMapServed BalancerSettles
