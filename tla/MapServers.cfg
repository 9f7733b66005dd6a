CONSTANTS
    j1 = j1
    j2 = j2
    Jobs = {j1, j2}
    p1 = p1
    p2 = p2
    Parts = {p1, p2}
    NoPart = NoPart
    Ports = {1, 2}
    MaxServers = 2
    MaxMishaps = 1
SPECIFICATION Spec
SYMMETRY Alike
INVARIANTS PortsDistinct BoundOnce BindingsLive
CHECK_DEADLOCK FALSE
