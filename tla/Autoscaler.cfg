CONSTANTS
    Parties = {"p", "q"}
    Size <- Solo
    Dims = {1, 2}
    MaxFaults <- FreshFaults
SPECIFICATION FairSpec
PROPERTIES NoneStranded NoExcess Served
CHECK_DEADLOCK FALSE
