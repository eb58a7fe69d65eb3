SPECIFICATION FairSpec
CONSTANTS
    u = u
    v = v
    c1 = c1
    c2 = c2
    c3 = c3
    Clients = {c1, c2, c3}
    GuidOf <- TwoUsers
    MaxFaults = 3
INVARIANTS TypeOK LoggedInAsOne
PROPERTIES EveryoneGetsIn
CHECK_DEADLOCK FALSE
