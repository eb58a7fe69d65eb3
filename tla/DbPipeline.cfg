SPECIFICATION FairSpec
CONSTANTS
    Works = {w1, w2, w3, w4}
    MaxOpenFails = 2
INVARIANTS TypeOK NoOvertaking
PROPERTIES ImplementsDbCall EveryWorkSettles
