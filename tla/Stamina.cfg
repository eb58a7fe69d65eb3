SPECIFICATION Spec
CONSTANTS
    stage = stage
    Callers = {stage}
    Costs = {0, 2, 3}
    Full = 3
    Interval = 2
    Recover = 1
    MaxNow = 8
    MaxLost = 1
INVARIANTS NoFreeStamina
PROPERTIES ImplementsRegeneration
