\* One attempt, one crash; the console may end up with nothing it can do.
CONSTANTS
    a1 = a1
    a2 = a2
    o1 = o1
    None = None
    Attempts = {a1}
    Operators = {o1}
    Points = {"usable"}
    MaxFailures = 1
    LockLapses = FALSE
SPECIFICATION FairSpec
PROPERTIES ActivationIsRestartable
CHECK_DEADLOCK FALSE
