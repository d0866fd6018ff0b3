\* Row locks, the fence and one activation of a new generation.
CONSTANTS
    w1 = w1
    w2 = w2
    s1 = s1
    s2 = s2
    t1 = t1
    t2 = t2
    t3 = t3
    Device = Device
    None = None
    Requests = {w1, w2}
    Sessions = {s1, s2}
    Tokens = {t1, t2}
    Expiring = {}
    Standings = {"full", "sync"}
    MaxGeneration = 1
    MaxCutoffs = 1
SPECIFICATION FairSpec
INVARIANT IInv
PROPERTIES GrantsAreCurrent RequestsEnd
