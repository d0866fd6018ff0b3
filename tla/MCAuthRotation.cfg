\* A token, its replacement and the replacement of that, without an activation.
CONSTANTS
    w1 = w1
    w2 = w2
    s1 = s1
    s2 = s2
    t1 = t1
    t2 = t2
    t3 = t3
    Device = Device
    None = None
    Requests = {w1, w2}
    Sessions = {s1, s2}
    Tokens = {t1, t2, t3}
    Expiring = {t1, t2, s1}
    Standings = {"full", "sync", "none"}
    MaxGeneration = 0
    MaxCutoffs = 0
SPECIFICATION Spec
SYMMETRY Symmetry
INVARIANTS OneUsableToken RevokedIsClosed
PROPERTIES ReuseEndsSession AccessDiesWithRotation
