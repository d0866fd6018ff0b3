SPECIFICATION FairSpec
CONSTANTS
    a = a  b = b  c = c
    r1 = r1  r2 = r2  r3 = r3  bad = bad
    d1 = d1  lic1 = lic1  lic2 = lic2
    w1 = w1  w2 = w2  t1 = t1  t2 = t2
    NoRow = NoRow  NoAttempt = NoAttempt
    Requests = {r1, r2, r3, bad}
    InvalidRequests = {bad}
    Devices = {d1}
    Licenses = {lic1, lic2}
    Sequences = {1, 2, 3}
    Workers = {w1}
    Ops = {a, b}
    Envelopes <- DependencyEnvelopes
    Unverifiable = {}
    Attempts = {}
    Losable = {}
INVARIANTS
    SomeDependencyFirst
PROPERTIES
    PendingSettles
