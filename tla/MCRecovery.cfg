\* Two requests and two activations; two attempts of every kind of recovery
\* point, three failures, and a job that may take over the lock; two events
\* before and after a restore, read one by one.
CONSTANTS
    w1 = w1
    w2 = w2
    a1 = a1
    a2 = a2
    o1 = o1
    r1 = r1
    r2 = r2
    d1 = d1
    None = None
    NoRequest = None
    Requests = {w1, w2}
    MaxGeneration = 2
    MaxCutoffs = 2
    Attempts = {a1, a2}
    Operators = {o1}
    Points = {"usable", "other"}
    MaxFailures = 3
    LockLapses = TRUE
    Rows = {r1, r2}
    Writers = {w1, w2}
    Devices = {d1}
    PageSize = 1
    MaxSequence = 2
    MaxWrites = 2
    MaxRestores = 1
SPECIFICATION MCSpec
INVARIANTS IInv OneWritableAuthority FeedTellsBooks CompleteIsACommit NothingPassedOver
PROPERTIES WritesUnderCurrentAuthority FencesGoThrough ServedIsKept PlatformIsServedAgain FeedConverges
