SPECIFICATION Spec
CONSTANTS
    Checks = {c1, c2}
    Step = 500
    Calls = {r1, r2}
    UserIds = {u1, u2}
    Nobody = Nobody
    p1 = p1
    p2 = p2
    p3 = p3
    Replicas = {p1, p2, p3}
    Ahead <- Clocks
    Skew = 2
    Stale = 3
    TTL = 7
    MaxDelay = 2
    Nothing = Nothing
    Matches = {m1, m2, m3, m4}
    MaxLimit = 2
    Ids = {i1, i2}
    Dates = {d1, d2}
    None = None
INVARIANTS
    TypeOK
    ChecksDoNotDisturb
    ActsForItsUser
    OpenRoutesAreServed
    FreshMeansFresh
    PagesTile
    KeysNameRequests
    StaleBeforeGone
PROPERTIES
    CheckEnds
