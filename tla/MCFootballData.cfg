SPECIFICATION Spec
CONSTANTS
    Requests = {r1, r2}
    Keys = {k1}
    Syncs = {s1}
    MaxRev = 2
    RedisMayFail = TRUE
    ApiMayHang = FALSE
    Callers <- MCCallers
    Results <- MCResults
    RateLimited = RateLimited
    Failed = Failed
    None = None
    WaitHints <- Hints
SYMMETRY Interchangeable
INVARIANTS
    TypeOK
    AnswersDoNotGoBack
PROPERTIES
    CacheDoesNotGoBack
