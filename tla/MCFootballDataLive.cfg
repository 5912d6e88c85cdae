SPECIFICATION FairSpec
CONSTANTS
    Requests = {r1, r2}
    Keys = {k1}
    Syncs = {}
    MaxRev = 1
    RedisMayFail = TRUE
    ApiMayHang = TRUE
    Callers <- MCCallers
    Results <- MCResults
    RateLimited = RateLimited
    Failed = Failed
    None = None
    WaitHints <- Hints
PROPERTIES
    StaleIsRefreshed
    ImplementsReadThrough
    CachedRequestsDoNotWait
\* Everybody may wait for an API that hangs; MCFootballData.cfg looks for
\* deadlocks without it.
CHECK_DEADLOCK FALSE
