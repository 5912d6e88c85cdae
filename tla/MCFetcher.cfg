SPECIFICATION FetcherFairSpec
CONSTANTS
    Callers = {c1, c2, c3, c4}
    Keys = {k1, k2}
    Results = {Resolved}
    RateLimited = RateLimited
    None = None
    WaitHints <- Hints
INVARIANTS
    FetcherTypeOK
    FlightsRegistered
    CallsAreServed
    OneItemPerKey
    FlagIsTruthful
    RetryBudget
PROPERTIES
    EveryCallReturns
    ImplementsSingleFlight
