SPECIFICATION FairSpec
CONSTANTS
    s1 = s1
    s2 = s2
    k1 = k1
    k2 = k2
    k3 = k3
    Requests = {r1}
    Crons = {s1, s2}
    Keys = {k1, k2, k3}
    Agenda <- Agendas
    Callers <- MCCallers
    Results = {Resolved}
    RateLimited = RateLimited
    None = None
    WaitHints <- Hints
INVARIANTS
    TypeOK
    AcceptedAreAnswered
    WaitIsBounded
PROPERTIES
    ShutdownEnds
    LoopsGoOn
\* The process exits.
CHECK_DEADLOCK FALSE
