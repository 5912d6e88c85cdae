SPECIFICATION WarmSpec
CONSTANTS
    Step = 5
    LastDay = 3
    Date = 1
    MaxDelay = 10
    Offset = 0
    None = None
INVARIANTS
    WarmTypeOK
    ResultsAreFinal
    FixturesGiveWay
    GoesStaleFirst
    TodayIsWarm
