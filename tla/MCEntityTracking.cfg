SPECIFICATION Spec
CONSTANTS
    a = a
    b = b
    pig = pig
    Player = {a, b}
    Static = {pig}
    Stands <- MCStands
    Saved <- MCSaved
    Reported <- MCReported
    TpTargets <- MCTpTargets
    Invalid = Invalid
    None = None
    Slow = {a, b}
    MaxFalls = 1
    MaxTold = 1
    MaxLost <- MCMaxLost
INVARIANTS
    TypeOK
    ScreenMatchesView
    NeverInVoid
    GhostsOutside
PROPERTIES
    CopiesFollow
    ReportsWait
    TeleportsSettle
    ViewsSettle
CHECK_DEADLOCK FALSE
