CONSTANTS
    Elements = {e1}
    Tiers = {1, 2}
    AnalysisTiers = {}
    MaxAsks = 8
    MaxGeneration = 10
    MaxRevision = 1
    Capacities = {2}
    PinnedBoost = 5
    MaxMoves = 3
SPECIFICATION GridSpec
INVARIANTS
    FlagsAreAnswered
    TilesFollowPins
    PinsAreBalanced
PROPERTIES
    TilesSettle
CHECK_DEADLOCK FALSE
