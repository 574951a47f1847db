\* Two sizes of one image.
CONSTANTS
    Elements = {e1}
    Tiers = {1, 2}
    AnalysisTiers = {1}
    MaxAsks = 2
    MaxGeneration = 1
    MaxRevision = 1
    Capacities = {1}
    PinnedBoost = 5
    PoolSize <- OneOfEach
    DecodeSlots = 1
SPECIFICATION Spec
INVARIANTS
    NothingStaleIsServed
    AnsweredOnce
    WaitersAreServed
    CacheIsConsistent
    SlotsAreAccounted
PROPERTIES
    PinnedStays
    CallsAreSettled
CHECK_DEADLOCK FALSE
