\* Two requests on two loads; no load gets requests after it was left.
CONSTANTS
    MaxRequests = 2
    Loads = {l1, l2}
    NoLoad = NoLoad
    Callbacks = {c1}
    SubmitAfterCancel = FALSE
SPECIFICATION Spec
INVARIANT SingleFlight
PROPERTIES
    OnlyCurrentFramesAreReady
    IdleMeansIdle
    ImplementsRenderRequests
    EveryRequestEnds
    IdleIsReported
CHECK_DEADLOCK FALSE
