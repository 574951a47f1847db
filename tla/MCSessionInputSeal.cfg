\* One image, one write and one render.
CONSTANTS
    MaxRequests = 1
    Loads = {1}
    NoLoad = NoLoad
    MaxInputs = 1
SPECIFICATION InputSpec
INVARIANT SealSettlesPreview
CHECK_DEADLOCK FALSE
