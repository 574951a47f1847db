\* Two images, so that input may outlive the one it was written to, two inputs of
\* one drag, and three renders: that of the cycle, one behind it and the next one.
CONSTANTS
    MaxRequests = 3
    Loads = {1, 2}
    NoLoad = NoLoad
    MaxInputs = 2
SPECIFICATION InputSpec
INVARIANTS
    CommitsAreReleasedEdits
    InputIsAwaited
CHECK_DEADLOCK FALSE
