SPECIFICATION Spec
CONSTANTS
    Images = {i1, i2}
    NoImage = NoImage
    MaxLoads = 3
    MaxSaves = 2
    MaxWaiting = 2
    MaxPosted = 2
    Failures = {"settle", "capture", "save", "sync", "version", "recover", "acquire", "frame"}
SYMMETRY Symmetry
INVARIANTS
    LastSelectionWins
    HeldHistoryIsShown
    ActionIsAwaited
PROPERTY LeavingKeepsTheEdits
CHECK_DEADLOCK FALSE
