\* One package, which can be opened, left and opened again, or created at a path
\* that is claimed, the workspaces of the old and the new project, and one
\* change; every step may fail.
CONSTANTS
    Packages = {p1}
    Workspaces = {w1, w2}
    Changes = {c1}
    None = None
    Faults = {"sync", "snapshot", "write", "remove", "rename", "unpack", "open", "seal"}
SPECIFICATION FairSpec
INVARIANTS
    SavedIsPacked
    OpenFilesStay
PROPERTIES
    CloseEnds
CHECK_DEADLOCK FALSE
