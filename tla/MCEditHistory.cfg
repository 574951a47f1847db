\* Saves, clears, applies and opens may fail, and the process may stop: no
\* damage to the files.
CONSTANTS
    MaxCommits = 2
    MaxSequence = 4
    MaxDamage = 0
    Versions = {v1, v2}
    FirstVersion = v1
SPECIFICATION Spec
INVARIANTS
    RestartShowsWorkingHead
    JournalStaysReplayable
PROPERTY
    ImplementsDurableHistory
CHECK_DEADLOCK FALSE
