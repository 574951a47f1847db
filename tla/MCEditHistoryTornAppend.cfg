\* An append stops within its line.
CONSTANTS
    MaxCommits = 2
    MaxSequence = 4
    MaxDamage = 1
    Versions = {v1, v2}
    FirstVersion = v1
SPECIFICATION Spec
INVARIANT
    TornAppendKeepsEarlierRecords
CHECK_DEADLOCK FALSE
