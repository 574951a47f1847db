\* One kind of damage may also befall the files; saves and commands end.
CONSTANTS
    MaxCommits = 2
    MaxSequence = 2
    MaxDamage = 1
    Versions = {v1, v2}
    FirstVersion = v1
SPECIFICATION Spec
INVARIANTS
    RedoContinuesHead
    InactiveVersionsAreDurable
    StoredGraphLoads
    SequencesIncrease
PROPERTIES
    SaveEnds
    CommandEnds
CHECK_DEADLOCK FALSE
