\* Two sets, so that one replaces another and the feed may offer the first again.
CONSTANTS
    Sets = {s1, s2}
    NoSet = NoSet
SPECIFICATION FairSpec
INVARIANTS
    SetSurvives
    ShownIsInstalled
PROPERTY ActionEnds
