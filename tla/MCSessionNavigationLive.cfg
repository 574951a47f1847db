SPECIFICATION FairSpec
CONSTANTS
    Images = {i1, i2}
    NoImage = NoImage
    MaxLoads = 2
    MaxSaves = 2
    MaxWaiting = 2
    MaxPosted = 2
    Failures = {"settle", "capture", "save", "sync", "version", "recover", "acquire", "frame"}
PROPERTIES
    ActionEnds
    SavingEnds
CHECK_DEADLOCK FALSE
