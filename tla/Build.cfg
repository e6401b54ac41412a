SPECIFICATION FairSpec
CONSTANTS
    Procs = 3
    NumEntries = 6
    Dirs = {1}
    DotNamed = {6}
    Minifiable = {2, 3, 4}
    Faulty = {1, 2, 4, 5}
    LossyClose = {5}
    RootFaults = {"mkdirAll", "openSrc", "openDest"}
    Size <- MCSize
    MinSize <- MCMinSize
INVARIANTS TypeOK SuccessMeansComplete RootsOpenWhileWorking OneWriterPerOutput ProcessedCount
PROPERTIES KeepsContract ReturnsWhileOneSurvives
CHECK_DEADLOCK FALSE
