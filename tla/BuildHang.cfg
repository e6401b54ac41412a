SPECIFICATION FairSpec
CONSTANTS
    Procs = 2
    NumEntries = 3
    Dirs = {}
    DotNamed = {}
    Minifiable = {1}
    Faulty = {1, 2}
    LossyClose = {}
    RootFaults = {}
    Size <- MCSize
    MinSize <- MCMinSize
PROPERTY Termination
CHECK_DEADLOCK FALSE
