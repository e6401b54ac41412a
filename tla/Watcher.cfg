SPECIFICATION FairSpec
CONSTANTS
    NumFiles = 2
    MaxClock = 2
    MayRemove = TRUE
INVARIANT TypeOK
PROPERTIES ReportedBeforeForgotten QuietTreeQuietFeed CatchesUp FeedCloses
CHECK_DEADLOCK FALSE
