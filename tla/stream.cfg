CONSTANTS
    None = None
    r1 = r1
    r2 = r2
    Runs <- MCRuns
    Subscriptions <- MCSubscriptions
    Capacity = 2
    MaxRetries = 2
    MaxFrames = 2
    MaxEvents = 3
    MaxDrops = 2
SPECIFICATION FairSpec
CHECK_DEADLOCK FALSE
INVARIANTS
    NothingMissedNothingTwice
    CaughtUpMeansIt
    ViewFoldsOnce
PROPERTIES
    EveryEventArrives
    MovesAlongTheLog
