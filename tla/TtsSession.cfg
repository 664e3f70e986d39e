CONSTANTS
    MaxId = 2
    MaxResults = 1
    MaxSessions = 1
    MaxReleases = 1
    Spurious = {"req", "resp"}
SPECIFICATION FairSpec
INVARIANTS
    TypeOK OnlyCurrentIsLive PollServesFrontOp NoLostWakeup
    AnsweredOnce RequestsKept
PROPERTIES EveryRequestAnswered ReleaseEnds
CHECK_DEADLOCK FALSE
