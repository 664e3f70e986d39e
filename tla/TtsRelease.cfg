CONSTANTS
    MaxId = 1
    MaxResults = 1
    MaxSessions = 1
    MaxReleases = 1
    Spurious = {}
SPECIFICATION FairSpec
PROPERTIES PollSeesRelease
CHECK_DEADLOCK FALSE
