CONSTANTS
    MaxId = 2
    MaxChunks = 0
    MaxResults = 1
    MaxSessions = 1
    MaxReleases = 1
    MaxCancels = 0
    Kinds = {"text", "voice"}
    RespTypes = {"FINISH", "UNKNOWN"}
    Spurious = {"req", "op", "resp"}
SPECIFICATION FairSpec
PROPERTIES ReleaseEnds PollSeesRelease
CHECK_DEADLOCK FALSE
