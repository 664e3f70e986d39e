CONSTANTS
    MaxId = 2
    MaxChunks = 1
    MaxResults = 1
    MaxSessions = 1
    MaxReleases = 0
    MaxCancels = 1
    Kinds = {"voice"}
    RespTypes = {"FINISH"}
    Spurious = {}
SPECIFICATION Spec
PROPERTIES CancelSticks
CHECK_DEADLOCK FALSE
