CONSTANTS
    MaxId = 2
    MaxChunks = 1
    MaxResults = 1
    MaxSessions = 2
    MaxReleases = 1
    MaxCancels = 1
    Kinds = {"voice"}
    RespTypes = {"FINISH"}
    Spurious = {}
SPECIFICATION Spec
INVARIANTS PollServesFrontOp
CHECK_DEADLOCK FALSE
