CONSTANTS
    MaxId = 2
    MaxChunks = 1
    MaxResults = 1
    MaxSessions = 1
    MaxReleases = 0
    MaxCancels = 1
    Kinds = {"text", "voice"}
    RespTypes = {"INTERMEDIATE", "FINISH", "FAILED", "EXTRA"}
    Spurious = {}
SPECIFICATION Spec
INVARIANTS
    TypeOK OnlyCurrentIsLive ControlFindsOwnOp PollServesFrontOp
    PollSleepsOnlyForCurrent SleepsForOwnOp AnswersInOrder WireInOrder
    RequestsKept
CHECK_DEADLOCK FALSE
