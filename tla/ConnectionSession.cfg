CONSTANTS
    MaxConns = 2
    MaxResponses = 2
SPECIFICATION FairSpec
INVARIANTS
    TypeOK StageMatchesSocket ResponsesInOrder
PROPERTIES
    StopsHold SuccessMeans ReleaseEnds Reconnects ReceiverToldClosed
CHECK_DEADLOCK FALSE
