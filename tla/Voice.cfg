CONSTANTS
    Requests = 2
    FrameSize = 2
    ByteLimit = 4
    MaxPacket = 2
    BufferSize = 5
    Fragments = {0, 2}
    MaxLength = 6
    MaxBytes = 10
SPECIFICATION Spec
INVARIANTS
    FramesInOrder 
CHECK_DEADLOCK FALSE
