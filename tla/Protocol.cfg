CONSTANTS
    GroupBits = 3
    Bits32 = 8
    Bits64 = 16
    Absent = Absent
    BufferSize = 60
SPECIFICATION Spec
INVARIANTS
    RequestUnderstood ResponseUnderstood NumbersAgree
CHECK_DEADLOCK FALSE
