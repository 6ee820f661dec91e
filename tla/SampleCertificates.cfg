SPECIFICATION Spec
CONSTANTS
    BufferSize = 64
    MemSize = 1048576
    NoFile = NoFile
    Days = {23, 25, 26, 27, 28, 37, 38, 39, 40, 41, 42, 43}
INVARIANTS
    NeverLost
CHECK_DEADLOCK FALSE
