SPECIFICATION BSpec
CONSTANTS
    LineSize = 4
    NoFile = NoFile
    MemSize = 1360
    RegCount = 8
    Images = {}
    Inputs <- NoInput
    Files = {}
    MaxOutput = 600
    LineRoom = 63
    Writers <- AllWriters
    ArgCounts = {1, 3}
    OldFiles <- SomeOldFiles
    Absent = Absent
    NoExit = NoExit
    CloseFails = TRUE
    Cuts = {0, 7, 300}
    Typed <- TypedAt
INVARIANTS
    SuccessIsWhole
CHECK_DEADLOCK FALSE
