SPECIFICATION BFairSpec
CONSTANTS
    LineSize = 4
    NoFile = NoFile
    MemSize = 1360
    RegCount = 8
    Images = {}
    Inputs <- NoInput
    Files = {}
    MaxOutput = 600
    LineRoom = 5
    Writers <- AllWriters
    ArgCounts = {1, 3}
    OldFiles <- SomeOldFiles
    Absent = Absent
    NoExit = NoExit
    CloseFails = FALSE
    Cuts = {0, 7, 300}
    Typed <- TypedAt
INVARIANTS
    WTypeOK
    SuccessIsWhole
    OldOrNew
    AnswersAsTyped
    KeepsToItsBuffer
PROPERTIES
    ComesToAnEnd
CHECK_DEADLOCK FALSE
