SPECIFICATION MFairSpec
CONSTANTS
    LineSize = 4
    NoFile = NoFile
    MemSize = 288
    RegCount = 8
    Images = {}
    Inputs = {}
    Files <- NoFiles
    MaxOutput = 24
    Disk <- SmallDisk
    Starts <- SmallStarts
    LineMax = 4
    ProbeFails = FALSE
    InputLength = 5
INVARIANTS
    MTypeOK
    CommandsInOrder
PROPERTIES
    StartsFresh
    SessionEnds
    SelfTestPasses
CHECK_DEADLOCK FALSE
