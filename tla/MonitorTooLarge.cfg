SPECIFICATION MFairSpec
CONSTANTS
    LineSize = 4
    NoFile = NoFile
    MemSize = 16
    RegCount = 1
    Images = {}
    Inputs = {}
    Files <- NoFiles
    MaxOutput = 1
    Disk <- SmallDisk
    Starts <- SmallStarts
    LineMax = 4
    ProbeFails = TRUE
    InputLength = 3
PROPERTIES
    TooLargeNeverRuns
CHECK_DEADLOCK FALSE
