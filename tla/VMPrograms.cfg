SPECIFICATION HFairSpec
CONSTANTS
    LineSize = 4
    NoFile = NoFile
    MemSize = 28
    RegCount = 2
    Images <- AllImages
    Inputs <- SomeInput
    Files <- SomeFiles
    MaxOutput = 2
    StackLength = 4
    FaultLength = 2
    CodeSize = 24
INVARIANTS
    HTypeOK
    StackDepth
    StackHoldsFrames
PROPERTIES
    TakesWhatWasGiven
    StopsPrecisely
    LoopsOrStops
CHECK_DEADLOCK FALSE
