SPECIFICATION EFairSpec
CONSTANTS
    LineSize = 7
    NoFile = NoFile
    MemSize = 1560
    RegCount = 8
    Images = {}
    Inputs = {}
    Files <- SomeFiles
    MaxOutput = 300
    Days = {23, 25, 26, 27, 28, 37, 38, 39, 40, 41, 42, 43}
    EditorLines <- SomeLines
    EditorEnds <- SomeEnds
    MayType <- SomeMayType
    Empty = Empty
    NoExit = NoExit
INVARIANTS
    KeepsItsPlaces
    SamplesAnswer
PROPERTIES
    RunsAsEditor
    Answers
CHECK_DEADLOCK FALSE
