SPECIFICATION FairSpec
CONSTANTS
    LineSize = 3
    NoFile = NoFile
    Unset = Unset
    p1 = p1
    p2 = p2
    Procs <- OneProc
    Buffers <- SomeBuffers
    Blank <- BlankBuffer
    Files <- SomeFiles
INVARIANTS
    TypeOK
PROPERTIES
    LoadIsAllOrNothing
    LooksAtomic
