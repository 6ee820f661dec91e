SPECIFICATION FairSpec
CONSTANTS
    LineSize = 3
    NoFile = NoFile
    Unset = Unset
    p1 = p1
    p2 = p2
    Procs <- TwoProcs
    Buffers <- TwoBuffers
    Blank <- BlankBuffer
    Files <- TwoFiles
INVARIANTS
    FileIsPrefix
    SavedIsThere
    BytesKeepTheirPlace
PROPERTIES
    CallsReturn
