SPECIFICATION Spec
CONSTANTS
    LineSize = 7
    NoFile = NoFile
    Commands <- EditorCommands
    Typed <- SomeTyped
    Texts <- SomeTexts
    Unfinished <- SomeUnfinished
    Files <- SomeFiles
INVARIANTS
    TypeOK
    StaysInBuffers
    LineIsSavable
PROPERTIES
    IsAnEditor
