SPECIFICATION FairSpec
CONSTANTS
    Texts <- SomeTexts
    NoFile = NoFile
    NoExit = NoExit
    Outputs <- SomeOutputs
    Sources <- NumberSources
    MaxProgram = 8
    MaxLabels = 2
INVARIANTS
    NumbersInRange
CHECK_DEADLOCK FALSE
