SPECIFICATION FairSpec
CONSTANTS
    Texts <- SomeTexts
    NoFile = NoFile
    NoExit = NoExit
    Outputs <- SomeOutputs
    Sources <- SomeSources
    MaxProgram = 12
    MaxLabels = 3
INVARIANTS
    TypeOK
    LabelsKeepTheirPlace
    OutputIsTranslation
    VMUnderstands
    RefusedKeepsOutput
PROPERTIES
    FirstPassFindsAll
    Ends
CHECK_DEADLOCK FALSE
