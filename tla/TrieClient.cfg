SPECIFICATION ClientSpec
CONSTANTS
    NumChars = 4
    MaxBase = 10
    Inputs <- AllInputs
    MaxBuilds = 1
    Letters <- AB
    MaxQuery = 3
    Limits <- NoneOneOrAll
    Page = 4
INVARIANTS
    LayoutSound
    RefusesRightly
    CursorComplete
PROPERTIES
    ReadsWhatWasWritten
    ImplementsMap
CHECK_DEADLOCK FALSE
