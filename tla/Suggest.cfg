SPECIFICATION Spec
CONSTANTS
    Hanzi <- HanziChars
    MapFile <- Map
    Lines <- InputLines
    MaxLines = 3
    Queries <- Requests
    Limits <- OneOrAll
    Tab <- TabChar
INVARIANTS
    NoSuggestionMissed
    SuggestionsInOrder
CHECK_DEADLOCK FALSE
