SPECIFICATION Spec
CONSTANTS
    Char <- MCChar
    Inputs <- MCInputs
    KeySize = 2
    ValueSize = 3
    LineSize = 6
    Files <- MCFiles
INVARIANTS
    TypeOK
    InBounds
    SpaceIsExact
    ParsesMeaning
    ReadsText
    RoundTrip
CHECK_DEADLOCK FALSE
