SPECIFICATION Spec
CONSTANTS
    Labels <- KnownLabels
    FlagChoices <- Flags
    EncTexts <- Encs
    MaxEncodings = 3
INVARIANTS
    TypeOK
    MissionsAreUsable
    MissionsAreIndependent
    AsciiNameIsThatFilter
