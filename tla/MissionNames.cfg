SPECIFICATION Spec
CONSTANTS
    Labels <- KnownLabels
    FlagChoices <- NoFlagsOnly
    EncTexts <- BlockNames
    MaxEncodings = 1
INVARIANT
    BlockNameIsThatFilter
