SPECIFICATION Spec
CONSTANTS
    Af <- PassingAscii
    Ubf <- PassingMultibyte
    GrepChars <- NoneOrLetter
    CharsMin = 2
    SameBlock = FALSE
    LineLen = 3
    OutputBufLens = {8}
    FileIds = {1}
    Chars <- AllWidths
    Invalid = TRUE
    LastFlags = {TRUE, FALSE}
    MaxSlice = 7
    MaxBytes = 7
INVARIANTS
    TypeOK
    FindingsAreStreamText
    FindingsInStreamOrder
    ExactIsNear
    AfterIsNear
    FindingsSatisfyMinAndGrep
    ContinuationFollows
    FirstLineNotLost
    LastSliceFlushes
PROPERTY
    ImplementsScan
