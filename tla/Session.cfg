SPECIFICATION FairSession
CONSTANTS
    Af <- PassingAscii
    Ubf <- PassingMultibyte
    GrepChars = {{}}
    CharsMin = 2
    SameBlock = FALSE
    LineLen = 2
    OutputBufLens = {8, 18}
    FileIds = {1, 2, 3}
    Chars <- ThaiOrNot
    Invalid = TRUE
    LastFlags = {TRUE, FALSE}
    MaxSlice = 4
    MaxBytes = 7
    NInputs = 3
    Size <- ThreeSizes
    Openable <- ThreeOpenable
    Faulty <- ThreeFaulty
    BufLen = 4
INVARIANTS
    PositionAndLabelAgree
    CutStringIsCompleted
    KeptStringIsABeginning
    BufferNeverOverflows
PROPERTY
    Termination
