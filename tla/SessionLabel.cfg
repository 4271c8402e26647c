SPECIFICATION SessionSpec
CONSTANTS
    Af <- PassingAscii
    Ubf <- PassingMultibyte
    GrepChars = {{}}
    CharsMin = 4
    SameBlock = FALSE
    LineLen = 6
    OutputBufLens = {100}
    FileIds = {1, 2}
    Chars <- LetterOrNot
    Invalid = FALSE
    LastFlags = {TRUE, FALSE}
    MaxSlice = 4
    MaxBytes = 5
    NInputs = 2
    Size <- TwoSizes
    Openable = {1, 2}
    Faulty = {}
    BufLen = 4
INVARIANT
    LabelNamesTheOrigin
