SPECIFICATION Spec
CONSTANTS
    Af <- PassingAscii
    Ubf <- PassingMultibyte
    GrepChars = {{}}
    CharsMin = 4
    SameBlock = FALSE
    LineLen = 6
    OutputBufLens = {100}
    FileIds = {1}
    Chars <- LetterGreek
    Invalid = FALSE
    LastFlags = {FALSE}
    MaxSlice = 6
    MaxBytes = 9
INVARIANT
    CutStringIsCompleted
