SPECIFICATION Spec
CONSTANTS
    Af <- PassingAscii
    Ubf <- PassingMultibyte
    GrepChars = {{}}
    CharsMin = 4
    SameBlock = FALSE
    LineLen = 6
    OutputBufLens = {24}
    FileIds = {1}
    Chars <- ThaiOrNot
    Invalid = FALSE
    LastFlags = {FALSE}
    MaxSlice = 10
    MaxBytes = 10
INVARIANT
    OverflowIsSurvived
