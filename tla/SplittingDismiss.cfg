SPECIFICATION Spec
CONSTANTS
    Af <- PassingAscii
    Ubf <- PassingMultibyte
    GrepChars <- Slash
    CharsMins = {1}
    SameBlocks = {FALSE}
    CharMax = 6
    Alphabet = {97, 47, 1}
    MaxLen = 9
INVARIANT
    DismissesOnlyTheSubstring
