SPECIFICATION FairSpec
CONSTANTS
    Af <- PassingAscii
    Ubf <- PassingMultibyte
    CharsMins = {0, 1, 2, 4}
    CharMax = 3
    Alphabet = {47, 1, 195, 206}
    SameBlocks = {TRUE, FALSE}
    GrepChars <- NoGrepOrSlash
    MaxLen = 5
INVARIANTS
    TypeOK
    ResultsAreStrings
    MinAndGrepObserved
    ContinuationsAreAdjacent
    KeptStringIsLast
    NoStringLost
PROPERTY
    IteratorEnds
