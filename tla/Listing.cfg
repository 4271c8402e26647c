SPECIFICATION ListingSpec
CONSTANTS
    NInputs = 202
    Size <- MCSize
    Openable <- MCOpenable
    Faulty <- MCFaulty
    BufLen = 3
    NMissions = 160
    Finders <- MCFinders
    Kept = 2
INVARIANTS
    TypeOK
    GaplessDelivery
    CompleteAtEnd
    LabelTellsSource
    LegendNamesTheSlice
