SPECIFICATION FairSpec
CONSTANTS
    NInputs = 2
    Size <- TwoSizes
    Openable <- TwoOpenable
    Faulty <- TwoFaulty
    BufLen = 2
    NMissions = 2
    CounterOffset = 1
    MaxFindings = 2
    OutputMayFail = TRUE
INVARIANTS
    TypeOK
    ScannersReadTheStream
    PositionsInStep
    BatchIsOneSlice
    OutputSorted
    SuccessIsComplete
PROPERTIES
    ImplementsReport
    Termination
    OutputErrorIsReported
