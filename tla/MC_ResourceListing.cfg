CONSTANTS
    f1 = f1
    f2 = f2
    f3 = f3
    f4 = f4
    NoDuration = NoDuration
    BadSeconds = BadSeconds
    Raise = Raise
    Keys <- MCKeys
    KeyOrder <- MCKeyOrder
    Words <- MCWords
    CharsOf <- MCCharsOf
    NonAscii = {"n"}
    DurationOf <- MCDurationOf
    Fields = {f1, f2, f3, f4}
    ParamOf <- MCParamOf
    ResourcePaths <- MCResourcePaths
    PoolPaths <- MCPoolPaths
    Values <- MCValues
    PoolNames <- MCPoolNames
    ErrorTexts <- MCErrorTexts
    MaxEntries = 2
SPECIFICATION Spec
CHECK_DEADLOCK FALSE
INVARIANT TypeOK
INVARIANT RowsPerBranch
INVARIANT TableLostExactlyOnBadData
INVARIANT DurationSplitExact
