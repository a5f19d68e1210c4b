CONSTANTS
    p1 = p1
    t1 = t1
    t2 = t2
    fsp = fsp
    fval = fval
    fsp2 = fsp2
    fval2 = fval2
    k1 = k1
    k2 = k2
    None = None
    NoValues = NoValues
    NoEntry = NoEntry
    Absent = Absent
    Corrupt = Corrupt
    Paths <- MCPaths
    Tables <- MCTables
    PathOf <- MCPathOf
    Fields <- MCFields
    TableFields <- MCTableFields
    ParamOf <- MCParamOf
    RowKeys <- MCRowKeys
    InnerKeys = {}
    Samples <- MCSamples
    PageSize = 2
    MaxTs = 3
    CountCap = 5
    Retention = FALSE
    CrashInSave = FALSE
SPECIFICATION Spec
PROPERTY CursorRefinement
