CONSTANTS
    c1 = c1
    c2 = c2
    s1 = s1
    s2 = s2
    None = None
    Names <- MCNames
    Contracts <- MCContracts
    Samples <- MCSamples
    Thresholds <- MCThresholds
    DefaultThreshold = 10
    LegacyFormat = TRUE
    Procs = {p1, p2}
    Commands <- LockFamily
    Serial = FALSE
    Faults = TRUE
    MaxCommands = 5
    InitialDocs <- SomeDocs
SPECIFICATION Spec
CHECK_DEADLOCK FALSE
INVARIANTS FileStaysIntact
PROPERTIES VerifyReadsEveryLock MigrationKeepsDeclared
