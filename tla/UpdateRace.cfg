CONSTANTS
    c1 = c1
    c2 = c2
    s1 = s1
    s2 = s2
    None = None
    Names <- MCNames
    Contracts <- MCContracts
    Samples <- MCSamples
    Thresholds <- MCThresholds
    DefaultThreshold = 10
    LegacyFormat = TRUE
    Procs = {p1, p2}
    Commands <- UpdatePair
    Serial = FALSE
    Faults = FALSE
    MaxCommands = 2
    InitialDocs <- OneDeclared
SPECIFICATION Spec
CHECK_DEADLOCK FALSE
PROPERTIES UpdateReplacesOnlyNamed
