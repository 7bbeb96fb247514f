CONSTANTS
    None = None
    AllNames <- MCNames
    Families <- MCFamilies
    Values <- MCValues
    Extensions <- MCExtensions
    Rooted <- MCRooted
    Loaded <- Outcomes
    Schemas <- MCSchemas
    Depth <- MCDepth
    Nested <- AllInside
    KeyOf <- StructuralKey
    KeyApart <- MCKeyApart
    ShapeOf <- ShapeKey
    DiffOf <- MCDifferences
    Admitted <- MCAccepts
SPECIFICATION Spec
CHECK_DEADLOCK FALSE
INVARIANTS VerifiedIsSafe OldClientsWork SilentIfSame NormalFormKeepsMeaning AllOfOrderFree
