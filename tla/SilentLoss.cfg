CONSTANTS
    None = None
    AllNames <- MCNames
    Families <- TagFamilies
    Values <- MCValues
    Extensions <- MCExtensions
    Rooted <- MCRooted
    Loaded <- Outcomes
    Schemas <- TagSchemas
    Depth <- MCDepth
    Nested <- AllInside
    KeyOf <- StructuralKey
    KeyApart <- MCKeyApart
    ShapeOf <- ShapeKey
    DiffOf <- MCDifferences
    Admitted <- MCAccepts
SPECIFICATION Spec
CHECK_DEADLOCK FALSE
INVARIANT SilentIfSameText
