CONSTANTS
    None = None
    AllNames <- MCNames
    Cases <- MCCases
    Requests <- MCRequests
    Values <- MCValues
    SchemaOf <- MCSchemaOf
    Schemas <- MCSchemas
    Depth <- MCDepth
    Nested <- AllInside
    KeyOf <- StructuralKey
    KeyApart <- MCKeyApart
    ShapeOf <- ShapeKey
    DiffOf <- MCDifferences
    Admitted <- MCAccepts
    IdOf <- MCIdOf
    IdOfV3 <- MCIdOfV3
    NestedV3 <- MCNestedV3
    Unpoliced <- MCUnpoliced
SPECIFICATION Spec
CHECK_DEADLOCK FALSE
INVARIANTS PassedServesOldClients SilentMeansSame LockLosesNothing RespellingsAreSilent AcceptedIsCanonical WrittenLocksLoad OldLocksInventNothing PassIsExplained
