CONSTANTS
    Keys <- MCKeys
    Bodies <- PlainBodies
    Groups <- PlainGroups
    MapAts <- NoMapAts
    Thresholds <- AllThresholds
    MaxBodies = 4
SPECIFICATION Spec
CHECK_DEADLOCK FALSE
INVARIANTS ShapeIsSummary VerdictMatchesHistory SilenceMeansExactFields
