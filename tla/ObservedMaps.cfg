CONSTANTS
    Keys <- MCKeys
    Bodies <- MapBodies
    Groups <- MapGroups
    MapAts <- MCMapAts
    Thresholds <- DefaultThreshold
    MaxBodies = 3
SPECIFICATION Spec
CHECK_DEADLOCK FALSE
INVARIANTS ShapeCanonical RecordedBodiesVerify
PROPERTIES MergeLosesNothing
