CONSTANTS
    main = main
    other = other
    here = here
    Names <- MCNames
    Files <- MCFiles
    Main = main
    Here = here
    Documents <- SingleOrSplit
    Budget = 15
    MaxOperations = 2
SPECIFICATION Spec
CHECK_DEADLOCK FALSE
INVARIANTS TypeOK CallsDistinct WithinBudget ResultsUnfold CountCoversNodes
PROPERTIES ResolutionEnds
