CONSTANTS
    main = main
    other = other
    here = here
    Names <- MCNames
    Files <- MCFiles
    Main = main
    Here = here
    Documents <- OneFile
    Budget = 24
    MaxOperations = 1
SPECIFICATION Spec
CHECK_DEADLOCK FALSE
INVARIANTS EveryComponentShown
