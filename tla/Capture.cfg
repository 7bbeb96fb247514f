CONSTANTS
    None = None
    s1 = s1
    s2 = s2
    Names <- MCNames
    Contracts = {}
    Samples <- MCSamples
    Thresholds <- MCThresholds
    DefaultThreshold = 10
    LegacyFormat = TRUE
    Parts <- MCParts
    Scenes <- MCScenes
    Answers <- MCAnswers
    Keyed <- MCKeyed
    DotJson <- MCDotJson
    Headings <- MCHeadings
    Asked <- MCAsked
    Base = "api"
    Env <- MCEnv
    MaxEntries = 2
    MaxRecorded = 3
SPECIFICATION Spec
CHECK_DEADLOCK FALSE
INVARIANTS MostSpecificIdentity NamedEntryIsCoherent VerdictIsTrue NoAlarmWithoutChange
PROPERTY VerifyAllEnds
