\* Every call, with every kind of argument, up to three calls.
CONSTANTS
    CallerWords <- MCWords
    LongWords <- MCLong
    Unquoted <- MCUnquoted
    Images <- MCImages
    Texts <- MCTexts
    Sources <- MCSources
    ItemLists <- MCItems
    Users <- MCUsers
    Modes <- MCModes
    EnvMaps <- MCEnvMaps
    Dockerfiles <- MCDockerfiles
    MaxCalls = 3
SPECIFICATION BSpec
INVARIANTS
    ForcedAreNext
    
    RoundTrip
\* The program stops calling.
CHECK_DEADLOCK FALSE
