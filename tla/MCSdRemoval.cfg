SPECIFICATION FairSpec
CONSTANTS
    MAX_N_SETS = 2
    Paths <- MCPaths
    Cards <- AllCards
    Removable = TRUE
    MaxFailures = 1
INVARIANTS SavedUpToHead LoadIsPrefix
PROPERTIES CardCallsReturn
