SPECIFICATION Spec
CONSTANTS
    MAX_N_SETS = 3
    Paths <- MCPaths
    Cards <- SeededCards
    Removable = FALSE
    MaxFailures = 2
INVARIANTS SaveReportsTruth
