SPECIFICATION Spec
CONSTANTS
    MAX_N_SETS = 4
    Paths <- ThreePaths
    Cards <- SeededCards
    Removable = FALSE
    MaxFailures = 3
INVARIANTS TypeOK CardKeepsRecent
