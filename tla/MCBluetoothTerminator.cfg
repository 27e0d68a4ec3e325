CONSTANTS
    N = 2
    Length <- MCFitting
    MAX_N_POINTS = 2
    PointChars = 2
SPECIFICATION Spec
INVARIANTS TerminatorFits
