CONSTANTS
    N = 3
    Length <- MCLength
    MAX_N_POINTS = 2
    PointChars = 2
SPECIFICATION FairSpec
INVARIANTS TypeOK
PROPERTIES AckedIsReceived DownloadEnds
