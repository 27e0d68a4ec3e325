SPECIFICATION Spec
CONSTANTS
    MAX_N_SETS = 3
    Touches <- MCTouches
    Paths <- MCPaths
    gps_realtime <- Here
    SavedSets <- MCSaved
INVARIANTS TypeOK ViewShowsChosen AverageHasSets ColoursDistinct EveryPointCounted ShadesRankCells PathColoursDistinct
PROPERTIES TouchTurnsPicture DownloadDropsOldest
