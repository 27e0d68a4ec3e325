CONSTANTS
    Word = 64
    Columns = 4
    Rows = 4
    Colours = {0, 1}
    ResetColour = 0
    PowerUpMemory <- PowerUp
    BlankTicks = 3
    XRES = 4
    YRES = 4
    Calls <- FewCalls
    MaxCalls = 2
SPECIFICATION MCFairSpec
PROPERTIES CallsReturn CommandsComplete
