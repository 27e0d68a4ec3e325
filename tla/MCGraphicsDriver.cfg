CONSTANTS
    Word = 64
    Columns = 8
    Rows = 8
    Colours = {0, 1}
    ResetColour = 0
    PowerUpMemory <- PowerUp
    BlankTicks = 2
    XRES = 5
    YRES = 5
    Calls <- EveryCall
    MaxCalls = 2
SPECIFICATION MCSpec
INVARIANTS TypeOK RegistersWrittenWhenIdle
PROPERTIES PaletteProgrammed ReadReturnsPixel DrawsItsShape
