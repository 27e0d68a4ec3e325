CONSTANTS
    Word = 64
    Columns = 16
    Rows = 16
    Colours = {0, 1}
    ResetColour = 0
    PowerUpMemory <- PowerUp
    BlankTicks = 2
    XRES = 9
    YRES = 9
    Calls <- BigCircle
    MaxCalls = 1
SPECIFICATION MCSpec
PROPERTIES DrawsItsShape
