SPECIFICATION Spec
CONSTANTS
    MAXJSAMPLE = 15
    ODITHER_SIZE = 2
    base_dither_matrix <- Bayer
    HIST_BITS <- HistBits
    BOX_LOG <- BoxLog
    HistMax = 8
    MinDesired = 4
    Requests <- MCRequests
    Pictures <- MCPictures
    Colormaps <- MCColormaps
    MaxPasses = 2
CHECK_DEADLOCK FALSE
INVARIANTS ValuesInRange ColormapFits NearestColors
