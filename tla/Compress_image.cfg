SPECIFICATION Spec
CONSTANTS
    DCTSIZE = 2
    LastCoef = 63
    MAX_COMPS_IN_SCAN = 4
    C_MAX_BLOCKS_IN_MCU = 6
    MAX_AH_AL = 10
    Configs <- MCConfigs
    ScaleFactors <- MCScaleFactors
    Qualities <- MCQualities
    MaxVersions = 1
    MaxRows = 4
    MaxRefusals = 2
INVARIANTS ImageIsSent ScansComplete RowsAccounted TablesReachReader
CHECK_DEADLOCK FALSE
