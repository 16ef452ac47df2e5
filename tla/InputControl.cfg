SPECIFICATION InputSpec
CONSTANTS
    HuffLengths = 2
    QuantSize = 2
    NUM_TBLS = 2
    MAX_COMPS_IN_SCAN = 4
    APP0_DATA_LEN = 3
    APP14_DATA_LEN = 2
    DCTSIZE = 8
    BITS_IN_JSAMPLE = 8
    JPEG_MAX_DIMENSION = 65500
    MAX_COMPONENTS = 4
    MAX_SAMP_FACTOR = 4
    D_MAX_BLOCKS_IN_MCU = 10
    Requests <- MCRequests
    Files <- MCFiles
    MiscMarkers <- MCMiscMarkers
    Limits = {2, 30}
    BufferSize = 14
    MaxSaves = 1
INVARIANTS ReadIsIdeal ScanPositionsRight GeometryCovers LatchedTables OutputFits
PROPERTIES EveryFileIsReadOut
CHECK_DEADLOCK FALSE
