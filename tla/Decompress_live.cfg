SPECIFICATION FairSpec
CONSTANTS
    Files <- LiveFiles
    Modes <- LiveModes
    total_iMCU_rows = 2
    MCUs_per_row = 1
    v_samp_factor = 1
    last_row_height = 1
    MaxTarget = 3
    SourceBuffer = 1
PROPERTIES SuspendedCallsEnd
