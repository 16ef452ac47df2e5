SPECIFICATION Spec
CONSTANTS
    Files <- AllFiles
    Modes <- AllModes
    total_iMCU_rows = 2
    MCUs_per_row = 2
    v_samp_factor = 2
    last_row_height = 1
    MaxTarget = 3
    SourceBuffer = 1
INVARIANTS OutputQuality LockStep ScanAligned SmoothingSeesNextRow
PROPERTIES NextScanWaits
