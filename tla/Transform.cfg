SPECIFICATION Spec
CONSTANTS
    Jobs <- MCJobs
    DCTSIZE = 2
    LastCoef = 3
    MAX_COMPS_IN_SCAN = 4
    C_MAX_BLOCKS_IN_MCU = 10
    MAX_AH_AL = 10
INVARIANTS StaysInside OutputIsCombination EdgesRight ColorsSurvive
CHECK_DEADLOCK FALSE
