SPECIFICATION FairSpec
CONSTANTS
    NR_ENTRIES = 4
    DEPTH_SPEC = 2
    DEPTH_COMMIT = 2
    NoReq = NoReq
    NoInstr <- MCNoInstr
    Programs <- MCMemory
PROPERTIES InFlightLeaves
VIEW LiveClockedRegisters
