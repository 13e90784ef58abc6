SPECIFICATION Spec
CONSTANTS
    NR_ENTRIES = 4
    DEPTH_SPEC = 2
    DEPTH_COMMIT = 2
    NoReq = NoReq
    NoInstr <- MCNoInstr
    Programs <- MCMonitor
INVARIANTS NoCommitWhileFlushing
