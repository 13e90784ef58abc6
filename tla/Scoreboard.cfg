SPECIFICATION ISpec
CONSTANTS
    NR_ENTRIES = 4
    NR_WB_PORTS = 1
    NoInstr <- MCNoInstr
    Instr <- MCInstr
INVARIANTS RingInv OneWriter OperandsFresh
PROPERTIES ImplementsQueue
VIEW InFlight
