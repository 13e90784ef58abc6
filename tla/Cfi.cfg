SPECIFICATION Spec
CONSTANTS
    NoInstr <- MCNoInstr
    Instr <- MCInstr
INVARIANTS NoFalseAlarm PairDetected
