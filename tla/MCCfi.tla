------------------------------- MODULE MCCfi ---------------------------------
(* Instructions that differ from the return and from the marker in one     *)
(* field at a time.                                                        *)
EXTENDS Cfi

Jalr(rs1, rd) == [op |-> "JALR", fu |-> "CTRL_FLOW", rs1 |-> rs1, rd |-> rd, result |-> 0]
Addi(rs1, rd, result) == [op |-> "ADD", fu |-> "ALU", rs1 |-> rs1, rd |-> rd, result |-> result]

MCNoInstr == [op |-> "ADD", fu |-> "NONE", rs1 |-> 0, rd |-> 0, result |-> 0]
MCInstr == {MCNoInstr, Jalr(1, 0), Jalr(1, 1), Jalr(5, 0),
            Addi(1, 0, 7), Addi(1, 0, 4), Addi(2, 0, 3)}
=============================================================================
