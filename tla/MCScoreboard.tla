---------------------------- MODULE MCScoreboard -----------------------------
(* A small instance of the scoreboard with the issue decision: one register *)
(* besides x0, and for each way of writing and reading it an instruction.   *)
EXTENDS IssueRead

I(fu, op, rd, rs1, zimm) ==
    [fu |-> fu, op |-> op, rd |-> rd, rs1 |-> rs1, rs2 |-> 0, use_zimm |-> zimm]

MCNoInstr == I("NONE", "ADD", 0, 0, FALSE)
MCInstr == {MCNoInstr,
            I("LOAD", "LW", 1, 0, FALSE),
            I("STORE", "SW", 0, 1, FALSE),
            I("CSR", "CSR_WRITE", 1, 1, TRUE),
            I("CSR", "SFENCE_VMA", 1, 1, FALSE)}

\* Free slots keep the instruction they last held; nothing reads it while
\* anything is in flight.
InFlight == <<[i \in Slots |-> IF mem[i].issued THEN mem[i] ELSE mem[i].valid],
              issue_cnt, issue_pointer, commit_pointer>>
=============================================================================
