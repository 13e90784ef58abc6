---------------------------- MODULE MCCommitPath ------------------------------
(* Small programs for CommitPath: each is a set of instructions that may   *)
(* be decoded in any order and any number.                                 *)
EXTENDS CommitPath

Instruction(fu, op, rs1, rd, result) ==
    [fu |-> fu, op |-> op, rs1 |-> rs1, rd |-> rd, result |-> result]
Plain(fu, op) == Instruction(fu, op, 0, 0, 0)

MCNoInstr == Plain("NONE", "ADD")
Sw == Plain("STORE", "SW")
Lw == Plain("LOAD", "LW")
LwIo == Plain("LOAD", "LW_IO")
Amo == Plain("STORE", "AMO")
Alu == Plain("ALU", "ADD")
Fence == Plain("CSR", "FENCE")
CsrWrite == Plain("CSR", "CSR_WRITE")
Dcsr == Plain("CSR", "CSR_DCSR")
Mret == Plain("CSR", "MRET")
Dret == Plain("CSR", "DRET")
Wfi == Plain("CSR", "WFI")
Trap == Plain("NONE", "INTERRUPT")
DebugRequest == Plain("NONE", "DEBUG_REQUEST")
Ebreak == Plain("NONE", "BREAKPOINT")
Return == Instruction("CTRL_FLOW", "JALR", 1, 0, 0)
Marker == Instruction("ALU", "ADD", 1, 0, 3)

MCSystem == {{Sw, Amo, Alu, Fence, CsrWrite},
             {Sw, CsrWrite, Mret, DebugRequest, Ebreak, Dret},
             {Lw, LwIo, Sw, Trap}, {Lw, Sw, Amo, Trap}}
MCMemory == {{Sw, Amo, Trap}, {Sw, Fence, Wfi}, {Lw, LwIo, Sw}}
MCMonitor == {{Sw, Return, Marker}}

(***************************************************************************)
(* The state without the contents of registers that are marked invalid:    *)
(* free scoreboard slots, empty queue slots, the address in an empty CSR   *)
(* buffer.  No action reads these and no property mentions them.  Of the   *)
(* stores in committed slots only which of them are equal is kept: they    *)
(* are handed on and compared with each other, nothing else.  So states    *)
(* with the same view are bisimilar.                                       *)
(***************************************************************************)
LiveRegisters ==
    <<[i \in Slots |-> IF mem[i].issued THEN mem[i] ELSE "free"],
      issue_cnt, issue_pointer, commit_pointer, fu_data, BP!bpvars, st_state,
      IF st_state = "VALID_STORE" THEN st_req ELSE "free", amo_fifo,
      [i \in BUF!SpecSlots |-> IF speculative_queue[i].valid
                               THEN speculative_queue[i] ELSE "free"],
      speculative_read_pointer, speculative_write_pointer, speculative_status_cnt,
      [i \in BUF!CommitSlots |->
         {j \in BUF!CommitSlots : commit_queue[i].valid /\ commit_queue[j] = commit_queue[i]}],
      commit_read_pointer, commit_write_pointer, commit_status_cnt,
      IF csr_valid THEN csr_address ELSE "free",
      ld_state, ld_pipe, ld_port, wb_ni,
      IF ld_port = "out" /\ ~LD!kill_req THEN load_data ELSE "free",
      CSR!csrvars, Mon!cvars, program, failed>>

\* The same with the clock, for liveness.
LiveClockedRegisters == <<LiveRegisters, clk>>
=============================================================================
