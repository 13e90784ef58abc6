----------------------------- MODULE CommitStage ------------------------------
(***************************************************************************)
(* commit_stage.sv: which of the two oldest instructions retire this       *)
(* cycle, what their retirement triggers, and which exception is taken.    *)
(* The stage is combinational: an operator on the entries the two commit   *)
(* ports offer.  flush_dcache_i is constant 0 in the write-through build.  *)
(***************************************************************************)

is_amo(instr) == instr.op = "AMO"

\* fence, fence.i and sfence.vma wait for the store path to drain.
WaitsForStores == {"FENCE", "FENCE_I", "SFENCE_VMA"}

\* Mutant: port 1 may retire a store.
Port1Units_store == {"ALU", "LOAD", "STORE", "CTRL_FLOW", "MULT", "FPU", "FPU_VEC"}

\* Port 1 retires only instructions that trigger nothing.
Port1Units == {"ALU", "LOAD", "CTRL_FLOW", "MULT", "FPU", "FPU_VEC"}

exception_valid(halt_i, e0, csr_exception_i) ==
    e0.valid /\ ~halt_i /\ (csr_exception_i \/ e0.ex)

\* The operation the CSR file sees; ADD is its no-operation.
csr_op_o(halt_i, e0) ==
    IF e0.valid /\ ~e0.ex /\ ~halt_i /\ e0.instr.fu = "CSR" THEN e0.instr.op ELSE "ADD"

\* Mutant: a store retires even if the commit queue has no room.
ack0_no_room(halt_i, e0, csr_exception_i, commit_lsu_ready_i, no_st_pending_i, amo_ack) ==
    /\ e0.valid /\ ~e0.ex /\ ~halt_i
    /\ CASE is_amo(e0.instr) -> amo_ack
         [] e0.instr.op \in WaitsForStores -> no_st_pending_i
         [] e0.instr.fu = "CSR" /\ e0.instr.op \notin WaitsForStores -> ~csr_exception_i
         [] OTHER -> TRUE

(***************************************************************************)
(* The acknowledge of port 0.  The checks are made one after the other and *)
(* the last one that applies wins: a fence is of unit CSR, yet whether it  *)
(* retires depends on the stores alone.                                    *)
(***************************************************************************)
ack0(halt_i, e0, csr_exception_i, commit_lsu_ready_i, no_st_pending_i, amo_ack) ==
    /\ e0.valid /\ ~e0.ex /\ ~halt_i
    /\ CASE is_amo(e0.instr) -> amo_ack
         [] e0.instr.op \in WaitsForStores -> no_st_pending_i
         [] e0.instr.fu = "CSR" /\ e0.instr.op \notin WaitsForStores -> ~csr_exception_i
         [] e0.instr.fu = "STORE" /\ ~is_amo(e0.instr) -> commit_lsu_ready_i
         [] OTHER -> TRUE

ack1(acked0, halt_i, single_step_i, e0, e1, csr_exception_i) ==
    /\ acked0 /\ e1.valid /\ ~halt_i /\ ~single_step_i
    /\ e0.instr.fu # "CSR" /\ ~is_amo(e0.instr)
    /\ ~exception_valid(halt_i, e0, csr_exception_i)
    /\ ~e1.ex /\ e1.instr.fu \in Port1Units

commit(halt_i, step_i, e0, e1, csr_exception_i, commit_lsu_ready_i, no_st_pending_i, amo_ack) ==
    LET head == e0.valid /\ ~e0.ex /\ ~halt_i
        acked0 == ack0(halt_i, e0, csr_exception_i,
                       commit_lsu_ready_i, no_st_pending_i, amo_ack)
    IN [ack0 |-> acked0,
        ack1 |-> ack1(acked0, halt_i, step_i, e0, e1, csr_exception_i),
        commit_lsu |-> /\ head /\ e0.instr.fu = "STORE" /\ ~is_amo(e0.instr)
                       /\ commit_lsu_ready_i,
        commit_csr |-> head /\ e0.instr.fu = "CSR" /\ ~csr_exception_i,
        fence |-> head /\ e0.instr.op \in WaitsForStores /\ no_st_pending_i,
        flush_commit |-> head /\ is_amo(e0.instr) /\ amo_ack,
        amo_valid_commit |-> head /\ is_amo(e0.instr),
        exception |-> exception_valid(halt_i, e0, csr_exception_i)]
=============================================================================
