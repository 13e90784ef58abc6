------------------------------ MODULE Controller ------------------------------
(***************************************************************************)
(* controller.sv: turns the events of one cycle into flushes.  With the    *)
(* write-through data cache a fence flushes the pipeline and no data       *)
(* cache, so fence_active stays 0 and the controller has no state.         *)
(***************************************************************************)

\* Issued and un-issued instructions, the scoreboard and the units are
\* flushed together (flush_id_o, flush_ex_o).  c: what the commit stage does.
flush_ex_o(c, eret_i, set_debug_pc_i, flush_csr_i) ==
    \/ c.fence \/ flush_csr_i \/ c.flush_commit
    \/ c.exception \/ eret_i \/ set_debug_pc_i

\* A mispredicted branch flushes only what has not been issued yet.
flush_unissued_instr_o(c, eret_i, set_debug_pc_i, flush_csr_i, is_mispredict) ==
    is_mispredict \/ flush_ex_o(c, eret_i, set_debug_pc_i, flush_csr_i)

halt_o(halt_csr_i) == halt_csr_i
=============================================================================
