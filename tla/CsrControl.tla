------------------------------ MODULE CsrControl ------------------------------
(***************************************************************************)
(* The part of csr_regfile.sv that steers the pipeline: debug mode, single *)
(* step, wait-for-interrupt, returns and the exception it raises on the    *)
(* instruction in the commit stage.  Addresses and values of the other     *)
(* control and status registers are abstracted; that an access faults or   *)
(* has a side effect that needs a flush is an input.                       *)
(***************************************************************************)
VARIABLES debug_mode, step, wfi

csrvars == <<debug_mode, step, wfi>>

CsrInit == debug_mode = FALSE /\ step = FALSE /\ wfi = FALSE

\* An access may fault; DCSR is accessible in debug mode only.
csr_exception_o(csr_op_i, access_fault, cfi_interupt_i) ==
    \/ csr_op_i \in {"CSR_WRITE", "CSR_READ"} /\ access_fault
    \/ csr_op_i = "CSR_DCSR" /\ ~debug_mode
    \/ cfi_interupt_i

eret_o(csr_op_i) == csr_op_i \in {"MRET", "DRET"}

\* A write with side effects flushes, unless the instruction traps.
flush_o(csr_op_i, side_effect, ex) ==
    csr_op_i = "CSR_WRITE" /\ side_effect /\ (debug_mode \/ ~ex)

\* cause: of the exception taken, if ex; ebreak_debugs: dcsr.ebreak{m,s,u}.
enters_debug(ex, cause, ack_0, ebreak_debugs) ==
    /\ ~debug_mode
    /\ \/ ex /\ cause = "BREAKPOINT" /\ ebreak_debugs
       \/ ex /\ cause = "DEBUG_REQUEST"
       \/ step /\ ack_0

set_debug_pc_o(ex, cause, ack_0, ebreak_debugs) ==
    \/ enters_debug(ex, cause, ack_0, ebreak_debugs)
    \/ debug_mode /\ ex /\ cause = "BREAKPOINT"

\* wake: an interrupt is pending or a debug request is made.
wfi_ctrl(csr_op_i, ex, wake) ==
    wfi' = (~wake /\ (wfi \/ (~debug_mode /\ csr_op_i = "WFI" /\ ~ex)))

CsrCycle(csr_op_i, ex, cause, ack_0, ebreak_debugs, wake, new_step) ==
    /\ debug_mode' = /\ csr_op_i # "DRET"
                     /\ debug_mode \/ enters_debug(ex, cause, ack_0, ebreak_debugs)
    /\ step' = IF csr_op_i = "CSR_DCSR" /\ debug_mode THEN new_step ELSE step
    /\ wfi_ctrl(csr_op_i, ex, wake)
=============================================================================
