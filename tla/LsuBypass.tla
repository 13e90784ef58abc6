------------------------------ MODULE LsuBypass -------------------------------
(***************************************************************************)
(* lsu_bypass of load_store_unit.sv: a two-element FIFO in front of the    *)
(* load and the store unit.  When it is empty a request passes straight    *)
(* through and is stored at the same time; the unit that takes it pops it. *)
(* The 2-bit status counter wraps, so a pop of an empty FIFO would show.   *)
(* pop is the pop of the unit that the request in front belongs to.        *)
(***************************************************************************)
EXTENDS Naturals

CONSTANTS NoReq        \* a request that is not valid

VARIABLES bp_mem, bp_read_pointer, bp_write_pointer, bp_status_cnt

bpvars == <<bp_mem, bp_read_pointer, bp_write_pointer, bp_status_cnt>>

BypassInit ==
    /\ bp_mem = [i \in 0 .. 1 |-> NoReq]
    /\ bp_read_pointer = 0 /\ bp_write_pointer = 0 /\ bp_status_cnt = 0

lsu_ready_o == bp_status_cnt = 0

\* req: the request of this cycle, NoReq if there is none.
lsu_ctrl_o(req) == IF bp_status_cnt = 0 THEN req ELSE bp_mem[bp_read_pointer]

BypassCycle(flush_i, req, pop) ==
    LET push == req # NoReq
        popped(i) == pop /\ i = bp_read_pointer
        pushed(i) == push /\ i = bp_write_pointer
    IN IF flush_i
       THEN /\ bp_mem' = [i \in 0 .. 1 |-> NoReq]
            /\ bp_read_pointer' = 0 /\ bp_write_pointer' = 0 /\ bp_status_cnt' = 0
       ELSE /\ bp_mem' = [i \in 0 .. 1 |-> IF popped(i) THEN NoReq
                                           ELSE IF pushed(i) THEN req ELSE bp_mem[i]]
            /\ bp_read_pointer' = (bp_read_pointer + (IF pop THEN 1 ELSE 0)) % 2
            /\ bp_write_pointer' = (bp_write_pointer + (IF push THEN 1 ELSE 0)) % 2
            /\ bp_status_cnt' = (bp_status_cnt + (IF push THEN 1 ELSE 0)
                                               + (IF pop THEN 3 ELSE 0)) % 4
=============================================================================
