------------------------------- MODULE LoadUnit -------------------------------
(***************************************************************************)
(* load_unit.sv, the output register behind it and, abstractly, the read   *)
(* port of the cache it talks to.  The build has no MMU: translation       *)
(* always hits and never faults, so ABORT_TRANSACTION is not entered.      *)
(*                                                                         *)
(*   ld_state   state_q                                                    *)
(*   load_data  load_data_q: the load the cache was asked for last         *)
(*   ld_pipe    i_pipe_reg_load: the load that writes back next            *)
(*   ld_port    the cache (external): idle, out while it owes an answer,   *)
(*              killed while it waits for memory on behalf of a dead load  *)
(*                                                                         *)
(* req is the load in front of the unit or NoReq; req.io says that its     *)
(* address is in a non-idempotent region.                                  *)
(***************************************************************************)
EXTENDS Naturals

CONSTANTS NoReq        \* a request that is not valid

VARIABLES ld_state, load_data, ld_pipe, ld_port

ldvars == <<ld_state, load_data, ld_pipe, ld_port>>

LoadUnitStates == {"IDLE", "WAIT_GNT", "SEND_TAG", "WAIT_PAGE_OFFSET",
                   "ABORT_TRANSACTION_NI", "WAIT_TRANSLATION", "WAIT_FLUSH", "WAIT_WB_EMPTY"}

LoadUnitInit == ld_state = "IDLE" /\ load_data = 0 /\ ld_pipe = {} /\ ld_port = "idle"

(* Outputs *)

\* A new load is looked at.
Looks(req) == ld_state \in {"IDLE", "SEND_TAG"} /\ req # NoReq

ld_data_req(req, page_offset_matches_i) ==
    ld_state = "WAIT_GNT" \/ (Looks(req) /\ ~page_offset_matches_i)

kill_req == ld_state \in {"ABORT_TRANSACTION_NI", "WAIT_FLUSH"}

\* A load with side effects waits until it is the oldest instruction and
\* every store, in whatever buffer, has reached memory.
stall_ni(req, wbuffer_not_ni_i, store_buffer_empty_i, commit_tran_id_i) ==
    req.io /\ (~wbuffer_not_ni_i \/ ~store_buffer_empty_i \/ commit_tran_id_i # req.id)

\* The cache answers a killed request at once; that answer is dropped.
ld_valid(answer) ==
    /\ ld_port = "out" /\ (kill_req \/ answer)
    /\ ~kill_req /\ ld_state # "WAIT_TRANSLATION"

\* Mutant: a flush does not wait for the outstanding load.
load_control_no_wait(flush_i, req, matches, gnt, stall, not_ni) ==
    IF flush_i THEN "IDLE"
    ELSE IF ld_data_req(req, matches)
    THEN IF ~gnt THEN "WAIT_GNT" ELSE IF stall THEN "ABORT_TRANSACTION_NI" ELSE "SEND_TAG"
    ELSE CASE Looks(req)                                  -> "WAIT_PAGE_OFFSET"
           [] ld_state = "WAIT_PAGE_OFFSET" /\ ~matches   -> "WAIT_GNT"
           [] ld_state = "ABORT_TRANSACTION_NI"           -> "WAIT_WB_EMPTY"
           [] ld_state = "WAIT_WB_EMPTY" /\ not_ni        -> "WAIT_TRANSLATION"
           [] ld_state = "WAIT_TRANSLATION"               -> "WAIT_GNT"
           [] ld_state \in {"SEND_TAG", "WAIT_FLUSH"} /\ ~Looks(req) -> "IDLE"
           [] OTHER                                       -> ld_state

load_control(flush_i, req, matches, gnt, stall, not_ni) ==
    IF flush_i THEN "WAIT_FLUSH"
    ELSE IF ld_data_req(req, matches)
    THEN IF ~gnt THEN "WAIT_GNT" ELSE IF stall THEN "ABORT_TRANSACTION_NI" ELSE "SEND_TAG"
    ELSE CASE Looks(req)                                  -> "WAIT_PAGE_OFFSET"
           [] ld_state = "WAIT_PAGE_OFFSET" /\ ~matches   -> "WAIT_GNT"
           [] ld_state = "ABORT_TRANSACTION_NI"           -> "WAIT_WB_EMPTY"
           [] ld_state = "WAIT_WB_EMPTY" /\ not_ni        -> "WAIT_TRANSLATION"
           [] ld_state = "WAIT_TRANSLATION"               -> "WAIT_GNT"
           [] ld_state \in {"SEND_TAG", "WAIT_FLUSH"} /\ ~Looks(req) -> "IDLE"
           [] OTHER                                       -> ld_state

\* The load is taken from the bypass when its tag is sent next.
pop_ld_o(req, matches, gnt, stall) == ld_data_req(req, matches) /\ gnt /\ ~stall

\* The read port: a grant, an answer, a kill (memory may still owe its
\* part), the end of a killed miss.
port_d(gnt, answer, miss_rtrn) ==
    IF gnt THEN "out"
    ELSE IF kill_req /\ ld_port = "out" THEN (IF miss_rtrn THEN "idle" ELSE "killed")
    ELSE IF answer \/ (ld_port = "killed" /\ miss_rtrn) THEN "idle" ELSE ld_port

LoadUnitCycle(flush_i, req, matches, gnt, stall, not_ni, answer, miss_rtrn) ==
    /\ ld_state' = load_control(flush_i, req, matches, gnt, stall, not_ni)
    /\ load_data' = IF pop_ld_o(req, matches, gnt, stall) THEN req.id ELSE load_data
    /\ ld_pipe' = IF ld_valid(answer) THEN {load_data} ELSE {}
    /\ ld_port' = port_d(gnt, answer, miss_rtrn)
=============================================================================
