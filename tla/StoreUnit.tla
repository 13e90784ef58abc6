------------------------------ MODULE StoreUnit -------------------------------
(***************************************************************************)
(* store_unit.sv with its amo_buffer.sv: takes requests from the LSU       *)
(* bypass, spends one cycle on address translation and then puts the store *)
(* into the store buffer or the AMO into its one-entry FIFO.  The store    *)
(* buffer itself is StoreBuffer; st_req stands for the registers trans_id, *)
(* st_data, st_be, st_data_size and amo_op, which capture the request in   *)
(* front of the unit every cycle.  ex_i: the translation faults.           *)
(***************************************************************************)
EXTENDS Naturals

CONSTANTS NoReq        \* a request that is not valid

VARIABLES st_state, st_req, amo_fifo

stvars == <<st_state, st_req, amo_fifo>>

StoreUnitInit == st_state = "IDLE" /\ st_req = NoReq /\ amo_fifo = {}

StoreUnitStates == {"IDLE", "VALID_STORE", "WAIT_TRANSLATION", "WAIT_STORE_READY"}

(* Outputs *)

\* The store or AMO is posted unless it faults or the pipeline is flushed.
st_valid(flush_i, ex_i) == st_state = "VALID_STORE" /\ ~flush_i /\ ~ex_i
store_buffer_valid(flush_i, ex_i) == st_valid(flush_i, ex_i) /\ ~st_req.amo
amo_buffer_valid(flush_i, ex_i) == st_valid(flush_i, ex_i) /\ st_req.amo
\* The unit answers the scoreboard, with an exception if ex_i.
st_valid_o(ex_i) == st_state = "VALID_STORE" \/ (ex_i /\ st_state # "IDLE")
amo_buffer_ready == amo_fifo = {}

\* Mutant: the AMO also waits for the unit to be idle.
amo_req_o_idle(no_st_pending_i, amo_valid_commit_i) ==
    no_st_pending_i /\ amo_valid_commit_i /\ amo_fifo # {} /\ st_state = "IDLE"

amo_req_o(no_st_pending_i, amo_valid_commit_i) ==
    no_st_pending_i /\ amo_valid_commit_i /\ amo_fifo # {}

\* A request is looked at in IDLE, and in VALID_STORE unless it is an AMO.
takes(req) == /\ req # NoReq
              /\ st_state = "IDLE" \/ (st_state = "VALID_STORE" /\ ~req.amo)

\* Mutant: the request is popped although the store buffer has no room.
pop_st_o_always(req, dtlb_hit_i, st_ready, ex_i) == takes(req) /\ dtlb_hit_i

pop_st_o(req, dtlb_hit_i, st_ready, ex_i) ==
    \/ takes(req) /\ dtlb_hit_i /\ st_ready
    \/ ex_i /\ st_state # "IDLE"

\* A flush empties the AMO FIFO unless the AMO is already committing.
amo_fifo_kept(flush_i, amo_valid_commit_i) == ~flush_i \/ amo_valid_commit_i

StoreUnitCycle(flush_i, req, dtlb_hit_i, ex_i, st_ready, amo_valid_commit_i, amo_ack) ==
    /\ st_state' =
         IF flush_i \/ (ex_i /\ st_state # "IDLE") THEN "IDLE"
         ELSE IF takes(req)
         THEN IF ~st_ready THEN "WAIT_STORE_READY"
              ELSE IF ~dtlb_hit_i THEN "WAIT_TRANSLATION" ELSE "VALID_STORE"
         ELSE IF \/ st_state = "VALID_STORE"
                 \/ st_state = "WAIT_STORE_READY" /\ st_ready /\ dtlb_hit_i
                 \/ st_state = "WAIT_TRANSLATION" /\ dtlb_hit_i
         THEN "IDLE" ELSE st_state
    /\ st_req' = req
    /\ amo_fifo' =
         IF ~amo_fifo_kept(flush_i, amo_valid_commit_i) THEN {}
         ELSE IF amo_ack THEN {}
         ELSE IF amo_buffer_valid(flush_i, ex_i) /\ amo_fifo = {} THEN {st_req.id} ELSE amo_fifo
=============================================================================
