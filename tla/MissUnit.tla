------------------------------ MODULE MissUnit ------------------------------
(***************************************************************************)
(* wt_dcache_missunit.sv: one miss register for reads, the arbitration of  *)
(* the read port and the write buffer, the collision checks, and the       *)
(* machine that drains both before a flush or an atomic operation.         *)
(* The cache has one index here, so a flush takes one cycle; the miss      *)
(* register is reset once nothing compares with it any more.               *)
(***************************************************************************)
EXTENDS Integers

VARIABLES mu_state, mshr_vld_q, mshr_vld_q1, mshr_line, mshr_nc, rdrd_q, enable_q

muvars == <<mu_state, mshr_vld_q, mshr_vld_q1, mshr_line, mshr_nc, rdrd_q, enable_q>>

MuStates == {"IDLE", "DRAIN", "AMO", "FLUSH", "STORE_WAIT", "LOAD_WAIT", "AMO_WAIT"}

MissInit ==
    /\ mu_state = "FLUSH" /\ mshr_vld_q = FALSE /\ mshr_vld_q1 = FALSE
    /\ mshr_line = -1 /\ mshr_nc = FALSE /\ rdrd_q = FALSE /\ enable_q = FALSE

flush_en == mu_state = "FLUSH"
\* Line writes that clear the valid bits.
wr_cl_clear(inv_vld) == flush_en \/ inv_vld
mask_reads == mshr_vld_q \/ mu_state = "DRAIN"
amo_sel == mu_state \in {"AMO", "AMO_WAIT"}

\* The port that is served: reads go first; a request that waits is locked.
\* rd, wr: the read port and the write buffer ask.
Port(rd, wr) ==
    CASE mu_state = "STORE_WAIT" -> "wr" [] mu_state = "LOAD_WAIT" -> "rd"
      [] OTHER -> IF rd /\ ~mask_reads THEN "rd" ELSE IF wr THEN "wr" ELSE "none"

mshr_rdrd_collision_d(rd, rd_line) ==
    rd /\ (rdrd_q \/ (mshr_line = rd_line /\ (mshr_vld_q \/ mshr_vld_q1)))

mshr_rdwr_collision(wr_line) == mshr_line = wr_line /\ mshr_vld_q

\* Mutant: a read does not look at the transactions in flight.
tx_rdwr_never(rd_line, tx_lines) == FALSE
tx_rdwr_collision(rd_line, tx_lines) == rd_line \in tx_lines

\* p_fsm: what happens this cycle.  drained: write buffer empty and no miss
\* outstanding.  first: a flush or an atomic goes first and nothing is sent.
drained(wb_empty) == wb_empty /\ ~mshr_vld_q
first(enable_i, amo_i) == mu_state = "IDLE" /\ ((enable_i /\ ~enable_q) \/ amo_i)

miss_replay_o(rd, wr, rd_line, enable_i, amo_i) ==
    /\ mu_state = "IDLE" /\ ~first(enable_i, amo_i) /\ Port(rd, wr) = "rd"
    /\ mshr_rdrd_collision_d(rd, rd_line)

\* Request to memory: "store", "load", "amo" or "none".
mem_data_req_o(rd, wr, rd_line, wr_line, tx_lines, enable_i, amo_i) ==
    CASE mu_state = "STORE_WAIT" -> "store"
      [] mu_state = "LOAD_WAIT" -> "load"
      [] mu_state = "AMO" -> "amo"
      [] mu_state = "DRAIN" -> IF wr /\ ~mshr_rdwr_collision(wr_line) THEN "store" ELSE "none"
      [] mu_state = "IDLE" /\ ~first(enable_i, amo_i) ->
           IF Port(rd, wr) = "wr" /\ ~mshr_rdwr_collision(wr_line) THEN "store"
           ELSE IF /\ Port(rd, wr) = "rd"
                   /\ ~mshr_rdrd_collision_d(rd, rd_line)
                   /\ ~tx_rdwr_collision(rd_line, tx_lines) THEN "load" ELSE "none"
      [] OTHER -> "none"

\* Mutant: the machine leaves for the flush or the atomic with stores waiting.
state_d_undrained(req, ack, wb_empty, enable_i, amo_i, amo_ack) ==
    CASE first(enable_i, amo_i) /\ ~mshr_vld_q -> IF enable_i /\ ~enable_q THEN "FLUSH" ELSE "AMO"
      [] first(enable_i, amo_i) /\ mshr_vld_q -> "DRAIN"
      [] mu_state = "IDLE" /\ req = "store" /\ ~ack -> "STORE_WAIT"
      [] mu_state = "IDLE" /\ req = "load" /\ ~ack -> "LOAD_WAIT"
      [] mu_state \in {"STORE_WAIT", "LOAD_WAIT"} /\ ack -> "IDLE"
      [] mu_state = "DRAIN" /\ drained(wb_empty) -> "IDLE"
      [] mu_state = "FLUSH" -> "IDLE"
      [] mu_state = "AMO" /\ ack -> "AMO_WAIT"
      [] mu_state = "AMO_WAIT" /\ amo_ack -> "IDLE"
      [] OTHER -> mu_state

state_d(req, ack, wb_empty, enable_i, amo_i, amo_ack) ==
    CASE first(enable_i, amo_i) /\ drained(wb_empty) ->
           IF enable_i /\ ~enable_q THEN "FLUSH" ELSE "AMO"
      [] first(enable_i, amo_i) /\ ~drained(wb_empty) -> "DRAIN"
      [] mu_state = "IDLE" /\ req = "store" /\ ~ack -> "STORE_WAIT"
      [] mu_state = "IDLE" /\ req = "load" /\ ~ack -> "LOAD_WAIT"
      [] mu_state \in {"STORE_WAIT", "LOAD_WAIT"} /\ ack -> "IDLE"
      [] mu_state = "DRAIN" /\ drained(wb_empty) -> "IDLE"
      [] mu_state = "FLUSH" -> "IDLE"
      [] mu_state = "AMO" /\ ack -> "AMO_WAIT"
      [] mu_state = "AMO_WAIT" /\ amo_ack -> "IDLE"
      [] OTHER -> mu_state

\* load_ack: memory answers the miss register.
MissCycle(rd, rd_line, nc, req, ack, load_ack, wb_empty, enable_i, amo_i, amo_ack) ==
    LET allocate == req = "load" /\ ack
    IN /\ mu_state' = state_d(req, ack, wb_empty, enable_i, amo_i, amo_ack)
       /\ mshr_vld_q' = (allocate \/ (mshr_vld_q /\ ~load_ack))
       /\ mshr_vld_q1' = mshr_vld_q
       /\ mshr_line' = IF allocate THEN rd_line ELSE IF mshr_vld_q THEN mshr_line ELSE -1
       /\ mshr_nc' = IF allocate THEN nc ELSE mshr_vld_q /\ mshr_nc
       /\ rdrd_q' = mshr_rdrd_collision_d(rd, rd_line)
       /\ enable_q' = IF mu_state = "FLUSH" THEN enable_i ELSE enable_q /\ enable_i
=============================================================================
