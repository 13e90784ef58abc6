------------------------------ MODULE ReadCtrl ------------------------------
(***************************************************************************)
(* wt_dcache_ctrl.sv: the read port of the data cache.  The tag of a       *)
(* request arrives in the cycle after the grant (the load unit always      *)
(* sends it then, or kills the request).                                   *)
(***************************************************************************)
EXTENDS CacheMem

VARIABLES rc_state, rc_word, rd_ack_q

rcvars == <<rc_state, rc_word, rd_ack_q>>

RcStates == {"IDLE", "READ", "MISS_REQ", "MISS_WAIT", "KILL_MISS", "KILL_MISS_ACK",
             "REPLAY_REQ", "REPLAY_READ"}

CtrlInit == rc_state = "IDLE" /\ rc_word = NoWord /\ rd_ack_q = FALSE

\* The core waits for the answer of an earlier request.
Outstanding == rc_state \notin {"IDLE", "KILL_MISS", "KILL_MISS_ACK"}

rd_req_o(data_req) ==
    \/ rc_state = "IDLE" /\ data_req
    \/ rc_state \in {"READ", "REPLAY_READ", "REPLAY_REQ"}
ctrl_miss_req_o == rc_state \in {"MISS_REQ", "KILL_MISS_ACK"}

Reads == rc_state \in {"READ", "REPLAY_READ"}
Replays(wr_cl_vld_i) == wr_cl_vld_i \/ ~rd_ack_q
\* The look-up hits; kill_req has priority.
Hit(kill, wr_cl_vld_i, hit_i, cache_en_i) ==
    Reads /\ ~kill /\ ~Replays(wr_cl_vld_i) /\ hit_i /\ cache_en_i

data_gnt(data_req, kill, rd_ack_i, wr_cl_vld_i, hit_i, cache_en_i) ==
    /\ data_req /\ rd_ack_i
    /\ rc_state = "IDLE" \/ Hit(kill, wr_cl_vld_i, hit_i, cache_en_i)

\* The answer is valid and the request was not killed.
answered(kill, wr_cl_vld_i, hit_i, cache_en_i, miss_rtrn_vld_i) ==
    \/ Hit(kill, wr_cl_vld_i, hit_i, cache_en_i)
    \/ rc_state = "MISS_WAIT" /\ ~kill /\ miss_rtrn_vld_i

\* Mutant: a kill in the cycle of the answer waits for the answer.
rc_state_d_lost(gnt, kill, rd_ack_i, wr_cl_vld_i, hit, miss_ack_i, miss_replay_i, miss_rtrn_vld_i) ==
    CASE gnt -> "READ"
      [] ~gnt /\ Reads -> IF kill \/ hit THEN "IDLE"
                          ELSE IF Replays(wr_cl_vld_i) THEN "REPLAY_REQ" ELSE "MISS_REQ"
      [] rc_state = "MISS_REQ" ->
           IF kill THEN IF miss_ack_i THEN "KILL_MISS" ELSE "KILL_MISS_ACK"
           ELSE IF miss_replay_i THEN "REPLAY_REQ" ELSE IF miss_ack_i THEN "MISS_WAIT" ELSE rc_state
      [] rc_state = "MISS_WAIT" ->
           IF kill THEN "KILL_MISS" ELSE IF miss_rtrn_vld_i THEN "IDLE" ELSE rc_state
      [] rc_state = "REPLAY_REQ" ->
           IF kill THEN "IDLE" ELSE IF rd_ack_i THEN "REPLAY_READ" ELSE rc_state
      [] rc_state = "KILL_MISS_ACK" ->
           IF miss_replay_i THEN "IDLE" ELSE IF miss_ack_i THEN "KILL_MISS" ELSE rc_state
      [] rc_state = "KILL_MISS" -> IF miss_rtrn_vld_i THEN "IDLE" ELSE rc_state
      [] OTHER -> rc_state

rc_state_d(gnt, kill, rd_ack_i, wr_cl_vld_i, hit, miss_ack_i, miss_replay_i, miss_rtrn_vld_i) ==
    CASE gnt -> "READ"
      [] ~gnt /\ Reads -> IF kill \/ hit THEN "IDLE"
                          ELSE IF Replays(wr_cl_vld_i) THEN "REPLAY_REQ" ELSE "MISS_REQ"
      [] rc_state = "MISS_REQ" ->
           IF kill THEN IF miss_ack_i THEN "KILL_MISS" ELSE "KILL_MISS_ACK"
           ELSE IF miss_replay_i THEN "REPLAY_REQ" ELSE IF miss_ack_i THEN "MISS_WAIT" ELSE rc_state
      [] rc_state = "MISS_WAIT" ->
           IF miss_rtrn_vld_i THEN "IDLE" ELSE IF kill THEN "KILL_MISS" ELSE rc_state
      [] rc_state = "REPLAY_REQ" ->
           IF kill THEN "IDLE" ELSE IF rd_ack_i THEN "REPLAY_READ" ELSE rc_state
      [] rc_state = "KILL_MISS_ACK" ->
           IF miss_replay_i THEN "IDLE" ELSE IF miss_ack_i THEN "KILL_MISS" ELSE rc_state
      [] rc_state = "KILL_MISS" -> IF miss_rtrn_vld_i THEN "IDLE" ELSE rc_state
      [] OTHER -> rc_state

CtrlCycle(ld, gnt, kill, rd_ack_i, wr_cl_vld_i, hit, miss_ack_i, miss_replay_i, miss_rtrn_vld_i) ==
    /\ rc_state' = rc_state_d(gnt, kill, rd_ack_i, wr_cl_vld_i, hit, miss_ack_i, miss_replay_i,
                              miss_rtrn_vld_i)
    /\ rc_word' = IF gnt THEN ld ELSE IF rc_state' = "IDLE" THEN NoWord ELSE rc_word
    /\ rd_ack_q' = rd_ack_i
=============================================================================
