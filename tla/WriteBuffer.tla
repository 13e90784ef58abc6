---------------------------- MODULE WriteBuffer -----------------------------
(***************************************************************************)
(* wt_dcache_wbuffer.sv: the coalescing write buffer of the data cache.    *)
(* A word is <<line, offset>>; a set of bytes is what a byte enable or one *)
(* of the per-byte flags selects.  A valid byte is the latest store's.     *)
(*                                                                         *)
(*   wbuffer      wtag, valid, dirty, txblock, checked, hit_oh             *)
(*   tx_stat      the transactions: vld, ptr, be                           *)
(*   rtrn_fifo    ids of acknowledged transactions, i_rtrn_id_fifo         *)
(*   check_q, check_q1   tag look-up one and two cycles ago (NoCheck: none)*)
(*   rd_hit_oh_q  result of the look-up, delayed by a cycle                *)
(*   dirty_lock   entry i_dirty_rr is locked on (LockIn), or None          *)
(*                                                                         *)
(* Flags of an entry without valid bytes are not read by anybody and are   *)
(* reset.  Non-idempotent regions are left out.                            *)
(***************************************************************************)
EXTENDS CacheMem, Sequences, FiniteSetsExt

CONSTANTS DCACHE_WBUF_DEPTH, DCACHE_MAX_TX

ASSUME SizesAssumption == DCACHE_WBUF_DEPTH \in Nat \ {0} /\ DCACHE_MAX_TX \in Nat \ {0}

VARIABLES wbuffer, tx_stat, rtrn_fifo, check_q, check_q1, rd_hit_oh_q, wr_cl_vld_q, dirty_lock

wbvars == <<wbuffer, tx_stat, rtrn_fifo, check_q, check_q1, rd_hit_oh_q, wr_cl_vld_q, dirty_lock>>

Slots == 0..(DCACHE_WBUF_DEPTH - 1)
TxIds == 0..(DCACHE_MAX_TX - 1)

Free == [wtag |-> NoWord, valid |-> {}, dirty |-> {}, txblock |-> {},
         checked |-> FALSE, hit_oh |-> FALSE]
NoTx == [vld |-> FALSE, ptr |-> 0, be |-> {}]
NoCheck == [ptr |-> None, tag |-> None]

WbufferInit ==
    /\ wbuffer = [k \in Slots |-> Free] /\ tx_stat = [t \in TxIds |-> NoTx]
    /\ rtrn_fifo = <<>> /\ check_q = NoCheck /\ check_q1 = NoCheck
    /\ rd_hit_oh_q = FALSE /\ wr_cl_vld_q = FALSE /\ dirty_lock = None

-----------------------------------------------------------------------------
(* Outputs.                                                                *)
valid(k) == wbuffer[k].valid # {}
empty_o == \A k \in Slots : ~valid(k)

\* Mutant: bytes in flight do not hold the others back.
bdirty_inflight(k) == wbuffer[k].dirty \cap wbuffer[k].valid
\* Dirty bytes that may be sent: none while bytes of the word are in flight.
bdirty(k) == IF wbuffer[k].txblock # {} THEN {} ELSE wbuffer[k].dirty \cap wbuffer[k].valid

dirty == {k \in Slots : bdirty(k) # {}}
free_tx == {t \in TxIds : ~tx_stat[t].vld}
miss_req_o == dirty # {} /\ free_tx # {}
\* The choices of i_dirty_rr, which keeps an entry it has offered.
dirty_ptrs == IF dirty_lock # None THEN {dirty_lock} ELSE dirty
tx_id == Min(free_tx)          \* ids only name transactions: the least free one
\* toSize64, toByteEnable8: the widest aligned transfer at the first dirty byte.
tx_be(k) == IF bdirty(k) = Bytes THEN Bytes ELSE {Min(bdirty(k))}

tocheck == {k \in Slots : valid(k) /\ ~wbuffer[k].checked}

wbuffer_hit(w) == {k \in Slots : valid(k) /\ wbuffer[k].wtag = w}
\* Mutant: bytes that were sent to memory are not forwarded any more.
wbuffer_be_dirty(w) == UNION {wbuffer[k].dirty : k \in wbuffer_hit(w)}
\* Bytes a read of w takes from the buffer instead of the array or memory.
wbuffer_be(w) == UNION {wbuffer[k].valid : k \in wbuffer_hit(w)}
rdy(w) == wbuffer_hit(w) # {} \/ \E k \in Slots : ~valid(k)
wr_ptr(w) == IF wbuffer_hit(w) # {} THEN Min(wbuffer_hit(w)) ELSE Min({k \in Slots : ~valid(k)})

\* Return of a transaction: what may be written to the cache.
rtrn_id == Head(rtrn_fifo)
rtrn_ptr == tx_stat[rtrn_id].ptr
wr_data_be_o == tx_stat[rtrn_id].be \ wbuffer[rtrn_ptr].dirty
returned == rtrn_fifo # <<>> /\ wbuffer[rtrn_ptr].checked
wr_req_o == returned /\ wr_data_be_o # {} /\ wbuffer[rtrn_ptr].hit_oh
evict(wr_ack_i) == returned /\ (wr_req_o => wr_ack_i)

\* Mutant: only the present cycle is looked at.
inval_hit_now(wr_cl_vld_i) == wr_cl_vld_i
\* A line is written or invalidated, now or in the cycle before.  All lines
\* of the model share one index.
inval_hit(wr_cl_vld_i) == wr_cl_vld_i \/ wr_cl_vld_q

-----------------------------------------------------------------------------
(* p_buffer and p_tx_stat: the parts in the order of the code, each on the *)
(* entry the part before it left.                                          *)
LookedUp(k, e) ==
    IF check_q1.ptr = k /\ valid(k) THEN [e EXCEPT !.checked = TRUE, !.hit_oh = rd_hit_oh_q] ELSE e
Invalidated(e, wr_cl_vld_i) ==
    IF inval_hit(wr_cl_vld_i) /\ e.valid # {} THEN [e EXCEPT !.checked = FALSE] ELSE e
\* Mutant: bytes written again while they were in flight stay blocked.
Evicted_blocked(k, e, wr_ack_i) ==
    IF ~(evict(wr_ack_i) /\ k = rtrn_ptr) THEN e
    ELSE LET be == tx_stat[rtrn_id].be \ wbuffer[k].dirty
             left == [e EXCEPT !.txblock = @ \ be, !.valid = @ \ be]
         IN IF left.valid = {} THEN Free ELSE left
Evicted(k, e, wr_ack_i) ==
    IF ~(evict(wr_ack_i) /\ k = rtrn_ptr) THEN e
    ELSE LET be == tx_stat[rtrn_id].be
             left == [e EXCEPT !.txblock = @ \ be, !.valid = @ \ (be \ wbuffer[k].dirty)]
         IN IF left.valid = {} THEN Free ELSE left
Sent(k, e, dirty_ptr, miss_ack_i) ==
    IF ~(miss_ack_i /\ k = dirty_ptr) THEN e
    ELSE [e EXCEPT !.dirty = @ \ tx_be(k), !.txblock = @ \cup tx_be(k)]
Written(k, e, st) ==
    IF st.word = NoWord \/ k # wr_ptr(st.word) THEN e
    ELSE [e EXCEPT !.checked = FALSE, !.wtag = st.word, !.valid = @ \cup st.be,
                   !.dirty = @ \cup st.be]

\* st: the accepted store; rtrn: id of an acknowledged transaction or None;
\* check: entry whose look-up the cache took this cycle or None.
WbufferCycle(st, dirty_ptr, miss_ack_i, rtrn, check, rd_hit_oh_i, wr_cl_vld_i, wr_ack_i) ==
    /\ wbuffer' = [k \in Slots |->
         Written(k, Sent(k, Evicted(k, Invalidated(LookedUp(k, wbuffer[k]), wr_cl_vld_i),
                                    wr_ack_i), dirty_ptr, miss_ack_i), st)]
    /\ tx_stat' = [t \in TxIds |->
         IF miss_ack_i /\ t = tx_id THEN [vld |-> TRUE, ptr |-> dirty_ptr, be |-> tx_be(dirty_ptr)]
         ELSE IF evict(wr_ack_i) /\ t = rtrn_id THEN NoTx ELSE tx_stat[t]]
    /\ rtrn_fifo' = (IF evict(wr_ack_i) THEN Tail(rtrn_fifo) ELSE rtrn_fifo)
                    \o (IF rtrn = None THEN <<>> ELSE <<rtrn>>)
    /\ check_q' = (IF check = None THEN NoCheck
                   ELSE [ptr |-> check, tag |-> Line(wbuffer[check].wtag)])
    /\ check_q1' = check_q
    /\ rd_hit_oh_q' = (check_q.ptr # None /\ rd_hit_oh_i)
    /\ wr_cl_vld_q' = wr_cl_vld_i
    /\ dirty_lock' = IF dirty # {} /\ ~miss_ack_i THEN dirty_ptr ELSE None

\* Assertions of the module.
ByteStates == \A k \in Slots, b \in Bytes :
    LET e == wbuffer[k]
    IN b \in e.valid <=> (b \in e.dirty \/ b \in e.txblock)
OneEntryPerWord == \A w \in Words : Cardinality(wbuffer_hit(w)) <= 1
=============================================================================
