------------------------------ MODULE DataCache -----------------------------
(***************************************************************************)
(* wt_dcache.sv: the write-through data cache, composed of its read port,  *)
(* write buffer, miss unit and arrays, between the core and memory.  One   *)
(* step is one clock cycle.                                                *)
(*                                                                         *)
(* The core (external) follows the load interlock and in-order commit: no  *)
(* store to the word of a load that is outstanding and not killed, no      *)
(* store while an atomic is requested, and a new atomic only after the     *)
(* loads that were outstanding during the last one are gone.  Behind an    *)
(* atomic at most MaxLoadsBehindAmo new loads are requested.  Loads that   *)
(* overlap an atomic are younger than it and flushed afterwards: what they *)
(* return is not looked at (tainted).                                      *)
(*                                                                         *)
(* Memory (external, behind wt_axi_adapter.sv) takes requests in order,    *)
(* acknowledges stores in any order, and answers an atomic by an           *)
(* invalidation followed by the result.  A read sees memory as of its      *)
(* acceptance and a store takes effect when it is acknowledged, which are  *)
(* the least favourable moments.                                           *)
(*                                                                         *)
(*   mem_fresh   bytes of memory that hold the latest store                *)
(*   flight      stores memory has accepted and not acknowledged           *)
(*   load        the read memory has accepted: fresh bytes of its data      *)
(*   amo_phase   atomic in memory: "none", "inv", "ack"                    *)
(*   enable_i, amo_req   inputs of the miss unit                           *)
(*   work        what the software does (chosen once)                      *)
(*   tainted, behind, stale   observation of the core: see above; stale is *)
(*               set when a load is answered with an outdated byte         *)
(***************************************************************************)
EXTENDS WriteBuffer, MissUnit, ReadCtrl

CONSTANTS Workloads,         \* records: loads, the words that are loaded; stores,
                             \* the words and bytes that are stored; enable, the
                             \* cache is switched on and off; atomics are executed
          MaxLoadsBehindAmo

ASSUME WorkloadsAssumption == \A w \in Workloads :
    w.loads \subseteq Words /\ w.stores \subseteq [word : Words, be : SUBSET Bytes]

VARIABLES mem_fresh, flight, load, amo_phase, enable_i, amo_req, tainted, behind, stale, work

envvars == <<mem_fresh, flight, load, amo_phase, enable_i, amo_req, tainted, behind, stale, work>>
vars == <<wbvars, muvars, rcvars, cmvars, envvars>>

AllBytes == Words \X Bytes
NoStore == [word |-> NoWord, be |-> {}]
NoRtrn == [rtype |-> "none", tid |-> None]

Init ==
    /\ WbufferInit /\ MissInit /\ CtrlInit /\ CacheInit
    /\ mem_fresh = AllBytes /\ flight = {} /\ load = {} /\ amo_phase = "none"
    /\ work \in Workloads
    /\ enable_i \in (IF work.enable THEN BOOLEAN ELSE {TRUE})
    /\ amo_req = FALSE /\ tainted = FALSE /\ behind = 0 /\ stale = FALSE

\* What memory may return in this cycle.
Returns ==
    {NoRtrn}
    \cup (IF mshr_vld_q THEN {[rtype |-> "load", tid |-> None]} ELSE {})
    \cup {[rtype |-> "store", tid |-> s.tid] : s \in flight}
    \cup (IF amo_phase = "inv" THEN {[rtype |-> "inv", tid |-> None]} ELSE {})
    \cup (IF amo_phase = "ack" THEN {[rtype |-> "amo", tid |-> None]} ELSE {})

\* The core: ld is requested, st is stored, kill ends the outstanding load.
CoreMay(ld, kill, st) ==
    /\ st.word # NoWord => /\ ~amo_req /\ rdy(st.word) /\ st.word # ld
                           /\ Outstanding /\ ~kill => st.word # rc_word
    /\ kill => Outstanding
    /\ ld # NoWord => ~(amo_req /\ behind = MaxLoadsBehindAmo)

\* One clock cycle.  ack: memory accepts a request; rt: what it returns;
\* dp: entry the write buffer offers; ck: entry it looks up.
Cycle(ld, kill, st, ack, rt, dp, ck) ==
    LET load_ack  == rt.rtype = "load"
        store_ack == rt.rtype = "store"
        amo_ack   == rt.rtype = "amo"
        clear     == wr_cl_clear(rt.rtype = "inv")
        refill    == load_ack /\ ~mshr_nc
        wr_cl_vld == load_ack \/ clear
        rd_req    == rd_req_o(ld # NoWord)
        rdack     == rd_ack(rd_req, wr_cl_vld)
        ckack     == check_ack(tocheck, rd_req, wr_cl_vld)
        hit_rd    == r_line = Line(rc_word)
        hit       == Hit(kill, wr_cl_vld, hit_rd, enable_q)
        gnt       == data_gnt(ld # NoWord, kill, rdack, wr_cl_vld, hit_rd, enable_q)
        rd_word   == IF gnt THEN ld ELSE rc_word
        rd        == ctrl_miss_req_o
        wr        == miss_req_o
        tx_lines  == {Line(wbuffer[tx_stat[t].ptr].wtag) : t \in TxIds \ free_tx}
        req       == mem_data_req_o(rd, wr, Line(rc_word), IF wr THEN Line(wbuffer[dp].wtag) ELSE None,
                                    tx_lines, enable_i, amo_req)
        replay    == miss_replay_o(rd, wr, Line(rc_word), enable_i, amo_req)
        sent      == req = "store" /\ ack
        allocate  == req = "load" /\ ack
        wr_word   == IF wr_req_o THEN wbuffer[rtrn_ptr].wtag ELSE NoWord
        wrack     == wr_ack_o(wr_req_o, wr_word, clear \/ refill, rdack, rd_word)
        done      == {s \in flight : store_ack /\ s.tid = rt.tid}
        over      == IF amo_ack THEN AllBytes ELSE Of(st.word, st.be)
        base      == IF load_ack THEN load ELSE r_fresh
        answer    == answered(kill, wr_cl_vld, hit_rd, enable_q, load_ack)
    IN /\ ack => req # "none"
       /\ ckack <=> ck # None
       /\ WbufferCycle(st, dp, sent, IF store_ack THEN rt.tid ELSE None, ck,
                       r_line = check_q.tag, wr_cl_vld, wrack)
       /\ MissCycle(rd, Line(rc_word), ~enable_q, req, ack, load_ack, empty_o, enable_i, amo_req,
                    amo_ack)
       /\ CtrlCycle(ld, gnt, kill, rdack, wr_cl_vld, hit, allocate, replay, load_ack)
       /\ CacheCycle(refill, mshr_line, load, clear, IF rdack THEN rd_word ELSE NoWord, ckack,
                     [word |-> wr_word, be |-> IF wrack THEN wr_data_be_o ELSE {},
                      fresh |-> Of(wr_word, Bytes)], over)
       /\ mem_fresh' = IF amo_ack THEN AllBytes
                       ELSE ((mem_fresh \ UNION {Of(s.word, s.be) : s \in done})
                             \cup UNION {s.fresh : s \in done}) \ over
       /\ flight' = {[s EXCEPT !.fresh = @ \ over] : s \in flight \ done}
                    \cup (IF sent THEN {[tid |-> tx_id, word |-> wbuffer[dp].wtag, be |-> tx_be(dp),
                                         fresh |-> Of(wbuffer[dp].wtag, tx_be(dp)) \ over]} ELSE {})
       /\ load' = IF allocate THEN (mem_fresh \cap OfLine(Line(rc_word))) \ over
                  ELSE IF load_ack THEN {} ELSE load \ over
       /\ amo_phase' = CASE req = "amo" /\ ack -> "inv" [] rt.rtype = "inv" -> "ack"
                         [] amo_ack -> "none" [] OTHER -> amo_phase
       /\ stale' = (answer /\ ~tainted /\ ~amo_req
                    /\ ~(Of(rc_word, Bytes \ wbuffer_be(rc_word)) \subseteq base))
       /\ amo_req' \in (IF amo_req THEN {~amo_ack}
                        ELSE IF work.atomics /\ ~tainted /\ st.word = NoWord THEN BOOLEAN ELSE {FALSE})
       /\ enable_i' \in (IF work.enable /\ ~amo_req THEN BOOLEAN ELSE {enable_i})
       /\ tainted' = (rc_state' \notin {"IDLE", "KILL_MISS", "KILL_MISS_ACK"}
                      /\ (amo_req \/ (tainted /\ ~gnt)))
       /\ UNCHANGED work
       /\ behind' = IF ~amo_req THEN 0 ELSE IF gnt THEN behind + 1 ELSE behind

\* The choices of i_dirty_rr.
Offers(S) == IF S = {} THEN {None} ELSE S

Step(kill, ack, rt, ck) ==
    \E ld \in work.loads \cup {NoWord}, st \in work.stores \cup {NoStore}, dp \in Offers(dirty_ptrs) :
        CoreMay(ld, kill, st) /\ Cycle(ld, kill, st, ack, rt, dp, ck)

Next == \E kill \in BOOLEAN, ack \in BOOLEAN, rt \in Returns, ck \in tocheck \cup {None} :
            Step(kill, ack, rt, ck)

Spec == Init /\ [][Next]_vars

\* Fairness: the clock runs, memory takes requests and answers each one, and
\* the round-robin arbiter i_clean_rr reaches every entry that asks.
Accept == \E kill \in BOOLEAN, rt \in Returns, ck \in tocheck \cup {None} : Step(kill, TRUE, rt, ck)
Return(rtype, tid) == \E kill \in BOOLEAN, ack \in BOOLEAN, ck \in tocheck \cup {None},
                         rt \in {r \in Returns : r.rtype = rtype /\ r.tid = tid} : Step(kill, ack, rt, ck)
Check(k) == k \in tocheck /\ \E kill \in BOOLEAN, ack \in BOOLEAN, rt \in Returns : Step(kill, ack, rt, k)

FairSpec ==
    /\ Spec /\ WF_vars(Next) /\ WF_vars(Accept)
    /\ \A r \in {"load", "inv", "amo"} : WF_vars(Return(r, None))
    /\ \A t \in TxIds : WF_vars(Return("store", t))
    /\ \A k \in Slots : WF_vars(Check(k))

-----------------------------------------------------------------------------
(* Properties.                                                             *)
TypeOK ==
    /\ \A k \in Slots : wbuffer[k] \in
         [wtag : Words \cup {NoWord}, valid : SUBSET Bytes, dirty : SUBSET Bytes,
          txblock : SUBSET Bytes, checked : BOOLEAN, hit_oh : BOOLEAN]
    /\ \A t \in TxIds : tx_stat[t] \in [vld : BOOLEAN, ptr : Slots, be : SUBSET Bytes]
    /\ Len(rtrn_fifo) <= DCACHE_MAX_TX /\ \A i \in 1..Len(rtrn_fifo) : rtrn_fifo[i] \in TxIds
    /\ mu_state \in MuStates /\ rc_state \in RcStates /\ rc_word \in Words \cup {NoWord}
    /\ c_line \in Lines \cup {None} /\ c_fresh \subseteq AllBytes /\ mem_fresh \subseteq AllBytes
    /\ amo_phase \in {"none", "inv", "ack"} /\ (mshr_vld_q => mshr_line \in Lines)

\* The transactions, the returned ids and the bytes in flight agree: every
\* transaction is either in memory or waits to be released, once, and covers
\* exactly bytes of its entry that are marked as sent.
Bookkeeping ==
    /\ ByteStates /\ OneEntryPerWord
    /\ \A t \in TxIds :
         Cardinality({s \in flight : s.tid = t}) + Cardinality({i \in 1..Len(rtrn_fifo) : rtrn_fifo[i] = t})
           = IF tx_stat[t].vld THEN 1 ELSE 0
    /\ \A k \in Slots : wbuffer[k].txblock = UNION {tx_stat[t].be : t \in {u \in TxIds : tx_stat[u].vld /\ tx_stat[u].ptr = k}}

\* A load that is not flushed returns the latest store to every byte.
LoadFresh == ~stale

\* A byte that left the write buffer is up to date in memory and, if its
\* line is cached, in the cache.
Coherent == \A w \in Words, b \in Bytes :
    (\A k \in wbuffer_hit(w) : b \notin wbuffer[k].valid)
      => <<w, b>> \in mem_fresh /\ (c_line = Line(w) => <<w, b>> \in c_fresh)

\* A line is never read from and written to memory at the same time.
NoReadWriteOverlap == mshr_vld_q => \A s \in flight : Line(s.word) # mshr_line

\* An atomic operates on memory that holds every earlier store.
AmoOrdered == amo_phase # "none" => mem_fresh = AllBytes /\ ~mshr_vld_q

\* An atomic that is requested is performed, whatever the write buffer and
\* the read port were doing.
AmoServed == amo_req ~> ~amo_req

\* A read that missed, replays or was killed frees the read port.
PortFreed == (rc_state \notin {"IDLE", "READ", "REPLAY_READ"}) ~> (rc_state \in {"IDLE", "READ"})
=============================================================================
