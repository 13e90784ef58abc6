-------------------------- MODULE DataCacheProofs ---------------------------
(***************************************************************************)
(* The data cache is coherent, for every set of words and bytes, depth of  *)
(* the write buffer, number of transactions and workload.                  *)
(*                                                                         *)
(* The inductive invariant says that a byte that is out of date anywhere   *)
(* below the write buffer (memory, the line in the array, the read in      *)
(* flight, the read register) is still in the buffer.  A byte leaves the   *)
(* buffer only when its transaction is released, so the invariant has to   *)
(* know where each transaction is, that the bytes it covers are those      *)
(* blocked in its entry, that no line is read while one of its words is    *)
(* in flight, and that an entry marked as checked knows whether its line   *)
(* is cached at that moment.                                               *)
(*                                                                         *)
(* The names of the signals of a cycle: st the store, dp the entry that is *)
(* offered, snt its request is accepted, rt what memory returns, ck the    *)
(* entry that is looked up, wcv a line is written, wrk the word write is   *)
(* accepted, alc a miss is accepted, clr, rfl the line write clears or     *)
(* refills, rdk, rdw the read that is accepted and its word, gnt the load  *)
(* ld is granted, rpl the miss has to be replayed.                         *)
(***************************************************************************)
EXTENDS DataCache, FiniteSetTheorems, SequenceTheorems, WellFoundedInduction, TLAPS

Entry == [wtag : Words \cup {NoWord}, valid : SUBSET Bytes, dirty : SUBSET Bytes,
          txblock : SUBSET Bytes, checked : BOOLEAN, hit_oh : BOOLEAN]
Transaction == [vld : BOOLEAN, ptr : Slots, be : SUBSET Bytes]
LookUp == [ptr : Slots \cup {None}, tag : Lines \cup {None}]
Request == [tid : TxIds, word : Words, be : SUBSET Bytes, fresh : SUBSET AllBytes]

Typed ==
    /\ wbuffer \in [Slots -> Entry]
    /\ tx_stat \in [TxIds -> Transaction]
    /\ rtrn_fifo \in Seq(TxIds)
    /\ check_q \in LookUp /\ check_q1 \in LookUp
    /\ rd_hit_oh_q \in BOOLEAN /\ wr_cl_vld_q \in BOOLEAN
    /\ dirty_lock \in Slots \cup {None}
    /\ mu_state \in MuStates /\ mshr_vld_q \in BOOLEAN /\ mshr_line \in Lines \cup {None}
    /\ rc_state \in RcStates /\ rc_word \in Words \cup {NoWord} /\ rd_ack_q \in BOOLEAN
    /\ c_line \in Lines \cup {None} /\ c_fresh \subseteq AllBytes
    /\ r_line \in Lines \cup {None} /\ r_fresh \subseteq AllBytes
    /\ mem_fresh \subseteq AllBytes /\ flight \subseteq Request /\ load \subseteq AllBytes
    /\ amo_phase \in {"none", "inv", "ack"} /\ amo_req \in BOOLEAN /\ work \in Workloads

\* Transactions in use, what they refer to, and the bytes the buffer holds.
Busy == {t \in TxIds : tx_stat[t].vld}
Ptr(t) == tx_stat[t].ptr
Be(t) == tx_stat[t].be
Tag(k) == wbuffer[k].wtag
TxLine(t) == Line(Tag(Ptr(t)))
Buffered(w, b) == \E k \in Slots : Tag(k) = w /\ b \in wbuffer[k].valid

\* A valid byte is dirty or in flight, and a word has one entry.
Entries ==
    /\ \A k \in Slots : wbuffer[k].valid = wbuffer[k].dirty \cup wbuffer[k].txblock
    /\ \A k \in Slots : valid(k) => Tag(k) \in Words
    /\ \A k, l \in Slots : valid(k) /\ valid(l) /\ Tag(k) = Tag(l) => k = l

\* An entry with bytes in flight has one transaction, for exactly those bytes.
Transactions ==
    /\ \A t \in Busy : Be(t) # {} /\ wbuffer[Ptr(t)].txblock = Be(t)
    /\ \A t, u \in Busy : Ptr(t) = Ptr(u) => t = u
    /\ \A k \in Slots : wbuffer[k].txblock # {} => \E t \in Busy : Ptr(t) = k

\* A transaction in use is in memory or in rtrn_fifo, and there once.
Places ==
    /\ \A s \in flight : s.tid \in Busy /\ s.be = Be(s.tid) /\ s.word = Tag(Ptr(s.tid))
    /\ \A s, r \in flight : s.tid = r.tid => s = r
    /\ \A i, j \in 1..Len(rtrn_fifo) : rtrn_fifo[i] = rtrn_fifo[j] => i = j
    /\ \A i \in 1..Len(rtrn_fifo) : rtrn_fifo[i] \in Busy
    /\ \A i \in 1..Len(rtrn_fifo), s \in flight : rtrn_fifo[i] # s.tid
    /\ \A t \in Busy : (\E s \in flight : s.tid = t) \/ (\E i \in 1..Len(rtrn_fifo) : rtrn_fifo[i] = t)

\* The arbiter is locked on an entry that can be sent; a request that waits is
\* still allowed; the read port waits exactly while the miss register is in
\* use; no store to the line that is read is in flight.
Machines ==
    /\ dirty_lock # None => dirty_lock \in dirty
    /\ mu_state = "STORE_WAIT" =>
         dirty_lock # None /\ free_tx # {} /\ (mshr_vld_q => Line(Tag(dirty_lock)) # mshr_line)
    /\ mu_state = "LOAD_WAIT" =>
         rc_state \in {"MISS_REQ", "KILL_MISS_ACK"} /\ \A t \in Busy : TxLine(t) # Line(rc_word)
    /\ mshr_vld_q <=> rc_state \in {"MISS_WAIT", "KILL_MISS"}
    /\ mshr_vld_q => mshr_line = Line(rc_word) /\ \A t \in Busy : TxLine(t) # mshr_line
    /\ rc_state # "IDLE" => rc_word \in Words

\* An atomic runs alone and leaves nothing cached.
Atomics ==
    /\ mu_state \in {"AMO", "AMO_WAIT"} => amo_req /\ empty_o /\ ~mshr_vld_q
    /\ amo_phase # "none" <=> mu_state = "AMO_WAIT"
    /\ amo_phase = "ack" => c_line = None

\* What memory has, will have once a store in flight arrives, and has read is
\* up to date but for the bytes in the buffer.
Memory ==
    /\ \A s \in flight : \A b \in s.be \ wbuffer[Ptr(s.tid)].dirty : <<s.word, b>> \in s.fresh
    /\ \A t \in TxIds, i \in 1..Len(rtrn_fifo) : rtrn_fifo[i] = t =>
         \A b \in Be(t) \ wbuffer[Ptr(t)].dirty : <<Tag(Ptr(t)), b>> \in mem_fresh
    /\ \A w \in Words, b \in Bytes : <<w, b>> \in mem_fresh \/ Buffered(w, b)
    /\ mshr_vld_q => \A w \in Words, b \in Bytes :
         Line(w) = mshr_line => <<w, b>> \in load \/ Buffered(w, b)

\* A finished look-up, and one under way that is still going to be used, tells
\* whether the line is cached now.
LookUps ==
    /\ \A k \in Slots : valid(k) /\ wbuffer[k].checked => (wbuffer[k].hit_oh <=> c_line = Line(Tag(k)))
    /\ \A k \in Slots : check_q.ptr = k => /\ valid(k) /\ check_q.tag = Line(Tag(k))
                                           /\ r_line = c_line /\ ~wr_cl_vld_q
    /\ \A k \in Slots : check_q1.ptr = k /\ valid(k) => check_q1.tag = Line(Tag(k))
    /\ check_q1.ptr # None /\ ~wr_cl_vld_q => (rd_hit_oh_q <=> c_line = check_q1.tag)

\* What the arrays hold and deliver is up to date but for the bytes in the buffer.
Cached ==
    /\ \A w \in Words, b \in Bytes : c_line = Line(w) => <<w, b>> \in c_fresh \/ Buffered(w, b)
    /\ Reads /\ rd_ack_q /\ r_line = Line(rc_word) =>
         \A b \in Bytes : <<rc_word, b>> \in r_fresh \/ Buffered(rc_word, b)
    /\ ~stale

IInv == /\ Typed /\ Entries /\ Transactions /\ Places /\ Machines /\ Atomics
        /\ Memory /\ LookUps /\ Cached

-----------------------------------------------------------------------------
\* The least element of a set of numbers, which the arbiters of the buffer pick.
LEMMA MinIn ==
    ASSUME NEW S \in SUBSET Nat, S # {}
    PROVE  Min(S) \in S /\ \A y \in S : Min(S) <= y
<1>. DEFINE Less == {p \in Nat \X Nat : p[1] < p[2]}
<1>1. IsWellFoundedOn(Less, Nat)
  BY NatLessThanWellFounded DEF OpToRel
<1>4. \A x, y \in Nat : <<y, x>> \notin Less => x <= y
  OBVIOUS
<1>. HIDE DEF Less
<1>2. \E x \in S : \A y \in S : ~(<<y, x>> \in Less)
  BY <1>1, WFMin
<1>3. \E x \in S : \A y \in S : x <= y
  BY <1>2, <1>4
<1>. QED  BY <1>3 DEF Min

\* A word is a line and an offset; neither is the value that stands for none.
LEMMA WordShape ==
    ASSUME NEW w \in Words
    PROVE  w # NoWord /\ Line(w) \in Nat /\ Offset(w) \in Nat /\ w = <<Line(w), Offset(w)>>
BY GeometryAssumption DEF NoWord, None, Line, Offset

\* The stores the core may hand over.
Arrives(st) == st = NoStore \/ (st \in [word : Words, be : SUBSET Bytes] /\ rdy(st.word))
\* Entry k takes the store.
Takes(k, st) == st.word # NoWord /\ k = wr_ptr(st.word)
\* Entry k loses the bytes of the transaction that is released.
Loses(k, wrk) == evict(wrk) /\ k = rtrn_ptr

\* A cycle of the write buffer as the cache drives it.
BufferCycle(st, dp, snt, rtn, ck, wcv, wrk) ==
    /\ Arrives(st)
    /\ snt \in BOOLEAN /\ (snt => dp \in dirty /\ free_tx # {})
    /\ ck \in tocheck \cup {None}
    /\ wcv \in BOOLEAN /\ wrk \in BOOLEAN
    /\ WbufferCycle(st, dp, snt, rtn, ck, r_line = check_q.tag, wcv, wrk)

\* wr_ptr: an accepted store goes to the entry of its word, or to a free
\* entry if no entry has it.
LEMMA StorePlace ==
    ASSUME Typed, NEW st, Arrives(st), st.word # NoWord
    PROVE  /\ wr_ptr(st.word) \in Slots /\ st.word \in Words /\ st.be \in SUBSET Bytes
           /\ \/ valid(wr_ptr(st.word)) /\ Tag(wr_ptr(st.word)) = st.word
              \/ ~valid(wr_ptr(st.word)) /\ \A k \in Slots : valid(k) => Tag(k) # st.word
<1>1. st \in [word : Words, be : SUBSET Bytes] /\ rdy(st.word)
  BY DEF Arrives, NoStore
<1>2. Slots \subseteq Nat
  BY DEF Slots
<1>3. CASE wbuffer_hit(st.word) # {}
  <2>1. Min(wbuffer_hit(st.word)) \in wbuffer_hit(st.word)
    BY <1>2, <1>3, MinIn DEF wbuffer_hit
  <2>. QED  BY <1>1, <1>3, <2>1 DEF wbuffer_hit, wr_ptr, Tag
<1>4. CASE wbuffer_hit(st.word) = {}
  <2>1. {k \in Slots : ~valid(k)} # {}
    BY <1>1, <1>4 DEF rdy
  <2>2. Min({k \in Slots : ~valid(k)}) \in {k \in Slots : ~valid(k)}
    BY <1>2, <2>1, MinIn
  <2>. QED  BY <1>1, <1>4, <2>2 DEF wbuffer_hit, wr_ptr, Tag
<1>. QED  BY <1>3, <1>4

\* tx_be: what is sent is a nonempty part of the dirty bytes of an entry that
\* has nothing in flight.
LEMMA SentBytes ==
    ASSUME Typed, NEW k \in dirty
    PROVE  /\ k \in Slots /\ valid(k) /\ wbuffer[k].txblock = {}
           /\ tx_be(k) # {} /\ tx_be(k) \subseteq wbuffer[k].dirty \cap wbuffer[k].valid
<1>1. /\ k \in Slots /\ wbuffer[k].txblock = {} /\ bdirty(k) # {}
      /\ bdirty(k) = wbuffer[k].dirty \cap wbuffer[k].valid
  BY DEF dirty, bdirty
<1>2. bdirty(k) \subseteq Bytes
  BY <1>1 DEF Typed, Entry
<1>3. Min(bdirty(k)) \in bdirty(k)
  BY <1>1, <1>2, MinIn, GeometryAssumption
<1>. QED  BY <1>1, <1>2, <1>3 DEF tx_be, valid

\* The transaction that is released (evict) is the head of rtrn_fifo, is in
\* use, and covers exactly the blocked bytes of its entry.
LEMMA ReleasedTx ==
    ASSUME Typed, Places, Transactions, NEW wrk, evict(wrk)
    PROVE  /\ rtrn_fifo # <<>> /\ rtrn_id = rtrn_fifo[1] /\ 1 \in 1..Len(rtrn_fifo)
           /\ rtrn_id \in Busy /\ rtrn_ptr \in Slots /\ Ptr(rtrn_id) = rtrn_ptr
           /\ Be(rtrn_id) # {} /\ wbuffer[rtrn_ptr].txblock = Be(rtrn_id)
           /\ wbuffer[rtrn_ptr].checked
<1>1. rtrn_fifo # <<>> /\ wbuffer[rtrn_ptr].checked
  BY DEF evict, returned
<1>2. 1 \in 1..Len(rtrn_fifo) /\ rtrn_id = rtrn_fifo[1]
  BY <1>1 DEF Typed, rtrn_id
<1>3. rtrn_id \in Busy
  BY <1>2 DEF Places
<1>4. rtrn_id \in TxIds /\ tx_stat[rtrn_id] \in Transaction
  BY <1>3 DEF Busy, Typed
<1>. QED  BY <1>1, <1>2, <1>3, <1>4 DEF Transactions, Ptr, Be, rtrn_ptr, Transaction

\* p_buffer, all parts together: the fields of an entry after a cycle.
LEMMA EntryNext ==
    ASSUME Typed, Entries, Transactions, Places,
           NEW st, NEW dp, NEW snt, NEW rtn, NEW ck, NEW wcv, NEW wrk,
           BufferCycle(st, dp, snt, rtn, ck, wcv, wrk), NEW k \in Slots
    PROVE  /\ wbuffer'[k] \in Entry
           /\ wbuffer'[k].valid = (IF Loses(k, wrk) THEN wbuffer[k].dirty ELSE wbuffer[k].valid)
                                  \cup (IF Takes(k, st) THEN st.be ELSE {})
           /\ wbuffer'[k].dirty = (IF snt /\ k = dp THEN wbuffer[k].dirty \ tx_be(k) ELSE wbuffer[k].dirty)
                                  \cup (IF Takes(k, st) THEN st.be ELSE {})
           /\ wbuffer'[k].txblock = (IF Loses(k, wrk) THEN {}
                                     ELSE IF snt /\ k = dp THEN tx_be(k) ELSE wbuffer[k].txblock)
           /\ wbuffer'[k].wtag = (IF Takes(k, st) THEN st.word
                                  ELSE IF Loses(k, wrk) /\ wbuffer[k].dirty = {} THEN NoWord
                                  ELSE wbuffer[k].wtag)
           /\ wbuffer'[k].checked =>
                /\ ~Takes(k, st) /\ ~(valid(k) /\ inval_hit(wcv))
                /\ ~(Loses(k, wrk) /\ wbuffer[k].dirty = {})
                /\ wbuffer[k].checked \/ (check_q1.ptr = k /\ valid(k))
                /\ wbuffer'[k].hit_oh = IF check_q1.ptr = k /\ valid(k) THEN rd_hit_oh_q
                                        ELSE wbuffer[k].hit_oh
<1>. DEFINE e0 == wbuffer[k]
            e1 == LookedUp(k, e0)
            e2 == Invalidated(e1, wcv)
            e3 == Evicted(k, e2, wrk)
            e4 == Sent(k, e3, dp, snt)
            e5 == Written(k, e4, st)
<1>0. wbuffer'[k] = e5
  BY DEF BufferCycle, WbufferCycle
<1>t. /\ e0 \in Entry /\ rd_hit_oh_q \in BOOLEAN /\ e0.valid = e0.dirty \cup e0.txblock
      /\ snt \in BOOLEAN /\ Arrives(st) /\ (snt => dp \in dirty)
  BY DEF BufferCycle, Typed, Entries
<1>1. /\ e1 \in Entry /\ e1.valid = e0.valid /\ e1.dirty = e0.dirty /\ e1.txblock = e0.txblock
      /\ e1.wtag = e0.wtag
      /\ e1.checked => e0.checked \/ (check_q1.ptr = k /\ valid(k))
      /\ e1.hit_oh = IF check_q1.ptr = k /\ valid(k) THEN rd_hit_oh_q ELSE e0.hit_oh
  <2>. HIDE DEF e0
  <2>. QED  BY <1>t DEF LookedUp, Entry
<1>. HIDE DEF e1
<1>2. /\ e2 \in Entry /\ e2.valid = e1.valid /\ e2.dirty = e1.dirty /\ e2.txblock = e1.txblock
      /\ e2.wtag = e1.wtag /\ e2.hit_oh = e1.hit_oh
      /\ e2.checked => e1.checked /\ ~(e1.valid # {} /\ inval_hit(wcv))
  BY <1>1 DEF Invalidated, Entry
<1>. HIDE DEF e2
<1>3. /\ e3 \in Entry
      /\ e3.valid = IF Loses(k, wrk) THEN e0.dirty ELSE e0.valid
      /\ e3.dirty = e0.dirty
      /\ e3.txblock = IF Loses(k, wrk) THEN {} ELSE e0.txblock
      /\ e3.wtag = IF Loses(k, wrk) /\ e0.dirty = {} THEN NoWord ELSE e0.wtag
      /\ e3.checked => e2.checked /\ ~(Loses(k, wrk) /\ e0.dirty = {}) /\ e3.hit_oh = e2.hit_oh
  <2>1. CASE ~Loses(k, wrk)
    <3>1. e3 = e2
      BY <2>1 DEF Loses, Evicted
    <3>. QED  BY <2>1, <3>1, <1>1, <1>2
  <2>2. CASE Loses(k, wrk)
    <3>. DEFINE be == tx_stat[rtrn_id].be
                left == [e2 EXCEPT !.txblock = @ \ be, !.valid = @ \ (be \ e0.dirty)]
    <3>1. e3 = IF left.valid = {} THEN Free ELSE left
      BY <2>2 DEF Loses, Evicted
    <3>2. be = e0.txblock
      BY <2>2, ReleasedTx DEF Loses, Be
    <3>. HIDE DEF e3, e0, be
    <3>3. /\ left.valid = e0.dirty /\ left.dirty = e0.dirty /\ left.txblock = {}
          /\ left.wtag = e0.wtag /\ left.checked = e2.checked /\ left.hit_oh = e2.hit_oh
          /\ left \in Entry
      BY <1>t, <1>1, <1>2, <3>2 DEF Entry
    <3>. HIDE DEF left
    <3>4. CASE e0.dirty = {}
      <4>1. e3 = Free
        BY <3>1, <3>3, <3>4
      <4>. QED  BY <2>2, <3>4, <4>1 DEF Free, Entry, NoWord
    <3>5. CASE e0.dirty # {}
      <4>1. e3 = left
        BY <3>1, <3>3, <3>5
      <4>. QED  BY <2>2, <3>3, <3>5, <4>1
    <3>. QED  BY <3>4, <3>5
  <2>. QED  BY <2>1, <2>2
<1>. HIDE DEF e3
<1>4. /\ e4 \in Entry /\ e4.valid = e3.valid
      /\ e4.dirty = (IF snt /\ k = dp THEN e0.dirty \ tx_be(k) ELSE e0.dirty)
      /\ e4.txblock = (IF Loses(k, wrk) THEN {} ELSE IF snt /\ k = dp THEN tx_be(k) ELSE e0.txblock)
      /\ e4.wtag = e3.wtag /\ e4.checked = e3.checked /\ e4.hit_oh = e3.hit_oh
  <2>1. CASE ~(snt /\ k = dp)
    BY <2>1, <1>3 DEF Sent
  <2>2. CASE snt /\ k = dp
    <3>1. e0.txblock = {} /\ tx_be(k) \subseteq e0.dirty
      BY <2>2, <1>t, SentBytes
    <3>2. ~Loses(k, wrk)
      BY <3>1, ReleasedTx DEF Loses
    <3>3. e4 = [e3 EXCEPT !.dirty = @ \ tx_be(k), !.txblock = @ \cup tx_be(k)]
      BY <2>2 DEF Sent
    <3>. HIDE DEF e4, e0
    <3>. QED  BY <1>t, <1>3, <2>2, <3>1, <3>2, <3>3 DEF Entry
  <2>. QED  BY <2>1, <2>2
<1>. HIDE DEF e4
<1>5. CASE ~Takes(k, st)
  <2>1. e5 = e4
    BY <1>5 DEF Takes, Written
  <2>. QED  BY <1>0, <1>1, <1>2, <1>3, <1>4, <1>5, <2>1 DEF valid
<1>6. CASE Takes(k, st)
  <2>1. e5 = [e4 EXCEPT !.checked = FALSE, !.wtag = st.word, !.valid = @ \cup st.be,
                        !.dirty = @ \cup st.be]
    BY <1>6 DEF Takes, Written
  <2>2. st.word \in Words /\ st.be \in SUBSET Bytes
    BY <1>6, <1>t, StorePlace DEF Takes
  <2>3. /\ e5 \in Entry /\ e5.valid = e4.valid \cup st.be /\ e5.dirty = e4.dirty \cup st.be
        /\ e5.txblock = e4.txblock /\ e5.wtag = st.word /\ ~e5.checked
    <3>. HIDE DEF e5
    <3>. QED  BY <1>4, <2>1, <2>2 DEF Entry
  <2>. HIDE DEF e5
  <2>. QED  BY <1>0, <1>3, <1>4, <1>6, <2>3
<1>. QED  BY <1>5, <1>6

\* An entry changes its word only while it is free, and never while bytes of
\* it are in flight.
LEMMA TagKept ==
    ASSUME Typed, Entries, Transactions, Places,
           NEW st, NEW dp, NEW snt, NEW rtn, NEW ck, NEW wcv, NEW wrk,
           BufferCycle(st, dp, snt, rtn, ck, wcv, wrk),
           NEW k \in Slots
    PROVE  /\ valid(k) /\ valid(k)' => Tag(k)' = Tag(k)
           /\ ~valid(k) /\ valid(k)' => Takes(k, st)
           /\ Takes(k, st) => Tag(k)' = st.word
           /\ wbuffer[k].txblock # {} /\ ~Loses(k, wrk) =>
                /\ wbuffer'[k].txblock = wbuffer[k].txblock
                /\ wbuffer[k].dirty \subseteq wbuffer'[k].dirty
                /\ valid(k)' /\ Tag(k)' = Tag(k)
<1>1. Takes(k, st) => (valid(k) /\ Tag(k) = st.word) \/ ~valid(k)
  BY StorePlace DEF Takes, BufferCycle
<1>2. snt /\ k = dp => wbuffer[k].txblock = {}
  BY SentBytes DEF BufferCycle
<1>3. wbuffer[k].valid = wbuffer[k].dirty \cup wbuffer[k].txblock
  BY DEF Entries
<1>4. Loses(k, wrk) => wbuffer[k].txblock # {}
  BY ReleasedTx DEF Loses
<1>. QED  BY <1>1, <1>2, <1>3, <1>4, EntryNext DEF valid, Tag

\* An entry that does not release a transaction stays occupied.
LEMMA ValidKept ==
    ASSUME Typed, Entries, Transactions, Places,
           NEW st, NEW dp, NEW snt, NEW rtn, NEW ck, NEW wcv, NEW wrk,
           BufferCycle(st, dp, snt, rtn, ck, wcv, wrk),
           NEW k \in Slots, ~Loses(k, wrk), valid(k)
    PROVE  valid(k)'
<1>1. wbuffer'[k].valid = (IF Loses(k, wrk) THEN wbuffer[k].dirty ELSE wbuffer[k].valid)
                          \cup (IF Takes(k, st) THEN st.be ELSE {})
  BY EntryNext
<1>. QED  BY <1>1 DEF valid

\* p_buffer keeps the byte states and at most one entry for each word.
LEMMA EntriesNext ==
    ASSUME Typed, Entries, Transactions, Places,
           NEW st, NEW dp, NEW snt, NEW rtn, NEW ck, NEW wcv, NEW wrk,
           BufferCycle(st, dp, snt, rtn, ck, wcv, wrk)
    PROVE  Entries'
<1>1. ASSUME NEW k \in Slots
      PROVE  wbuffer'[k].valid = wbuffer'[k].dirty \cup wbuffer'[k].txblock
  <2>1. wbuffer[k].valid = wbuffer[k].dirty \cup wbuffer[k].txblock
    BY DEF Entries
  <2>2. snt /\ k = dp => /\ wbuffer[k].txblock = {} /\ ~Loses(k, wrk)
                         /\ tx_be(k) \subseteq wbuffer[k].dirty
    BY SentBytes, ReleasedTx DEF BufferCycle, Loses
  <2>. QED  BY <2>1, <2>2, EntryNext
<1>2. ASSUME NEW k \in Slots, valid(k)'  PROVE Tag(k)' \in Words
  <2>1. CASE Takes(k, st)
    BY <2>1, TagKept, StorePlace DEF Takes, BufferCycle
  <2>2. CASE ~Takes(k, st)
    BY <1>2, <2>2, TagKept DEF Entries
  <2>. QED  BY <2>1, <2>2
<1>3. ASSUME NEW k \in Slots, NEW l \in Slots, valid(k)', valid(l)', Tag(k)' = Tag(l)'
      PROVE  k = l
  <2>1. CASE valid(k) /\ valid(l)
    BY <1>3, <2>1, TagKept DEF Entries
  <2>2. CASE ~valid(k) /\ ~valid(l)
    BY <1>3, <2>2, TagKept DEF Takes
  <2>3. ASSUME NEW i \in Slots, NEW j \in Slots, valid(i), ~valid(j), valid(i)', valid(j)'
        PROVE  Tag(i)' # Tag(j)'
    <3>1. Takes(j, st) /\ Tag(j)' = st.word /\ Tag(i)' = Tag(i)
      BY <2>3, TagKept
    <3>2. Tag(i) # st.word
      BY <2>3, <3>1, StorePlace DEF Takes, BufferCycle
    <3>. QED  BY <3>1, <3>2
  <2>. QED  BY <1>3, <2>1, <2>2, <2>3
<1>. QED  BY <1>1, <1>2, <1>3 DEF Entries

\* p_tx_stat: which transactions are in use after a cycle, and for what.
LEMMA TxNext ==
    ASSUME Typed, Entries, Transactions, Places,
           NEW st, NEW dp, NEW snt, NEW rtn, NEW ck, NEW wcv, NEW wrk,
           BufferCycle(st, dp, snt, rtn, ck, wcv, wrk)
    PROVE  /\ snt => tx_id \in TxIds \ Busy
           /\ \A t \in TxIds : t \in Busy' <=>
                 (snt /\ t = tx_id) \/ (t \in Busy /\ ~(evict(wrk) /\ t = rtrn_id))
           /\ snt => tx_stat'[tx_id].ptr = dp /\ tx_stat'[tx_id].be = tx_be(dp)
           /\ \A t \in Busy : t \in Busy' => Ptr(t)' = Ptr(t) /\ Be(t)' = Be(t)
           /\ tx_stat' \in [TxIds -> Transaction]
<1>1. snt => tx_id \in TxIds \ Busy
  <2>1. free_tx \in SUBSET Nat
    BY DEF free_tx, TxIds
  <2>2. snt => free_tx # {}
    BY DEF BufferCycle
  <2>. QED  BY <2>1, <2>2, MinIn DEF tx_id, free_tx, Busy
<1>2. snt => dp \in Slots /\ tx_be(dp) \in SUBSET Bytes
  BY SentBytes DEF BufferCycle, Typed, Entry
<1>3. tx_stat' = [t \in TxIds |->
         IF snt /\ t = tx_id THEN [vld |-> TRUE, ptr |-> dp, be |-> tx_be(dp)]
         ELSE IF evict(wrk) /\ t = rtrn_id THEN NoTx ELSE tx_stat[t]]
  BY DEF BufferCycle, WbufferCycle
<1>4. ASSUME NEW t \in TxIds
      PROVE  /\ tx_stat[t] \in Transaction
             /\ tx_stat'[t] = IF snt /\ t = tx_id THEN [vld |-> TRUE, ptr |-> dp, be |-> tx_be(dp)]
                              ELSE IF evict(wrk) /\ t = rtrn_id THEN NoTx ELSE tx_stat[t]
  BY <1>3 DEF Typed
<1>5. NoTx \in Transaction /\ ~NoTx.vld
  BY SizesAssumption DEF NoTx, Transaction, Slots
<1>6. tx_stat' \in [TxIds -> Transaction]
  BY <1>2, <1>3, <1>4, <1>5 DEF Transaction
<1>7. \A t \in TxIds : t \in Busy' <=> tx_stat'[t].vld
  BY DEF Busy
<1>. QED  BY <1>1, <1>4, <1>5, <1>6, <1>7 DEF Busy, Ptr, Be, Transaction

\* p_buffer and p_tx_stat keep the blocked bytes and the transactions in step.
LEMMA TransactionsNext ==
    ASSUME Typed, Entries, Transactions, Places,
           NEW st, NEW dp, NEW snt, NEW rtn, NEW ck, NEW wcv, NEW wrk,
           BufferCycle(st, dp, snt, rtn, ck, wcv, wrk)
    PROVE  Transactions'
<1>1. ASSUME NEW t \in Busy'
      PROVE  Be(t)' # {} /\ wbuffer'[Ptr(t)'].txblock = Be(t)'
  <2>0. t \in TxIds
    BY DEF Busy
  <2>1. CASE snt /\ t = tx_id
    <3>1. dp \in Slots /\ tx_be(dp) # {} /\ wbuffer[dp].txblock = {}
      BY <2>1, SentBytes DEF BufferCycle
    <3>2. ~Loses(dp, wrk)
      BY <3>1, ReleasedTx DEF Loses
    <3>3. Ptr(t)' = dp /\ Be(t)' = tx_be(dp)
      BY <2>1, TxNext DEF Ptr, Be
    <3>4. wbuffer'[dp].txblock = tx_be(dp)
      BY <2>1, <3>1, <3>2, EntryNext
    <3>. QED  BY <3>1, <3>3, <3>4
  <2>2. CASE ~(snt /\ t = tx_id)
    <3>1. t \in Busy /\ ~(evict(wrk) /\ t = rtrn_id) /\ Ptr(t)' = Ptr(t) /\ Be(t)' = Be(t)
      BY <2>0, <2>2, TxNext
    <3>2. Ptr(t) \in Slots /\ Be(t) # {} /\ wbuffer[Ptr(t)].txblock = Be(t)
      BY <2>0, <3>1 DEF Transactions, Typed, Transaction, Ptr
    <3>3. ~Loses(Ptr(t), wrk)
      BY <3>1, ReleasedTx DEF Loses, Transactions
    <3>. QED  BY <3>1, <3>2, <3>3, TagKept
  <2>. QED  BY <2>1, <2>2
<1>2. ASSUME NEW t \in Busy', NEW u \in Busy', Ptr(t)' = Ptr(u)'
      PROVE  t = u
  <2>0. t \in TxIds /\ u \in TxIds
    BY DEF Busy
  <2>1. ASSUME snt, NEW v \in Busy  PROVE Ptr(v) # dp
    BY <2>1, SentBytes DEF BufferCycle, Transactions
  <2>2. ASSUME NEW v \in Busy', snt, v = tx_id  PROVE Ptr(v)' = dp
    BY <2>2, TxNext DEF Ptr
  <2>. QED  BY <1>2, <2>0, <2>1, <2>2, TxNext DEF Transactions
<1>3. ASSUME NEW k \in Slots, wbuffer'[k].txblock # {}
      PROVE  \E t \in Busy' : Ptr(t)' = k
  <2>1. CASE snt /\ k = dp
    BY <2>1, TxNext DEF Ptr
  <2>2. CASE ~(snt /\ k = dp)
    <3>1. ~Loses(k, wrk) /\ wbuffer[k].txblock # {}
      BY <1>3, <2>2, EntryNext
    <3>2. PICK t \in Busy : Ptr(t) = k
      BY <3>1 DEF Transactions
    <3>3. t \in TxIds /\ ~(evict(wrk) /\ t = rtrn_id)
      BY <3>1, <3>2, ReleasedTx DEF Loses, Busy
    <3>. QED  BY <3>2, <3>3, TxNext
  <2>. QED  BY <2>1, <2>2
<1>. QED  BY <1>1, <1>2, <1>3 DEF Transactions

\* What memory does in a cycle in which it returns rt.  Over: the bytes that
\* the core or an atomic overwrites; Acked: the store that is acknowledged.
\* Memory in a cycle that returns rt.
Tid(rt) == IF rt.rtype = "store" THEN rt.tid ELSE None
Over(st, rt) == IF rt.rtype = "amo" THEN AllBytes ELSE Of(st.word, st.be)
Acked(rt) == {s \in flight : rt.rtype = "store" /\ s.tid = rt.tid}
Issued(st, rt, dp) == [tid |-> tx_id, word |-> wbuffer[dp].wtag, be |-> tx_be(dp),
                       fresh |-> Of(wbuffer[dp].wtag, tx_be(dp)) \ Over(st, rt)]
MemoryCycle(st, rt, dp, snt, alc) ==
    /\ rt \in Returns /\ alc \in BOOLEAN
    /\ mem_fresh' = IF rt.rtype = "amo" THEN AllBytes
                    ELSE ((mem_fresh \ UNION {Of(s.word, s.be) : s \in Acked(rt)})
                          \cup UNION {s.fresh : s \in Acked(rt)}) \ Over(st, rt)
    /\ flight' = {[s EXCEPT !.fresh = @ \ Over(st, rt)] : s \in flight \ Acked(rt)}
                 \cup (IF snt THEN {Issued(st, rt, dp)} ELSE {})
    /\ load' = IF alc THEN (mem_fresh \cap OfLine(Line(rc_word))) \ Over(st, rt)
               ELSE IF rt.rtype = "load" THEN {} ELSE load \ Over(st, rt)

\* Memory returns only what it was asked for.
LEMMA ReturnKinds ==
    ASSUME NEW rt \in Returns
    PROVE  /\ rt.rtype = "load" => mshr_vld_q
           /\ rt.rtype = "inv" => amo_phase = "inv"
           /\ rt.rtype = "amo" => amo_phase = "ack"
           /\ rt.rtype = "store" => \E s \in flight : s.tid = rt.tid
BY DEF Returns, NoRtrn

\* The stores in memory after a cycle: those not acknowledged, and the new one.
LEMMA FlightNext ==
    ASSUME Typed, NEW st, NEW dp, NEW snt, NEW rt, NEW alc, MemoryCycle(st, rt, dp, snt, alc)
    PROVE  /\ \A s \in flight' :
                \/ \E r \in flight \ Acked(rt) :
                     /\ s = [r EXCEPT !.fresh = r.fresh \ Over(st, rt)]
                     /\ s.tid = r.tid /\ s.word = r.word /\ s.be = r.be
                     /\ s.fresh = r.fresh \ Over(st, rt)
                \/ snt /\ s = Issued(st, rt, dp)
           /\ \A r \in flight \ Acked(rt) : \E s \in flight' : s.tid = r.tid
           /\ snt => Issued(st, rt, dp) \in flight'
<1>1. flight' = {[s EXCEPT !.fresh = s.fresh \ Over(st, rt)] : s \in flight \ Acked(rt)}
                 \cup (IF snt THEN {Issued(st, rt, dp)} ELSE {})
  BY DEF MemoryCycle
<1>2. ASSUME NEW r \in flight
      PROVE  LET s == [r EXCEPT !.fresh = r.fresh \ Over(st, rt)]
             IN /\ s.tid = r.tid /\ s.word = r.word /\ s.be = r.be
                /\ s.fresh = r.fresh \ Over(st, rt)
  BY DEF Typed, Request
<1>. QED  BY <1>1, <1>2

\* A transaction that is not released stays as it is, and so does its entry.
LEMMA KeptTx ==
    ASSUME Typed, Entries, Transactions, Places,
           NEW st, NEW dp, NEW snt, NEW rtn, NEW ck, NEW wcv, NEW wrk,
           BufferCycle(st, dp, snt, rtn, ck, wcv, wrk),
           NEW t \in Busy, ~(evict(wrk) /\ t = rtrn_id)
    PROVE  /\ t \in TxIds /\ Ptr(t) \in Slots /\ t \in Busy' /\ Ptr(t)' = Ptr(t) /\ Be(t)' = Be(t)
           /\ wbuffer[Ptr(t)].txblock = Be(t) /\ valid(Ptr(t)) /\ ~Loses(Ptr(t), wrk)
           /\ wbuffer'[Ptr(t)].wtag = Tag(Ptr(t))
           /\ wbuffer[Ptr(t)].dirty \subseteq wbuffer'[Ptr(t)].dirty
<1>1. t \in TxIds /\ Ptr(t) \in Slots
  BY DEF Busy, Typed, Transaction, Ptr
<1>2. t \in Busy' /\ Ptr(t)' = Ptr(t) /\ Be(t)' = Be(t)
  BY <1>1, TxNext
<1>3. Be(t) # {} /\ wbuffer[Ptr(t)].txblock = Be(t)
  BY DEF Transactions
<1>4. ~Loses(Ptr(t), wrk)
  BY ReleasedTx DEF Loses, Transactions
<1>5. valid(Ptr(t))
  BY <1>1, <1>3 DEF Entries, valid
<1>6. /\ wbuffer'[Ptr(t)].wtag = Tag(Ptr(t))
      /\ wbuffer[Ptr(t)].dirty \subseteq wbuffer'[Ptr(t)].dirty
  <2>. DEFINE k == Ptr(t)
  <2>1. k \in Slots /\ wbuffer[k].txblock # {} /\ ~Loses(k, wrk)
    BY <1>1, <1>3, <1>4
  <2>. HIDE DEF k
  <2>2. wbuffer'[k].wtag = Tag(k) /\ wbuffer[k].dirty \subseteq wbuffer'[k].dirty
    BY <2>1, TagKept DEF Tag
  <2>. QED  BY <2>2 DEF k
<1>. QED  BY <1>1, <1>2, <1>3, <1>4, <1>5, <1>6

\* The entry whose bytes are sent keeps its word.
LEMMA NewTx ==
    ASSUME Typed, Entries, Transactions, Places,
           NEW st, NEW dp, NEW snt, NEW rtn, NEW ck, NEW wcv, NEW wrk,
           BufferCycle(st, dp, snt, rtn, ck, wcv, wrk),
           snt = TRUE
    PROVE  /\ dp \in Slots /\ valid(dp) /\ ~Loses(dp, wrk) /\ wbuffer[dp].txblock = {}
           /\ tx_be(dp) # {} /\ tx_be(dp) \subseteq wbuffer[dp].dirty
           /\ wbuffer'[dp].wtag = Tag(dp) /\ Tag(dp) \in Words
           /\ \A t \in Busy : Ptr(t) # dp
<1>1. /\ dp \in Slots /\ valid(dp) /\ wbuffer[dp].txblock = {}
      /\ tx_be(dp) # {} /\ tx_be(dp) \subseteq wbuffer[dp].dirty
  BY SentBytes DEF BufferCycle
<1>2. ~Loses(dp, wrk)
  BY <1>1, ReleasedTx DEF Loses
<1>3. valid(dp)'
  BY <1>1, <1>2, ValidKept
<1>4. wbuffer'[dp].wtag = Tag(dp)
  BY <1>1, <1>3, TagKept DEF Tag
<1>. QED  BY <1>1, <1>2, <1>4 DEF Entries, Transactions

\* The places of the returned ids after the cycle.
LEMMA ReturnedNext ==
    ASSUME Typed, Entries, Transactions, Places,
           NEW st, NEW dp, NEW snt, NEW rt, NEW ck, NEW wcv, NEW wrk, NEW alc,
           BufferCycle(st, dp, snt, Tid(rt), ck, wcv, wrk), MemoryCycle(st, rt, dp, snt, alc)
    PROVE  /\ rtrn_fifo' \in Seq(TxIds)
           /\ \A i \in 1..Len(rtrn_fifo') :
                \/ rt.rtype = "store" /\ i = Len(rtrn_fifo') /\ rtrn_fifo'[i] = rt.tid
                \/ \E j \in 1..Len(rtrn_fifo) :
                     /\ j = i + (IF evict(wrk) THEN 1 ELSE 0)
                     /\ rtrn_fifo'[i] = rtrn_fifo[j] /\ ~(evict(wrk) /\ rtrn_fifo[j] = rtrn_id)
           /\ \A j \in 1..Len(rtrn_fifo) :
                ~(evict(wrk) /\ rtrn_fifo[j] = rtrn_id) => \E i \in 1..Len(rtrn_fifo') : rtrn_fifo'[i] = rtrn_fifo[j]
           /\ rt.rtype = "store" => \E i \in 1..Len(rtrn_fifo') : rtrn_fifo'[i] = rt.tid
<1>. DEFINE q == rtrn_fifo
            d == IF evict(wrk) THEN 1 ELSE 0
            p == IF evict(wrk) THEN Tail(q) ELSE q
            rtn == Tid(rt)
            a == IF rtn = None THEN <<>> ELSE <<rtn>>
            r == rtrn_fifo'
<1>0. r = p \o a
  BY DEF BufferCycle, WbufferCycle
<1>r. /\ rtn \in TxIds \cup {None} /\ (rtn # None <=> rt.rtype = "store")
      /\ (rt.rtype = "store" => rtn = rt.tid)
  BY ReturnKinds DEF MemoryCycle, Tid, None, Typed, Request, TxIds
<1>q. q \in Seq(TxIds) /\ (evict(wrk) => q # <<>>)
  BY DEF Typed, evict, returned
<1>h. evict(wrk) => rtrn_id = q[1] /\ 1 \in 1..Len(q)
  BY ReleasedTx
<1>j. \A i, j \in 1..Len(q) : q[i] = q[j] => i = j
  BY DEF Places
<1>. HIDE DEF q, rtn
<1>1. p \in Seq(TxIds) /\ Len(p) = Len(q) - d /\ \A i \in 1..Len(p) : p[i] = q[i + d]
  BY <1>q
<1>2. a \in Seq(TxIds) /\ Len(a) = (IF rtn = None THEN 0 ELSE 1) /\ (rtn # None => a[1] = rtn)
  BY <1>r
<1>3. /\ d \in {0, 1} /\ (evict(wrk) <=> d = 1)
      /\ Len(q) \in Nat /\ Len(p) \in Nat
  BY <1>1, <1>q
<1>. HIDE DEF p, a, d, r
<1>5. /\ r \in Seq(TxIds) /\ Len(r) = Len(p) + Len(a)
      /\ \A i \in 1..Len(r) : r[i] = IF i <= Len(p) THEN p[i] ELSE a[i - Len(p)]
  <2>1. p \in Seq(TxIds) /\ a \in Seq(TxIds)
    BY <1>1, <1>2
  <2>. QED  BY ONLY <2>1, <1>0, ConcatProperties
<1>6. ASSUME NEW i \in 1..Len(r)
      PROVE  \/ rtn # None /\ i = Len(r) /\ r[i] = rtn
             \/ i + d \in 1..Len(q) /\ r[i] = q[i + d]
  <2>1. CASE i <= Len(p)
    <3>1. i \in 1..Len(p) /\ i + d \in 1..Len(q)
      BY <2>1, <1>1, <1>2, <1>3, <1>5
    <3>. QED  BY <2>1, <3>1, <1>1, <1>5
  <2>2. CASE ~(i <= Len(p))
    <3>1. rtn # None /\ i = Len(p) + 1 /\ Len(r) = Len(p) + 1
      BY <2>2, <1>2, <1>3, <1>5
    <3>2. i - Len(p) = 1
      BY <3>1, <1>3
    <3>. QED  BY <2>2, <3>1, <3>2, <1>2, <1>5
  <2>. QED  BY <2>1, <2>2
<1>7. ASSUME NEW j \in 1..Len(q), ~(evict(wrk) /\ q[j] = rtrn_id)
      PROVE  \E i \in 1..Len(r) : r[i] = q[j]
  <2>0. ~(d = 1 /\ j = 1)
    BY <1>7, <1>3, <1>h
  <2>1. j - d \in 1..Len(p) /\ j - d \in 1..Len(r) /\ (j - d) + d = j
    BY <2>0, <1>1, <1>2, <1>3, <1>5
  <2>2. r[j - d] = q[(j - d) + d]
    BY <2>1, <1>1, <1>5
  <2>. QED  BY <2>1, <2>2
<1>8. ASSUME rtn # None  PROVE \E i \in 1..Len(r) : r[i] = rtn
  <2>1. Len(r) \in 1..Len(r) /\ ~(Len(r) <= Len(p)) /\ Len(r) - Len(p) = 1
    BY <1>8, <1>1, <1>2, <1>3, <1>5
  <2>. QED  BY <1>8, <2>1, <1>2, <1>5
<1>9. ASSUME NEW i \in 1..Len(r), i + d \in 1..Len(q)
      PROVE  ~(evict(wrk) /\ q[i + d] = rtrn_id)
  <2>1. evict(wrk) => i + d # 1
    BY <1>3, <1>5
  <2>. QED  BY <1>9, <2>1, <1>h, <1>j
<1>10. ASSUME NEW i \in 1..Len(r)
       PROVE  \/ rt.rtype = "store" /\ i = Len(r) /\ r[i] = rt.tid
              \/ \E j \in 1..Len(q) : /\ j = i + d /\ r[i] = q[j]
                                      /\ ~(evict(wrk) /\ q[j] = rtrn_id)
  BY <1>r, <1>6, <1>9
<1>. QED  BY <1>r, <1>5, <1>7, <1>8, <1>10 DEF q, d, r

\* A transaction stays at exactly one place, memory or rtrn_fifo.
LEMMA PlacesNext ==
    ASSUME Typed, Entries, Transactions, Places,
           NEW st, NEW dp, NEW snt, NEW rt, NEW ck, NEW wcv, NEW wrk, NEW alc,
           BufferCycle(st, dp, snt, Tid(rt), ck, wcv, wrk), MemoryCycle(st, rt, dp, snt, alc)
    PROVE  Places'
<1>0. ASSUME NEW r \in flight
      PROVE  r.tid \in Busy /\ r.tid \in TxIds /\ ~(evict(wrk) /\ r.tid = rtrn_id)
  BY ReleasedTx DEF Places, Busy
<1>n. snt => tx_id \in TxIds /\ tx_id \notin Busy /\ tx_id \in Busy'
  <2>1. snt => tx_id \in TxIds \ Busy
    BY TxNext
  <2>2. ASSUME NEW t \in TxIds, snt, t = tx_id  PROVE t \in Busy'
    BY <2>2, TxNext
  <2>. QED  BY <2>1, <2>2
<1>i. Issued(st, rt, dp).tid = tx_id /\ Issued(st, rt, dp).be = tx_be(dp) /\ Issued(st, rt, dp).word = Tag(dp)
  BY DEF Issued, Tag
<1>a. rt.rtype = "store" => \E s \in flight : s.tid = rt.tid /\ s \in Acked(rt)
  BY ReturnKinds DEF MemoryCycle, Acked
<1>b. \A s \in flight : s \in Acked(rt) <=> rt.rtype = "store" /\ s.tid = rt.tid
  BY DEF Acked
<1>f. ASSUME NEW i \in 1..Len(rtrn_fifo')
      PROVE  /\ rtrn_fifo'[i] \in Busy /\ ~(evict(wrk) /\ rtrn_fifo'[i] = rtrn_id)
             /\ \A s \in flight : s \notin Acked(rt) => s.tid # rtrn_fifo'[i]
  <2>1. CASE rt.rtype = "store" /\ i = Len(rtrn_fifo') /\ rtrn_fifo'[i] = rt.tid
    BY <2>1, <1>0, <1>a, <1>b
  <2>2. ASSUME NEW j \in 1..Len(rtrn_fifo),
               rtrn_fifo'[i] = rtrn_fifo[j] /\ ~(evict(wrk) /\ rtrn_fifo[j] = rtrn_id)
        PROVE  /\ rtrn_fifo'[i] \in Busy /\ ~(evict(wrk) /\ rtrn_fifo'[i] = rtrn_id)
               /\ \A s \in flight : s \notin Acked(rt) => s.tid # rtrn_fifo'[i]
    BY <2>2 DEF Places
  <2>. QED  BY <2>1, <2>2, ReturnedNext
<1>1. ASSUME NEW s \in flight'
      PROVE  s.tid \in Busy' /\ s.be = Be(s.tid)' /\ s.word = wbuffer'[Ptr(s.tid)'].wtag
  <2>1. ASSUME NEW r \in flight, s.tid = r.tid, s.word = r.word, s.be = r.be
        PROVE  s.tid \in Busy' /\ s.be = Be(s.tid)' /\ s.word = wbuffer'[Ptr(s.tid)'].wtag
    <3>. DEFINE t == r.tid
    <3>1. t \in Busy /\ ~(evict(wrk) /\ t = rtrn_id) /\ r.be = Be(t) /\ r.word = Tag(Ptr(t))
      BY <1>0 DEF Places
    <3>. HIDE DEF t
    <3>2. t \in Busy' /\ Ptr(t)' = Ptr(t) /\ Be(t)' = Be(t) /\ wbuffer'[Ptr(t)].wtag = Tag(Ptr(t))
      BY <3>1, KeptTx
    <3>3. s.tid = t
      BY <2>1 DEF t
    <3>. QED  BY <2>1, <3>1, <3>2, <3>3
  <2>2. CASE snt /\ s = Issued(st, rt, dp)
    <3>1. Ptr(s.tid)' = dp /\ Be(s.tid)' = tx_be(dp) /\ s.tid \in Busy'
      BY <2>2, <1>n, <1>i, TxNext DEF Ptr, Be
    <3>. QED  BY <2>2, <3>1, <1>i, NewTx
  <2>. QED  BY <2>1, <2>2, FlightNext
<1>2. ASSUME NEW s \in flight', NEW r \in flight', s.tid = r.tid
      PROVE  s = r
  <2>1. ASSUME NEW x \in flight, NEW y \in flight,
               s = [x EXCEPT !.fresh = x.fresh \ Over(st, rt)] /\ s.tid = x.tid,
               r = [y EXCEPT !.fresh = y.fresh \ Over(st, rt)] /\ r.tid = y.tid
        PROVE  s = r
    <3>1. x = y
      BY <1>2, <2>1 DEF Places
    <3>. QED  BY <2>1, <3>1
  <2>2. \A x \in flight : snt => x.tid # tx_id
    BY <1>0, <1>n
  <2>. QED  BY <1>2, <2>1, <2>2, <1>i, FlightNext
<1>3. ASSUME NEW i \in 1..Len(rtrn_fifo'), NEW j \in 1..Len(rtrn_fifo'), rtrn_fifo'[i] = rtrn_fifo'[j]
      PROVE  i = j
  <2>1. rt.rtype = "store" => \A m \in 1..Len(rtrn_fifo) : rtrn_fifo[m] # rt.tid
    BY <1>a DEF Places
  <2>2. i \in Int /\ j \in Int
    OBVIOUS
  <2>3. \A m, n \in 1..Len(rtrn_fifo) : rtrn_fifo[m] = rtrn_fifo[n] => m = n
    BY DEF Places
  <2>4. ASSUME NEW x \in 1..Len(rtrn_fifo')
        PROVE  \/ rt.rtype = "store" /\ x = Len(rtrn_fifo') /\ rtrn_fifo'[x] = rt.tid
               \/ \E m \in 1..Len(rtrn_fifo) : /\ m = x + (IF evict(wrk) THEN 1 ELSE 0)
                                               /\ rtrn_fifo'[x] = rtrn_fifo[m]
    BY ReturnedNext
  <2>. QED  BY <1>3, <2>1, <2>2, <2>3, <2>4
<1>4. ASSUME NEW i \in 1..Len(rtrn_fifo')
      PROVE  rtrn_fifo'[i] \in Busy' /\ \A s \in flight' : rtrn_fifo'[i] # s.tid
  <2>1. rtrn_fifo'[i] \in Busy'
    BY <1>f, KeptTx
  <2>. QED  BY <2>1, <1>f, <1>n, <1>i, FlightNext
<1>5. ASSUME NEW t \in Busy'
      PROVE  (\E s \in flight' : s.tid = t) \/ (\E i \in 1..Len(rtrn_fifo') : rtrn_fifo'[i] = t)
  <2>0. t \in TxIds
    BY DEF Busy
  <2>1. CASE snt /\ t = tx_id
    BY <2>1, <1>i, FlightNext
  <2>2. CASE t \in Busy /\ ~(evict(wrk) /\ t = rtrn_id)
    <3>1. CASE \E s \in flight : s.tid = t
      BY <3>1, <1>b, FlightNext, ReturnedNext
    <3>2. CASE \E i \in 1..Len(rtrn_fifo) : rtrn_fifo[i] = t
      BY <2>2, <3>2, ReturnedNext
    <3>. QED  BY <2>2, <3>1, <3>2 DEF Places
  <2>. QED  BY <2>0, <2>1, <2>2, TxNext
<1>. QED  BY <1>1, <1>2, <1>3, <1>4, <1>5 DEF Places, Tag

\* Bytes of an accepted store are in the buffer in the next cycle.
LEMMA StoredNext ==
    ASSUME Typed, Entries, Transactions, Places,
           NEW st, NEW dp, NEW snt, NEW rtn, NEW ck, NEW wcv, NEW wrk,
           BufferCycle(st, dp, snt, rtn, ck, wcv, wrk),
           NEW w \in Words, NEW b \in Bytes, <<w, b>> \in Of(st.word, st.be)
    PROVE  /\ Buffered(w, b)'
           /\ \A k \in Slots : valid(k) /\ Tag(k) = w => b \in wbuffer'[k].dirty
<1>1. w = st.word /\ b \in st.be /\ st.word # NoWord
  BY WordShape DEF Of
<1>2. PICK k \in Slots : Takes(k, st)
  BY <1>1, StorePlace DEF Takes, BufferCycle
<1>3. b \in wbuffer'[k].dirty /\ b \in wbuffer'[k].valid
  BY <1>1, <1>2, EntryNext
<1>4. Tag(k)' = w
  BY <1>1, <1>2, TagKept
<1>5. ASSUME NEW l \in Slots, valid(l), Tag(l) = w  PROVE l = k
  BY <1>1, <1>2, <1>5, StorePlace DEF Takes, BufferCycle, Entries
<1>. QED  BY <1>3, <1>4, <1>5 DEF Buffered

\* Only the release of a transaction takes bytes out of the buffer.
LEMMA BufferedNext ==
    ASSUME Typed, Entries, Transactions, Places,
           NEW st, NEW dp, NEW snt, NEW rtn, NEW ck, NEW wcv, NEW wrk,
           BufferCycle(st, dp, snt, rtn, ck, wcv, wrk),
           NEW w \in Words, NEW b \in Bytes, Buffered(w, b), ~Buffered(w, b)'
    PROVE  evict(wrk) /\ w = Tag(rtrn_ptr) /\ b \in Be(rtrn_id) \ wbuffer[rtrn_ptr].dirty
<1>1. PICK k \in Slots : Tag(k) = w /\ b \in wbuffer[k].valid
  BY DEF Buffered
<1>2. b \notin wbuffer'[k].valid
  <2>1. CASE b \in wbuffer'[k].valid
    <3>1. Tag(k)' = w
      BY <1>1, <2>1, TagKept DEF valid
    <3>. QED  BY <2>1, <3>1 DEF Buffered
  <2>. QED  BY <2>1
<1>3. Loses(k, wrk) /\ b \notin wbuffer[k].dirty
  BY <1>1, <1>2, EntryNext
<1>4. b \in wbuffer[k].txblock
  BY <1>1, <1>3 DEF Entries
<1>. QED  BY <1>1, <1>3, <1>4, ReleasedTx DEF Loses

\* What the miss unit asks of memory.
Requests(dp, snt, alc) ==
    /\ alc => /\ ~snt /\ rc_state \in {"MISS_REQ", "KILL_MISS_ACK"}
              /\ \A t \in Busy : TxLine(t) # Line(rc_word)
    /\ snt => (mshr_vld_q => Line(Tag(dp)) # mshr_line)
    /\ mu_state \in {"AMO", "AMO_WAIT"} => ~snt /\ ~alc
MshrCycle(rt, alc) ==
    /\ mshr_vld_q' = (alc \/ (mshr_vld_q /\ rt.rtype # "load"))
    /\ mshr_line' = IF alc THEN Line(rc_word) ELSE IF mshr_vld_q THEN mshr_line ELSE -1

\* An empty write buffer: nothing is in flight and memory is up to date.
LEMMA EmptyBuffer ==
    ASSUME Typed, Entries, Transactions, Places, Memory, empty_o
    PROVE  /\ Busy = {} /\ flight = {} /\ rtrn_fifo = <<>> /\ mem_fresh = AllBytes
           /\ \A w, b : ~Buffered(w, b)
<1>1. ASSUME NEW t \in Busy  PROVE FALSE
  <2>1. Ptr(t) \in Slots /\ wbuffer[Ptr(t)].txblock # {}
    BY DEF Busy, Typed, Transaction, Ptr, Transactions
  <2>. QED  BY <2>1 DEF Entries, empty_o, valid
<1>2. flight = {}
  BY <1>1 DEF Places
<1>3. rtrn_fifo = <<>>
  <2>1. CASE rtrn_fifo # <<>>
    <3>1. 1 \in 1..Len(rtrn_fifo)
      BY <2>1 DEF Typed
    <3>. QED  BY <1>1, <3>1 DEF Places
  <2>. QED  BY <2>1
<1>4. \A w, b : ~Buffered(w, b)
  BY DEF Buffered, empty_o, valid
<1>5. mem_fresh = AllBytes
  BY <1>4 DEF Memory, AllBytes, Typed
<1>. QED  BY <1>1, <1>2, <1>3, <1>4, <1>5

\* Memory, the stores in flight and the read in flight stay up to date but for
\* what the buffer holds.
LEMMA MemoryNext ==
    ASSUME Typed, Entries, Transactions, Places,
           NEW st, NEW dp, NEW snt, NEW rt, NEW ck, NEW wcv, NEW wrk, NEW alc,
           BufferCycle(st, dp, snt, Tid(rt), ck, wcv, wrk), MemoryCycle(st, rt, dp, snt, alc),
           Machines, Atomics, Memory, Requests(dp, snt, alc), MshrCycle(rt, alc)
    PROVE  Memory'
<1>. DEFINE over == Over(st, rt)
<1>0. ASSUME rt.rtype = "amo"
      PROVE  /\ Busy = {} /\ flight = {} /\ rtrn_fifo = <<>> /\ ~mshr_vld_q
             /\ snt = FALSE /\ alc = FALSE
  <2>1. mu_state = "AMO_WAIT"
    BY <1>0, ReturnKinds DEF MemoryCycle, Atomics
  <2>2. empty_o /\ ~mshr_vld_q
    BY <2>1 DEF Atomics
  <2>3. snt = FALSE /\ alc = FALSE
    BY <2>1 DEF Requests, BufferCycle, MemoryCycle
  <2>. QED  BY <2>2, <2>3, EmptyBuffer
<1>o. rt.rtype # "amo" => over = Of(st.word, st.be)
  BY DEF Over
<1>a. \A s \in flight : s \in Acked(rt) <=> rt.rtype = "store" /\ s.tid = rt.tid
  BY DEF Acked
<1>m. /\ rt.rtype = "amo" => mem_fresh' = AllBytes
      /\ rt.rtype # "amo" => \A x : x \in mem_fresh' <=>
            /\ x \notin over
            /\ \/ x \in mem_fresh /\ \A s \in Acked(rt) : x \notin Of(s.word, s.be)
               \/ \E s \in Acked(rt) : x \in s.fresh
  BY DEF MemoryCycle
<1>. HIDE DEF over
\* A byte of an entry is overwritten only if it gets dirty.
<1>d. ASSUME NEW k \in Slots, valid(k), NEW b \in Bytes, b \notin wbuffer'[k].dirty,
             rt.rtype # "amo"
      PROVE  <<Tag(k), b>> \notin over
  <2>1. Tag(k) \in Words
    BY <1>d DEF Entries
  <2>. QED  BY <2>1, <1>d, <1>o, StoredNext
<1>1. ASSUME NEW s \in flight', NEW b \in s.be \ wbuffer'[Ptr(s.tid)'].dirty
      PROVE  <<s.word, b>> \in s.fresh
  <2>1. ASSUME NEW r \in flight, s.tid = r.tid, s.word = r.word, s.be = r.be,
               s.fresh = r.fresh \ over
        PROVE  <<s.word, b>> \in s.fresh
    <3>. DEFINE t == r.tid
    <3>1. /\ t \in Busy /\ ~(evict(wrk) /\ t = rtrn_id) /\ r.be = Be(t) /\ r.word = Tag(Ptr(t))
          /\ r.be \subseteq Bytes
      BY ReleasedTx DEF Places, Typed, Request
    <3>2. \A c \in r.be \ wbuffer[Ptr(t)].dirty : <<r.word, c>> \in r.fresh
      BY DEF Memory
    <3>3. s.tid = t
      BY <2>1
    <3>. HIDE DEF t
    <3>4. /\ Ptr(t)' = Ptr(t) /\ wbuffer[Ptr(t)].dirty \subseteq wbuffer'[Ptr(t)].dirty
          /\ Ptr(t) \in Slots /\ valid(Ptr(t))
      BY <3>1, KeptTx
    <3>5. b \in r.be \ wbuffer'[Ptr(t)].dirty
      BY <2>1, <3>3, <3>4
    <3>6. <<r.word, b>> \in r.fresh
      BY <3>2, <3>4, <3>5
    <3>7. <<r.word, b>> \notin over
      BY <3>1, <3>4, <3>5, <1>d, <1>0
    <3>. QED  BY <2>1, <3>6, <3>7
  <2>2. CASE snt /\ s = Issued(st, rt, dp)
    <3>1. /\ s.tid = tx_id /\ s.be = tx_be(dp) /\ s.word = Tag(dp)
          /\ s.fresh = Of(Tag(dp), tx_be(dp)) \ over
      BY <2>2 DEF Issued, Tag, over
    <3>2. Ptr(s.tid)' = dp
      BY <2>2, <3>1, TxNext DEF Ptr
    <3>3. snt = TRUE
      BY <2>2 DEF BufferCycle
    <3>4. dp \in Slots /\ valid(dp) /\ tx_be(dp) \subseteq Bytes
      BY <3>3, NewTx DEF Typed, Entry
    <3>5. <<Tag(dp), b>> \notin over
      BY <2>2, <3>1, <3>2, <3>4, <1>d, <1>0
    <3>. QED  BY <3>1, <3>5 DEF Of
  <2>. QED  BY <2>1, <2>2, FlightNext DEF over
<1>2. ASSUME NEW t \in TxIds, NEW i \in 1..Len(rtrn_fifo'), rtrn_fifo'[i] = t,
             NEW b \in Be(t)' \ wbuffer'[Ptr(t)'].dirty
      PROVE  <<wbuffer'[Ptr(t)'].wtag, b>> \in mem_fresh'
  <2>1. \/ \E s \in flight : s \in Acked(rt) /\ s.tid = t
        \/ \E j \in 1..Len(rtrn_fifo) : rtrn_fifo[j] = t /\ ~(evict(wrk) /\ t = rtrn_id)
    <3>1. rt.rtype = "store" => \E s \in flight : s \in Acked(rt) /\ s.tid = rt.tid
      BY <1>a, ReturnKinds DEF MemoryCycle
    <3>2. \/ rt.rtype = "store" /\ rtrn_fifo'[i] = rt.tid
          \/ \E j \in 1..Len(rtrn_fifo) :
               rtrn_fifo'[i] = rtrn_fifo[j] /\ ~(evict(wrk) /\ rtrn_fifo[j] = rtrn_id)
      BY ReturnedNext
    <3>. QED  BY <1>2, <3>1, <3>2
  <2>2. t \in Busy /\ ~(evict(wrk) /\ t = rtrn_id)
    BY <2>1, ReleasedTx DEF Places
  <2>4. /\ Ptr(t)' = Ptr(t) /\ Be(t)' = Be(t) /\ wbuffer'[Ptr(t)].wtag = Tag(Ptr(t))
        /\ wbuffer[Ptr(t)].dirty \subseteq wbuffer'[Ptr(t)].dirty
        /\ Ptr(t) \in Slots /\ valid(Ptr(t))
    BY <2>2, KeptTx
  <2>5. b \in Be(t) \ wbuffer[Ptr(t)].dirty /\ b \notin wbuffer'[Ptr(t)].dirty /\ b \in Bytes
    BY <2>4 DEF Typed, Transaction, Be
  <2>6. rt.rtype # "amo"
    BY <1>0, <2>2
  <2>7. <<Tag(Ptr(t)), b>> \notin over
    BY <1>d, <2>4, <2>5, <2>6
  <2>8. <<Tag(Ptr(t)), b>> \in mem_fresh'
    <3>1. ASSUME NEW s \in flight, s \in Acked(rt), s.tid = t
          PROVE  <<Tag(Ptr(t)), b>> \in mem_fresh'
      <4>1. s.word = Tag(Ptr(t)) /\ s.be = Be(t)
        BY <3>1 DEF Places
      <4>2. <<s.word, b>> \in s.fresh
        BY <4>1, <3>1, <2>5 DEF Memory
      <4>. QED  BY <4>1, <4>2, <3>1, <2>6, <2>7, <1>m
    <3>2. ASSUME NEW j \in 1..Len(rtrn_fifo), rtrn_fifo[j] = t
          PROVE  <<Tag(Ptr(t)), b>> \in mem_fresh'
      <4>1. <<Tag(Ptr(t)), b>> \in mem_fresh
        BY <3>2, <2>5 DEF Memory
      <4>2. ASSUME NEW s \in Acked(rt), <<Tag(Ptr(t)), b>> \in Of(s.word, s.be)  PROVE FALSE
        <5>1. s \in flight /\ s.tid \in Busy /\ s.tid # t /\ s.word = Tag(Ptr(s.tid))
          BY <3>2 DEF Acked, Places
        <5>2. s.word = Tag(Ptr(t))
          BY <4>2 DEF Of
        <5>3. ~(evict(wrk) /\ s.tid = rtrn_id)
          BY <5>1, ReleasedTx DEF Places
        <5>4. Ptr(s.tid) \in Slots /\ valid(Ptr(s.tid))
          BY <5>1, <5>3, KeptTx
        <5>5. Ptr(s.tid) = Ptr(t)
          BY <2>4, <5>1, <5>2, <5>4 DEF Entries
        <5>. QED  BY <2>2, <5>1, <5>5 DEF Transactions
      <4>. QED  BY <4>1, <4>2, <2>6, <2>7, <1>m
    <3>. QED  BY <2>1, <3>1, <3>2
  <2>. QED  BY <2>4, <2>8
\* A byte leaves the buffer when memory has it.
<1>e. ASSUME NEW w \in Words, NEW b \in Bytes, Buffered(w, b), ~Buffered(w, b)'
      PROVE  /\ <<w, b>> \in mem_fresh /\ (mshr_vld_q => Line(w) # mshr_line)
             /\ \E t \in Busy : w = Tag(Ptr(t))
  <2>1. evict(wrk) /\ w = Tag(rtrn_ptr) /\ b \in Be(rtrn_id) \ wbuffer[rtrn_ptr].dirty
    BY <1>e, BufferedNext
  <2>2. /\ rtrn_id = rtrn_fifo[1] /\ 1 \in 1..Len(rtrn_fifo)
        /\ rtrn_id \in Busy /\ Ptr(rtrn_id) = rtrn_ptr
    BY <2>1, ReleasedTx
  <2>3. <<w, b>> \in mem_fresh
    BY <2>1, <2>2 DEF Memory, Busy
  <2>. QED  BY <2>1, <2>2, <2>3 DEF Machines, TxLine
\* An overwritten byte is in the buffer.
<1>v. ASSUME NEW w \in Words, NEW b \in Bytes, <<w, b>> \in over, rt.rtype # "amo"
      PROVE  Buffered(w, b)'
  BY <1>v, <1>o, StoredNext
<1>3. ASSUME NEW w \in Words, NEW b \in Bytes
      PROVE  <<w, b>> \in mem_fresh' \/ Buffered(w, b)'
  <2>1. CASE rt.rtype = "amo"
    BY <2>1, <1>m DEF AllBytes
  <2>2. CASE rt.rtype # "amo" /\ <<w, b>> \notin over /\ <<w, b>> \notin mem_fresh
    BY <2>2, <1>e DEF Memory
  <2>3. ASSUME rt.rtype # "amo", <<w, b>> \notin over, NEW s \in Acked(rt),
               <<w, b>> \in Of(s.word, s.be), <<w, b>> \notin s.fresh
        PROVE  Buffered(w, b)'
    <3>1. /\ s \in flight /\ s.tid \in Busy /\ s.word = w /\ b \in s.be /\ s.word = Tag(Ptr(s.tid))
          /\ ~(evict(wrk) /\ s.tid = rtrn_id)
      BY <2>3, ReleasedTx DEF Acked, Places, Of
    <3>2. b \in wbuffer[Ptr(s.tid)].dirty
      BY <2>3, <3>1 DEF Memory
    <3>3. Ptr(s.tid) \in Slots /\ ~Loses(Ptr(s.tid), wrk)
      BY <3>1, KeptTx
    <3>4. b \in wbuffer[Ptr(s.tid)].valid /\ Buffered(w, b)
      BY <3>1, <3>2, <3>3 DEF Entries, Buffered
    <3>5. CASE ~Buffered(w, b)'
      <4>1. evict(wrk) /\ w = Tag(rtrn_ptr)
        BY <3>4, <3>5, BufferedNext
      <4>2. rtrn_ptr \in Slots /\ valid(rtrn_ptr) /\ rtrn_ptr = Ptr(rtrn_id)
        BY <4>1, ReleasedTx DEF Entries, valid
      <4>3. rtrn_ptr = Ptr(s.tid)
        BY <3>1, <3>3, <3>4, <4>1, <4>2 DEF Entries, valid
      <4>. QED  BY <4>1, <4>3, <3>3 DEF Loses
    <3>. QED  BY <3>5
  <2>. QED  BY <2>1, <2>2, <2>3, <1>m, <1>v
<1>4. ASSUME mshr_vld_q', NEW w \in Words, NEW b \in Bytes, Line(w) = mshr_line'
      PROVE  <<w, b>> \in load' \/ Buffered(w, b)'
  <2>0. rt.rtype # "amo"
    BY <1>0, <1>4 DEF MshrCycle
  <2>1. CASE alc
    <3>1. load' = (mem_fresh \cap OfLine(Line(rc_word))) \ over /\ Line(w) = Line(rc_word)
      BY <2>1, <1>4 DEF MemoryCycle, MshrCycle, over
    <3>2. <<w, b>> \in OfLine(Line(rc_word))
      BY <3>1 DEF OfLine, Line
    <3>. QED  BY <2>0, <3>1, <3>2, <1>e, <1>v DEF Memory
  <2>2. CASE ~alc
    <3>1. mshr_vld_q /\ rt.rtype # "load" /\ Line(w) = mshr_line /\ load' = load \ over
      BY <2>2, <1>4 DEF MemoryCycle, MshrCycle, over
    <3>. QED  BY <2>0, <3>1, <1>e, <1>v DEF Memory
  <2>. QED  BY <2>1, <2>2
<1>. QED  BY <1>1, <1>2, <1>3, <1>4 DEF Memory, Tag

\* What the arrays are asked for: clr a flush or an invalidation, rfl a refill,
\* rdk a read of the word rdw, ck a look-up, wrk a write of the write buffer.
WrWord == IF wr_req_o THEN Tag(rtrn_ptr) ELSE NoWord
ArrayCycle(st, rt, ck, wcv, wrk, clr, rfl, rdk, rdw) ==
    /\ clr \in BOOLEAN /\ rfl \in BOOLEAN /\ rdk \in BOOLEAN
    /\ rfl => rt.rtype = "load"
    /\ wcv = (rt.rtype = "load" \/ clr)
    /\ rdk \/ ck # None => ~wcv
    /\ rdk => rdw \in Words
    /\ wrk => /\ wr_req_o /\ ~clr /\ ~rfl
              /\ ~(rdk /\ Offset(rdw) = Offset(WrWord))
    /\ CacheCycle(rfl, mshr_line, load, clr, IF rdk THEN rdw ELSE NoWord, ck # None,
                  [word |-> WrWord, be |-> IF wrk THEN wr_data_be_o ELSE {},
                   fresh |-> Of(WrWord, Bytes)], Over(st, rt))

\* The tag array and its read register after a cycle.
LEMMA ArrayNext ==
    ASSUME Typed, NEW st, NEW rt, NEW ck, NEW wcv, NEW wrk, NEW clr, NEW rfl, NEW rdk, NEW rdw,
           ArrayCycle(st, rt, ck, wcv, wrk, clr, rfl, rdk, rdw)
    PROVE  /\ c_line' = (IF clr THEN None ELSE IF rfl THEN mshr_line ELSE c_line)
           /\ ~wcv => c_line' = c_line
           /\ rdk \/ ck # None => r_line' = c_line /\ c_line' = c_line
           /\ ~(rdk \/ ck # None) => r_line' = None
<1>1. rdk => rdw # NoWord
  BY WordShape DEF ArrayCycle
<1>2. /\ clr \in BOOLEAN /\ rfl \in BOOLEAN /\ rdk \in BOOLEAN /\ (rfl => rt.rtype = "load")
      /\ wcv = (rt.rtype = "load" \/ clr) /\ (rdk \/ ck # None => ~wcv)
      /\ c_line' = (IF clr THEN None ELSE IF rfl THEN mshr_line ELSE c_line)
      /\ r_line' = IF (IF rdk THEN rdw ELSE NoWord) # NoWord \/ ck # None THEN c_line ELSE None
  BY DEF ArrayCycle, CacheCycle
<1>. QED  BY <1>1, <1>2

\* hit_oh of a checked entry stays right: a look-up that a line write overtakes
\* is not used (inval_hit).
LEMMA LookUpsNext ==
    ASSUME Typed, Entries, Transactions, Places,
           NEW st, NEW dp, NEW snt, NEW rtn, NEW ck, NEW wcv, NEW wrk,
           BufferCycle(st, dp, snt, rtn, ck, wcv, wrk),
           NEW rt, NEW clr, NEW rfl, NEW rdk, NEW rdw,
           ArrayCycle(st, rt, ck, wcv, wrk, clr, rfl, rdk, rdw), LookUps
    PROVE  LookUps'
<1>0. /\ check_q' = (IF ck = None THEN NoCheck ELSE [ptr |-> ck, tag |-> Line(wbuffer[ck].wtag)])
      /\ check_q1' = check_q /\ rd_hit_oh_q' = (check_q.ptr # None /\ r_line = check_q.tag)
      /\ wr_cl_vld_q' = wcv /\ wcv \in BOOLEAN
  BY DEF BufferCycle, WbufferCycle
<1>n. \A k \in Slots : k # None
  BY DEF Slots, None
<1>1. ASSUME NEW k \in Slots, valid(k)', wbuffer'[k].checked
      PROVE  wbuffer'[k].hit_oh <=> c_line' = Line(Tag(k)')
  <2>1. /\ ~Takes(k, st) /\ ~(valid(k) /\ inval_hit(wcv))
        /\ wbuffer[k].checked \/ (check_q1.ptr = k /\ valid(k))
        /\ wbuffer'[k].hit_oh = IF check_q1.ptr = k /\ valid(k) THEN rd_hit_oh_q
                                ELSE wbuffer[k].hit_oh
    BY <1>1, EntryNext
  <2>2. valid(k) /\ Tag(k)' = Tag(k)
    BY <1>1, <2>1, TagKept
  <2>3. ~wcv /\ ~wr_cl_vld_q
    BY <2>1, <2>2 DEF inval_hit
  <2>4. c_line' = c_line
    BY <2>3, ArrayNext
  <2>. QED  BY <2>1, <2>2, <2>3, <2>4, <1>n DEF LookUps
<1>2. ASSUME NEW k \in Slots, check_q'.ptr = k
      PROVE  /\ valid(k)' /\ check_q'.tag = Line(Tag(k)')
             /\ r_line' = c_line' /\ ~wr_cl_vld_q'
  <2>1. ck = k /\ ck # None /\ check_q'.tag = Line(Tag(k))
    BY <1>0, <1>2, <1>n DEF NoCheck, Tag
  <2>2. valid(k) /\ ~wbuffer[k].checked
    BY <2>1 DEF BufferCycle, tocheck
  <2>3. ~Loses(k, wrk)
    BY <2>2, ReleasedTx DEF Loses
  <2>5. valid(k)'
    BY <2>2, <2>3, ValidKept
  <2>6. Tag(k)' = Tag(k)
    BY <2>2, <2>5, TagKept
  <2>7. r_line' = c_line /\ c_line' = c_line
    <3>1. ck # None
      BY <2>1
    <3>. QED  BY <3>1, ArrayNext
  <2>8. ~wcv
    BY <2>1 DEF ArrayCycle
  <2>. QED  BY <1>0, <2>1, <2>5, <2>6, <2>7, <2>8
<1>3. ASSUME NEW k \in Slots, check_q1'.ptr = k, valid(k)'
      PROVE  check_q1'.tag = Line(Tag(k)')
  <2>1. valid(k) /\ check_q.tag = Line(Tag(k))
    BY <1>0, <1>3 DEF LookUps
  <2>2. Tag(k)' = Tag(k)
    BY <1>3, <2>1, TagKept
  <2>. QED  BY <1>0, <2>1, <2>2
<1>4. ASSUME check_q1'.ptr # None, ~wr_cl_vld_q'
      PROVE  rd_hit_oh_q' <=> c_line' = check_q1'.tag
  <2>1. check_q.ptr # None /\ check_q.ptr \in Slots /\ ~wcv
    BY <1>0, <1>4 DEF Typed, LookUp
  <2>2. r_line = c_line
    BY <2>1 DEF LookUps
  <2>3. c_line' = c_line
    BY <2>1, ArrayNext
  <2>. QED  BY <1>0, <2>1, <2>2, <2>3
<1>. QED  BY <1>1, <1>2, <1>3, <1>4 DEF LookUps, Tag

\* A byte that leaves the buffer while its line is cached is written to the
\* cache in the same cycle.
LEMMA WrittenBack ==
    ASSUME Typed, Entries, Transactions, Places,
           NEW st, NEW dp, NEW snt, NEW rtn, NEW ck, NEW wcv, NEW wrk,
           BufferCycle(st, dp, snt, rtn, ck, wcv, wrk),
           Memory, Machines, LookUps, NEW w \in Words, NEW b \in Bytes, Buffered(w, b), ~Buffered(w, b)'
    PROVE  /\ <<w, b>> \in mem_fresh /\ (mshr_vld_q => Line(w) # mshr_line)
           /\ c_line = Line(w) => evict(wrk) /\ wr_req_o /\ WrWord = w /\ b \in wr_data_be_o
<1>1. evict(wrk) /\ w = Tag(rtrn_ptr) /\ b \in Be(rtrn_id) \ wbuffer[rtrn_ptr].dirty
  BY BufferedNext
<1>2. /\ rtrn_id = rtrn_fifo[1] /\ 1 \in 1..Len(rtrn_fifo) /\ rtrn_ptr \in Slots
      /\ rtrn_id \in Busy /\ Ptr(rtrn_id) = rtrn_ptr /\ wbuffer[rtrn_ptr].checked
      /\ Be(rtrn_id) # {} /\ wbuffer[rtrn_ptr].txblock = Be(rtrn_id)
  BY <1>1, ReleasedTx
<1>3. <<w, b>> \in mem_fresh
  BY <1>1, <1>2 DEF Memory, Busy
<1>4. mshr_vld_q => Line(w) # mshr_line
  BY <1>1, <1>2 DEF Machines, TxLine
<1>5. valid(rtrn_ptr)
  BY <1>2 DEF Entries, valid
<1>6. b \in wr_data_be_o
  BY <1>1 DEF wr_data_be_o, Be
<1>7. c_line = Line(w) => wr_req_o
  BY <1>1, <1>2, <1>5, <1>6 DEF LookUps, wr_req_o, evict
<1>8. wr_req_o => WrWord = w
  BY <1>1 DEF WrWord
<1>. QED  BY <1>1, <1>3, <1>4, <1>6, <1>7, <1>8

\* The read that is acknowledged delivers the bytes the buffer does not hold.
Delivered(rdk, rdw) ==
    rdk /\ r_line' = Line(rdw) => \A b \in Bytes : <<rdw, b>> \in r_fresh' \/ Buffered(rdw, b)'

\* The cached line stays up to date but for what the buffer holds, and so does
\* what the read port is delivered.
LEMMA CacheNext ==
    ASSUME Typed, Entries, Transactions, Places,
           NEW st, NEW dp, NEW snt, NEW rt, NEW ck, NEW wcv, NEW wrk, NEW alc,
           BufferCycle(st, dp, snt, Tid(rt), ck, wcv, wrk), MemoryCycle(st, rt, dp, snt, alc),
           NEW clr, NEW rfl, NEW rdk, NEW rdw, ArrayCycle(st, rt, ck, wcv, wrk, clr, rfl, rdk, rdw),
           Machines, Atomics, Memory, LookUps, Cached
    PROVE  /\ \A w \in Words, b \in Bytes : c_line' = Line(w) => <<w, b>> \in c_fresh' \/ Buffered(w, b)'
           /\ Delivered(rdk, rdw)
<1>. DEFINE over == Over(st, rt)
            wbe == IF wrk THEN wr_data_be_o ELSE {}
<1>0. ASSUME rt.rtype = "amo"  PROVE c_line = None
  BY <1>0, ReturnKinds DEF MemoryCycle, Atomics
<1>l. \A w \in Words : Line(w) # None
  BY WordShape DEF None
<1>v. ASSUME NEW w \in Words, NEW b \in Bytes, <<w, b>> \in over, rt.rtype # "amo"
      PROVE  Buffered(w, b)'
  BY <1>v, StoredNext DEF Over
<1>a. /\ clr \in BOOLEAN /\ rfl \in BOOLEAN /\ rdk \in BOOLEAN /\ wrk \in BOOLEAN
      /\ rfl => rt.rtype = "load"
      /\ rdk => rdw \in Words
      /\ wrk => wr_req_o /\ ~clr /\ ~rfl /\ ~(rdk /\ Offset(rdw) = Offset(WrWord))
  BY DEF ArrayCycle, BufferCycle
<1>c. /\ c_line' = (IF clr THEN None ELSE IF rfl THEN mshr_line ELSE c_line)
      /\ c_fresh' = (IF clr THEN {} ELSE IF rfl THEN load
                     ELSE IF wbe = {} \/ c_line = None THEN c_fresh
                     ELSE (c_fresh \ Of(<<c_line, Offset(WrWord)>>, wbe))
                          \cup (IF Line(WrWord) = c_line THEN Of(WrWord, wbe) \cap Of(WrWord, Bytes) ELSE {}))
                    \ over
      /\ r_fresh' = (IF (IF rdk THEN rdw ELSE NoWord) = NoWord
                        \/ Collision(wbe # {}, WrWord, IF rdk THEN rdw ELSE NoWord) THEN {}
                     ELSE c_fresh \cap Of(IF rdk THEN rdw ELSE NoWord, Bytes)) \ over
  BY DEF ArrayCycle, CacheCycle
<1>. HIDE DEF over
\* The word that is written is of the line in the array.
<1>w. ASSUME wrk
      PROVE  WrWord \in Words /\ Line(WrWord) = c_line /\ wr_data_be_o \subseteq Bytes
  <2>1. wr_req_o /\ returned /\ wbuffer[rtrn_ptr].hit_oh
    BY <1>a, <1>w DEF wr_req_o
  <2>2. evict(wrk)
    BY <1>w, <2>1 DEF evict
  <2>3. /\ rtrn_ptr \in Slots /\ rtrn_id \in Busy /\ wbuffer[rtrn_ptr].checked
        /\ Be(rtrn_id) # {} /\ wbuffer[rtrn_ptr].txblock = Be(rtrn_id)
    BY <2>2, ReleasedTx
  <2>4. valid(rtrn_ptr)
    BY <2>3 DEF Entries, valid
  <2>5. Tag(rtrn_ptr) \in Words /\ Line(Tag(rtrn_ptr)) = c_line
    BY <2>1, <2>3, <2>4 DEF LookUps, Entries
  <2>6. wr_data_be_o \subseteq Bytes
    BY <2>3 DEF wr_data_be_o, Busy, Typed, Transaction
  <2>. QED  BY <2>1, <2>5, <2>6 DEF WrWord
<1>1. ASSUME NEW w \in Words, NEW b \in Bytes, c_line' = Line(w)
      PROVE  <<w, b>> \in c_fresh' \/ Buffered(w, b)'
  <2>1. ~clr
    BY <1>1, <1>c, <1>l
  <2>2. rt.rtype # "amo"
    BY <1>0, <1>1, <1>a, <1>c, <1>l, <2>1
  <2>3. CASE rfl
    <3>1. mshr_vld_q /\ Line(w) = mshr_line
      BY <1>1, <1>a, <1>c, <2>1, <2>3, ReturnKinds DEF MemoryCycle
    <3>2. <<w, b>> \in load \/ Buffered(w, b)
      BY <3>1 DEF Memory
    <3>3. Buffered(w, b) => Buffered(w, b)'
      BY <3>1, WrittenBack
    <3>. QED  BY <2>1, <2>2, <2>3, <3>2, <3>3, <1>c, <1>v
  <2>4. CASE ~rfl
    <3>1. c_line = Line(w)
      BY <1>1, <1>c, <2>1, <2>4
    <3>2. <<w, b>> \in c_fresh \/ Buffered(w, b)
      BY <3>1 DEF Cached
    <3>3. CASE <<w, b>> \in over
      BY <3>3, <2>2, <1>v
    <3>4. CASE <<w, b>> \notin over /\ wbe = {}
      <4>1. c_fresh' = c_fresh \ over
        BY <3>4, <2>1, <2>4, <1>c
      <4>2. Buffered(w, b) => Buffered(w, b)'
        <5>1. Buffered(w, b) /\ ~Buffered(w, b)' => evict(wrk) /\ wr_req_o /\ b \in wr_data_be_o
          BY <3>1, WrittenBack
        <5>2. evict(wrk) /\ wr_req_o => wrk
          BY DEF evict
        <5>. QED  BY <3>4, <5>1, <5>2
      <4>. QED  BY <3>2, <3>4, <4>1, <4>2
    <3>5. CASE <<w, b>> \notin over /\ wbe # {}
      <4>1. wrk /\ wbe = wr_data_be_o
        BY <3>5
      <4>2. WrWord \in Words /\ Line(WrWord) = c_line /\ wbe \subseteq Bytes
        BY <4>1, <1>w
      <4>3. <<c_line, Offset(WrWord)>> = WrWord
        BY <4>2, WordShape
      <4>4. c_line # None
        BY <3>1, <1>l
      <4>5. c_fresh' = ((c_fresh \ Of(WrWord, wbe)) \cup (Of(WrWord, wbe) \cap Of(WrWord, Bytes))) \ over
        BY <2>1, <2>4, <3>5, <4>2, <4>3, <4>4, <1>c
      <4>. HIDE DEF wbe
      <4>6. Of(WrWord, wbe) \subseteq Of(WrWord, Bytes)
        BY <4>2 DEF Of
      <4>7. <<w, b>> \in c_fresh => <<w, b>> \in c_fresh'
        BY <3>5, <4>5, <4>6
      <4>8. Buffered(w, b) /\ ~Buffered(w, b)' => <<w, b>> \in Of(WrWord, wbe)
        <5>1. Buffered(w, b) /\ ~Buffered(w, b)' => WrWord = w /\ b \in wr_data_be_o
          BY <3>1, WrittenBack
        <5>. QED  BY <4>1, <5>1 DEF Of
      <4>. QED  BY <3>2, <3>5, <4>5, <4>6, <4>7, <4>8
    <3>. QED  BY <3>3, <3>4, <3>5
  <2>. QED  BY <2>3, <2>4
<1>2. ASSUME rdk, NEW w \in Words, w = rdw, r_line' = Line(w), NEW b \in Bytes
      PROVE  <<w, b>> \in r_fresh' \/ Buffered(w, b)'
  <2>1. w # NoWord /\ c_line = Line(w)
    BY <1>2, <1>a, WordShape, ArrayNext
  <2>2. rt.rtype # "amo"
    BY <2>1, <1>0, <1>l
  <2>3. wrk => Offset(w) # Offset(WrWord)
    BY <1>2, <1>a
  <2>4. r_fresh' = (c_fresh \cap Of(w, Bytes)) \ over
    <3>1. ~Collision(wbe # {}, WrWord, w)
      BY <2>3 DEF Collision
    <3>. QED  BY <1>2, <2>1, <3>1, <1>c
  <2>5. <<w, b>> \in Of(w, Bytes)
    BY DEF Of
  <2>6. <<w, b>> \in c_fresh \/ Buffered(w, b)
    BY <2>1 DEF Cached
  <2>7. Buffered(w, b) => Buffered(w, b)'
    <3>1. c_line = Line(w)
      BY <2>1
    <3>2. Buffered(w, b) /\ ~Buffered(w, b)' => evict(wrk) /\ wr_req_o /\ WrWord = w
      BY <3>1, WrittenBack
    <3>3. evict(wrk) /\ wr_req_o => wrk
      BY DEF evict
    <3>. QED  BY <2>3, <3>2, <3>3
  <2>. QED  BY <2>1, <2>2, <2>4, <2>5, <2>6, <2>7, <1>v
<1>3. ASSUME rdk, r_line' = Line(rdw), NEW b \in Bytes
      PROVE  <<rdw, b>> \in r_fresh' \/ Buffered(rdw, b)'
  <2>1. PICK w \in Words : w = rdw
    BY <1>3, <1>a
  <2>2. <<w, b>> \in r_fresh' \/ Buffered(w, b)'
    BY <1>2, <1>3, <2>1
  <2>3. Buffered(w, b)' => Buffered(rdw, b)'
    BY <2>1
  <2>. QED  BY <2>1, <2>2, <2>3
<1>. QED  BY <1>1, <1>3, <1>a DEF Delivered

\* What is asked of memory in a cycle, and what that needs.
Asks(req, dp) ==
    /\ dirty # {} => dp \in dirty
    /\ req \in {"none", "store", "load", "amo"}
    /\ req = "store" => /\ dirty # {} /\ free_tx # {} /\ (mshr_vld_q => Line(Tag(dp)) # mshr_line)
                        /\ mu_state \in {"STORE_WAIT", "DRAIN", "IDLE"}
    /\ req = "load" => /\ rc_state \in {"MISS_REQ", "KILL_MISS_ACK"}
                       /\ \A t \in Busy : TxLine(t) # Line(rc_word)
                       /\ mu_state \in {"LOAD_WAIT", "IDLE"}
    /\ mu_state = "STORE_WAIT" => req = "store"
    /\ mu_state = "LOAD_WAIT" => req = "load"
    /\ req = "amo" <=> mu_state = "AMO"
    /\ first(enable_i, amo_req) => req = "none"

TxLines == {Line(wbuffer[tx_stat[t].ptr].wtag) : t \in TxIds \ free_tx}
Req(dp) == mem_data_req_o(ctrl_miss_req_o, miss_req_o, Line(rc_word),
                          IF miss_req_o THEN Line(wbuffer[dp].wtag) ELSE None,
                          TxLines, enable_i, amo_req)
Replay == miss_replay_o(ctrl_miss_req_o, miss_req_o, Line(rc_word), enable_i, amo_req)

\* What the miss unit asks of memory is allowed: the collision checks hold, in
\* the cycle of the request and while it waits.
LEMMA AsksWhat ==
    ASSUME Typed, Machines, NEW dp \in Offers(dirty_ptrs)
    PROVE  Asks(Req(dp), dp) /\ (Req(dp) = "load" => ~Replay)
<1>1. dirty_lock # None => dirty_lock \in dirty
  BY DEF Machines
<1>2. dirty # {} => dp \in dirty
  BY <1>1 DEF Offers, dirty_ptrs
<1>3. mu_state = "STORE_WAIT" => dirty # {} /\ dp = dirty_lock
  BY <1>1 DEF Machines, Offers, dirty_ptrs
<1>4. miss_req_o => dirty # {} /\ free_tx # {}
  BY DEF miss_req_o
<1>5. \A t \in Busy : TxLine(t) \in TxLines
  BY DEF Busy, TxLine, TxLines, free_tx, Tag, Ptr
<1>. DEFINE req == Req(dp)
            wr_line == IF miss_req_o THEN Line(wbuffer[dp].wtag) ELSE None
<1>6. CASE mu_state = "STORE_WAIT"
  <2>1. req = "store" /\ ~first(enable_i, amo_req)
    BY <1>6 DEF Req, mem_data_req_o, first
  <2>. QED  BY <1>2, <1>3, <1>6, <2>1 DEF Asks, Machines
<1>7. CASE mu_state = "LOAD_WAIT"
  <2>1. req = "load" /\ ~first(enable_i, amo_req) /\ ~Replay
    BY <1>7 DEF Req, mem_data_req_o, first, Replay, miss_replay_o
  <2>. QED  BY <1>2, <1>7, <2>1 DEF Asks, Machines
<1>8. CASE mu_state \in {"AMO", "AMO_WAIT", "FLUSH"}
  <2>1. req = (IF mu_state = "AMO" THEN "amo" ELSE "none")
    BY <1>8 DEF Req, mem_data_req_o
  <2>2. ~first(enable_i, amo_req)
    BY <1>8 DEF first
  <2>. HIDE DEF req
  <2>3. Asks(req, dp) /\ req # "load"
    BY <1>2, <1>8, <2>1, <2>2 DEF Asks
  <2>. QED  BY <2>3 DEF req
<1>9. CASE mu_state = "DRAIN"
  <2>1. /\ req = (IF miss_req_o /\ ~mshr_rdwr_collision(wr_line) THEN "store" ELSE "none")
        /\ ~first(enable_i, amo_req)
    BY <1>9 DEF Req, mem_data_req_o, first
  <2>2. req = "store" => (mshr_vld_q => Line(Tag(dp)) # mshr_line)
    BY <2>1 DEF mshr_rdwr_collision, Tag
  <2>. HIDE DEF req
  <2>3. req \in {"none", "store"} /\ (req = "store" => miss_req_o)
    BY <2>1
  <2>4. Asks(req, dp)
    BY <1>2, <1>4, <1>9, <2>1, <2>2, <2>3 DEF Asks
  <2>. QED  BY <2>3, <2>4 DEF req
<1>10. CASE mu_state = "IDLE"
  <2>. DEFINE port == Port(ctrl_miss_req_o, miss_req_o)
  <2>1. CASE first(enable_i, amo_req)
    <3>1. req = "none"
      BY <1>10, <2>1 DEF Req, mem_data_req_o
    <3>. QED  BY <1>2, <1>10, <3>1 DEF Asks
  <2>2. CASE ~first(enable_i, amo_req)
    <3>1. req = IF port = "wr" /\ ~mshr_rdwr_collision(wr_line) THEN "store"
                ELSE IF /\ port = "rd"
                        /\ ~mshr_rdrd_collision_d(ctrl_miss_req_o, Line(rc_word))
                        /\ ~tx_rdwr_collision(Line(rc_word), TxLines) THEN "load" ELSE "none"
      BY <1>10, <2>2 DEF Req, mem_data_req_o
    <3>2. (port = "wr" => miss_req_o) /\ (port = "rd" => ctrl_miss_req_o)
      BY <1>10 DEF Port
    <3>. HIDE DEF req, port, wr_line
    <3>3. req = "store" => /\ dirty # {} /\ free_tx # {}
                           /\ (mshr_vld_q => Line(Tag(dp)) # mshr_line)
      BY <1>4, <3>1, <3>2 DEF mshr_rdwr_collision, wr_line, Tag
    <3>4. req = "load" => /\ rc_state \in {"MISS_REQ", "KILL_MISS_ACK"}
                          /\ \A t \in Busy : TxLine(t) # Line(rc_word)
                          /\ ~mshr_rdrd_collision_d(ctrl_miss_req_o, Line(rc_word))
      BY <1>5, <3>1, <3>2 DEF tx_rdwr_collision, ctrl_miss_req_o
    <3>5. req \in {"none", "store", "load"}
      BY <3>1
    <3>6. Asks(req, dp)
      BY <1>2, <1>10, <2>2, <3>3, <3>4, <3>5 DEF Asks
    <3>7. req = "load" => ~Replay
      BY <3>4 DEF Replay, miss_replay_o
    <3>. QED  BY <3>6, <3>7 DEF req
  <2>. QED  BY <2>1, <2>2
<1>. QED  BY <1>6, <1>7, <1>8, <1>9, <1>10 DEF Typed, MuStates

\* The machine of the miss unit.
StateNext(req, ack, rt) == mu_state' = state_d(req, ack, empty_o, enable_i, amo_req, rt.rtype = "amo")

\* p_fsm of the miss unit: how each state is reached.
LEMMA MuNext ==
    ASSUME Typed, NEW req, NEW dp, Asks(req, dp), NEW ack, NEW rt,
           StateNext(req, ack, rt)
    PROVE  /\ mu_state' \in MuStates
           /\ mu_state' = "STORE_WAIT" => req = "store" /\ ~ack
           /\ mu_state' = "LOAD_WAIT" => req = "load" /\ ~ack
           /\ mu_state' = "AMO" => \/ mu_state = "AMO" /\ ~ack
                                   \/ mu_state = "IDLE" /\ amo_req /\ empty_o /\ ~mshr_vld_q /\ req = "none"
           /\ mu_state' = "AMO_WAIT" <=> (mu_state = "AMO" /\ ack) \/ (mu_state = "AMO_WAIT" /\ rt.rtype # "amo")
<1>1. CASE first(enable_i, amo_req)
  <2>1. mu_state = "IDLE" /\ req = "none" /\ ((enable_i /\ ~enable_q) \/ amo_req)
    BY <1>1 DEF first, Asks
  <2>2. mu_state' = IF drained(empty_o) THEN (IF enable_i /\ ~enable_q THEN "FLUSH" ELSE "AMO")
                    ELSE "DRAIN"
    BY <1>1, <2>1 DEF StateNext, state_d
  <2>. QED  BY <2>1, <2>2 DEF drained, MuStates
<1>2. CASE ~first(enable_i, amo_req)
  <2>1. mu_state' = CASE mu_state = "IDLE" /\ req = "store" /\ ~ack -> "STORE_WAIT"
                      [] mu_state = "IDLE" /\ req = "load" /\ ~ack -> "LOAD_WAIT"
                      [] mu_state \in {"STORE_WAIT", "LOAD_WAIT"} /\ ack -> "IDLE"
                      [] mu_state = "DRAIN" /\ drained(empty_o) -> "IDLE"
                      [] mu_state = "FLUSH" -> "IDLE"
                      [] mu_state = "AMO" /\ ack -> "AMO_WAIT"
                      [] mu_state = "AMO_WAIT" /\ rt.rtype = "amo" -> "IDLE"
                      [] OTHER -> mu_state
    BY <1>2 DEF StateNext, state_d
  <2>2. mu_state \in MuStates
    BY DEF Typed
  <2>3. /\ mu_state = "STORE_WAIT" => req = "store" /\ mu_state' = IF ack THEN "IDLE" ELSE "STORE_WAIT"
        /\ mu_state = "LOAD_WAIT" => req = "load" /\ mu_state' = IF ack THEN "IDLE" ELSE "LOAD_WAIT"
    BY <2>1 DEF Asks
  <2>4. mu_state = "IDLE" => mu_state' = IF req = "store" /\ ~ack THEN "STORE_WAIT"
                                         ELSE IF req = "load" /\ ~ack THEN "LOAD_WAIT" ELSE "IDLE"
    BY <2>1
  <2>5. /\ mu_state = "DRAIN" => mu_state' \in {"IDLE", "DRAIN"}
        /\ mu_state = "FLUSH" => mu_state' = "IDLE"
        /\ mu_state = "AMO" => mu_state' = IF ack THEN "AMO_WAIT" ELSE "AMO"
        /\ mu_state = "AMO_WAIT" => mu_state' = IF rt.rtype = "amo" THEN "IDLE" ELSE "AMO_WAIT"
    BY <2>1
  <2>. QED  BY <2>2, <2>3, <2>4, <2>5 DEF MuStates
<1>. QED  BY <1>1, <1>2

\* A cycle of the read port.
PortNext(ld, gnt, rdk, lack, alc, rpl) ==
    /\ rc_state' \in RcStates /\ rd_ack_q' = rdk
    /\ rc_word' = IF gnt THEN ld ELSE IF rc_state' = "IDLE" THEN NoWord ELSE rc_word
    /\ gnt => rc_state' = "READ" /\ rc_state \in {"IDLE", "READ", "REPLAY_READ"}
              /\ ld \in Words /\ rdk
    /\ ~gnt /\ rc_state' # "IDLE" => rc_state # "IDLE"
    /\ ~gnt /\ rc_state' \in {"READ", "REPLAY_READ"} => rdk
    /\ rc_state \in {"MISS_REQ", "KILL_MISS_ACK"} /\ ~rpl =>
         rc_state' \in (IF alc THEN {"MISS_WAIT", "KILL_MISS"} ELSE {"MISS_REQ", "KILL_MISS_ACK"})
    /\ rc_state \in {"MISS_WAIT", "KILL_MISS"} =>
         rc_state' \in (IF lack THEN {"IDLE"} ELSE {"MISS_WAIT", "KILL_MISS"})
    /\ rc_state \notin {"MISS_WAIT", "KILL_MISS"} /\ ~alc => rc_state' \notin {"MISS_WAIT", "KILL_MISS"}

\* The signals the read port sees in a cycle.
PortCycle(ld, gnt, kill, rdk, wcv, hit, alc, rpl, lack) ==
    /\ ld \in Words \cup {NoWord}
    /\ gnt \in BOOLEAN /\ kill \in BOOLEAN /\ rdk \in BOOLEAN /\ wcv \in BOOLEAN /\ hit \in BOOLEAN
    /\ alc \in BOOLEAN /\ rpl \in BOOLEAN /\ lack \in BOOLEAN
    /\ gnt => ld # NoWord /\ rdk /\ (rc_state = "IDLE" \/ hit)
    /\ hit => Reads
    /\ CtrlCycle(ld, gnt, kill, rdk, wcv, hit, alc, rpl, lack)

\* p_fsm of the read port: how each state is reached.
LEMMA PortStep ==
    ASSUME Typed, NEW ld, NEW gnt, NEW kill, NEW rdk, NEW wcv, NEW hit, NEW alc, NEW rpl, NEW lack,
           PortCycle(ld, gnt, kill, rdk, wcv, hit, alc, rpl, lack)
    PROVE  PortNext(ld, gnt, rdk, lack, alc, rpl)
<1>0. /\ ld \in Words \cup {NoWord}
      /\ gnt \in BOOLEAN /\ kill \in BOOLEAN /\ rdk \in BOOLEAN /\ wcv \in BOOLEAN /\ hit \in BOOLEAN
      /\ alc \in BOOLEAN /\ rpl \in BOOLEAN /\ lack \in BOOLEAN
      /\ gnt => ld # NoWord /\ rdk /\ (rc_state = "IDLE" \/ hit)
      /\ hit => Reads
  BY DEF PortCycle
<1>1. /\ rc_state' = rc_state_d(gnt, kill, rdk, wcv, hit, alc, rpl, lack)
      /\ rc_word' = (IF gnt THEN ld ELSE IF rc_state' = "IDLE" THEN NoWord ELSE rc_word)
      /\ rd_ack_q' = rdk
  BY DEF CtrlCycle, PortCycle
<1>2. rc_state \in RcStates
  BY DEF Typed
<1>3. CASE gnt
  <2>1. rc_state \in {"IDLE", "READ", "REPLAY_READ"} /\ ld \in Words
    BY <1>0, <1>3 DEF Reads
  <2>2. rc_state' = "READ"
    BY <1>0, <1>1, <1>3, <2>1 DEF rc_state_d
  <2>. QED  BY <1>0, <1>1, <1>3, <2>1, <2>2 DEF PortNext, RcStates
<1>4. CASE ~gnt
  <2>1. CASE rc_state \in {"IDLE", "READ", "REPLAY_READ"}
    <3>1. /\ rc_state' \in {"IDLE", "REPLAY_REQ", "MISS_REQ"} /\ (rc_state = "IDLE" => rc_state' = "IDLE")
      BY <1>0, <1>1, <1>4, <2>1 DEF rc_state_d, Reads
    <3>. QED  BY <1>0, <1>1, <1>4, <2>1, <3>1 DEF PortNext, RcStates
  <2>2. CASE rc_state = "MISS_REQ"
    <3>1. rc_state' = IF kill THEN IF alc THEN "KILL_MISS" ELSE "KILL_MISS_ACK"
                      ELSE IF rpl THEN "REPLAY_REQ" ELSE IF alc THEN "MISS_WAIT" ELSE rc_state
      BY <1>0, <1>1, <1>4, <2>2 DEF rc_state_d, Reads
    <3>. QED  BY <1>0, <1>1, <1>4, <2>2, <3>1 DEF PortNext, RcStates
  <2>3. CASE rc_state \in {"MISS_WAIT", "KILL_MISS"}
    <3>1. rc_state' \in (IF lack THEN {"IDLE"} ELSE {"MISS_WAIT", "KILL_MISS"})
      BY <1>0, <1>1, <1>4, <2>3 DEF rc_state_d, Reads
    <3>. QED  BY <1>0, <1>1, <1>4, <2>3, <3>1 DEF PortNext, RcStates
  <2>4. CASE rc_state = "REPLAY_REQ"
    <3>1. rc_state' = IF kill THEN "IDLE" ELSE IF rdk THEN "REPLAY_READ" ELSE rc_state
      BY <1>0, <1>1, <1>4, <2>4 DEF rc_state_d, Reads
    <3>. QED  BY <1>0, <1>1, <1>4, <2>4, <3>1 DEF PortNext, RcStates
  <2>5. CASE rc_state = "KILL_MISS_ACK"
    <3>1. rc_state' = IF rpl THEN "IDLE" ELSE IF alc THEN "KILL_MISS" ELSE rc_state
      BY <1>0, <1>1, <1>4, <2>5 DEF rc_state_d, Reads
    <3>. QED  BY <1>0, <1>1, <1>4, <2>5, <3>1 DEF PortNext, RcStates
  <2>. QED  BY <1>2, <2>1, <2>2, <2>3, <2>4, <2>5 DEF RcStates
<1>. QED  BY <1>0, <1>3, <1>4

\* A request that memory accepts is a store or a miss that is sent.
Signals(req, ack, snt, alc, rpl) ==
    snt = (req = "store" /\ ack) /\ alc = (req = "load" /\ ack) /\ (req = "load" => ~rpl)

\* The miss register, the read port and the write buffer stay in step.
LEMMA MachinesNext ==
    ASSUME Typed, Entries, Transactions, Places,
           NEW st, NEW dp, NEW snt, NEW rt, NEW ck, NEW wcv, NEW wrk, NEW alc,
           BufferCycle(st, dp, snt, Tid(rt), ck, wcv, wrk), MemoryCycle(st, rt, dp, snt, alc),
           Machines, NEW req, NEW ack \in BOOLEAN, NEW ld, NEW gnt \in BOOLEAN, NEW rdk, NEW rpl,
           Asks(req, dp), Signals(req, ack, snt, alc, rpl), MshrCycle(rt, alc), StateNext(req, ack, rt),
           PortNext(ld, gnt, rdk, rt.rtype = "load", alc, rpl)
    PROVE  Machines'
<1>0. snt = (req = "store" /\ ack) /\ alc = (req = "load" /\ ack) /\ (req = "load" => ~rpl)
  BY DEF Signals
<1>1. /\ mu_state' = "STORE_WAIT" => req = "store" /\ ~ack
      /\ mu_state' = "LOAD_WAIT" => req = "load" /\ ~ack
  BY MuNext
<1>2. \A t \in Busy' : ~snt => t \in Busy /\ ~(evict(wrk) /\ t = rtrn_id)
  BY TxNext DEF Busy
<1>3. ASSUME NEW t \in Busy', t \in Busy, ~(evict(wrk) /\ t = rtrn_id)
      PROVE  wbuffer'[Ptr(t)'].wtag = Tag(Ptr(t))
  BY <1>3, KeptTx
<1>4. ASSUME NEW k \in dirty, ~snt
      PROVE  /\ k \in Slots /\ valid(k) /\ valid(k)' /\ Tag(k)' = Tag(k)
             /\ wbuffer'[k].txblock = {} /\ wbuffer'[k].dirty \cap wbuffer'[k].valid # {}
  <2>1. k \in Slots /\ valid(k) /\ wbuffer[k].txblock = {}
    BY <1>4, SentBytes
  <2>2. ~Loses(k, wrk)
    BY <2>1, ReleasedTx DEF Loses
  <2>3. valid(k)'
    BY <2>1, <2>2, ValidKept
  <2>4. Tag(k)' = Tag(k)
    BY <2>1, <2>3, TagKept
  <2>5. snt = FALSE
    BY <1>4
  <2>6. wbuffer'[k].txblock = {}
    BY <2>1, <2>2, <2>5, EntryNext
  <2>7. wbuffer'[k].valid = wbuffer'[k].dirty
    BY <2>1, <2>6, EntriesNext DEF Entries
  <2>. QED  BY <2>1, <2>3, <2>4, <2>6, <2>7 DEF valid
<1>5. dirty_lock' = IF dirty # {} /\ ~snt THEN dp ELSE None
  BY DEF BufferCycle, WbufferCycle
<1>6. dirty # {} => dp \in dirty /\ dp # None
  BY DEF Asks, dirty, Slots, None
<1>7. ASSUME dirty_lock' # None  PROVE dirty_lock' \in dirty'
  <2>1. dp \in dirty /\ ~snt /\ dirty_lock' = dp
    BY <1>5, <1>6, <1>7
  <2>2. dp \in Slots /\ wbuffer'[dp].txblock = {} /\ wbuffer'[dp].dirty \cap wbuffer'[dp].valid # {}
    BY <1>4, <2>1
  <2>3. dp \in dirty'
    BY <2>2 DEF dirty, bdirty
  <2>. QED  BY <2>1, <2>3
<1>8. ASSUME mu_state' = "STORE_WAIT"
      PROVE  /\ dirty_lock' # None /\ free_tx' # {}
             /\ mshr_vld_q' => Line(wbuffer'[dirty_lock'].wtag) # mshr_line'
  <2>1. /\ dirty # {} /\ free_tx # {} /\ ~snt /\ ~alc /\ dp \in dirty
        /\ (mshr_vld_q => Line(Tag(dp)) # mshr_line)
    BY <1>0, <1>1, <1>8 DEF Asks
  <2>2. dirty_lock' = dp /\ dp # None
    BY <1>5, <1>6, <2>1
  <2>3. free_tx' # {}
    <3>1. PICK t \in TxIds : t \notin Busy
      BY <2>1 DEF free_tx, Busy
    <3>2. t \notin Busy'
      BY <1>2, <2>1, <3>1
    <3>. QED  BY <3>2 DEF free_tx, Busy
  <2>4. wbuffer'[dp].wtag = Tag(dp)
    BY <1>4, <2>1 DEF Tag
  <2>5. mshr_vld_q' => mshr_vld_q /\ mshr_line' = mshr_line
    BY <2>1 DEF MshrCycle
  <2>. QED  BY <2>1, <2>2, <2>3, <2>4, <2>5
<1>9. ASSUME mu_state' = "LOAD_WAIT"
      PROVE  /\ rc_state' \in {"MISS_REQ", "KILL_MISS_ACK"}
             /\ \A t \in Busy' : Line(wbuffer'[Ptr(t)'].wtag) # Line(rc_word')
  <2>1. /\ req = "load" /\ ~snt /\ ~alc /\ rc_state \in {"MISS_REQ", "KILL_MISS_ACK"} /\ ~rpl
        /\ \A t \in Busy : TxLine(t) # Line(rc_word)
    BY <1>0, <1>1, <1>9 DEF Asks
  <2>2. rc_state' \in {"MISS_REQ", "KILL_MISS_ACK"} /\ rc_word' = rc_word
    BY <2>1 DEF PortNext
  <2>. QED  BY <2>1, <2>2, <1>2, <1>3 DEF TxLine
<1>10. ASSUME alc
       PROVE  /\ req = "load" /\ ~snt /\ rc_state' \in {"MISS_WAIT", "KILL_MISS"} /\ rc_word' = rc_word
              /\ \A t \in Busy : TxLine(t) # Line(rc_word)
  <2>1. req = "load" /\ ~snt /\ ~rpl
    BY <1>0, <1>10
  <2>2. /\ rc_state \in {"MISS_REQ", "KILL_MISS_ACK"}
        /\ \A t \in Busy : TxLine(t) # Line(rc_word)
    BY <2>1 DEF Asks
  <2>. QED  BY <1>10, <2>1, <2>2 DEF PortNext
<1>11. rt.rtype = "load" => mshr_vld_q
  BY ReturnKinds DEF MemoryCycle
<1>12. mshr_vld_q' <=> rc_state' \in {"MISS_WAIT", "KILL_MISS"}
  <2>1. CASE alc
    BY <2>1, <1>10 DEF MshrCycle
  <2>2. CASE ~alc
    BY <2>2, <1>11 DEF MshrCycle, PortNext, Machines
  <2>. QED  BY <2>1, <2>2
<1>13. ASSUME mshr_vld_q'
       PROVE  /\ mshr_line' = Line(rc_word')
              /\ \A t \in Busy' : Line(wbuffer'[Ptr(t)'].wtag) # mshr_line'
  <2>1. CASE alc
    <3>1. mshr_line' = Line(rc_word)
      BY <2>1 DEF MshrCycle
    <3>. QED  BY <2>1, <3>1, <1>2, <1>3, <1>10 DEF TxLine
  <2>2. CASE ~alc
    <3>1. mshr_vld_q /\ rt.rtype # "load" /\ mshr_line' = mshr_line
      BY <1>13, <2>2 DEF MshrCycle
    <3>2. mshr_line = Line(rc_word) /\ \A t \in Busy : TxLine(t) # mshr_line
      BY <3>1 DEF Machines
    <3>3. rc_word' = rc_word
      BY <3>1, <1>12, <1>13 DEF PortNext, Machines
    <3>4. ASSUME NEW t \in Busy'  PROVE Line(wbuffer'[Ptr(t)'].wtag) # mshr_line
      <4>1. CASE t \in Busy /\ ~(evict(wrk) /\ t = rtrn_id)
        BY <4>1, <3>2, <1>3 DEF TxLine
      <4>2. CASE ~(t \in Busy /\ ~(evict(wrk) /\ t = rtrn_id))
        <5>1. snt /\ t = tx_id
          BY <4>2, TxNext DEF Busy
        <5>2. Ptr(t)' = dp
          BY <5>1, TxNext DEF Ptr
        <5>3. snt = TRUE
          BY <5>1
        <5>4. wbuffer'[dp].wtag = Tag(dp)
          BY <5>3, NewTx
        <5>. QED  BY <1>0, <3>1, <5>1, <5>2, <5>4 DEF Asks
      <4>. QED  BY <4>1, <4>2
    <3>. QED  BY <3>1, <3>2, <3>3, <3>4
  <2>. QED  BY <2>1, <2>2
<1>14. ASSUME rc_state' # "IDLE"  PROVE rc_word' \in Words
  BY <1>14 DEF PortNext, Machines
<1>. QED  BY <1>7, <1>8, <1>9, <1>12, <1>13, <1>14 DEF Machines, Tag, TxLine

\* The atomic operation in memory.
AmoCycle(req, ack, rt) ==
    /\ amo_phase' = CASE req = "amo" /\ ack -> "inv" [] rt.rtype = "inv" -> "ack"
                      [] rt.rtype = "amo" -> "none" [] OTHER -> amo_phase
    /\ amo_req' \in BOOLEAN
    /\ amo_req => amo_req' = (rt.rtype # "amo")

\* An atomic stays alone until it is answered.
LEMMA AtomicsNext ==
    ASSUME Typed, Entries, Transactions, Places,
           NEW st, NEW dp, NEW snt, NEW rt, NEW ck, NEW wcv, NEW wrk, NEW alc,
           BufferCycle(st, dp, snt, Tid(rt), ck, wcv, wrk), MemoryCycle(st, rt, dp, snt, alc),
           NEW clr, NEW rfl, NEW rdk, NEW rdw, ArrayCycle(st, rt, ck, wcv, wrk, clr, rfl, rdk, rdw),
           rt.rtype = "inv" => clr = TRUE,
           Atomics, NEW req, NEW ack \in BOOLEAN, Asks(req, dp), alc = (req = "load" /\ ack),
           MshrCycle(rt, alc), StateNext(req, ack, rt), AmoCycle(req, ack, rt),
           amo_req => st = NoStore
    PROVE  Atomics'
<1>1. /\ mu_state' = "AMO" => \/ mu_state = "AMO" /\ ~ack
                              \/ mu_state = "IDLE" /\ amo_req /\ empty_o /\ ~mshr_vld_q /\ req = "none"
      /\ mu_state' = "AMO_WAIT" <=> (mu_state = "AMO" /\ ack) \/ (mu_state = "AMO_WAIT" /\ rt.rtype # "amo")
  BY MuNext
<1>2. /\ rt.rtype = "load" => mshr_vld_q
      /\ rt.rtype = "inv" => amo_phase = "inv"
      /\ rt.rtype = "amo" => amo_phase = "ack"
  BY ReturnKinds DEF MemoryCycle
<1>3. mu_state \in {"AMO", "AMO_WAIT"} => req \notin {"store", "load"} /\ amo_req /\ empty_o /\ ~mshr_vld_q
  BY DEF Asks, Atomics
<1>4. amo_req /\ empty_o => empty_o'
  <2>1. ASSUME amo_req, empty_o, NEW k \in Slots  PROVE ~valid(k)'
    <3>1. ~valid(k) /\ st.word = NoWord
      BY <2>1 DEF empty_o, NoStore
    <3>. QED  BY <3>1, TagKept DEF Takes
  <2>. QED  BY <2>1 DEF empty_o
<1>5. (req = "amo" <=> mu_state = "AMO") /\ (amo_phase # "none" <=> mu_state = "AMO_WAIT")
  BY DEF Asks, Atomics
<1>6. ASSUME mu_state' \in {"AMO", "AMO_WAIT"}
      PROVE  amo_req' /\ empty_o' /\ ~mshr_vld_q'
  <2>1. amo_req /\ empty_o /\ ~mshr_vld_q /\ req \notin {"store", "load"} /\ rt.rtype # "amo"
    BY <1>1, <1>2, <1>3, <1>5, <1>6
  <2>. QED  BY <2>1, <1>4 DEF AmoCycle, MshrCycle
<1>7. amo_phase' # "none" <=> mu_state' = "AMO_WAIT"
  <2>1. CASE mu_state = "AMO"
    <3>1. rt.rtype \notin {"inv", "amo"} /\ amo_phase = "none"
      BY <2>1, <1>2, <1>5
    <3>. QED  BY <2>1, <3>1, <1>1, <1>5 DEF AmoCycle
  <2>2. CASE mu_state = "AMO_WAIT"
    <3>1. req # "amo" /\ amo_phase # "none"
      BY <2>2, <1>5
    <3>. QED  BY <2>2, <3>1, <1>1 DEF AmoCycle
  <2>3. CASE mu_state \notin {"AMO", "AMO_WAIT"}
    <3>1. rt.rtype \notin {"inv", "amo"} /\ amo_phase = "none" /\ req # "amo"
      BY <2>3, <1>2, <1>5
    <3>. QED  BY <2>3, <3>1, <1>1 DEF AmoCycle
  <2>. QED  BY <2>1, <2>2, <2>3
<1>8. ASSUME amo_phase' = "ack"  PROVE c_line' = None
  <2>0. clr \in BOOLEAN /\ rfl \in BOOLEAN /\ (rfl => rt.rtype = "load")
    BY DEF ArrayCycle
  <2>1. CASE rt.rtype = "inv"
    BY <2>0, <2>1, ArrayNext
  <2>2. CASE rt.rtype # "inv"
    <3>1. amo_phase = "ack"
      BY <1>8, <2>2 DEF AmoCycle
    <3>2. c_line = None /\ ~mshr_vld_q
      BY <3>1, <1>3, <1>5 DEF Atomics
    <3>3. rfl = FALSE
      BY <2>0, <3>2, <1>2
    <3>4. c_line' = IF clr THEN None ELSE IF rfl THEN mshr_line ELSE c_line
      BY ArrayNext
    <3>. QED  BY <2>0, <3>2, <3>3, <3>4
  <2>. QED  BY <2>1, <2>2
<1>. QED  BY <1>6, <1>7, <1>8 DEF Atomics

\* The bytes a load is answered with.
LEMMA AnswerFresh ==
    ASSUME Typed, Machines, Memory, Cached, NEW kill, NEW rt \in Returns, NEW wcv,
           rt.rtype = "load" => wcv = TRUE,
           answered(kill, wcv, r_line = Line(rc_word), enable_q, rt.rtype = "load")
    PROVE  Of(rc_word, Bytes \ wbuffer_be(rc_word)) \subseteq (IF rt.rtype = "load" THEN load ELSE r_fresh)
<1>1. rc_word \in Words
  BY DEF answered, Hit, Reads, Machines
<1>2. ASSUME NEW b \in Bytes, Buffered(rc_word, b)  PROVE b \in wbuffer_be(rc_word)
  BY <1>2 DEF Buffered, wbuffer_be, wbuffer_hit, valid, Tag
<1>3. ASSUME NEW b \in Bytes
      PROVE  <<rc_word, b>> \in (IF rt.rtype = "load" THEN load ELSE r_fresh) \/ Buffered(rc_word, b)
  <2>1. CASE rt.rtype = "load"
    <3>1. mshr_vld_q
      BY <2>1, ReturnKinds
    <3>2. Line(rc_word) = mshr_line
      BY <3>1 DEF Machines
    <3>. QED  BY <2>1, <3>1, <3>2, <1>1 DEF Memory
  <2>2. CASE rt.rtype # "load"
    <3>1. Reads /\ rd_ack_q /\ r_line = Line(rc_word)
      BY <2>2 DEF answered, Hit, Replays
    <3>. QED  BY <2>2, <3>1 DEF Cached
  <2>. QED  BY <2>1, <2>2
<1>. QED  BY <1>2, <1>3 DEF Of

\* A cycle keeps the types.
LEMMA TypedNext ==
    ASSUME Typed, Entries, Transactions, Places,
           NEW st, NEW dp, NEW snt, NEW rt, NEW ck, NEW wcv, NEW wrk, NEW alc,
           BufferCycle(st, dp, snt, Tid(rt), ck, wcv, wrk), MemoryCycle(st, rt, dp, snt, alc),
           NEW clr, NEW rfl, NEW rdk, NEW rdw, ArrayCycle(st, rt, ck, wcv, wrk, clr, rfl, rdk, rdw),
           Machines, NEW req, NEW ack \in BOOLEAN, NEW ld, NEW gnt \in BOOLEAN, NEW rpl,
           Asks(req, dp), alc = (req = "load" /\ ack), MshrCycle(rt, alc), StateNext(req, ack, rt),
           PortNext(ld, gnt, rdk, rt.rtype = "load", alc, rpl), AmoCycle(req, ack, rt), work' = work
    PROVE  Typed'
<1>1. wbuffer' \in [Slots -> Entry]
  <2>1. \A k \in Slots : wbuffer'[k] \in Entry
    BY EntryNext
  <2>2. wbuffer' = [k \in Slots |-> wbuffer'[k]]
    BY DEF BufferCycle, WbufferCycle
  <2>. QED  BY <2>1, <2>2
<1>2. tx_stat' \in [TxIds -> Transaction]
  BY TxNext
<1>3. rtrn_fifo' \in Seq(TxIds)
  BY ReturnedNext
<1>4. check_q' \in LookUp /\ check_q1' \in LookUp /\ rd_hit_oh_q' \in BOOLEAN /\ wr_cl_vld_q' \in BOOLEAN
  <2>1. /\ check_q' = (IF ck = None THEN NoCheck ELSE [ptr |-> ck, tag |-> Line(wbuffer[ck].wtag)])
        /\ check_q1' = check_q /\ wr_cl_vld_q' = wcv /\ wcv \in BOOLEAN
        /\ rd_hit_oh_q' = (check_q.ptr # None /\ r_line = check_q.tag)
    BY DEF BufferCycle, WbufferCycle
  <2>2. ck # None => ck \in Slots /\ valid(ck)
    BY DEF BufferCycle, tocheck
  <2>3. ck # None => Line(wbuffer[ck].wtag) \in Lines
    BY <2>2 DEF Entries, Lines, Tag
  <2>. QED  BY <2>1, <2>2, <2>3 DEF LookUp, NoCheck, Typed
<1>5. dirty_lock' \in Slots \cup {None}
  <2>1. dirty_lock' = IF dirty # {} /\ ~snt THEN dp ELSE None
    BY DEF BufferCycle, WbufferCycle
  <2>. QED  BY <2>1 DEF Asks, dirty
<1>6. mu_state' \in MuStates
  BY MuNext
<1>7. mshr_vld_q' \in BOOLEAN /\ mshr_line' \in Lines \cup {None}
  <2>1. alc => rc_word \in Words
    BY DEF Asks, Machines
  <2>. QED  BY <2>1 DEF MshrCycle, Lines, Typed, None
<1>8. rc_state' \in RcStates /\ rc_word' \in Words \cup {NoWord} /\ rd_ack_q' \in BOOLEAN
  BY DEF PortNext, ArrayCycle, Typed
<1>9. c_line' \in Lines \cup {None} /\ r_line' \in Lines \cup {None}
  <2>1. clr \in BOOLEAN /\ rfl \in BOOLEAN
    BY DEF ArrayCycle
  <2>. QED  BY <2>1, ArrayNext DEF Typed
<1>10. c_fresh' \subseteq AllBytes /\ r_fresh' \subseteq AllBytes
  <2>. DEFINE wbe == IF wrk THEN wr_data_be_o ELSE {}
              rd == IF rdk THEN rdw ELSE NoWord
  <2>1. wbe # {} => wrk /\ wr_req_o
    BY DEF ArrayCycle
  <2>2. wbe \subseteq Bytes
    <3>1. wbe # {} => rtrn_fifo # <<>>
      BY <2>1 DEF wr_req_o, returned
    <3>2. rtrn_fifo # <<>> => rtrn_id \in TxIds
      BY DEF Typed, rtrn_id
    <3>3. rtrn_fifo # <<>> => tx_stat[rtrn_id].be \subseteq Bytes
      BY <3>2 DEF Typed, Transaction
    <3>. QED  BY <3>1, <3>3 DEF wr_data_be_o
  <2>3. wbe # {} /\ c_line # None /\ Line(WrWord) = c_line => WrWord \in Words
    <3>1. wbe # {} => rtrn_fifo # <<>> /\ WrWord = Tag(rtrn_ptr)
      BY <2>1 DEF wr_req_o, returned, WrWord
    <3>2. rtrn_fifo # <<>> => rtrn_id \in TxIds
      BY DEF Typed, rtrn_id
    <3>3. rtrn_fifo # <<>> => rtrn_ptr \in Slots
      BY <3>2 DEF Typed, Transaction, rtrn_ptr
    <3>4. rtrn_fifo # <<>> => Tag(rtrn_ptr) \in Words \cup {NoWord}
      BY <3>3 DEF Typed, Entry, Tag
    <3>5. Line(NoWord) = None
      BY DEF Line, NoWord
    <3>. QED  BY <3>1, <3>4, <3>5
  <2>4. c_fresh' = (IF clr THEN {} ELSE IF rfl THEN load
                    ELSE IF wbe = {} \/ c_line = None THEN c_fresh
                    ELSE (c_fresh \ Of(<<c_line, Offset(WrWord)>>, wbe))
                         \cup (IF Line(WrWord) = c_line THEN Of(WrWord, wbe) \cap Of(WrWord, Bytes) ELSE {}))
                   \ Over(st, rt)
    BY DEF ArrayCycle, CacheCycle
  <2>5. \A x : x \in r_fresh' => x \in c_fresh
    BY DEF ArrayCycle, CacheCycle
  <2>6. c_fresh \subseteq AllBytes /\ load \subseteq AllBytes
    BY DEF Typed
  <2>. HIDE DEF wbe
  <2>7. wbe # {} /\ c_line # None /\ Line(WrWord) = c_line => Of(WrWord, wbe) \subseteq AllBytes
    BY <2>2, <2>3 DEF Of, AllBytes
  <2>. QED  BY <2>4, <2>5, <2>6, <2>7
<1>11. mem_fresh' \subseteq AllBytes /\ load' \subseteq AllBytes
  <2>1. \A s \in Acked(rt) : s.fresh \subseteq AllBytes
    BY DEF Acked, Typed, Request
  <2>2. UNION {s.fresh : s \in Acked(rt)} \subseteq AllBytes
    BY <2>1
  <2>. QED  BY <2>2 DEF MemoryCycle, Typed
<1>12. flight' \subseteq Request
  <2>1. ASSUME NEW s \in flight \ Acked(rt)
        PROVE  [s EXCEPT !.fresh = @ \ Over(st, rt)] \in Request
    <3>1. s \in Request
      BY DEF Typed
    <3>. QED  BY <3>1 DEF Request
  <2>2. snt => Issued(st, rt, dp) \in Request
    <3>1. snt => dp \in dirty /\ tx_id \in TxIds
      BY TxNext DEF BufferCycle
    <3>2. snt => dp \in Slots /\ valid(dp) /\ tx_be(dp) \subseteq wbuffer[dp].dirty
      BY <3>1, SentBytes
    <3>3. snt => tx_be(dp) \subseteq Bytes /\ wbuffer[dp].wtag \in Words
      BY <3>2 DEF Typed, Entry, Entries, Tag
    <3>. QED  BY <3>1, <3>3 DEF Issued, Request, Of, AllBytes
  <2>3. flight' = {[s EXCEPT !.fresh = @ \ Over(st, rt)] : s \in flight \ Acked(rt)}
                  \cup (IF snt THEN {Issued(st, rt, dp)} ELSE {})
    BY DEF MemoryCycle
  <2>. QED  BY <2>1, <2>2, <2>3
<1>13. amo_phase' \in {"none", "inv", "ack"} /\ amo_req' \in BOOLEAN /\ work' \in Workloads
  BY DEF AmoCycle, Typed
<1>. QED  BY <1>1, <1>2, <1>3, <1>4, <1>5, <1>6, <1>7, <1>8, <1>9, <1>10, <1>11, <1>12, <1>13 DEF Typed

\* The initial states: an empty buffer, nothing cached, memory up to date.
LEMMA InitInv ==
    Init => IInv
<1>. SUFFICES ASSUME Init PROVE IInv
  OBVIOUS
<1>0. Slots \subseteq Nat /\ 0 \in Slots /\ TxIds \subseteq Nat
  BY SizesAssumption DEF Slots, TxIds
<1>1. /\ wbuffer = [k \in Slots |-> Free] /\ tx_stat = [t \in TxIds |-> NoTx] /\ rtrn_fifo = <<>>
      /\ check_q = NoCheck /\ check_q1 = NoCheck /\ rd_hit_oh_q = FALSE /\ wr_cl_vld_q = FALSE
      /\ dirty_lock = None
  BY DEF Init, WbufferInit
<1>2. /\ mu_state = "FLUSH" /\ mshr_vld_q = FALSE /\ mshr_line = -1 /\ rc_state = "IDLE"
      /\ rc_word = NoWord /\ rd_ack_q = FALSE /\ c_line = None /\ c_fresh = {} /\ r_line = None
      /\ r_fresh = {}
  BY DEF Init, MissInit, CtrlInit, CacheInit
<1>3. /\ mem_fresh = AllBytes /\ flight = {} /\ load = {} /\ amo_phase = "none" /\ work \in Workloads
      /\ amo_req = FALSE /\ stale = FALSE
  BY DEF Init
<1>4. Free \in Entry /\ NoTx \in Transaction /\ NoCheck \in LookUp
  BY <1>0 DEF Free, Entry, NoTx, Transaction, NoCheck, LookUp
<1>5. \A k \in Slots : wbuffer[k] = Free /\ ~valid(k) /\ wbuffer[k].txblock = {}
  BY <1>1 DEF Free, valid
<1>6. Busy = {}
  BY <1>1 DEF Busy, NoTx
<1>7. Len(rtrn_fifo) = 0 /\ 1..Len(rtrn_fifo) = {} /\ rtrn_fifo \in Seq(TxIds)
  BY <1>1
<1>t. Typed
  BY <1>1, <1>2, <1>3, <1>4, <1>7 DEF Typed, MuStates, RcStates, None
<1>e. Entries
  BY <1>5 DEF Entries, Free
<1>x. Transactions
  BY <1>5, <1>6 DEF Transactions
<1>p. Places
  BY <1>3, <1>6, <1>7 DEF Places
<1>m. Machines
  BY <1>1, <1>2 DEF Machines
<1>a. Atomics
  BY <1>2, <1>3 DEF Atomics
<1>y. Memory
  BY <1>2, <1>3, <1>7 DEF Memory, AllBytes
<1>l. LookUps
  <2>1. check_q.ptr = None /\ check_q1.ptr = None
    BY <1>1 DEF NoCheck
  <2>2. None \notin Slots
    BY <1>0 DEF None
  <2>. QED  BY <1>5, <2>1, <2>2 DEF LookUps
<1>c. Cached
  <2>1. \A w \in Words : c_line # Line(w)
    BY <1>2, WordShape DEF None
  <2>. QED  BY <2>1, <1>2, <1>3 DEF Cached, Reads
<1>. QED  BY <1>t, <1>e, <1>x, <1>p, <1>m, <1>a, <1>y, <1>l, <1>c DEF IInv

\* A clock cycle keeps the invariant: the signals of the cycle are those the
\* lemmas about the parts speak of.
LEMMA CycleInv ==
    ASSUME IInv, NEW kill \in BOOLEAN, NEW ack \in BOOLEAN, NEW rt \in Returns,
           NEW ck \in tocheck \cup {None}, NEW ld \in work.loads \cup {NoWord},
           NEW st \in work.stores \cup {NoStore}, NEW dp \in Offers(dirty_ptrs),
           CoreMay(ld, kill, st), Cycle(ld, kill, st, ack, rt, dp, ck)
    PROVE  IInv'
<1>. DEFINE lack == rt.rtype = "load"
            clr == wr_cl_clear(rt.rtype = "inv")
            rfl == lack /\ ~mshr_nc
            wcv == lack \/ clr
            rdreq == rd_req_o(ld # NoWord)
            rdk == rd_ack(rdreq, wcv)
            hit_rd == r_line = Line(rc_word)
            hit == Hit(kill, wcv, hit_rd, enable_q)
            gnt == data_gnt(ld # NoWord, kill, rdk, wcv, hit_rd, enable_q)
            rdw == IF gnt THEN ld ELSE rc_word
            req == Req(dp)
            rpl == Replay
            snt == req = "store" /\ ack
            alc == req = "load" /\ ack
            wrk == wr_ack_o(wr_req_o, WrWord, clr \/ rfl, rdk, rdw)
            answer == answered(kill, wcv, hit_rd, enable_q, lack)
<1>inv. /\ Typed /\ Entries /\ Transactions /\ Places /\ Machines /\ Atomics /\ Memory
        /\ LookUps /\ Cached
  BY DEF IInv
<1>1. /\ (check_ack(tocheck, rdreq, wcv) <=> ck # None)
      /\ WbufferCycle(st, dp, snt, Tid(rt), ck, r_line = check_q.tag, wcv, wrk)
  BY DEF Cycle, Req, TxLines, WrWord, Tag, Tid
<1>2. /\ StateNext(req, ack, rt) /\ MshrCycle(rt, alc)
  BY DEF Cycle, Req, TxLines, MissCycle, StateNext, MshrCycle
<1>3. CtrlCycle(ld, gnt, kill, rdk, wcv, hit, alc, rpl, lack)
  BY DEF Cycle, Req, TxLines, Replay
<1>4. CacheCycle(rfl, mshr_line, load, clr, IF rdk THEN rdw ELSE NoWord, ck # None,
                 [word |-> WrWord, be |-> IF wrk THEN wr_data_be_o ELSE {},
                  fresh |-> Of(WrWord, Bytes)], Over(st, rt))
  <2>1. CacheCycle(rfl, mshr_line, load, clr, IF rdk THEN rdw ELSE NoWord,
                   check_ack(tocheck, rdreq, wcv),
                   [word |-> WrWord, be |-> IF wrk THEN wr_data_be_o ELSE {},
                    fresh |-> Of(WrWord, Bytes)], Over(st, rt))
    BY DEF Cycle, WrWord, Tag, Over
  <2>. HIDE DEF rfl, clr, rdk, rdw, rdreq, wrk, wcv
  <2>. QED  BY <1>1, <2>1 DEF CacheCycle
<1>5. MemoryCycle(st, rt, dp, snt, alc)
  BY DEF Cycle, Req, TxLines, MemoryCycle, Acked, Issued, Over
<1>6. /\ amo_phase' = CASE req = "amo" /\ ack -> "inv" [] rt.rtype = "inv" -> "ack"
                        [] rt.rtype = "amo" -> "none" [] OTHER -> amo_phase
      /\ stale' = (answer /\ ~tainted /\ ~amo_req
                   /\ ~(Of(rc_word, Bytes \ wbuffer_be(rc_word)) \subseteq
                          (IF rt.rtype = "load" THEN load ELSE r_fresh)))
      /\ amo_req' \in (IF amo_req THEN {rt.rtype # "amo"}
                       ELSE IF work.atomics /\ ~tainted /\ st.word = NoWord THEN BOOLEAN ELSE {FALSE})
      /\ work' = work
  BY DEF Cycle, Req, TxLines
<1>7. Asks(req, dp) /\ (req = "load" => ~rpl)
  BY <1>inv, AsksWhat
<1>8. st \in [word : Words, be : SUBSET Bytes] \cup {NoStore} /\ ld \in Words \cup {NoWord}
  <2>1. work \in Workloads
    BY <1>inv DEF Typed
  <2>. QED  BY <2>1, WorkloadsAssumption
<1>9. Arrives(st) /\ (amo_req => st = NoStore)
  <2>1. st # NoStore => st.word \in Words /\ st.word # NoWord
    BY <1>8, WordShape
  <2>2. st.word # NoWord => ~amo_req /\ rdy(st.word)
    BY DEF CoreMay
  <2>. QED  BY <1>8, <2>1, <2>2 DEF Arrives
<1>10. BufferCycle(st, dp, snt, Tid(rt), ck, wcv, wrk)
  <2>1. snt => dp \in dirty /\ free_tx # {}
    BY <1>7 DEF Asks
  <2>2. snt \in BOOLEAN /\ wcv \in BOOLEAN /\ wrk \in BOOLEAN
    BY DEF wr_ack_o
  <2>. HIDE DEF snt, wcv, wrk
  <2>. QED  BY <1>1, <1>9, <2>1, <2>2 DEF BufferCycle
<1>11. PortNext(ld, gnt, rdk, lack, alc, rpl)
  <2>1. /\ gnt \in BOOLEAN /\ rdk \in BOOLEAN /\ wcv \in BOOLEAN /\ hit \in BOOLEAN
        /\ alc \in BOOLEAN /\ rpl \in BOOLEAN /\ lack \in BOOLEAN
    BY DEF data_gnt, rd_ack, Hit, Replay, miss_replay_o
  <2>2. (gnt => ld # NoWord /\ rdk /\ (rc_state = "IDLE" \/ hit)) /\ (hit => Reads)
    BY DEF data_gnt, Hit
  <2>. HIDE DEF gnt, rdk, wcv, hit, alc, rpl, lack
  <2>3. PortCycle(ld, gnt, kill, rdk, wcv, hit, alc, rpl, lack)
    BY <1>3, <1>8, <2>1, <2>2 DEF PortCycle
  <2>. QED  BY <1>inv, <2>3, PortStep
<1>12. ArrayCycle(st, rt, ck, wcv, wrk, clr, rfl, rdk, rdw)
  <2>1. /\ clr \in BOOLEAN /\ rfl \in BOOLEAN /\ rdk \in BOOLEAN /\ (rfl => rt.rtype = "load")
        /\ wcv = (rt.rtype = "load" \/ clr)
    BY DEF wr_cl_clear, rd_ack
  <2>2. rdk \/ ck # None => ~wcv
    BY <1>1 DEF rd_ack, check_ack
  <2>3. rdk => rdw \in Words
    <3>1. rdk => (rc_state = "IDLE" /\ ld # NoWord) \/ rc_state # "IDLE"
      BY DEF rd_ack, rd_req_o
    <3>2. rdk /\ rc_state = "IDLE" /\ ld # NoWord => gnt
      BY DEF data_gnt
    <3>3. gnt => ld \in Words
      BY <1>8 DEF data_gnt
    <3>4. rc_state # "IDLE" => rc_word \in Words
      BY <1>inv DEF Machines
    <3>. HIDE DEF rdk, gnt
    <3>. QED  BY <3>1, <3>2, <3>3, <3>4
  <2>4. wrk => /\ wr_req_o /\ ~clr /\ ~rfl /\ ~(rdk /\ Offset(rdw) = Offset(WrWord))
    BY DEF wr_ack_o
  <2>. HIDE DEF rfl, clr, rdk, rdw, wrk, wcv
  <2>. QED  BY <1>4, <2>1, <2>2, <2>3, <2>4 DEF ArrayCycle
<1>13. AmoCycle(req, ack, rt)
  BY <1>6, <1>inv DEF AmoCycle, Typed
<1>14. Requests(dp, snt, alc)
  BY <1>7 DEF Asks, Requests
<1>15. (rt.rtype = "inv" => clr = TRUE) /\ (rt.rtype = "load" => wcv = TRUE)
  BY DEF wr_cl_clear
<1>16. ~stale'
  <2>1. answer => Of(rc_word, Bytes \ wbuffer_be(rc_word)) \subseteq (IF rt.rtype = "load" THEN load ELSE r_fresh)
    <3>. HIDE DEF wcv
    <3>. QED  BY <1>inv, <1>15, AnswerFresh
  <2>. HIDE DEF answer
  <2>. QED  BY <1>6, <2>1
<1>17. snt = (req = "store" /\ ack) /\ alc = (req = "load" /\ ack)
  OBVIOUS
<1>20. Signals(req, ack, snt, alc, rpl)
  BY <1>7 DEF Signals
<1>18. gnt \in BOOLEAN
  BY DEF data_gnt
<1>19. Reads' /\ rd_ack_q' => rdk /\ rc_word' = rdw
  BY <1>11 DEF PortNext, Reads
<1>. HIDE DEF clr, rfl, wcv, rdreq, rdk, hit_rd, hit, gnt, rdw, req, rpl, snt, alc, wrk, answer
<1>t. Typed'
  BY <1>inv, <1>2, <1>5, <1>6, <1>7, <1>10, <1>11, <1>12, <1>13, <1>17, <1>18, TypedNext
<1>e. Entries'
  BY <1>inv, <1>10, EntriesNext
<1>x. Transactions'
  BY <1>inv, <1>10, TransactionsNext
<1>p. Places'
  BY <1>inv, <1>5, <1>10, PlacesNext
<1>m. Machines'
  BY <1>inv, <1>2, <1>5, <1>7, <1>10, <1>11, <1>18, <1>20, MachinesNext
<1>a. Atomics'
  BY <1>inv, <1>2, <1>5, <1>7, <1>9, <1>10, <1>12, <1>13, <1>15, <1>17, AtomicsNext
<1>y. Memory'
  BY <1>inv, <1>2, <1>5, <1>10, <1>14, MemoryNext
<1>l. LookUps'
  BY <1>inv, <1>10, <1>12, LookUpsNext
<1>c. Cached'
  <2>0. PICK word : word = rdw /\ ArrayCycle(st, rt, ck, wcv, wrk, clr, rfl, rdk, word)
    BY <1>12
  <2>1. /\ \A w \in Words, b \in Bytes : c_line' = Line(w) => <<w, b>> \in c_fresh' \/ Buffered(w, b)'
        /\ Delivered(rdk, word)
    BY <1>inv, <1>5, <1>10, <2>0, CacheNext
  <2>2. Reads' /\ rd_ack_q' /\ r_line' = Line(rc_word') =>
          \A b \in Bytes : <<rc_word', b>> \in r_fresh' \/ Buffered(rc_word, b)'
    BY <1>19, <2>0, <2>1 DEF Delivered, Buffered, Tag
  <2>. QED  BY <1>16, <2>1, <2>2 DEF Cached
<1>. QED  BY <1>t, <1>e, <1>x, <1>p, <1>m, <1>a, <1>y, <1>l, <1>c DEF IInv

\* A step that changes nothing keeps the invariant.
LEMMA StutterInv ==
    ASSUME IInv, UNCHANGED vars
    PROVE  IInv'
<1>1. UNCHANGED <<wbuffer, tx_stat, rtrn_fifo, check_q, check_q1, rd_hit_oh_q, wr_cl_vld_q, dirty_lock>>
  BY DEF vars, wbvars
<1>2. UNCHANGED <<mu_state, mshr_vld_q, mshr_line, rc_state, rc_word, rd_ack_q, c_line, c_fresh, r_line,
                  r_fresh>>
  BY DEF vars, muvars, rcvars, cmvars
<1>3. UNCHANGED <<mem_fresh, flight, load, amo_phase, amo_req, stale, work>>
  BY DEF vars, envvars
<1>4. Typed' /\ Entries' /\ Transactions' /\ Places'
  BY <1>1, <1>2, <1>3 DEF IInv, Typed, Entries, Transactions, Places, Busy, Ptr, Be, Tag, valid
<1>5. Machines' /\ Atomics'
  BY <1>1, <1>2, <1>3 DEF IInv, Machines, Atomics, Busy, TxLine, Ptr, Tag, dirty, bdirty, free_tx,
                          empty_o, valid
<1>6. Memory'
  BY <1>1, <1>2, <1>3 DEF IInv, Memory, Ptr, Be, Tag, Buffered
<1>7. LookUps'
  BY <1>1, <1>2, <1>3 DEF IInv, LookUps, Tag, valid
<1>8. Cached'
  BY <1>1, <1>2, <1>3 DEF IInv, Cached, Reads, Tag, Buffered
<1>. QED  BY <1>4, <1>5, <1>6, <1>7, <1>8 DEF IInv

\* IInv is an inductive invariant of the data cache.
THEOREM Inductive == Spec => []IInv
<1>1. Init => IInv
  BY InitInv
<1>2. IInv /\ [Next]_vars => IInv'
  <2>. SUFFICES ASSUME IInv, [Next]_vars  PROVE IInv'
    OBVIOUS
  <2>1. CASE Next
    <3>1. PICK kill \in BOOLEAN, ack \in BOOLEAN, rt \in Returns, ck \in tocheck \cup {None} :
             Step(kill, ack, rt, ck)
      BY <2>1 DEF Next
    <3>2. PICK ld \in work.loads \cup {NoWord}, st \in work.stores \cup {NoStore},
               dp \in Offers(dirty_ptrs) :
             CoreMay(ld, kill, st) /\ Cycle(ld, kill, st, ack, rt, dp, ck)
      BY <3>1 DEF Step
    <3>. QED  BY <3>2, CycleInv
  <2>2. CASE UNCHANGED vars
    BY <2>2, StutterInv
  <2>. QED  BY <2>1, <2>2
<1>. QED  BY <1>1, <1>2, PTL DEF Spec

-----------------------------------------------------------------------------
(* The properties.                                                         *)
\* The cardinalities the properties count with.
LEMMA Sizes ==
    /\ \A n \in Nat : IsFiniteSet(1..n) /\ Cardinality(1..n) = n
    /\ \A n \in Nat : IsFiniteSet(0..(n - 1)) /\ Cardinality(0..(n - 1)) = n
    /\ Cardinality({}) = 0
    /\ \A x : Cardinality({x}) = 1
<1>1. ASSUME NEW n \in Nat  PROVE IsFiniteSet(1..n) /\ Cardinality(1..n) = n
  <2>1. n \in Int /\ 1 \in Int
    OBVIOUS
  <2>2. IsFiniteSet(1..n) /\ Cardinality(1..n) = IF 1 > n THEN 0 ELSE n - 1 + 1
    BY ONLY <2>1, FS_Interval
  <2>. QED  BY <2>2
<1>2. ASSUME NEW n \in Nat  PROVE IsFiniteSet(0..(n - 1)) /\ Cardinality(0..(n - 1)) = n
  <2>1. n - 1 \in Int /\ 0 \in Int
    OBVIOUS
  <2>2. IsFiniteSet(0..(n - 1)) /\ Cardinality(0..(n - 1)) = IF 0 > n - 1 THEN 0 ELSE (n - 1) - 0 + 1
    BY ONLY <2>1, FS_Interval, Zenon
  <2>. QED  BY <2>2
<1>3. Cardinality({}) = 0
  BY FS_EmptySet, Zenon
<1>4. \A x : Cardinality({x}) = 1
  BY FS_Singleton, Zenon
<1>. QED  BY <1>1, <1>2, <1>3, <1>4

\* i_rtrn_id_fifo never holds more than one id of each transaction.
LEMMA FifoFits ==
    ASSUME Typed, Places
    PROVE  Len(rtrn_fifo) <= DCACHE_MAX_TX
<1>1. Len(rtrn_fifo) \in Nat /\ DCACHE_MAX_TX \in Nat \ {0}
  BY SizesAssumption DEF Typed
<1>2. IsFiniteSet(TxIds) /\ Cardinality(TxIds) = DCACHE_MAX_TX
  BY <1>1, Sizes DEF TxIds
<1>3. IsFiniteSet(1..Len(rtrn_fifo)) /\ Cardinality(1..Len(rtrn_fifo)) = Len(rtrn_fifo)
  BY <1>1, Sizes
<1>4. rtrn_fifo \in [1..Len(rtrn_fifo) -> TxIds]
  BY DEF Typed
<1>5. ~ \E i, j \in 1..Len(rtrn_fifo) : i # j /\ rtrn_fifo[i] = rtrn_fifo[j]
  BY DEF Places
<1>6. ~(Cardinality(TxIds) < Cardinality(1..Len(rtrn_fifo)))
  BY <1>2, <1>3, <1>4, <1>5, FS_PigeonHole
<1>. QED  BY <1>1, <1>2, <1>3, <1>6

\* Type correctness of the cache; in particular i_rtrn_id_fifo, which has
\* DCACHE_MAX_TX places and is pushed without looking, never overflows.
THEOREM TypeCorrect == Spec => []TypeOK
<1>1. IInv => TypeOK
  <2>. SUFFICES ASSUME IInv PROVE TypeOK
    OBVIOUS
  <2>1. Len(rtrn_fifo) <= DCACHE_MAX_TX
    BY FifoFits DEF IInv
  <2>2. mshr_vld_q => mshr_line \in Lines
    BY DEF IInv, Machines, Lines
  <2>3. \A i \in 1..Len(rtrn_fifo) : rtrn_fifo[i] \in TxIds
    BY DEF IInv, Typed
  <2>. QED  BY <2>1, <2>2, <2>3 DEF IInv, Typed, TypeOK, Entry, Transaction
<1>. QED  BY <1>1, Inductive, PTL

\* For every depth of the buffer and number of transactions: a transaction id is
\* in use exactly while its store is in memory or waits in i_rtrn_id_fifo, once,
\* and the txblock bytes of an entry are those of its transactions (p_tx_stat and
\* p_buffer of wt_dcache_wbuffer.sv agree).
THEOREM BooksAgree == Spec => []Bookkeeping
<1>1. IInv => Bookkeeping
  <2>. SUFFICES ASSUME IInv PROVE Bookkeeping
    OBVIOUS
  <2>0. Typed /\ Entries /\ Transactions /\ Places
    BY DEF IInv
  <2>1. ByteStates
    BY <2>0 DEF Entries, ByteStates
  <2>2. OneEntryPerWord
    <3>1. ASSUME NEW w \in Words  PROVE Cardinality(wbuffer_hit(w)) <= 1
      <4>1. CASE wbuffer_hit(w) = {}
        BY <4>1, Sizes
      <4>2. CASE wbuffer_hit(w) # {}
        <5>1. PICK k : k \in wbuffer_hit(w)
          BY <4>2
        <5>2. wbuffer_hit(w) = {k}
          BY <5>1, <2>0 DEF wbuffer_hit, Entries, Tag
        <5>3. Cardinality({k}) = 1
          BY Sizes
        <5>. QED  BY <5>2, <5>3
      <4>. QED  BY <4>1, <4>2
    <3>. QED  BY <3>1 DEF OneEntryPerWord
  <2>3. ASSUME NEW t \in TxIds
        PROVE  Cardinality({s \in flight : s.tid = t}) + Cardinality({i \in 1..Len(rtrn_fifo) : rtrn_fifo[i] = t})
                 = IF tx_stat[t].vld THEN 1 ELSE 0
    <3>. DEFINE F == {s \in flight : s.tid = t}
                R == {i \in 1..Len(rtrn_fifo) : rtrn_fifo[i] = t}
    <3>1. CASE ~tx_stat[t].vld
      <4>1. F = {} /\ R = {}
        BY <2>0, <3>1 DEF Places, Busy
      <4>2. Cardinality(F) = 0 /\ Cardinality(R) = 0
        BY ONLY <4>1, Sizes
      <4>. HIDE DEF F, R
      <4>3. Cardinality(F) + Cardinality(R) = 0
        BY <4>2
      <4>. QED  BY <3>1, <4>3 DEF F, R
    <3>2. CASE tx_stat[t].vld /\ \E s \in flight : s.tid = t
      <4>1. PICK s \in flight : s.tid = t
        BY <3>2
      <4>2. F = {s} /\ R = {}
        BY <2>0, <4>1 DEF Places
      <4>3. Cardinality(F) = 1 /\ Cardinality(R) = 0
        BY ONLY <4>2, Sizes
      <4>. HIDE DEF F, R
      <4>4. Cardinality(F) + Cardinality(R) = 1
        BY <4>3
      <4>. QED  BY <3>2, <4>4 DEF F, R
    <3>3. CASE tx_stat[t].vld /\ ~ \E s \in flight : s.tid = t
      <4>1. PICK i \in 1..Len(rtrn_fifo) : rtrn_fifo[i] = t
        BY <2>0, <3>3 DEF Places, Busy
      <4>2. F = {} /\ R = {i}
        BY <2>0, <3>3, <4>1 DEF Places
      <4>3. Cardinality(F) = 0 /\ Cardinality(R) = 1
        BY ONLY <4>2, Sizes
      <4>. HIDE DEF F, R
      <4>4. Cardinality(F) + Cardinality(R) = 1
        BY <4>3
      <4>. QED  BY <3>3, <4>4 DEF F, R
    <3>. QED  BY <3>1, <3>2, <3>3
  <2>4. ASSUME NEW k \in Slots
        PROVE  wbuffer[k].txblock = UNION {tx_stat[t].be : t \in {u \in TxIds : tx_stat[u].vld /\ tx_stat[u].ptr = k}}
    <3>. DEFINE T == {u \in TxIds : tx_stat[u].vld /\ tx_stat[u].ptr = k}
    <3>1. CASE wbuffer[k].txblock = {}
      <4>1. T = {}
        BY <2>0, <3>1 DEF Transactions, Busy, Ptr
      <4>. QED  BY <3>1, <4>1
    <3>2. CASE wbuffer[k].txblock # {}
      <4>1. PICK t \in Busy : Ptr(t) = k
        BY <2>0, <3>2 DEF Transactions
      <4>2. T = {t} /\ wbuffer[k].txblock = tx_stat[t].be
        BY <2>0, <4>1 DEF Transactions, Busy, Ptr, Be
      <4>3. {tx_stat[u].be : u \in T} = {tx_stat[t].be}
        <5>. HIDE DEF T
        <5>. QED  BY <4>2
      <4>. QED  BY <4>2, <4>3
    <3>. QED  BY <3>1, <3>2
  <2>. QED  BY <2>1, <2>2, <2>3, <2>4 DEF Bookkeeping
<1>. QED  BY <1>1, Inductive, PTL

\* For every set of words: a byte that left the write buffer is up to date in
\* memory and in the cached copy of its line (the evict and word write of
\* wt_dcache_wbuffer.sv against the refills of wt_dcache_missunit.sv).
THEOREM CacheCoherent == Spec => []Coherent
<1>1. IInv => Coherent
  BY DEF IInv, Coherent, Memory, Cached, Buffered, wbuffer_hit, valid, Tag
<1>. QED  BY <1>1, Inductive, PTL

\* Every load that is not flushed is answered with the latest store to each byte
\* (the hit, the miss and the forwarding of wt_dcache_mem.sv and wt_dcache_ctrl.sv).
THEOREM LoadsAreFresh == Spec => []LoadFresh
<1>1. IInv => LoadFresh
  BY DEF IInv, Cached, LoadFresh
<1>. QED  BY <1>1, Inductive, PTL

\* A line is never read and written in memory at the same time: the collision
\* checks of wt_dcache_missunit.sv hold until the request is answered.
THEOREM ReadsAndWritesApart == Spec => []NoReadWriteOverlap
<1>1. IInv => NoReadWriteOverlap
  BY DEF IInv, Places, Machines, TxLine, NoReadWriteOverlap
<1>. QED  BY <1>1, Inductive, PTL

\* An atomic is in memory only after every store before it has arrived there and
\* with no read outstanding (the DRAIN state of wt_dcache_missunit.sv).
THEOREM AtomicsAreOrdered == Spec => []AmoOrdered
<1>1. IInv => AmoOrdered
  BY EmptyBuffer DEF IInv, Atomics, AmoOrdered
<1>. QED  BY <1>1, Inductive, PTL
=============================================================================
