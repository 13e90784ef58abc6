-------------------------- MODULE StoreBufferProofs --------------------------
(***************************************************************************)
(* Proofs about the store buffer, for every depth and every payload set.   *)
(*                                                                         *)
(* Inv, the conjunction of the type invariant and the two ring invariants, *)
(* is inductive under the contract the module's assertions state.          *)
(***************************************************************************)
EXTENDS StoreBuffer, SequenceTheorems, TLAPS

SpecTypeOK ==
    /\ speculative_queue \in [SpecSlots -> Entry]
    /\ speculative_read_pointer \in SpecSlots
    /\ speculative_write_pointer \in SpecSlots
    /\ speculative_status_cnt \in 0 .. DEPTH_SPEC

CommitTypeOK ==
    /\ commit_queue \in [CommitSlots -> Entry]
    /\ commit_read_pointer \in CommitSlots
    /\ commit_write_pointer \in CommitSlots
    /\ commit_status_cnt \in 0 .. DEPTH_COMMIT

Inv == TypeOK /\ RingInv

\* The type invariant is the one of the two rings.
LEMMA TypeSplit == TypeOK <=> SpecTypeOK /\ CommitTypeOK
  BY DEF TypeOK, SpecTypeOK, CommitTypeOK

\* Reset establishes the invariant: empty rings, every slot invalid.
LEMMA InitInv == Init => Inv
<1> SUFFICES ASSUME Init PROVE Inv
  OBVIOUS
<1> USE DepthAssumption, StoreAssumption
<1>1. SpecTypeOK
  BY DEF Init, SpecTypeOK, SpecSlots, Entry
<1>2. CommitTypeOK
  BY DEF Init, CommitTypeOK, CommitSlots, Entry
<1>3. SpecRing
  BY DEF Init, SpecRing, RingAgrees, Dist, SpecSlots
<1>4. CommitRing
  BY DEF Init, CommitRing, RingAgrees, Dist, CommitSlots
<1> QED
  BY <1>1, <1>2, <1>3, <1>4, TypeSplit DEF Inv, RingInv

\* One clock edge of core_if keeps the speculative ring consistent, provided
\* no store is pushed into a full ring, none is committed from an empty one,
\* and commit and flush never coincide.
LEMMA CoreIfStep ==
  ASSUME SpecTypeOK, SpecRing,
         NEW flush_i \in BOOLEAN, NEW valid_i \in BOOLEAN,
         NEW commit_i \in BOOLEAN, NEW st \in Store,
         Contract(flush_i, valid_i, commit_i),
         core_if(flush_i, valid_i, st, commit_i)
  PROVE  SpecTypeOK' /\ SpecRing'
<1> USE DepthAssumption
<1> DEFINE rp == speculative_read_pointer
           wp == speculative_write_pointer
           cnt == speculative_status_cnt
<1>1. /\ rp \in SpecSlots /\ wp \in SpecSlots /\ cnt \in 0 .. DEPTH_SPEC
      /\ Dist(wp, rp, DEPTH_SPEC) = IF cnt = DEPTH_SPEC THEN 0 ELSE cnt
  BY DEF SpecTypeOK, SpecRing, RingAgrees
<1>2. /\ flush_i => ~commit_i
      /\ cnt = DEPTH_SPEC => ~valid_i
      /\ cnt = 0 => ~commit_i
  BY DEF Contract, commit_and_flush, speculative_buffer_overflow,
         speculative_buffer_underflow
<1>3. speculative_queue' \in [SpecSlots -> Entry]
  BY DEF core_if, SpecTypeOK, Entry
<1>4. rp' \in SpecSlots /\ wp' \in SpecSlots
  BY <1>1 DEF core_if, SpecSlots, Inc
<1>5. cnt' = IF flush_i THEN 0
             ELSE IF valid_i /\ ~commit_i THEN cnt + 1
             ELSE IF commit_i /\ ~valid_i THEN cnt - 1 ELSE cnt
  BY <1>1, <1>2 DEF core_if, Wrap, One, SpecSlots
<1>6. cnt' \in 0 .. DEPTH_SPEC
  BY <1>1, <1>2, <1>5
<1>7. RingAgrees(rp', wp', cnt', DEPTH_SPEC)
  <2>1. /\ rp' = IF commit_i THEN Inc(rp, DEPTH_SPEC) ELSE rp
        /\ wp' = IF flush_i THEN rp
                 ELSE IF valid_i THEN Inc(wp, DEPTH_SPEC) ELSE wp
    BY DEF core_if
  <2> QED
    BY <1>1, <1>2, <1>5, <2>1 DEF RingAgrees, Dist, Inc, SpecSlots
<1>8. ASSUME NEW i \in SpecSlots
      PROVE  speculative_queue'[i].valid <=> Dist(i, rp', DEPTH_SPEC) < cnt'
  <2>1. speculative_queue[i].valid <=> Dist(i, rp, DEPTH_SPEC) < cnt
    BY DEF SpecRing
  <2>2. speculative_queue'[i].valid <=>
          /\ ~flush_i /\ ~(commit_i /\ i = rp)
          /\ (valid_i /\ i = wp) \/ speculative_queue[i].valid
    BY DEF core_if
  <2>3. rp' = IF commit_i THEN Inc(rp, DEPTH_SPEC) ELSE rp
    BY DEF core_if
  <2> QED
    BY <1>1, <1>2, <1>5, <2>1, <2>2, <2>3 DEF Dist, Inc, SpecSlots
<1> QED
  BY <1>3, <1>4, <1>6, <1>7, <1>8 DEF SpecTypeOK, SpecRing

\* One clock edge of store_if keeps the committed ring consistent; that the
\* copied slot is valid is what the speculative ring's invariant is for.
LEMMA StoreIfStep ==
  ASSUME SpecTypeOK, SpecRing, CommitTypeOK, CommitRing,
         NEW flush_i \in BOOLEAN, NEW valid_i \in BOOLEAN,
         NEW commit_i \in BOOLEAN, NEW data_gnt \in BOOLEAN,
         Contract(flush_i, valid_i, commit_i),
         store_if(commit_i, data_gnt)
  PROVE  CommitTypeOK' /\ CommitRing'
<1> USE DepthAssumption
<1> DEFINE rp == commit_read_pointer
           wp == commit_write_pointer
           cnt == commit_status_cnt
           evict == data_req_o /\ data_gnt
           oldest == speculative_queue[speculative_read_pointer]
<1>1. /\ rp \in CommitSlots /\ wp \in CommitSlots /\ cnt \in 0 .. DEPTH_COMMIT
      /\ Dist(wp, rp, DEPTH_COMMIT) = IF cnt = DEPTH_COMMIT THEN 0 ELSE cnt
  BY DEF CommitTypeOK, CommitRing, RingAgrees
<1>2. /\ cnt = DEPTH_COMMIT => ~commit_i
      /\ speculative_status_cnt = 0 => ~commit_i
  BY DEF Contract, commit_buffer_overflow, speculative_buffer_underflow
<1>3. oldest \in Entry /\ (commit_i => oldest.valid)
  BY <1>2 DEF SpecTypeOK, SpecRing, Dist, SpecSlots
<1>4. evict \in BOOLEAN /\ (evict => cnt > 0)
  BY <1>1 DEF CommitTypeOK, CommitRing, data_req_o, Dist, CommitSlots, Entry
<1>5. commit_queue' \in [CommitSlots -> Entry]
  BY <1>3, <1>4 DEF store_if, CommitTypeOK, Entry
<1>6. rp' \in CommitSlots /\ wp' \in CommitSlots
  BY <1>1 DEF store_if, CommitSlots, Inc
<1>7. cnt' = IF commit_i /\ ~evict THEN cnt + 1
             ELSE IF evict /\ ~commit_i THEN cnt - 1 ELSE cnt
  <2>1. cnt' = Wrap(cnt + One(commit_i) - One(evict), DEPTH_COMMIT)
    BY DEF store_if
  <2> HIDE DEF evict
  <2> QED
    BY <1>1, <1>2, <1>4, <2>1 DEF Wrap, One
<1>8. /\ rp' = IF evict THEN Inc(rp, DEPTH_COMMIT) ELSE rp
      /\ wp' = IF commit_i THEN Inc(wp, DEPTH_COMMIT) ELSE wp
  BY DEF store_if
<1>9. cnt' \in 0 .. DEPTH_COMMIT
  <2> HIDE DEF evict
  <2> QED BY <1>1, <1>2, <1>4, <1>7
<1>10. RingAgrees(rp', wp', cnt', DEPTH_COMMIT)
  <2> HIDE DEF evict
  <2> QED
    BY <1>1, <1>2, <1>4, <1>7, <1>8 DEF RingAgrees, Dist, Inc, CommitSlots
<1>11. ASSUME NEW i \in CommitSlots
       PROVE  commit_queue'[i].valid <=> Dist(i, rp', DEPTH_COMMIT) < cnt'
  <2>1. commit_queue[i].valid <=> Dist(i, rp, DEPTH_COMMIT) < cnt
    BY DEF CommitRing
  <2>2. commit_queue'[i].valid <=>
          \/ commit_i /\ i = wp
          \/ commit_queue[i].valid /\ ~(evict /\ i = rp) /\ ~(commit_i /\ i = wp)
    BY <1>3 DEF store_if
  <2> HIDE DEF evict
  <2> QED
    BY <1>1, <1>2, <1>4, <1>7, <1>8, <2>1, <2>2 DEF Dist, Inc, CommitSlots
<1> QED
  BY <1>5, <1>6, <1>9, <1>10, <1>11 DEF CommitTypeOK, CommitRing

\* Every clock edge under the contract preserves the invariant.
LEMMA NextInv == Inv /\ [Next]_vars => Inv'
<1> SUFFICES ASSUME Inv, [Next]_vars PROVE Inv'
  OBVIOUS
<1>1. SpecTypeOK /\ CommitTypeOK /\ SpecRing /\ CommitRing
  BY TypeSplit DEF Inv, RingInv
<1>2. CASE Next
  <2>1. PICK flush_i \in BOOLEAN, valid_i \in BOOLEAN, commit_i \in BOOLEAN,
             data_gnt \in BOOLEAN, st \in Store :
               /\ Contract(flush_i, valid_i, commit_i)
               /\ Cycle(flush_i, valid_i, st, commit_i, data_gnt)
    BY <1>2 DEF Next
  <2>2. SpecTypeOK' /\ SpecRing'
    BY <1>1, <2>1, CoreIfStep DEF Cycle
  <2>3. CommitTypeOK' /\ CommitRing'
    BY <1>1, <2>1, StoreIfStep DEF Cycle
  <2> QED
    BY <2>2, <2>3 DEF Inv, RingInv, TypeOK, SpecTypeOK, CommitTypeOK
<1>3. CASE UNCHANGED vars
  BY <1>1, <1>3 DEF vars, specvars, commitvars, Inv, RingInv, TypeOK, Entry,
       SpecRing, CommitRing, RingAgrees, SpecTypeOK, CommitTypeOK
<1> QED
  BY <1>2, <1>3

\* Every reachable state of store_buffer.sv has well-typed registers.
THEOREM TypeCorrect == Spec => []TypeOK
<1>1. Inv => TypeOK
  BY DEF Inv
<1> QED
  BY <1>1, InitInv, NextInv, PTL DEF Spec

\* Pointers, counters and valid flags of both queues agree in every
\* reachable state, for every depth.
THEOREM RingCorrect == Spec => []RingInv
<1>1. Inv => RingInv
  BY DEF Inv
<1> QED
  BY <1>1, InitInv, NextInv, PTL DEF Spec

-----------------------------------------------------------------------------
(* The refinement of StoreQueue and the exactness of the load interlock. *)

\* Slot and Dist translate between ring slots and queue positions.
LEMMA SlotDist ==
  ASSUME NEW d \in Nat, NEW rp \in 0 .. d - 1
  PROVE  /\ \A k \in 0 .. d - 1 : Dist(Slot(rp, k, d), rp, d) = k
         /\ \A i \in 0 .. d - 1 : /\ Dist(i, rp, d) \in 0 .. d - 1
                                  /\ Slot(rp, Dist(i, rp, d), d) = i
  BY DEF Slot, Dist

LEMMA SlotRange ==
  ASSUME NEW d \in Nat, NEW rp \in 0 .. d - 1, NEW n \in 0 .. d
  PROVE  \A k \in 1 .. n : Slot(rp, k - 1, d) \in 0 .. d - 1
  BY DEF Slot

\* The mapped queues are sequences of stores of the counted lengths.
LEMMA SpecSeqType ==
  ASSUME SpecTypeOK
  PROVE  /\ SpecSeq \in Seq(Store)
         /\ Len(SpecSeq) = speculative_status_cnt
         /\ \A k \in 1 .. speculative_status_cnt : SpecSeq[k] =
              speculative_queue[Slot(speculative_read_pointer, k - 1, DEPTH_SPEC)].st
<1> USE DepthAssumption
<1>1. ASSUME NEW k \in 1 .. speculative_status_cnt
      PROVE  speculative_queue[Slot(speculative_read_pointer, k - 1, DEPTH_SPEC)].st \in Store
  <2>1. Slot(speculative_read_pointer, k - 1, DEPTH_SPEC) \in SpecSlots
    BY DEF SpecTypeOK, SpecSlots, Slot
  <2> QED
    BY <2>1 DEF SpecTypeOK, Entry
<1>2. SpecSeq \in [1 .. speculative_status_cnt -> Store]
  BY <1>1 DEF SpecSeq
<1> QED
  BY <1>2 DEF SpecSeq, SpecTypeOK

LEMMA CommitSeqType ==
  ASSUME CommitTypeOK
  PROVE  /\ CommitSeq \in Seq(Store)
         /\ Len(CommitSeq) = commit_status_cnt
         /\ \A k \in 1 .. commit_status_cnt : CommitSeq[k] =
              commit_queue[Slot(commit_read_pointer, k - 1, DEPTH_COMMIT)].st
<1> USE DepthAssumption
<1>1. ASSUME NEW k \in 1 .. commit_status_cnt
      PROVE  commit_queue[Slot(commit_read_pointer, k - 1, DEPTH_COMMIT)].st \in Store
  <2>1. Slot(commit_read_pointer, k - 1, DEPTH_COMMIT) \in CommitSlots
    BY DEF CommitTypeOK, CommitSlots, Slot
  <2> QED
    BY <2>1 DEF CommitTypeOK, Entry
<1>2. CommitSeq \in [1 .. commit_status_cnt -> Store]
  BY <1>1 DEF CommitSeq
<1> QED
  BY <1>2 DEF CommitSeq, CommitTypeOK

\* The address checker sees exactly the stores of the two queues.
LEMMA InvInterlock == Inv => InterlockExact
<1> SUFFICES ASSUME Inv, NEW offset \in PageOffset
             PROVE  page_offset_matches_o(offset, {}) <=>
                      \/ \E k \in DOMAIN SpecSeq : OffsetOf[SpecSeq[k]] = offset
                      \/ \E k \in DOMAIN CommitSeq : OffsetOf[CommitSeq[k]] = offset
  BY DEF InterlockExact
<1> USE DepthAssumption
<1>1. SpecTypeOK /\ CommitTypeOK /\ SpecRing /\ CommitRing
  BY TypeSplit DEF Inv, RingInv
<1>2. (\E i \in SpecSlots : speculative_queue[i].valid
                            /\ OffsetOf[speculative_queue[i].st] = offset)
      <=> \E k \in DOMAIN SpecSeq : OffsetOf[SpecSeq[k]] = offset
  <2> DEFINE rp == speculative_read_pointer
             cnt == speculative_status_cnt
  <2>1. rp \in 0 .. DEPTH_SPEC - 1 /\ cnt \in 0 .. DEPTH_SPEC
    BY <1>1 DEF SpecTypeOK, SpecSlots
  <2>2. DOMAIN SpecSeq = 1 .. cnt
    BY DEF SpecSeq
  <2>3. ASSUME NEW i \in SpecSlots, speculative_queue[i].valid,
               OffsetOf[speculative_queue[i].st] = offset
        PROVE  \E k \in 1 .. cnt : OffsetOf[SpecSeq[k]] = offset
    <3>1. /\ Dist(i, rp, DEPTH_SPEC) \in 0 .. DEPTH_SPEC - 1
          /\ Slot(rp, Dist(i, rp, DEPTH_SPEC), DEPTH_SPEC) = i
          /\ Dist(i, rp, DEPTH_SPEC) < cnt
      BY <1>1, <2>1, <2>3, SlotDist DEF SpecSlots, SpecRing
    <3>2. Dist(i, rp, DEPTH_SPEC) + 1 \in 1 .. cnt
      BY <2>1, <3>1
    <3> QED
      BY <1>1, <2>1, <2>3, <3>1, <3>2, SpecSeqType
  <2>4. ASSUME NEW k \in 1 .. cnt, OffsetOf[SpecSeq[k]] = offset
        PROVE  \E i \in SpecSlots : /\ speculative_queue[i].valid
                                    /\ OffsetOf[speculative_queue[i].st] = offset
    <3>1. /\ Slot(rp, k - 1, DEPTH_SPEC) \in SpecSlots
          /\ Dist(Slot(rp, k - 1, DEPTH_SPEC), rp, DEPTH_SPEC) < cnt
      BY <2>1 DEF SpecSlots, Slot, Dist
    <3> QED
      BY <1>1, <2>4, <3>1, SpecSeqType DEF SpecRing
  <2> QED
    BY <2>2, <2>3, <2>4
<1>3. (\E i \in CommitSlots : commit_queue[i].valid
                              /\ OffsetOf[commit_queue[i].st] = offset)
      <=> \E k \in DOMAIN CommitSeq : OffsetOf[CommitSeq[k]] = offset
  <2> DEFINE rp == commit_read_pointer
             cnt == commit_status_cnt
  <2>1. rp \in 0 .. DEPTH_COMMIT - 1 /\ cnt \in 0 .. DEPTH_COMMIT
    BY <1>1 DEF CommitTypeOK, CommitSlots
  <2>2. DOMAIN CommitSeq = 1 .. cnt
    BY DEF CommitSeq
  <2>3. ASSUME NEW i \in CommitSlots, commit_queue[i].valid,
               OffsetOf[commit_queue[i].st] = offset
        PROVE  \E k \in 1 .. cnt : OffsetOf[CommitSeq[k]] = offset
    <3>1. /\ Dist(i, rp, DEPTH_COMMIT) \in 0 .. DEPTH_COMMIT - 1
          /\ Slot(rp, Dist(i, rp, DEPTH_COMMIT), DEPTH_COMMIT) = i
          /\ Dist(i, rp, DEPTH_COMMIT) < cnt
      BY <1>1, <2>1, <2>3, SlotDist DEF CommitSlots, CommitRing
    <3>2. Dist(i, rp, DEPTH_COMMIT) + 1 \in 1 .. cnt
      BY <2>1, <3>1
    <3> QED
      BY <1>1, <2>1, <2>3, <3>1, <3>2, CommitSeqType
  <2>4. ASSUME NEW k \in 1 .. cnt, OffsetOf[CommitSeq[k]] = offset
        PROVE  \E i \in CommitSlots : /\ commit_queue[i].valid
                                      /\ OffsetOf[commit_queue[i].st] = offset
    <3>1. /\ Slot(rp, k - 1, DEPTH_COMMIT) \in CommitSlots
          /\ Dist(Slot(rp, k - 1, DEPTH_COMMIT), rp, DEPTH_COMMIT) < cnt
      BY <2>1 DEF CommitSlots, Slot, Dist
    <3> QED
      BY <1>1, <2>4, <3>1, CommitSeqType DEF CommitRing
  <2> QED
    BY <2>2, <2>3, <2>4
<1> QED
  BY <1>2, <1>3 DEF page_offset_matches_o

\* A load is held back exactly by the stores still on their way to memory.
THEOREM InterlockCorrect == Spec => []InterlockExact
  BY InitInv, NextInv, InvInterlock, PTL DEF Spec

\* One clock edge of core_if is a push, a removal of the head, both, or a flush.
LEMMA SpecSeqStep ==
  ASSUME SpecTypeOK, SpecRing, SpecTypeOK',
         NEW flush_i \in BOOLEAN, NEW valid_i \in BOOLEAN,
         NEW commit_i \in BOOLEAN, NEW st \in Store,
         Contract(flush_i, valid_i, commit_i),
         core_if(flush_i, valid_i, st, commit_i)
  PROVE  SpecSeq' = IF flush_i THEN <<>>
                    ELSE (IF commit_i THEN Tail(SpecSeq) ELSE SpecSeq)
                           \o (IF valid_i THEN <<st>> ELSE <<>>)
<1> USE DepthAssumption
<1> DEFINE rp == speculative_read_pointer
           wp == speculative_write_pointer
           cnt == speculative_status_cnt
           push == IF valid_i THEN <<st>> ELSE <<>>
           rest == IF commit_i THEN Tail(SpecSeq) ELSE SpecSeq
           skip == IF commit_i THEN 1 ELSE 0
<1>1. /\ rp \in 0 .. DEPTH_SPEC - 1 /\ wp \in 0 .. DEPTH_SPEC - 1
      /\ cnt \in 0 .. DEPTH_SPEC
      /\ Dist(wp, rp, DEPTH_SPEC) = IF cnt = DEPTH_SPEC THEN 0 ELSE cnt
      /\ flush_i => ~commit_i
      /\ cnt = DEPTH_SPEC => ~valid_i
      /\ cnt = 0 => ~commit_i
  BY DEF SpecTypeOK, SpecRing, RingAgrees, SpecSlots, Contract, commit_and_flush,
         speculative_buffer_overflow, speculative_buffer_underflow
<1>2. /\ SpecSeq \in Seq(Store) /\ Len(SpecSeq) = cnt
      /\ \A k \in 1 .. cnt :
           SpecSeq[k] = speculative_queue[Slot(rp, k - 1, DEPTH_SPEC)].st
  BY SpecSeqType
<1>3. /\ cnt' = IF flush_i THEN 0 ELSE cnt + One(valid_i) - One(commit_i)
      /\ rp' = IF commit_i THEN Inc(rp, DEPTH_SPEC) ELSE rp
      /\ \A i \in SpecSlots : speculative_queue'[i].st =
           IF valid_i /\ i = wp THEN st ELSE speculative_queue[i].st
  BY <1>1 DEF core_if, Wrap, One
<1>4. /\ SpecSeq' \in Seq(Store) /\ Len(SpecSeq') = cnt'
      /\ \A k \in 1 .. cnt' : SpecSeq'[k] =
           IF valid_i /\ Slot(rp', k - 1, DEPTH_SPEC) = wp
           THEN st ELSE speculative_queue[Slot(rp', k - 1, DEPTH_SPEC)].st
  <2>1. cnt' \in 0 .. DEPTH_SPEC /\ rp' \in 0 .. DEPTH_SPEC - 1
    BY DEF SpecTypeOK, SpecSlots
  <2>5. \A k \in 1 .. cnt' : Slot(rp', k - 1, DEPTH_SPEC) \in SpecSlots
    BY <2>1, SlotRange DEF SpecSlots
  <2>2. \A k \in 1 .. cnt' : SpecSeq[k]' = speculative_queue'[Slot(rp', k - 1, DEPTH_SPEC)].st
    BY DEF SpecSeq
  <2>3. SpecSeq' \in [1 .. cnt' -> Store]
    <3>1. \A k \in 1 .. cnt' :
            speculative_queue'[Slot(rp', k - 1, DEPTH_SPEC)].st \in Store
      BY <2>5 DEF SpecTypeOK, Entry
    <3> QED BY <3>1 DEF SpecSeq
  <2>4. SpecSeq' \in Seq(Store) /\ Len(SpecSeq') = cnt'
    BY <2>1, <2>3
  <2> QED BY <1>3, <2>2, <2>4, <2>5
<1>5. CASE flush_i
  BY <1>3, <1>4, <1>5, EmptySeq
<1>6. CASE ~flush_i
  <2>1. /\ rest \in Seq(Store) /\ Len(rest) = cnt - skip
        /\ \A k \in 1 .. cnt - skip : rest[k] = SpecSeq[k + skip]
    <3>1. CASE commit_i
      <4>1. SpecSeq # <<>>
        BY <1>1, <1>2, <3>1
      <4> QED BY <1>1, <1>2, <3>1, <4>1, HeadTailProperties
    <3>2. CASE ~commit_i
      BY <1>1, <1>2, <3>2
    <3> QED BY <3>1, <3>2
  <2>2. /\ push \in Seq(Store) /\ Len(push) = One(valid_i)
        /\ valid_i => push[1] = st
    BY DEF One
  <2> HIDE DEF rest, push
  <2>3. /\ rest \o push \in Seq(Store)
        /\ Len(rest \o push) = cnt - skip + One(valid_i)
        /\ \A k \in 1 .. cnt - skip + One(valid_i) : (rest \o push)[k] =
             IF k <= cnt - skip THEN rest[k] ELSE push[k - (cnt - skip)]
    <3>1. One(valid_i) \in 0 .. 1 /\ cnt - skip \in Nat
      BY <1>1 DEF One
    <3>2. /\ rest \o push \in Seq(Store)
          /\ Len(rest \o push) = Len(rest) + Len(push)
          /\ \A k \in 1 .. Len(rest) + Len(push) : (rest \o push)[k] =
               IF k <= Len(rest) THEN rest[k] ELSE push[k - Len(rest)]
      BY <2>1, <2>2, ConcatProperties
    <3> QED BY <2>1, <2>2, <3>1, <3>2
  <2>4. cnt' = cnt - skip + One(valid_i)
    BY <1>1, <1>3, <1>6 DEF One
  <2>5. ASSUME NEW k \in 1 .. cnt - skip + One(valid_i)
        PROVE  SpecSeq'[k] = (rest \o push)[k]
    <3>1. /\ k \in 1 .. cnt' /\ k \in Nat /\ k >= 1
          /\ One(valid_i) \in 0 .. 1 /\ cnt - skip \in Nat
          /\ (rest \o push)[k] = IF k <= cnt - skip THEN rest[k]
                                 ELSE push[k - (cnt - skip)]
      <4>1. One(valid_i) \in 0 .. 1 /\ cnt - skip \in Nat
        BY <1>1 DEF One
      <4>2. k \in 1 .. cnt' /\ k \in Nat /\ k >= 1
        BY <2>4, <4>1
      <4>3. (rest \o push)[k] = IF k <= cnt - skip THEN rest[k]
                               ELSE push[k - (cnt - skip)]
        BY <2>3
      <4> QED BY <4>1, <4>2, <4>3
    <3>2. SpecSeq'[k] = IF valid_i /\ Slot(rp', k - 1, DEPTH_SPEC) = wp
                        THEN st
                        ELSE speculative_queue[Slot(rp', k - 1, DEPTH_SPEC)].st
      BY <1>4, <3>1
    <3>3. CASE k <= cnt - skip
      <4>1. /\ Slot(rp', k - 1, DEPTH_SPEC) = Slot(rp, k + skip - 1, DEPTH_SPEC)
            /\ valid_i => Slot(rp, k + skip - 1, DEPTH_SPEC) # wp
            /\ k + skip \in 1 .. cnt
        BY <1>1, <1>3, <3>1, <3>3 DEF Slot, Inc, Dist
      <4>2. rest[k] = speculative_queue[Slot(rp, k + skip - 1, DEPTH_SPEC)].st
        <5>1. rest[k] = SpecSeq[k + skip]
          BY <2>1, <3>1, <3>3
        <5> QED BY <1>2, <4>1, <5>1
      <4> QED BY <3>1, <3>2, <3>3, <4>1, <4>2
    <3>4. CASE ~(k <= cnt - skip)
      <4>1. valid_i /\ k = cnt - skip + 1
        BY <1>1, <3>1, <3>4 DEF One
      <4>2. Slot(rp', k - 1, DEPTH_SPEC) = wp
        BY <1>1, <1>3, <4>1 DEF Slot, Inc, Dist
      <4>3. k - (cnt - skip) = 1
        BY <1>1, <4>1
      <4> QED BY <2>2, <3>1, <3>2, <3>4, <4>1, <4>2, <4>3
    <3> QED BY <3>3, <3>4
  <2>6. SpecSeq' = rest \o push
    BY <1>4, <2>3, <2>4, <2>5, SeqEqual
  <2> QED BY <1>6, <2>6 DEF rest, push
<1> QED BY <1>5, <1>6

\* One clock edge of store_if appends the committed store and removes the
\* granted one.
LEMMA CommitSeqStep ==
  ASSUME SpecTypeOK, SpecRing, CommitTypeOK, CommitRing, CommitTypeOK',
         NEW flush_i \in BOOLEAN, NEW valid_i \in BOOLEAN,
         NEW commit_i \in BOOLEAN, NEW data_gnt \in BOOLEAN,
         Contract(flush_i, valid_i, commit_i),
         store_if(commit_i, data_gnt)
  PROVE  /\ (data_req_o /\ data_gnt) => CommitSeq # <<>>
         /\ commit_i => SpecSeq # <<>> /\ Len(CommitSeq) < DEPTH_COMMIT
         /\ CommitSeq' = (IF data_req_o /\ data_gnt THEN Tail(CommitSeq) ELSE CommitSeq)
                           \o (IF commit_i THEN <<Head(SpecSeq)>> ELSE <<>>)
<1> USE DepthAssumption
<1> DEFINE rp == commit_read_pointer
           wp == commit_write_pointer
           cnt == commit_status_cnt
           evict == data_req_o /\ data_gnt
           oldest == speculative_queue[speculative_read_pointer].st
           push == IF commit_i THEN <<Head(SpecSeq)>> ELSE <<>>
           rest == IF evict THEN Tail(CommitSeq) ELSE CommitSeq
           skip == IF evict THEN 1 ELSE 0
<1>1. /\ rp \in 0 .. DEPTH_COMMIT - 1 /\ wp \in 0 .. DEPTH_COMMIT - 1
      /\ cnt \in 0 .. DEPTH_COMMIT
      /\ Dist(wp, rp, DEPTH_COMMIT) = IF cnt = DEPTH_COMMIT THEN 0 ELSE cnt
      /\ cnt = DEPTH_COMMIT => ~commit_i
  BY DEF CommitTypeOK, CommitRing, RingAgrees, CommitSlots, Contract,
         commit_buffer_overflow
<1>2. evict \in BOOLEAN /\ (evict => cnt > 0)
  BY <1>1 DEF CommitTypeOK, CommitRing, data_req_o, Dist, CommitSlots, Entry
<1>3. /\ CommitSeq \in Seq(Store) /\ Len(CommitSeq) = cnt
      /\ \A k \in 1 .. cnt :
           CommitSeq[k] = commit_queue[Slot(rp, k - 1, DEPTH_COMMIT)].st
  BY CommitSeqType
<1>4. commit_i => SpecSeq # <<>> /\ Head(SpecSeq) = oldest /\ oldest \in Store
  <2> SUFFICES ASSUME commit_i
               PROVE  SpecSeq # <<>> /\ Head(SpecSeq) = oldest /\ oldest \in Store
    OBVIOUS
  <2>1. speculative_status_cnt \in 1 .. DEPTH_SPEC
    BY DEF Contract, speculative_buffer_underflow, SpecTypeOK
  <2>2. Slot(speculative_read_pointer, 1 - 1, DEPTH_SPEC) = speculative_read_pointer
    BY DEF Slot, SpecTypeOK, SpecSlots
  <2>3. SpecSeq \in Seq(Store) /\ Len(SpecSeq) >= 1 /\ SpecSeq[1] = oldest
    BY <2>1, <2>2, SpecSeqType
  <2> QED BY <2>3, HeadTailProperties
<1>5. /\ cnt' = cnt + One(commit_i) - skip
      /\ rp' = IF evict THEN Inc(rp, DEPTH_COMMIT) ELSE rp
      /\ \A i \in CommitSlots : commit_queue'[i].st =
           IF commit_i /\ i = wp THEN oldest ELSE commit_queue[i].st
  <2>1. cnt' = Wrap(cnt + One(commit_i) - One(evict), DEPTH_COMMIT)
    BY DEF store_if
  <2>2. cnt' = cnt + One(commit_i) - skip
    <3> HIDE DEF evict
    <3> QED BY <1>1, <1>2, <2>1 DEF Wrap, One
  <2> QED BY <2>2 DEF store_if
<1>6. /\ CommitSeq' \in Seq(Store) /\ Len(CommitSeq') = cnt'
      /\ \A k \in 1 .. cnt' : CommitSeq'[k] =
           IF commit_i /\ Slot(rp', k - 1, DEPTH_COMMIT) = wp
           THEN oldest ELSE commit_queue[Slot(rp', k - 1, DEPTH_COMMIT)].st
  <2>1. cnt' \in 0 .. DEPTH_COMMIT /\ rp' \in 0 .. DEPTH_COMMIT - 1
    BY DEF CommitTypeOK, CommitSlots
  <2>2. \A k \in 1 .. cnt' : Slot(rp', k - 1, DEPTH_COMMIT) \in CommitSlots
    BY <2>1, SlotRange DEF CommitSlots
  <2>3. \A k \in 1 .. cnt' : CommitSeq[k]' = commit_queue'[Slot(rp', k - 1, DEPTH_COMMIT)].st
    BY DEF CommitSeq
  <2>4. CommitSeq' \in [1 .. cnt' -> Store]
    <3>1. \A k \in 1 .. cnt' :
            commit_queue'[Slot(rp', k - 1, DEPTH_COMMIT)].st \in Store
      BY <2>2 DEF CommitTypeOK, Entry
    <3> QED BY <3>1 DEF CommitSeq
  <2>5. CommitSeq' \in Seq(Store) /\ Len(CommitSeq') = cnt'
    BY <2>1, <2>4
  <2> HIDE DEF evict
  <2> QED BY <1>5, <2>2, <2>3, <2>5
<1> HIDE DEF evict
<1>7. /\ rest \in Seq(Store) /\ Len(rest) = cnt - skip
      /\ \A k \in 1 .. cnt - skip : rest[k] = CommitSeq[k + skip]
  <2>1. CASE evict
    <3>1. CommitSeq # <<>>
      BY <1>2, <1>3, <2>1
    <3> QED BY <1>1, <1>3, <2>1, <3>1, HeadTailProperties
  <2>2. CASE ~evict
    BY <1>1, <1>3, <2>2
  <2> QED BY <2>1, <2>2
<1>8. /\ push \in Seq(Store) /\ Len(push) = One(commit_i)
      /\ commit_i => push[1] = oldest
  <2> HIDE DEF oldest
  <2> QED BY <1>4 DEF One
<1>9. CommitSeq' = rest \o push
  <2> HIDE DEF rest, push
  <2>1. /\ rest \o push \in Seq(Store)
        /\ Len(rest \o push) = cnt - skip + One(commit_i)
        /\ \A k \in 1 .. cnt - skip + One(commit_i) : (rest \o push)[k] =
             IF k <= cnt - skip THEN rest[k] ELSE push[k - (cnt - skip)]
    <3>1. One(commit_i) \in 0 .. 1 /\ cnt - skip \in Nat
      BY <1>1, <1>2 DEF One
    <3>2. /\ rest \o push \in Seq(Store)
          /\ Len(rest \o push) = Len(rest) + Len(push)
          /\ \A k \in 1 .. Len(rest) + Len(push) : (rest \o push)[k] =
               IF k <= Len(rest) THEN rest[k] ELSE push[k - Len(rest)]
      BY <1>7, <1>8, ConcatProperties
    <3> QED BY <1>7, <1>8, <3>1, <3>2
  <2>2. cnt' = cnt - skip + One(commit_i)
    BY <1>1, <1>5 DEF One
  <2>3. ASSUME NEW k \in 1 .. cnt - skip + One(commit_i)
        PROVE  CommitSeq'[k] = (rest \o push)[k]
    <3>1. /\ k \in 1 .. cnt' /\ k \in Nat /\ k >= 1
          /\ One(commit_i) \in 0 .. 1 /\ cnt - skip \in Nat
          /\ (rest \o push)[k] = IF k <= cnt - skip THEN rest[k]
                                 ELSE push[k - (cnt - skip)]
      BY <1>1, <1>2, <2>1, <2>2 DEF One
    <3>2. CommitSeq'[k] = IF commit_i /\ Slot(rp', k - 1, DEPTH_COMMIT) = wp
                          THEN oldest
                          ELSE commit_queue[Slot(rp', k - 1, DEPTH_COMMIT)].st
      BY <1>6, <3>1
    <3>3. CASE k <= cnt - skip
      <4>1. /\ Slot(rp', k - 1, DEPTH_COMMIT) = Slot(rp, k + skip - 1, DEPTH_COMMIT)
            /\ commit_i => Slot(rp, k + skip - 1, DEPTH_COMMIT) # wp
            /\ k + skip \in 1 .. cnt
        BY <1>1, <1>5, <3>1, <3>3 DEF Slot, Inc, Dist
      <4>2. rest[k] = commit_queue[Slot(rp, k + skip - 1, DEPTH_COMMIT)].st
        <5>1. rest[k] = CommitSeq[k + skip]
          BY <1>7, <3>1, <3>3
        <5> QED BY <1>3, <4>1, <5>1
      <4> QED BY <3>1, <3>2, <3>3, <4>1, <4>2
    <3>4. CASE ~(k <= cnt - skip)
      <4>1. commit_i /\ k = cnt - skip + 1
        BY <1>1, <3>1, <3>4 DEF One
      <4>2. Slot(rp', k - 1, DEPTH_COMMIT) = wp
        <5>1. CASE evict
          BY <1>1, <1>2, <1>5, <4>1, <5>1 DEF Slot, Inc, Dist
        <5>2. CASE ~evict
          BY <1>1, <1>5, <4>1, <5>2 DEF Slot, Inc, Dist
        <5> QED BY <5>1, <5>2
      <4>3. k - (cnt - skip) = 1
        BY <1>1, <4>1
      <4> QED BY <1>8, <3>1, <3>2, <3>4, <4>1, <4>2, <4>3
    <3> QED BY <3>3, <3>4
  <2> QED BY <1>6, <2>1, <2>2, <2>3, SeqEqual
<1>10. evict => CommitSeq # <<>>
  BY <1>2, <1>3
<1>11. commit_i => SpecSeq # <<>> /\ Len(CommitSeq) < DEPTH_COMMIT
  BY <1>1, <1>3, <1>4
<1> QED BY <1>9, <1>10, <1>11 DEF evict

(***************************************************************************)
(* The rings of store_buffer.sv implement the two FIFO queues, for every   *)
(* depth and every sequence of pushes, commits, flushes and grants.        *)
(***************************************************************************)
THEOREM Refinement == Spec => ImplementsQueue
<1> USE DepthAssumption
<1>1. Init => Queue!QInit
  BY DEF Init, Queue!QInit, SpecSeq, CommitSeq
<1>2. Inv /\ Inv' /\ [Next]_vars => [Queue!QNext]_Queue!qvars
  <2> SUFFICES ASSUME Inv, Inv', [Next]_vars PROVE [Queue!QNext]_Queue!qvars
    OBVIOUS
  <2>1. /\ SpecTypeOK /\ CommitTypeOK /\ SpecRing /\ CommitRing
        /\ SpecTypeOK' /\ CommitTypeOK'
    BY TypeSplit DEF Inv, RingInv, TypeOK, SpecTypeOK, CommitTypeOK
  <2>2. CASE UNCHANGED vars
    BY <2>2 DEF vars, specvars, commitvars, Queue!qvars, SpecSeq, CommitSeq
  <2>3. CASE Next
    <3>1. PICK flush_i \in BOOLEAN, valid_i \in BOOLEAN, commit_i \in BOOLEAN,
               data_gnt \in BOOLEAN, st \in Store :
                 /\ Contract(flush_i, valid_i, commit_i)
                 /\ Cycle(flush_i, valid_i, st, commit_i, data_gnt)
      BY <2>3 DEF Next
    <3> DEFINE push == IF valid_i THEN <<st>> ELSE <<>>
               take == data_req_o /\ data_gnt
    <3>2. SpecSeq' = IF flush_i THEN <<>>
                     ELSE (IF commit_i THEN Tail(SpecSeq) ELSE SpecSeq) \o push
      BY <2>1, <3>1, SpecSeqStep DEF Cycle
    <3>3. /\ take => CommitSeq # <<>>
          /\ commit_i => SpecSeq # <<>> /\ Len(CommitSeq) < DEPTH_COMMIT
          /\ CommitSeq' = (IF take THEN Tail(CommitSeq) ELSE CommitSeq)
                            \o (IF commit_i THEN <<Head(SpecSeq)>> ELSE <<>>)
      BY <2>1, <3>1, CommitSeqStep DEF Cycle
    <3>4. push # <<>> => Len(SpecSeq) < DEPTH_SPEC
      BY <2>1, <3>1, SpecSeqType DEF Contract, speculative_buffer_overflow, SpecTypeOK
    <3>5. /\ ~(flush_i /\ commit_i)
          /\ push \in {<<>>} \cup {<<s>> : s \in Store}
          /\ take \in BOOLEAN
      <4>1. data_req_o \in BOOLEAN
        BY <2>1 DEF data_req_o, CommitTypeOK, Entry
      <4> QED BY <3>1, <4>1 DEF Contract, commit_and_flush
    <3>6. Queue!QCycle(push, flush_i, commit_i, take)
      <4> HIDE DEF push, take
      <4> QED BY <3>2, <3>3, <3>4 DEF Queue!QCycle
    <3>7. Queue!QNext
      <4> HIDE DEF push, take
      <4> QED BY <3>1, <3>5, <3>6 DEF Queue!QNext
    <3> QED BY <3>7
  <2> QED BY <2>2, <2>3
<1> QED
  BY <1>1, <1>2, InitInv, NextInv, PTL DEF Spec, ImplementsQueue, Queue!QSpec
=============================================================================
