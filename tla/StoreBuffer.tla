---------------------------- MODULE StoreBuffer -----------------------------
(***************************************************************************)
(* store_buffer.sv: the speculative and the committed store queue, two     *)
(* rings of registers with read and write pointers, a status counter and a *)
(* valid flag per slot.  The variables are the module's registers, each    *)
(* named as in the source without its _q; one step is one clock edge.      *)
(*                                                                         *)
(* The depths are powers of two in the source, so a pointer wraps by       *)
(* itself; here it wraps at the depth.  A counter has one more bit than    *)
(* its pointer and wraps at twice the depth.                               *)
(***************************************************************************)
EXTENDS Integers, Sequences

CONSTANTS DEPTH_SPEC, DEPTH_COMMIT,
          Store,        \* the payload of a store (address, data, be, size)
          ZeroStore,    \* the payload of a slot after reset
          PageOffset,   \* values of address bits [11:3]
          OffsetOf      \* the page offset of a payload

ASSUME DepthAssumption == /\ DEPTH_SPEC \in Nat /\ DEPTH_SPEC >= 2
                          /\ DEPTH_COMMIT \in Nat /\ DEPTH_COMMIT >= 2
ASSUME StoreAssumption == /\ ZeroStore \in Store
                          /\ OffsetOf \in [Store -> PageOffset]

VARIABLES speculative_queue, speculative_read_pointer,
          speculative_write_pointer, speculative_status_cnt,
          commit_queue, commit_read_pointer,
          commit_write_pointer, commit_status_cnt

specvars == <<speculative_queue, speculative_read_pointer,
              speculative_write_pointer, speculative_status_cnt>>
commitvars == <<commit_queue, commit_read_pointer,
                commit_write_pointer, commit_status_cnt>>
vars == <<specvars, commitvars>>

Entry == [st : Store, valid : BOOLEAN]

SpecSlots == 0 .. DEPTH_SPEC - 1
CommitSlots == 0 .. DEPTH_COMMIT - 1

\* Mutant: the pointer stops at the last slot.
Inc_saturating(p, depth) == IF p = depth - 1 THEN p ELSE p + 1

Inc(p, depth) == IF p = depth - 1 THEN 0 ELSE p + 1

\* Mutant: the counter is as narrow as the pointer, so full reads as empty.
Wrap_narrow(x, depth) == (x + depth) % depth

\* A counter of $clog2(depth)+1 bits after adding x in -1 .. 1.
Wrap(x, depth) == IF x < 0 THEN x + 2 * depth
                  ELSE IF x >= 2 * depth THEN x - 2 * depth ELSE x

-----------------------------------------------------------------------------
(* Outputs: combinational functions of the registers (and of commit_i). *)

\* Mutant: the store already under way to the buffer is not counted.
ready_o_late(commit_i) == speculative_status_cnt < DEPTH_SPEC \/ commit_i

ready_o(commit_i) == speculative_status_cnt < DEPTH_SPEC - 1 \/ commit_i
commit_ready_o == commit_status_cnt < DEPTH_COMMIT
no_st_pending_o == commit_status_cnt = 0
store_buffer_empty_o == speculative_status_cnt = 0 /\ no_st_pending_o

\* Mutant: the request looks at the slot being written.
data_req_o_tail == commit_queue[commit_write_pointer].valid

data_req_o == commit_queue[commit_read_pointer].valid

\* Mutant: a store that has committed no longer holds a load back.
page_offset_matches_o_spec(offset, put) ==
    \/ \E i \in SpecSlots : /\ speculative_queue[i].valid
                            /\ OffsetOf[speculative_queue[i].st] = offset
    \/ offset \in put

\* put: the page offsets of the store being put this cycle (none or one).
page_offset_matches_o(offset, put) ==
    \/ \E i \in CommitSlots : /\ commit_queue[i].valid
                              /\ OffsetOf[commit_queue[i].st] = offset
    \/ \E i \in SpecSlots : /\ speculative_queue[i].valid
                            /\ OffsetOf[speculative_queue[i].st] = offset
    \/ offset \in put

-----------------------------------------------------------------------------
Init ==
    /\ speculative_queue = [i \in SpecSlots |-> [st |-> ZeroStore, valid |-> FALSE]]
    /\ speculative_read_pointer = 0
    /\ speculative_write_pointer = 0
    /\ speculative_status_cnt = 0
    /\ commit_queue = [i \in CommitSlots |-> [st |-> ZeroStore, valid |-> FALSE]]
    /\ commit_read_pointer = 0
    /\ commit_write_pointer = 0
    /\ commit_status_cnt = 0

One(b) == IF b THEN 1 ELSE 0

(***************************************************************************)
(* core_if: the later assignment wins, so a commit invalidates the slot it *)
(* reads even if the same slot is written, and a flush invalidates all.    *)
(***************************************************************************)
core_if(flush_i, valid_i, st, commit_i) ==
    /\ speculative_queue' =
         [i \in SpecSlots |->
            [st |-> IF valid_i /\ i = speculative_write_pointer
                    THEN st ELSE speculative_queue[i].st,
             valid |-> /\ ~flush_i
                       /\ ~(commit_i /\ i = speculative_read_pointer)
                       /\ \/ valid_i /\ i = speculative_write_pointer
                          \/ speculative_queue[i].valid]]
    /\ speculative_read_pointer' =
         IF commit_i THEN Inc(speculative_read_pointer, DEPTH_SPEC)
                     ELSE speculative_read_pointer
    /\ speculative_write_pointer' =
         IF flush_i THEN speculative_read_pointer
         ELSE IF valid_i THEN Inc(speculative_write_pointer, DEPTH_SPEC)
                         ELSE speculative_write_pointer
    /\ speculative_status_cnt' =
         IF flush_i THEN 0
         ELSE Wrap(speculative_status_cnt + One(valid_i) - One(commit_i), DEPTH_SPEC)

(***************************************************************************)
(* store_if: the head of the committed queue is evicted when the cache     *)
(* grants its request; a commit copies the oldest speculative slot, valid  *)
(* flag included.                                                          *)
(***************************************************************************)
store_if(commit_i, data_gnt) ==
    LET evict == data_req_o /\ data_gnt IN
    /\ commit_queue' =
         [i \in CommitSlots |->
            IF commit_i /\ i = commit_write_pointer
            THEN speculative_queue[speculative_read_pointer]
            ELSE [st |-> commit_queue[i].st,
                  valid |-> /\ commit_queue[i].valid
                            /\ ~(evict /\ i = commit_read_pointer)]]
    /\ commit_read_pointer' =
         IF evict THEN Inc(commit_read_pointer, DEPTH_COMMIT) ELSE commit_read_pointer
    /\ commit_write_pointer' =
         IF commit_i THEN Inc(commit_write_pointer, DEPTH_COMMIT) ELSE commit_write_pointer
    /\ commit_status_cnt' =
         Wrap(commit_status_cnt + One(commit_i) - One(evict), DEPTH_COMMIT)

Cycle(flush_i, valid_i, st, commit_i, data_gnt) ==
    core_if(flush_i, valid_i, st, commit_i) /\ store_if(commit_i, data_gnt)

-----------------------------------------------------------------------------
(***************************************************************************)
(* The four assertions at the end of store_buffer.sv.  Here they are the   *)
(* contract the environment keeps; CommitPath shows where the store unit   *)
(* and the commit stage keep it.                                           *)
(***************************************************************************)
commit_and_flush(flush_i, commit_i) == flush_i => ~commit_i
speculative_buffer_overflow(valid_i) ==
    speculative_status_cnt = DEPTH_SPEC => ~valid_i
speculative_buffer_underflow(commit_i) ==
    speculative_status_cnt = 0 => ~commit_i
commit_buffer_overflow(commit_i) ==
    commit_status_cnt = DEPTH_COMMIT => ~commit_i

Contract(flush_i, valid_i, commit_i) ==
    /\ commit_and_flush(flush_i, commit_i)
    /\ speculative_buffer_overflow(valid_i)
    /\ speculative_buffer_underflow(commit_i)
    /\ commit_buffer_overflow(commit_i)

Next ==
    \E flush_i, valid_i, commit_i, data_gnt \in BOOLEAN, st \in Store :
        /\ Contract(flush_i, valid_i, commit_i)
        /\ Cycle(flush_i, valid_i, st, commit_i, data_gnt)

\* The cache grants the pending write request: the environment's part.
Granted ==
    \E flush_i, valid_i, commit_i \in BOOLEAN, st \in Store :
        /\ data_req_o
        /\ Contract(flush_i, valid_i, commit_i)
        /\ Cycle(flush_i, valid_i, st, commit_i, TRUE)

Spec == Init /\ [][Next]_vars
FairSpec == Spec /\ WF_vars(Granted)

-----------------------------------------------------------------------------
(* Properties *)

TypeOK ==
    /\ speculative_queue \in [SpecSlots -> Entry]
    /\ speculative_read_pointer \in SpecSlots
    /\ speculative_write_pointer \in SpecSlots
    /\ speculative_status_cnt \in 0 .. DEPTH_SPEC
    /\ commit_queue \in [CommitSlots -> Entry]
    /\ commit_read_pointer \in CommitSlots
    /\ commit_write_pointer \in CommitSlots
    /\ commit_status_cnt \in 0 .. DEPTH_COMMIT

\* The distance of slot i from the read pointer, going round the ring.
Dist(i, rp, depth) == IF i >= rp THEN i - rp ELSE i - rp + depth

\* Pointers and counter of one ring agree.
RingAgrees(rp, wp, cnt, depth) ==
    Dist(wp, rp, depth) = IF cnt = depth THEN 0 ELSE cnt

(***************************************************************************)
(* Pointers, counter and valid flags, which the code keeps separately,     *)
(* always describe the same queue: exactly the slots from the read pointer *)
(* on, as many as the counter says, are valid.                             *)
(***************************************************************************)
SpecRing ==
    /\ RingAgrees(speculative_read_pointer, speculative_write_pointer,
                  speculative_status_cnt, DEPTH_SPEC)
    /\ \A i \in SpecSlots :
         speculative_queue[i].valid <=>
           Dist(i, speculative_read_pointer, DEPTH_SPEC) < speculative_status_cnt
CommitRing ==
    /\ RingAgrees(commit_read_pointer, commit_write_pointer,
                  commit_status_cnt, DEPTH_COMMIT)
    /\ \A i \in CommitSlots :
         commit_queue[i].valid <=>
           Dist(i, commit_read_pointer, DEPTH_COMMIT) < commit_status_cnt
RingInv == SpecRing /\ CommitRing

\* The refinement mapping: the slots in ring order, oldest first.
Slot(rp, k, depth) == IF rp + k < depth THEN rp + k ELSE rp + k - depth
SpecSeq == [k \in 1 .. speculative_status_cnt |->
    speculative_queue[Slot(speculative_read_pointer, k - 1, DEPTH_SPEC)].st]
CommitSeq == [k \in 1 .. commit_status_cnt |->
    commit_queue[Slot(commit_read_pointer, k - 1, DEPTH_COMMIT)].st]

Queue == INSTANCE StoreQueue WITH
    spec <- SpecSeq, comm <- CommitSeq, Store <- Store,
    SpecCap <- DEPTH_SPEC, CommitCap <- DEPTH_COMMIT

(***************************************************************************)
(* The rings implement the two FIFO queues: no interleaving of pushes,     *)
(* commits, grants and flushes loses, duplicates or reorders a store.      *)
(***************************************************************************)
ImplementsQueue == Queue!QSpec

(***************************************************************************)
(* The address checker looks at valid flags in slot order, not at the      *)
(* queues: a load is held back exactly when a store with its page offset   *)
(* is still on its way to memory (address_checker).                        *)
(***************************************************************************)
InterlockExact ==
    \A offset \in PageOffset :
        page_offset_matches_o(offset, {}) <=>
            \/ \E k \in DOMAIN SpecSeq : OffsetOf[SpecSeq[k]] = offset
            \/ \E k \in DOMAIN CommitSeq : OffsetOf[CommitSeq[k]] = offset

(***************************************************************************)
(* A committed store reaches memory whatever the core does meanwhile:      *)
(* flushes and further commits never starve a slot of the commit queue.    *)
(***************************************************************************)
CommittedDrains ==
    \A i \in CommitSlots : commit_queue[i].valid ~> ~commit_queue[i].valid
=============================================================================
