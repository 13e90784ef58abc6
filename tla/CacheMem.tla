------------------------------ MODULE CacheMem ------------------------------
(***************************************************************************)
(* wt_dcache_mem.sv: tag and data arrays of the data cache and their       *)
(* arbitration.  The model has one index and one way: all lines compete    *)
(* for the same place.  A word is <<line, offset>>, the offset selects the *)
(* data bank.  Data is abstracted to freshness: a copy of byte b of word w *)
(* holds the value of the latest store iff <<w, b>> is in the copy's set.  *)
(*                                                                         *)
(*   c_line, c_fresh   line in the array (None: invalid), its fresh bytes  *)
(*   r_line, r_fresh   read registers of the arrays one cycle after a read *)
(***************************************************************************)
EXTENDS Integers, FiniteSets

CONSTANTS Words, Bytes

\* Lines, offsets and byte positions are numbers.
ASSUME GeometryAssumption == Words \subseteq Nat \X Nat /\ Bytes \subseteq Nat

VARIABLES c_line, c_fresh, r_line, r_fresh

cmvars == <<c_line, c_fresh, r_line, r_fresh>>

None == -1
NoWord == <<None, None>>
Line(w) == w[1]
Offset(w) == w[2]
Lines == {Line(w) : w \in Words}
Of(w, be) == {w} \X be               \* the bytes be of word w
OfLine(l) == {x \in Words \X Bytes : Line(x[1]) = l}

CacheInit == c_line = None /\ c_fresh = {} /\ r_line = None /\ r_fresh = {}

\* Arbitration: a line write stops all reads; the read port goes before the
\* look-ups of the write buffer.
rd_ack(rd_req, wr_cl_vld) == rd_req /\ ~wr_cl_vld
check_ack(tocheck, rd_req, wr_cl_vld) == tocheck # {} /\ ~rd_req /\ ~wr_cl_vld

wr_ack_o(wr_req, wr_word, wr_cl_we, rd_acked, rd_word) ==
    wr_req /\ ~wr_cl_we /\ ~(rd_acked /\ Offset(rd_word) = Offset(wr_word))

\* A single-ported bank that is written does not deliver what is read.
Collision(wr_ack, wr_word, rd_word) == wr_ack /\ Offset(rd_word) = Offset(wr_word)

\* refill: line written with the bytes fill; clear: flush or invalidation;
\* rd: word the read port reads or NoWord; look: a look-up reads the tag;
\* wr: the word write of the write buffer, wr.be = {} for none; over: bytes
\* the core overwrites in this cycle.
CacheCycle(refill, line, fill, clear, rd, look, wr, over) ==
    /\ c_line' = IF clear THEN None ELSE IF refill THEN line ELSE c_line
    /\ c_fresh' = (IF clear THEN {} ELSE IF refill THEN fill
                   ELSE IF wr.be = {} \/ c_line = None THEN c_fresh
                   ELSE (c_fresh \ Of(<<c_line, Offset(wr.word)>>, wr.be))
                        \cup (IF Line(wr.word) = c_line THEN Of(wr.word, wr.be) \cap wr.fresh ELSE {}))
                  \ over
    /\ r_line' = IF rd # NoWord \/ look THEN c_line ELSE None
    /\ r_fresh' = (IF rd = NoWord \/ Collision(wr.be # {}, wr.word, rd) THEN {}
                   ELSE c_fresh \cap Of(rd, Bytes)) \ over
=============================================================================
