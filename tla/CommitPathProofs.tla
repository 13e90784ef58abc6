-------------------------- MODULE CommitPathProofs --------------------------
(***************************************************************************)
(* Proofs about CommitPath: the safety properties of the back end hold for *)
(* every size of the scoreboard and of the store buffer, every program and *)
(* every behaviour of the caches, provided that Quiet holds: a marker that *)
(* raises the alarm of the control-flow monitor (run alarm_flush), or a    *)
(* single step, makes a store retire while the pipeline is flushed.        *)
(*                                                                         *)
(* The invariants of ScoreboardProofs and StoreBufferProofs are reused by  *)
(* instantiation: ContractKept and BufferContract show that the core keeps *)
(* the contracts they rest on.  IInv adds where every uncompleted          *)
(* instruction is (Requests, Found), what the store buffer, the AMO buffer *)
(* and the CSR buffer hold for the completed ones (Posted, CsrUnit) and    *)
(* what the load unit waits for (LoadUnit).                                *)
(*                                                                         *)
(* The last two parts use IInv: the whole core implements InOrderCore, and *)
(* it keeps what IssueRead asks of its environment.                        *)
(***************************************************************************)
EXTENDS CommitPath, TLAPS

SBP == INSTANCE ScoreboardProofs WITH Instr <- Instrs, NR_WB_PORTS <- 3
BUFP == INSTANCE StoreBufferProofs WITH
    Store <- Slots, ZeroStore <- 0, PageOffset <- {0, 1}, OffsetOf <- [s \in Slots |-> 0]

\* No program holds a marker, so no alarm is raised, nor sets the single step.
Quiet == \A i \in Instrs : ~Mon!nop_perso(i) /\ i.op # "CSR_DCSR"

\* The first and the second request waiting for the load and the store unit.
r1 == BP!lsu_ctrl_o(lsu_req)
r2 == IF bp_status_cnt = 2 THEN bp_mem[(bp_read_pointer + 1) % 2]
      ELSE IF bp_status_cnt = 1 THEN lsu_req ELSE NoReq

\* Types of the registers outside scoreboard and store buffer.
Registers ==
    /\ fu_data \in Request \cup {NoReq}
    /\ bp_mem \in [0 .. 1 -> Request \cup {NoReq}]
    /\ bp_read_pointer \in 0 .. 1 /\ bp_write_pointer \in 0 .. 1
    /\ bp_status_cnt \in 0 .. 2
    /\ st_state \in ST!StoreUnitStates
    /\ st_req \in Request \cup {NoReq}
    /\ amo_fifo \in SUBSET Slots
    /\ ld_state \in LD!LoadUnitStates /\ load_data \in Slots /\ ld_pipe \in SUBSET Slots
    /\ ld_port \in {"idle", "out", "killed"} /\ wb_ni \in BOOLEAN
    /\ csr_address \in Slots /\ csr_valid \in BOOLEAN
    /\ debug_mode \in BOOLEAN /\ step \in BOOLEAN /\ wfi \in BOOLEAN
    /\ state_JALR \in Mon!States /\ flow_integrity_violated \in BOOLEAN
    /\ clk \in BOOLEAN /\ program \in Programs

Calm == ~step /\ ~flow_integrity_violated /\ state_JALR # "state_JALR_3" /\ failed = {}

\* An instruction with an exception is complete from the start; only those
\* without a unit have one.
Decoded == \A i \in InFlight : /\ mem[i].ex <=> mem[i].instr.fu = "NONE"
                               /\ mem[i].ex => mem[i].valid

\* The ring of the bypass.
Ring ==
    /\ bp_write_pointer = (bp_read_pointer + bp_status_cnt) % 2
    /\ \A k \in 1 .. bp_status_cnt : Bypassed(k) # NoReq
    /\ bp_status_cnt = 2 => lsu_req = NoReq

\* Request r is that of an uncompleted instruction in flight.
Open(r) ==
    /\ r \in Request /\ r.id \in InFlight /\ ~mem[r.id].valid
    /\ r.fu = mem[r.id].instr.fu
    /\ r.amo <=> is_amo(mem[r.id].instr)
    /\ r.io <=> mem[r.id].instr.op = "LW_IO"

\* The requests as sets of none or one, and what is older than the first.
Executing == {fu_data} \ {NoReq}
Firsts == {r1} \ {NoReq}
Seconds == {r2} \ {NoReq}
InUnit == {q \in {st_req} : st_state = "VALID_STORE"}
Older(i) == \A r \in Firsts : Age(i) < Age(r.id)

Requests ==
    /\ \A r \in Executing : Open(r) /\ Age(r.id) = issue_cnt - 1
    /\ \A r \in Firsts : Open(r) /\ r.fu \in {"LOAD", "STORE"}
    /\ \A r \in Seconds : /\ Open(r) /\ r.fu \in {"LOAD", "STORE"}
                          /\ \E q \in Firsts : Age(q.id) < Age(r.id)
    /\ \A r \in InUnit : Open(r) /\ r.fu = "STORE" /\ Older(r.id)

\* Every uncompleted instruction is in one of its places.
Found ==
    \A i \in InFlight : ~mem[i].valid =>
        \/ i \in flu_ids
        \/ \E r \in Firsts \cup Seconds : r.id = i
        \/ \E r \in InUnit : r.id = i
        \/ mem[i].instr.fu = "LOAD" /\ i \in ld_pipe \cup Outstanding

\* The speculative queue and the AMO buffer.
Queued == {[at |-> k, id |-> BUF!SpecSeq[k]] : k \in 1 .. speculative_status_cnt}
Posted ==
    /\ StoreAgreement
    /\ \A x \in Queued : Older(x.id) /\ \A r \in InUnit : Age(x.id) < Age(r.id)
    /\ \A r \in InUnit : IF r.amo THEN amo_fifo = {} ELSE speculative_status_cnt < DEPTH_SPEC
    /\ st_state # "WAIT_TRANSLATION"

\* Nothing older than load i is on its way to memory.
Clear(i) == commit_status_cnt = 0 /\ \A j \in Stores \ Amos : Age(i) < Age(j)

\* Load i is in flight and older than what waits.
Reading(i) == i \in Loads /\ ~mem[i].valid /\ Older(i)

Holding == {"WAIT_GNT", "WAIT_PAGE_OFFSET", "ABORT_TRANSACTION_NI", "WAIT_WB_EMPTY", "WAIT_TRANSLATION"}

LoadUnit ==
    /\ \A i \in Outstanding : Reading(i) /\ Clear(i)
    /\ issue_cnt # 0 => \A i \in ld_pipe : Reading(i) /\ \A j \in Outstanding : Age(i) < Age(j)
    /\ \A i, j \in ld_pipe : i = j
    /\ ld_state \in Holding => r1 # NoReq /\ r1.fu = "LOAD"
    /\ ld_state \in {"ABORT_TRANSACTION_NI", "WAIT_WB_EMPTY", "WAIT_TRANSLATION"} => r1.io
    /\ ld_state \in {"WAIT_WB_EMPTY", "WAIT_TRANSLATION"} => ld_port # "out"
    /\ ld_state = "WAIT_GNT" => \A r \in Firsts : ~r.io => Clear(r.id)

\* A fence that is complete in the commit stage.
Fencing == LET e == SB!commit_instr_o(0) IN e.valid /\ e.instr.op \in WaitsForStores
CsrOps == {i \in InFlight : mem[i].instr.fu = "CSR"}
CsrUnit ==
    ~Fencing =>
       /\ \A i, j \in CsrOps : i = j
       /\ \A i \in CsrOps : mem[i].valid => csr_valid /\ csr_address = i

IInv == /\ SBP!Inv /\ BUFP!Inv /\ Registers /\ Calm /\ Decoded /\ Ring /\ Requests /\ Found
        /\ Posted /\ LoadUnit /\ CsrUnit

-----------------------------------------------------------------------------
\* What the environment may do in a cycle.
Inputs(in) ==
    /\ in.decoded \in Decodes
    /\ in.gnt \in BOOLEAN
    /\ in.amo_ack \in BOOLEAN /\ (in.amo_ack => amo_req)
    /\ in.drained \in BOOLEAN /\ (in.drained => fence_waits)
    /\ in.mispredict \in BOOLEAN /\ in.fault \in BOOLEAN /\ in.flushes \in BOOLEAN
    /\ in.ebreak \in BOOLEAN /\ in.step \in BOOLEAN /\ in.wake \in BOOLEAN
    /\ in.ld_answer \in BOOLEAN /\ (in.ld_answer => ld_port = "out" /\ ~LD!kill_req)
    /\ in.ld_gnt \in BOOLEAN /\ (in.ld_gnt => ld_req /\ (ld_port = "idle" \/ in.ld_answer))
    /\ in.miss_rtrn \in BOOLEAN /\ in.wb_ni \in BOOLEAN

Edge(in, s) == Inputs(in) /\ s = Signals(in) /\ Cycle(in, s)

\* Every step of the core is a clock edge under some inputs.
LEMMA NextEdge == Next => \E in, s : Edge(in, s)
<1> SUFFICES ASSUME Next PROVE \E in, s : Edge(in, s)
  OBVIOUS
<1> DEFINE Input(decoded, gnt, amo_ack, drained, mispredict, fault, flushes, ebreak,
                 new_step, wake, ld_answer, miss_rtrn, ld_gnt, new_wb_ni) ==
               [decoded |-> decoded, gnt |-> gnt, amo_ack |-> amo_ack,
                drained |-> drained, mispredict |-> mispredict, fault |-> fault,
                flushes |-> flushes, ebreak |-> ebreak, step |-> new_step,
                wake |-> wake, ld_answer |-> ld_answer, ld_gnt |-> ld_gnt,
                miss_rtrn |-> miss_rtrn, wb_ni |-> new_wb_ni]
<1>1. PICK decoded \in Decodes,
       gnt \in When(BUF!data_req_o),
       amo_ack \in When(amo_req),
       drained \in When(fence_waits),
       mispredict \in When(Uses("CTRL_FLOW")),
       fault \in When(csr_op \in {"CSR_WRITE", "CSR_READ"}),
       flushes \in When(csr_op = "CSR_WRITE"),
       ebreak \in When(SB!commit_instr_o(0).instr.op = "BREAKPOINT"),
       new_step \in When(csr_op = "CSR_DCSR"),
       wake \in When(wfi \/ csr_op = "WFI"),
       ld_answer \in When(ld_port = "out" /\ ~LD!kill_req),
       miss_rtrn \in When(ld_port = "killed" \/ (ld_port = "out" /\ LD!kill_req)) :
       \E ld_gnt \in When(ld_req /\ (ld_port = "idle" \/ ld_answer)),
          new_wb_ni \in When((wb_ni \/ gnt) /\ HasDeviceLoads) :
       \E in \in {Input(decoded, gnt, amo_ack, drained, mispredict, fault, flushes, ebreak,
                        new_step, wake, ld_answer, miss_rtrn, ld_gnt, new_wb_ni)} :
       \E s \in {Signals(in)} : Cycle(in, s)
  BY DEF Next
<1>2. PICK ld_gnt \in When(ld_req /\ (ld_port = "idle" \/ ld_answer)),
           new_wb_ni \in When((wb_ni \/ gnt) /\ HasDeviceLoads) :
       \E in \in {Input(decoded, gnt, amo_ack, drained, mispredict, fault, flushes, ebreak,
                        new_step, wake, ld_answer, miss_rtrn, ld_gnt, new_wb_ni)} :
       \E s \in {Signals(in)} : Cycle(in, s)
  BY <1>1
<1>3. PICK in : /\ in = Input(decoded, gnt, amo_ack, drained, mispredict, fault, flushes, ebreak,
                              new_step, wake, ld_answer, miss_rtrn, ld_gnt, new_wb_ni)
                /\ Cycle(in, Signals(in))
  BY <1>2
<1>4. Inputs(in)
  BY <1>1, <1>2, <1>3 DEF Inputs, When
<1> QED BY <1>3, <1>4 DEF Edge


\* The instances of the assumptions of Scoreboard and StoreBuffer.
LEMMA Instances ==
    /\ NR_ENTRIES \in Nat /\ NR_ENTRIES >= 4 /\ 3 \in Nat
    /\ NoInstr \in Instrs
    /\ DEPTH_SPEC \in Nat /\ DEPTH_SPEC >= 2
    /\ DEPTH_COMMIT \in Nat /\ DEPTH_COMMIT >= 2
    /\ 0 \in Slots /\ [s \in Slots |-> 0] \in [Slots -> {0, 1}]
  BY SizesAssumption DEF Instrs, Slots

Entry == [issued : BOOLEAN, valid : BOOLEAN, ex : BOOLEAN, instr : Instrs]

\* The scoreboard in terms of instructions in flight and their ages.
LEMMA RingFacts ==
    ASSUME SBP!Inv
    PROVE  /\ mem \in [Slots -> Entry]
           /\ commit_pointer[0] \in Slots /\ commit_pointer[1] \in Slots
           /\ issue_cnt \in Slots /\ issue_pointer \in Slots
           /\ issue_cnt = SB!Dist(issue_pointer, commit_pointer[0])
           /\ \A i \in Slots : /\ Age(i) \in Slots
                               /\ i \in InFlight <=> Age(i) < issue_cnt
                               /\ mem[i].valid => i \in InFlight
           /\ \A i, j \in Slots : Age(i) = Age(j) => i = j
           /\ Age(commit_pointer[0]) = 0
<1>1. /\ mem \in [Slots -> Entry]
      /\ commit_pointer[0] \in Slots /\ commit_pointer[1] \in Slots
      /\ issue_cnt \in Slots /\ issue_pointer \in Slots
  BY DEF SBP!Inv, SBP!TypeOK, SBP!Slots, SBP!Ports, SBP!Entry, Entry, Slots
<1>2. /\ issue_cnt = SB!Dist(issue_pointer, commit_pointer[0])
      /\ \A i \in Slots : /\ mem[i].issued <=> Age(i) < issue_cnt
                          /\ mem[i].valid => mem[i].issued
  BY DEF SBP!Inv, SBP!RingInv, SBP!Slots, SBP!Dist, SB!Dist, Age, Slots
<1>3. \A i \in Slots : Age(i) \in Slots
  BY <1>1, Instances DEF Age, SB!Dist, Slots
<1>4. \A i, j \in Slots : Age(i) = Age(j) => i = j
  BY <1>1, Instances DEF Age, SB!Dist, Slots
<1>5. Age(commit_pointer[0]) = 0
  BY <1>1, Instances DEF Age, SB!Dist, Slots
<1> QED BY <1>1, <1>2, <1>3, <1>4, <1>5 DEF InFlight

-----------------------------------------------------------------------------
(* The commit stage and the controller.                                    *)

\* The entry in the commit stage, at port 0 and at port 1.
e0 == mem[commit_pointer[0]]
e1 == mem[commit_pointer[1]]

\* What the combinational signals of a cycle mean.
LEMMA SignalFacts ==
    ASSUME NEW in, NEW s, s = Signals(in)
    PROVE  /\ s.commit = commit(wfi, step, e0, e1,
                 CSR!csr_exception_o(csr_op, in.fault, flow_integrity_violated),
                 BUF!commit_ready_o, in.drained, in.amo_ack)
           /\ s.op = csr_op /\ s.eret = CSR!eret_o(csr_op)
           /\ s.flush = flush_ex_o(s.commit, s.eret,
                 CSR!set_debug_pc_o(s.commit.exception, s.cause, s.commit.ack0, in.ebreak),
                 CSR!flush_o(csr_op, in.flushes, s.commit.exception))
           /\ s.unissued = (in.mispredict \/ s.flush)
  BY DEF Signals, csr_op, e0, e1, halt_o, SB!commit_instr_o, flush_unissued_instr_o

\* What the commit stage acknowledges is what the scoreboard sees.
LEMMA AckSignals ==
    ASSUME NEW in, NEW s, s = Signals(in)
    PROVE  /\ s.ack = [p \in SB!Ports |-> s.ack[p]]
           /\ s.ack[0] = s.commit.ack0 /\ s.ack[1] = s.commit.ack1
<1>1. s.ack = [p \in SB!Ports |-> IF p = 0 THEN s.commit.ack0 ELSE s.commit.ack1]
  BY DEF Signals
<1> QED BY <1>1 DEF SB!Ports

\* What the units see of each other in a cycle.
LEMMA UnitSignals ==
    ASSUME NEW in, NEW s, s = Signals(in)
    PROVE  /\ s.issue_ack = issue_ack_o(in.decoded, CB!csr_ready_o(Uses("CSR"), s.commit.commit_csr),
                                        BP!lsu_ready_o)
           /\ s.to_unit = {d \in in.decoded : s.issue_ack /\ ~s.unissued /\ ~Traps(d.instr)}
           /\ s.wb = WriteBacks
           /\ s.st = ForUnit("STORE") /\ s.ld = ForUnit("LOAD") /\ s.matches = page_offset_matches
           /\ s.stall = (in.ld_gnt /\ LD!stall_ni(s.ld, ~wb_ni, BUF!store_buffer_empty_o, commit_pointer[0]))
           /\ s.st_ready = (BUF!ready_o(s.commit.commit_lsu) /\ ST!amo_buffer_ready)
           /\ s.posted = ST!store_buffer_valid(s.flush, FALSE)
  BY DEF Signals

\* What commit_stage.sv and controller.sv promise: what may retire, when a
\* store, an AMO or a CSR access does, and which of them flush.
LEMMA CommitFacts ==
    ASSUME Quiet, IInv, NEW in, NEW s, Edge(in, s)
    PROVE  /\ s.flush \in BOOLEAN /\ s.unissued \in BOOLEAN /\ (s.flush => s.unissued)
           /\ s.issue_ack \in BOOLEAN
           /\ s.ack \in [SB!Ports -> BOOLEAN]
           /\ s.ack[0] => e0.valid /\ ~e0.ex
           /\ s.ack[1] => s.ack[0] /\ e1.valid /\ ~e1.ex /\ e1.instr.fu \notin {"STORE", "CSR"}
           /\ s.commit.commit_lsu \in BOOLEAN
           /\ s.commit.commit_lsu <=> s.ack[0] /\ e0.instr.fu = "STORE" /\ ~is_amo(e0.instr)
           /\ s.commit.commit_lsu => commit_status_cnt < DEPTH_COMMIT /\ ~s.flush
           /\ s.ack[0] /\ ~s.flush => ~is_amo(e0.instr) /\ e0.instr.op \notin WaitsForStores
           /\ in.amo_ack => s.flush
           /\ s.flush /\ s.commit.amo_valid_commit => in.amo_ack
           /\ s.commit.commit_csr \in BOOLEAN
           /\ s.commit.commit_csr => e0.valid /\ e0.instr.fu = "CSR" /\ (e0.instr.op \in WaitsForStores \/ s.ack[0])
           /\ s.ack[0] /\ e0.instr.fu = "CSR" => s.commit.commit_csr
           /\ ~(s.eret /\ s.commit.exception)
<1>0. /\ e0 \in Entry /\ e1 \in Entry
  BY RingFacts DEF IInv, e0, e1
<1>1. /\ s = Signals(in) /\ Inputs(in)
      /\ ~step /\ ~flow_integrity_violated
      /\ debug_mode \in BOOLEAN /\ wfi \in BOOLEAN
      /\ e0.valid => (e0.ex <=> e0.instr.fu = "NONE")
  <2>1. e0.valid => commit_pointer[0] \in InFlight
    BY RingFacts DEF IInv, e0
  <2> QED BY <2>1 DEF IInv, Edge, Calm, Decoded, e0, Registers
<1>2. /\ e0.valid \in BOOLEAN /\ e0.ex \in BOOLEAN /\ e0.instr \in Instrs
      /\ e1.valid \in BOOLEAN /\ e1.ex \in BOOLEAN
      /\ csr_op # "CSR_DCSR"
  BY <1>0 DEF Entry, Quiet, csr_op, csr_op_o, halt_o, SB!commit_instr_o, e0
<1>3. /\ is_amo(e0.instr) => e0.instr.fu = "STORE"
      /\ e0.instr.op \in WaitsForStores => e0.instr.fu = "CSR"
      /\ is_amo(e0.instr) => e0.instr.op \notin WaitsForStores
  BY <1>2, DecoderAssumption DEF is_amo, WaitsForStores
<1> DEFINE c == s.commit
           csr_ex == CSR!csr_exception_o(csr_op, in.fault, flow_integrity_violated)
           ready == BUF!commit_ready_o
           head == e0.valid /\ ~e0.ex /\ ~wfi
<1>4. /\ csr_ex \in BOOLEAN
      /\ csr_ex => head /\ csr_op \in {"CSR_WRITE", "CSR_READ"} /\ e0.instr.fu = "CSR"
      /\ csr_ex => e0.instr.op = csr_op
  BY <1>1, <1>2 DEF CSR!csr_exception_o, csr_op, csr_op_o, halt_o, SB!commit_instr_o, e0, Inputs
<1>x. ready \in BOOLEAN /\ (ready => commit_status_cnt < DEPTH_COMMIT)
  BY DEF BUF!commit_ready_o
<1> HIDE DEF csr_ex, ready
<1>5. c = commit(wfi, step, e0, e1, csr_ex, ready, in.drained, in.amo_ack)
  BY <1>1, SignalFacts DEF csr_ex, ready
<1>6. /\ c.ack0 = ack0(wfi, e0, csr_ex, ready, in.drained, in.amo_ack)
      /\ c.ack1 = ack1(c.ack0, wfi, step, e0, e1, csr_ex)
      /\ c.commit_lsu = (head /\ e0.instr.fu = "STORE" /\ ~is_amo(e0.instr) /\ ready)
      /\ c.commit_csr = (head /\ e0.instr.fu = "CSR" /\ ~csr_ex)
      /\ c.fence = (head /\ e0.instr.op \in WaitsForStores /\ in.drained)
      /\ c.flush_commit = (head /\ is_amo(e0.instr) /\ in.amo_ack)
      /\ c.amo_valid_commit = (head /\ is_amo(e0.instr))
      /\ c.exception = (e0.valid /\ ~wfi /\ (csr_ex \/ e0.ex))
  <2>1. c.ack0 = ack0(wfi, e0, csr_ex, ready, in.drained, in.amo_ack)
    BY <1>5 DEF commit
  <2>2. c.ack1 = ack1(c.ack0, wfi, step, e0, e1, csr_ex)
    BY <1>5 DEF commit
  <2>3. c.commit_lsu = (head /\ e0.instr.fu = "STORE" /\ ~is_amo(e0.instr) /\ ready)
    <3>1. c.commit_lsu = /\ head /\ e0.instr.fu = "STORE" /\ ~is_amo(e0.instr)
                         /\ ready
      BY <1>5 DEF commit
    <3> QED BY <3>1, <1>x
  <2>4. c.commit_csr = (head /\ e0.instr.fu = "CSR" /\ ~csr_ex)
    BY <1>5 DEF commit
  <2>5. c.fence = (head /\ e0.instr.op \in WaitsForStores /\ in.drained)
    BY <1>5 DEF commit
  <2>6. c.flush_commit = (head /\ is_amo(e0.instr) /\ in.amo_ack)
    BY <1>5 DEF commit
  <2>7. c.amo_valid_commit = (head /\ is_amo(e0.instr))
    BY <1>5 DEF commit
  <2>8. c.exception = (e0.valid /\ ~wfi /\ (csr_ex \/ e0.ex))
    BY <1>5 DEF commit, exception_valid
  <2> QED BY <2>1, <2>2, <2>3, <2>4, <2>5, <2>6, <2>7, <2>8
<1>7. /\ s.ack[0] = c.ack0 /\ s.ack[1] = c.ack1
      /\ s.ack = [p \in SB!Ports |-> s.ack[p]]
  BY <1>1, AckSignals
<1> HIDE DEF c
<1>8. c.ack0 = /\ head
               /\ is_amo(e0.instr) => in.amo_ack
               /\ e0.instr.op \in WaitsForStores => in.drained
               /\ e0.instr.fu = "CSR" /\ e0.instr.op \notin WaitsForStores => ~csr_ex
               /\ e0.instr.fu = "STORE" /\ ~is_amo(e0.instr) => ready
  BY <1>x, <1>1, <1>2, <1>3, <1>4, <1>6 DEF ack0, Inputs
<1>9. /\ c.ack0 \in BOOLEAN /\ c.ack1 \in BOOLEAN
      /\ c.ack1 => c.ack0 /\ e1.valid /\ ~e1.ex /\ e1.instr.fu \notin {"STORE", "CSR"}
  BY <1>6, <1>8 DEF ack1, Port1Units
<1>10. s.ack \in [SB!Ports -> BOOLEAN]
  BY <1>7, <1>9 DEF SB!Ports
<1>11. s.flush = \/ c.fence \/ CSR!flush_o(csr_op, in.flushes, c.exception) \/ c.flush_commit
                 \/ c.exception \/ s.eret
                 \/ CSR!set_debug_pc_o(c.exception, s.cause, c.ack0, in.ebreak)
  BY <1>1, SignalFacts DEF flush_ex_o, c
<1>12. /\ CSR!flush_o(csr_op, in.flushes, c.exception) => e0.instr.fu = "CSR" /\ head /\ e0.instr.op = "CSR_WRITE"
       /\ s.eret => e0.instr.fu = "CSR" /\ head /\ e0.instr.op \in {"MRET", "DRET"}
       /\ CSR!set_debug_pc_o(c.exception, s.cause, c.ack0, in.ebreak) => c.exception
  BY <1>1, <1>6, <1>2, SignalFacts DEF CSR!flush_o, CSR!eret_o, CSR!set_debug_pc_o, CSR!enters_debug,
     csr_op, csr_op_o, halt_o, SB!commit_instr_o, e0
<1>13. /\ s.flush \in BOOLEAN /\ s.unissued \in BOOLEAN /\ (s.flush => s.unissued)
       /\ s.issue_ack \in BOOLEAN
  <2>1. /\ s.unissued = (in.mispredict \/ s.flush)
        /\ s.issue_ack = issue_ack_o(in.decoded, CB!csr_ready_o(Uses("CSR"), s.commit.commit_csr),
                                     BP!lsu_ready_o)
    BY <1>1, SignalFacts, UnitSignals
  <2> QED BY <1>1, <1>11, <2>1 DEF issue_ack_o, Inputs
<1>14. in.amo_ack => head /\ is_amo(e0.instr)
  BY <1>1 DEF Inputs, amo_req, ST!amo_req_o, SB!commit_instr_o, e0, halt_o
<1>15. c.commit_lsu => commit_status_cnt < DEPTH_COMMIT /\ ~s.flush
  BY <1>2, <1>3, <1>4, <1>6, <1>11, <1>12, <1>x
<1>16. c.ack0 /\ ~s.flush => ~is_amo(e0.instr) /\ e0.instr.op \notin WaitsForStores
  BY <1>6, <1>8, <1>11
<1>17. s.flush /\ c.amo_valid_commit => in.amo_ack
  BY <1>2, <1>3, <1>4, <1>6, <1>11, <1>12
<1>18. in.amo_ack => s.flush
  BY <1>6, <1>11, <1>14
<1>19. /\ c.commit_csr => e0.valid /\ e0.instr.fu = "CSR" /\ (e0.instr.op \in WaitsForStores \/ c.ack0)
       /\ c.ack0 /\ e0.instr.fu = "CSR" => c.commit_csr
  BY <1>3, <1>4, <1>6, <1>8 DEF WaitsForStores
<1>20. ~(s.eret /\ c.exception)
  BY <1>2, <1>4, <1>6, <1>12
<1>21. c.commit_lsu <=> c.ack0 /\ e0.instr.fu = "STORE" /\ ~is_amo(e0.instr)
  BY <1>3, <1>6, <1>8
<1>22. c.commit_lsu \in BOOLEAN /\ c.commit_csr \in BOOLEAN
  BY <1>6
<1> USE DEF c
<1> QED BY <1>7, <1>8, <1>9, <1>10, <1>13, <1>15, <1>16, <1>17, <1>18, <1>19, <1>20, <1>21, <1>22

-----------------------------------------------------------------------------
(* The scoreboard.                                                         *)

Num(s) == SB!One(s.ack[0]) + SB!One(s.ack[1])
Issues(in, s) == in.decoded # {} /\ s.issue_ack /\ ~SB!issue_full /\ ~s.unissued
Retired(s) == {i \in Slots : \E p \in SB!Ports : s.ack[p] /\ commit_pointer[p] = i}
Written == flu_ids \cup store_ids \cup ld_pipe

\* What is decoded, and the slots that are written back.
LEMMA InputFacts ==
    ASSUME IInv, NEW in, NEW s, Edge(in, s)
    PROVE  /\ \A d \in in.decoded : /\ d = [instr |-> d.instr, ex |-> Traps(d.instr)]
                                    /\ d.instr \in Instrs /\ d.ex \in BOOLEAN
                                    /\ d.ex <=> d.instr.fu = "NONE"
           /\ \A d, f \in in.decoded : d = f
           /\ Written \subseteq Slots
           /\ \A w \in s.wb : w.id \in Written /\ w.ex = FALSE /\ w = [id |-> w.id, ex |-> FALSE]
           /\ \A i \in Written : [id |-> i, ex |-> FALSE] \in s.wb
<1>1. in.decoded \in Decodes /\ program \in Programs /\ s.wb = WriteBacks
  BY UnitSignals DEF Edge, Inputs, IInv, Registers
<1>2. \A d \in in.decoded : \E i \in program : d = [instr |-> i, ex |-> Traps(i)]
  BY <1>1 DEF Decodes
<1>3. \A d, f \in in.decoded : d = f
  BY <1>1 DEF Decodes
<1>4. \A i \in program : i \in Instrs
  BY <1>1 DEF Instrs
<1>5. \A d \in in.decoded : /\ d = [instr |-> d.instr, ex |-> Traps(d.instr)]
                            /\ d.instr \in Instrs /\ d.ex \in BOOLEAN
                            /\ d.ex <=> d.instr.fu = "NONE"
  <2>1. TAKE d \in in.decoded
  <2>2. PICK i \in program : d = [instr |-> i, ex |-> (i.fu = "NONE")]
    BY <1>2 DEF Traps
  <2>3. d.instr = i /\ d.ex = (i.fu = "NONE") /\ i \in Instrs
    BY <1>4, <2>2
  <2> QED BY <2>2, <2>3 DEF Traps
<1>6. flu_ids \subseteq Slots
  BY DEF flu_ids, flu_valid_o, IInv, Registers, Request
<1>7. store_ids \subseteq Slots
  BY DEF store_ids, ST!st_valid_o, IInv, Requests, InUnit, Open, Request
<1>8. ld_pipe \subseteq Slots
  BY DEF IInv, Registers
<1>9. Written \subseteq Slots
  BY <1>6, <1>7, <1>8 DEF Written
<1>10. s.wb = {[id |-> i, ex |-> FALSE] : i \in Written}
  BY <1>1 DEF Written, WriteBacks
<1>11. \A w \in s.wb : w.id \in Written /\ w.ex = FALSE /\ w = [id |-> w.id, ex |-> FALSE]
  BY <1>10
<1>12. \A i \in Written : [id |-> i, ex |-> FALSE] \in s.wb
  BY <1>10
<1> QED BY <1>3, <1>5, <1>9, <1>11, <1>12

\* The scoreboard's environment keeps its contract.
LEMMA ContractKept ==
    ASSUME Quiet, IInv, NEW in, NEW s, Edge(in, s)
    PROVE  /\ SBP!Contract(in.decoded, s.issue_ack, s.wb, s.ack)
           /\ SBP!Cycle(s.unissued, s.flush, in.decoded, s.issue_ack, s.wb, s.ack)
           /\ in.decoded \in SUBSET SBP!Decoded
           /\ s.wb \in SUBSET SBP!WriteBack
           /\ s.ack \in [SBP!Ports -> BOOLEAN]
<1>1. SBP!Cycle(s.unissued, s.flush, in.decoded, s.issue_ack, s.wb, s.ack)
  BY DEF Edge, Cycle, SB!Cycle, SBP!Cycle, SB!issue_fifo, SBP!issue_fifo, SB!One, SBP!One, SB!Add, SBP!Add,
     SB!issue_full, SBP!issue_full, SB!Ports, SBP!Ports, SB!Slots, SBP!Slots, SB!Clears, SBP!Clears
<1>2. in.decoded \in SUBSET SBP!Decoded
  <2>1. \A d \in in.decoded : \E i \in Instrs : d = [instr |-> i, ex |-> Traps(i)]
    BY InputFacts
  <2>2. \A i : Traps(i) \in BOOLEAN
    BY DEF Traps
  <2> QED BY <2>1, <2>2 DEF SBP!Decoded
<1>0. /\ \A w \in s.wb : w.id \in Written /\ w = [id |-> w.id, ex |-> FALSE]
      /\ Written \subseteq Slots
  BY InputFacts
<1>3. s.wb \in SUBSET SBP!WriteBack
  <2> SUFFICES ASSUME NEW w \in s.wb PROVE w \in SBP!WriteBack
    OBVIOUS
  <2>1. PICK i \in Slots : w = [id |-> i, ex |-> FALSE]
    BY <1>0, Zenon
  <2> QED BY <2>1 DEF SBP!WriteBack, SBP!Slots, Slots
<1>4. s.ack \in [SBP!Ports -> BOOLEAN]
  BY CommitFacts DEF SB!Ports, SBP!Ports
<1>5. SBP!Contract(in.decoded, s.issue_ack, s.wb, s.ack)
  <2>1. \A v, w \in s.wb : v.id = w.id => v = w
    <3> SUFFICES ASSUME NEW v \in s.wb, NEW w \in s.wb, v.id = w.id PROVE v = w
      OBVIOUS
    <3>1. v = [id |-> v.id, ex |-> FALSE] /\ w = [id |-> w.id, ex |-> FALSE]
      BY <1>0
    <3> QED BY <3>1, Zenon
  <2>2. s.issue_ack => in.decoded # {} /\ ~(issue_cnt = NR_ENTRIES - 1)
    <3>1. s.issue_ack = issue_ack_o(in.decoded, CB!csr_ready_o(Uses("CSR"), s.commit.commit_csr), BP!lsu_ready_o)
      BY UnitSignals DEF Edge
    <3> QED BY <3>1 DEF issue_ack_o, SB!issue_full
  <2>3. \A p \in 0 .. 1 : s.ack[p] => mem[commit_pointer[p]].valid
    <3>1. (s.ack[0] => e0.valid) /\ (s.ack[1] => e1.valid)
      BY CommitFacts
    <3> QED BY <3>1 DEF e0, e1
  <2>4. s.ack[1] => s.ack[0]
    BY CommitFacts
  <2> QED BY <2>1, <2>2, <2>3, <2>4
      DEF SBP!Contract, SBP!issue_instr_valid_o, SBP!issue_full, SBP!Ports, SBP!commit_instr_o
<1> QED BY <1>1, <1>2, <1>3, <1>4, <1>5

\* The scoreboard keeps its own invariant (ScoreboardProofs).
LEMMA ScoreboardNext ==
    ASSUME Quiet, IInv, NEW in, NEW s, Edge(in, s)
    PROVE  SBP!Inv'
<1>1. SBP!Inv
  BY DEF IInv
<1>2. s.flush \in BOOLEAN /\ s.unissued \in BOOLEAN /\ s.issue_ack \in BOOLEAN
  BY CommitFacts
<1> QED BY <1>1, <1>2, ContractKept, Instances, SBP!CycleInv

\* The arithmetic of ages when n instructions retire.
LEMMA AgeShift ==
    ASSUME NEW cp \in Slots, NEW i \in Slots, NEW n \in 0 .. 2, n <= SB!Dist(i, cp)
    PROVE  SB!Dist(i, SB!Add(cp, n)) = SB!Dist(i, cp) - n
  BY Instances DEF SB!Dist, SB!Add, Slots

\* The two oldest slots; the pointers and the counter after a cycle.
LEMMA AgeSmall ==
    ASSUME NEW cp \in Slots, NEW i \in Slots
    PROVE  /\ SB!Dist(i, cp) \in Nat
           /\ SB!Dist(i, cp) < 1 <=> i = cp
           /\ SB!Dist(i, cp) < 2 <=> i = cp \/ i = SB!Add(cp, 1)
  BY Instances DEF SB!Dist, SB!Add, Slots

\* Counting round the ring.
LEMMA AddFacts ==
    ASSUME NEW cp \in Slots, NEW n \in 0 .. 2, NEW o \in 0 .. 1
    PROVE  /\ SB!Add(cp, n) \in Slots /\ SB!Add(SB!Add(cp, n), 0) = SB!Add(cp, n)
           /\ n <= cp /\ (o = 1 => cp < NR_ENTRIES - 1) => SB!Add(cp, o - n) = cp - n + o
<1>1. SB!Add(cp, n) \in Slots
  BY Instances DEF SB!Add, Slots
<1>2. \A p \in Slots : SB!Add(p, 0) = p
  BY Instances DEF SB!Add, Slots
<1>3. n <= cp /\ (o = 1 => cp < NR_ENTRIES - 1) => SB!Add(cp, o - n) = cp - n + o
  BY Instances DEF SB!Add, Slots
<1> QED BY <1>1, <1>2, <1>3

\* What the scoreboard writes into slot i in a cycle without flush: it is
\* issued to, written back to, retired from.
Fresh(i, X) == {d \in X : i = issue_pointer}
Writes(i, wb) == {w \in wb : w.id = i /\ mem[i].issued}
Commits(i, ack) == \E p \in SB!Ports : ack[p] /\ commit_pointer[p] = i

\* One slot of issue_fifo in a cycle without flush.
LEMMA SlotStep ==
    ASSUME NEW X, NEW wb, NEW ack, NEW i \in Slots, SB!issue_fifo(FALSE, X, wb, ack)
    PROVE  /\ mem'[i].issued <=> (Fresh(i, X) # {} \/ mem[i].issued) /\ ~Commits(i, ack)
           /\ mem'[i].valid <=> /\ \/ \E d \in Fresh(i, X) : d.ex
                                   \/ Fresh(i, X) = {} /\ mem[i].valid
                                   \/ mem[i].issued /\ mem[i].instr.fu = "NONE"
                                   \/ Writes(i, wb) # {}
                                /\ ~Commits(i, ack)
           /\ mem'[i].ex <=> \/ \E d \in Fresh(i, X) : d.ex
                             \/ Fresh(i, X) = {} /\ mem[i].ex
                             \/ \E w \in Writes(i, wb) : w.ex
           /\ mem'[i].instr = IF Fresh(i, X) = {} THEN mem[i].instr
                              ELSE (CHOOSE d \in Fresh(i, X) : TRUE).instr
<1> DEFINE issued == (Fresh(i, X) # {} \/ mem[i].issued) /\ ~Commits(i, ack)
           valid == /\ \/ \E d \in Fresh(i, X) : d.ex
                       \/ Fresh(i, X) = {} /\ mem[i].valid
                       \/ mem[i].issued /\ mem[i].instr.fu = "NONE"
                       \/ Writes(i, wb) # {}
                    /\ ~Commits(i, ack)
           ex == \/ \E d \in Fresh(i, X) : d.ex
                 \/ Fresh(i, X) = {} /\ mem[i].ex
                 \/ \E w \in Writes(i, wb) : w.ex
           instr == IF Fresh(i, X) = {} THEN mem[i].instr
                    ELSE (CHOOSE d \in Fresh(i, X) : TRUE).instr
<1>1. mem'[i] =
      [issued |-> (Fresh(i, X) # {} \/ mem[i].issued) /\ ~SB!Clears(Commits(i, ack), FALSE),
       valid |-> /\ \/ \E d \in Fresh(i, X) : d.ex
                    \/ Fresh(i, X) = {} /\ mem[i].valid
                    \/ mem[i].issued /\ mem[i].instr.fu = "NONE"
                    \/ Writes(i, wb) # {}
                 /\ ~SB!Clears(Commits(i, ack), FALSE),
       ex |-> /\ \/ \E d \in Fresh(i, X) : d.ex
                 \/ Fresh(i, X) = {} /\ mem[i].ex
                 \/ \E w \in Writes(i, wb) : w.ex
              /\ ~FALSE,
       instr |-> instr]
  BY DEF SB!issue_fifo, SB!Slots, Slots, Fresh, Writes, Commits
<1>2. SB!Clears(Commits(i, ack), FALSE) <=> Commits(i, ack)
  BY DEF SB!Clears
<1>3. mem'[i].issued <=> issued
  <2>1. mem'[i].issued = ((Fresh(i, X) # {} \/ mem[i].issued) /\ ~SB!Clears(Commits(i, ack), FALSE))
    BY <1>1
  <2> QED BY <1>2, <2>1
<1>4. mem'[i].valid <=> valid
  <2>1. mem'[i].valid = /\ \/ \E d \in Fresh(i, X) : d.ex
                           \/ Fresh(i, X) = {} /\ mem[i].valid
                           \/ mem[i].issued /\ mem[i].instr.fu = "NONE"
                           \/ Writes(i, wb) # {}
                        /\ ~SB!Clears(Commits(i, ack), FALSE)
    BY <1>1
  <2> QED BY <1>2, <2>1
<1>5. mem'[i].ex <=> ex
  BY <1>1
<1>6. mem'[i].instr = instr
  BY <1>1
<1> QED BY <1>3, <1>4, <1>5, <1>6

\* What a cycle without flush does to the instructions in flight.
LEMMA RingStep ==
    ASSUME Quiet, IInv, NEW in, NEW s, Edge(in, s), ~s.flush
    PROVE  /\ Num(s) \in 0 .. 2 /\ Num(s) <= issue_cnt
           /\ Retired(s) \subseteq InFlight
           /\ \A i \in InFlight : i \in Retired(s) <=> Age(i) < Num(s)
           /\ \A i \in Retired(s) : /\ mem[i].valid /\ ~mem[i].ex
                                    /\ i = commit_pointer[0] \/ mem[i].instr.fu \notin {"STORE", "CSR"}
           /\ issue_pointer \in Slots \ InFlight
           /\ InFlight' = (InFlight \ Retired(s)) \cup {i \in {issue_pointer} : Issues(in, s)}
           /\ \A i \in InFlight \ Retired(s) :
                /\ mem'[i].instr = mem[i].instr /\ (mem'[i].ex <=> mem[i].ex)
                /\ mem'[i].valid <=> mem[i].valid \/ i \in Written
                /\ Age(i)' = Age(i) - Num(s)
           /\ Issues(in, s) =>
                /\ \E d \in in.decoded : /\ mem'[issue_pointer].instr = d.instr
                                         /\ mem'[issue_pointer].ex <=> d.ex
                                         /\ mem'[issue_pointer].valid <=> d.ex
                /\ \A i \in Slots : i = issue_pointer => Age(i)' = issue_cnt - Num(s)
           /\ issue_cnt' = issue_cnt - Num(s) + SB!One(Issues(in, s))
<1> USE Instances
<1> DEFINE cp == commit_pointer[0]
           ip == issue_pointer
           n == Num(s)
           new == Issues(in, s)
<1>0. /\ SBP!Inv /\ SBP!Inv'
  BY ScoreboardNext DEF IInv
<1>1. /\ mem \in [Slots -> Entry] /\ cp \in Slots /\ issue_cnt \in Slots /\ ip \in Slots
      /\ issue_cnt = SB!Dist(ip, cp)
      /\ \A i \in Slots : Age(i) \in Slots /\ (i \in InFlight <=> Age(i) < issue_cnt)
      /\ \A i \in Slots : mem[i].valid => i \in InFlight
      /\ commit_pointer[1] \in Slots
  BY <1>0, RingFacts
<1>2. /\ s.ack[0] \in BOOLEAN /\ s.ack[1] \in BOOLEAN /\ (s.ack[1] => s.ack[0])
      /\ s.ack \in [SB!Ports -> BOOLEAN]
      /\ s.ack[0] => e0.valid /\ ~e0.ex
      /\ s.ack[1] => e1.valid /\ ~e1.ex /\ e1.instr.fu \notin {"STORE", "CSR"}
  BY CommitFacts DEF SB!Ports
<1>3. /\ n \in 0 .. 2 /\ n <= issue_cnt
      /\ s.ack[1] => commit_pointer[1] = SB!Add(cp, 1)
  <2>1. /\ SBP!One(s.ack[0]) + SBP!One(s.ack[1]) \in 0 .. 2
        /\ SBP!One(s.ack[0]) + SBP!One(s.ack[1]) <= issue_cnt
        /\ s.ack[1] => commit_pointer[1] = SBP!Add(cp, 1)
    <3>1. /\ \A p \in SBP!Ports : s.ack[p] => SBP!commit_instr_o(p).valid
          /\ s.ack \in [SBP!Ports -> BOOLEAN]
      BY ContractKept DEF SBP!Contract
    <3> QED BY <1>0, <1>2, <3>1, SBP!AcksInFlight
  <2> QED BY <2>1 DEF Num, SB!One, SBP!One, SB!Add, SBP!Add
<1>4. n = IF s.ack[0] THEN (IF s.ack[1] THEN 2 ELSE 1) ELSE 0
  BY <1>2 DEF Num, SB!One
<1>5. \A i \in Slots : i \in Retired(s) <=> (s.ack[0] /\ i = cp) \/ (s.ack[1] /\ i = SB!Add(cp, 1))
  BY <1>1, <1>2, <1>3 DEF Retired, SB!Ports
<1>6. \A i \in Slots : i \in Retired(s) <=> Age(i) < n
  BY <1>1, <1>2, <1>4, <1>5, AgeSmall DEF Age
<1>7. \A i \in Retired(s) : /\ mem[i].valid /\ ~mem[i].ex
                            /\ i = cp \/ mem[i].instr.fu \notin {"STORE", "CSR"}
  <2>1. \A i \in Retired(s) : (s.ack[0] /\ i = cp) \/ (s.ack[1] /\ i = commit_pointer[1])
    BY DEF Retired, SB!Ports
  <2> QED BY <1>2, <2>1 DEF e0, e1
<1>8. Retired(s) \subseteq InFlight
  BY <1>1, <1>7 DEF Retired
<1>9. ip \in Slots \ InFlight
  <2>1. Age(ip) = issue_cnt
    BY <1>1 DEF Age
  <2> QED BY <1>1, <2>1 DEF Slots
<1>10. /\ SB!issue_fifo(FALSE, {d \in in.decoded : new}, s.wb, s.ack)
       /\ issue_cnt' = SB!Add(issue_cnt, SB!One(new) - n)
       /\ commit_pointer' = [p \in SB!Ports |-> SB!Add(SB!Add(cp, n), p)]
  <2>1. SB!Cycle(s.unissued, FALSE, in.decoded, s.issue_ack, s.wb, s.ack)
    <3>1. s.flush = FALSE
      BY CommitFacts
    <3> QED BY <3>1 DEF Edge, Cycle
  <2> QED BY <2>1 DEF SB!Cycle, Issues, Num
<1> HIDE DEF n, new
<1>11. /\ new \in BOOLEAN /\ SB!One(new) \in 0 .. 1 /\ (SB!One(new) = 1 <=> new)
       /\ new => issue_cnt < NR_ENTRIES - 1
       /\ new => in.decoded # {}
  BY <1>1 DEF new, Issues, SB!One, SB!issue_full, Slots
<1>12. issue_cnt' = issue_cnt - n + SB!One(new)
  BY <1>1, <1>3, <1>10, <1>11, AddFacts
<1>13. commit_pointer'[0] = SB!Add(cp, n)
  <2>1. SB!Add(cp, n) \in Slots /\ SB!Add(SB!Add(cp, n), 0) = SB!Add(cp, n)
    BY <1>1, <1>3, AddFacts
  <2> QED BY <1>10, <2>1 DEF SB!Ports
<1>14. \A i \in Slots : n <= Age(i) => Age(i)' = Age(i) - n
  BY <1>1, <1>3, <1>13, AgeShift DEF Age
<1>15. ASSUME NEW i \in InFlight \ Retired(s)
       PROVE  /\ mem'[i].issued /\ mem'[i].instr = mem[i].instr /\ (mem'[i].ex <=> mem[i].ex)
              /\ mem'[i].valid <=> mem[i].valid \/ i \in Written
  <2>1. /\ i \in Slots /\ i # ip /\ mem[i].issued
        /\ \A p \in SB!Ports : ~(s.ack[p] /\ commit_pointer[p] = i)
    BY <1>9 DEF InFlight, Retired
  <2>2. mem[i].valid \in BOOLEAN /\ mem[i].ex \in BOOLEAN /\ (mem[i].instr.fu = "NONE" => mem[i].valid)
    BY <1>1, <2>1 DEF Entry, IInv, Decoded
  <2>3. /\ \A w \in s.wb : w.id \in Written /\ w.ex = FALSE
        /\ \A j \in Written : [id |-> j, ex |-> FALSE] \in s.wb
    BY InputFacts
  <2>4. {d \in {d \in in.decoded : new} : i = ip} = {}
    BY <2>1
  <2> DEFINE X == {d \in in.decoded : new}
  <2>5. Writes(i, s.wb) # {} <=> i \in Written
    <3>1. Writes(i, s.wb) # {} => i \in Written
      BY <2>3 DEF Writes
    <3>2. i \in Written => [id |-> i, ex |-> FALSE] \in Writes(i, s.wb)
      BY <2>1, <2>3 DEF Writes
    <3> QED BY <3>1, <3>2
  <2>6. ~ \E w \in Writes(i, s.wb) : w.ex
    BY <2>3 DEF Writes
  <2>7. Fresh(i, X) = {} /\ ~Commits(i, s.ack)
    BY <2>1 DEF Fresh, Commits
  <2> HIDE DEF X
  <2>8. /\ mem'[i].issued <=> (Fresh(i, X) # {} \/ mem[i].issued) /\ ~Commits(i, s.ack)
        /\ mem'[i].valid <=> /\ \/ \E d \in Fresh(i, X) : d.ex
                                \/ Fresh(i, X) = {} /\ mem[i].valid
                                \/ mem[i].issued /\ mem[i].instr.fu = "NONE"
                                \/ Writes(i, s.wb) # {}
                             /\ ~Commits(i, s.ack)
        /\ mem'[i].ex <=> \/ \E d \in Fresh(i, X) : d.ex
                          \/ Fresh(i, X) = {} /\ mem[i].ex
                          \/ \E w \in Writes(i, s.wb) : w.ex
        /\ mem'[i].instr = IF Fresh(i, X) = {} THEN mem[i].instr
                           ELSE (CHOOSE d \in Fresh(i, X) : TRUE).instr
    <3>1. SB!issue_fifo(FALSE, X, s.wb, s.ack)
      BY <1>10 DEF X
    <3> QED BY <2>1, <3>1, SlotStep
  <2>9. mem'[i].issued /\ mem'[i].instr = mem[i].instr
    BY <2>1, <2>7, <2>8
  <2>10. mem'[i].ex <=> mem[i].ex
    BY <2>6, <2>7, <2>8
  <2>11. mem'[i].valid <=> mem[i].valid \/ i \in Written
    BY <2>1, <2>2, <2>5, <2>7, <2>8
  <2> QED BY <2>9, <2>10, <2>11
<1>16. ASSUME new
       PROVE  /\ mem'[ip].issued
              /\ \E d \in in.decoded : /\ mem'[ip].instr = d.instr
                                       /\ mem'[ip].ex <=> d.ex
                                       /\ mem'[ip].valid <=> d.ex
              /\ \A i \in Slots : i = ip => Age(i)' = issue_cnt - n
  <2> DEFINE X == {d \in in.decoded : new}
  <2>1. ip \in Slots /\ ~mem[ip].issued /\ Writes(ip, s.wb) = {}
    BY <1>9 DEF InFlight, Writes
  <2>2. Fresh(ip, X) = in.decoded /\ in.decoded # {}
    BY <1>11, <1>16 DEF Fresh
  <2>3. \A d, f \in in.decoded : d = f
    BY InputFacts
  <2>4. PICK d : d \in in.decoded /\ Fresh(ip, X) = {d}
    BY <2>2, <2>3
  <2>5. ~Commits(ip, s.ack)
    BY <1>8, <1>9 DEF Retired, Commits
  <2> HIDE DEF X
  <2>6. /\ mem'[ip].issued <=> (Fresh(ip, X) # {} \/ mem[ip].issued) /\ ~Commits(ip, s.ack)
        /\ mem'[ip].valid <=> /\ \/ \E f \in Fresh(ip, X) : f.ex
                                 \/ Fresh(ip, X) = {} /\ mem[ip].valid
                                 \/ mem[ip].issued /\ mem[ip].instr.fu = "NONE"
                                 \/ Writes(ip, s.wb) # {}
                              /\ ~Commits(ip, s.ack)
        /\ mem'[ip].ex <=> \/ \E f \in Fresh(ip, X) : f.ex
                           \/ Fresh(ip, X) = {} /\ mem[ip].ex
                           \/ \E w \in Writes(ip, s.wb) : w.ex
        /\ mem'[ip].instr = IF Fresh(ip, X) = {} THEN mem[ip].instr
                            ELSE (CHOOSE f \in Fresh(ip, X) : TRUE).instr
    <3>1. SB!issue_fifo(FALSE, X, s.wb, s.ack)
      BY <1>10 DEF X
    <3> QED BY <2>1, <3>1, SlotStep
  <2>7. mem'[ip].issued
    BY <2>4, <2>5, <2>6
  <2>8. mem'[ip].valid <=> d.ex
    BY <2>1, <2>4, <2>5, <2>6
  <2>9. mem'[ip].ex <=> d.ex
    BY <2>1, <2>4, <2>6
  <2>10. mem'[ip].instr = d.instr
    BY <2>4, <2>6
  <2>11. \A i \in Slots : i = ip => Age(i)' = issue_cnt - n
    <3>1. Age(ip) = issue_cnt /\ n <= issue_cnt
      BY <1>1, <1>3 DEF Age
    <3> QED BY <1>14, <3>1
  <2> QED BY <2>4, <2>7, <2>8, <2>9, <2>10, <2>11
<1>17. ASSUME NEW i \in Slots PROVE mem'[i].issued <=> i \in (InFlight \ Retired(s)) \cup {j \in {ip} : new}
  <2> DEFINE X == {d \in in.decoded : new}
  <2>1. mem'[i].issued <=> (Fresh(i, X) # {} \/ mem[i].issued) /\ ~Commits(i, s.ack)
    <3>1. SB!issue_fifo(FALSE, X, s.wb, s.ack)
      BY <1>10
    <3> HIDE DEF X
    <3> QED BY <3>1, SlotStep
  <2>2. Fresh(i, X) # {} <=> i = ip /\ new
    BY <1>11 DEF Fresh
  <2>3. Commits(i, s.ack) <=> i \in Retired(s)
    BY DEF Retired, Commits
  <2>4. ip \notin Retired(s)
    BY <1>8, <1>9
  <2> HIDE DEF X
  <2> QED BY <2>1, <2>2, <2>3, <2>4 DEF InFlight
<1>18. InFlight' = (InFlight \ Retired(s)) \cup {i \in {ip} : new}
  <2>1. InFlight' = {i \in Slots : mem'[i].issued}
    BY DEF InFlight, Slots
  <2>2. InFlight \subseteq Slots
    BY DEF InFlight
  <2> QED BY <1>1, <1>17, <2>1, <2>2
<1>19. \A i \in InFlight : i \in Retired(s) <=> Age(i) < n
  BY <1>6 DEF InFlight
<1>20. \A i \in InFlight \ Retired(s) :
                /\ mem'[i].instr = mem[i].instr /\ (mem'[i].ex <=> mem[i].ex)
                /\ mem'[i].valid <=> mem[i].valid \/ i \in Written
                /\ Age(i)' = Age(i) - n
  <2>1. TAKE i \in InFlight \ Retired(s)
  <2>2. i \in Slots /\ Age(i) \in Slots /\ ~(Age(i) < n)
    BY <1>1, <1>19 DEF InFlight
  <2>3. Age(i)' = Age(i) - n
    BY <1>3, <1>14, <2>2 DEF Slots
  <2> QED BY <1>15, <2>3
<1> USE DEF n, new
<1> QED BY <1>3, <1>7, <1>8, <1>9, <1>12, <1>16, <1>18, <1>19, <1>20, Zenon

-----------------------------------------------------------------------------
(* The execute register and the LSU bypass.                                *)

TakesSt(s) == ST!pop_st_o(s.st, TRUE, s.st_ready, FALSE)
TakesLd(in, s) == LD!pop_ld_o(s.ld, s.matches, in.ld_gnt, s.stall)
Pops(in, s) == TakesSt(s) \/ TakesLd(in, s)

\* The units look at the first request; who takes it.
LEMMA FrontFacts ==
    ASSUME IInv, NEW in, NEW s, Edge(in, s)
    PROVE  /\ s.st = IF r1 # NoReq /\ r1.fu = "STORE" THEN r1 ELSE NoReq
           /\ s.ld = IF r1 # NoReq /\ r1.fu = "LOAD" THEN r1 ELSE NoReq
           /\ TakesSt(s) <=> /\ r1 # NoReq /\ r1.fu = "STORE" /\ s.st_ready
                             /\ st_state = "IDLE" \/ (st_state = "VALID_STORE" /\ ~r1.amo)
           /\ TakesLd(in, s) <=> /\ r1 # NoReq /\ r1.fu = "LOAD" /\ in.ld_gnt /\ ~s.stall
                                 /\ LD!ld_data_req(s.ld, s.matches)
<1>1. s.st = ForUnit("STORE") /\ s.ld = ForUnit("LOAD")
  BY UnitSignals DEF Edge
<1>2. /\ s.st = IF r1 # NoReq /\ r1.fu = "STORE" THEN r1 ELSE NoReq
      /\ s.ld = IF r1 # NoReq /\ r1.fu = "LOAD" THEN r1 ELSE NoReq
  BY <1>1 DEF ForUnit, r1
<1>3. TakesSt(s) <=> /\ r1 # NoReq /\ r1.fu = "STORE" /\ s.st_ready
                     /\ st_state = "IDLE" \/ (st_state = "VALID_STORE" /\ ~r1.amo)
  BY <1>2 DEF TakesSt, ST!pop_st_o, ST!takes
<1>4. ld_state = "WAIT_GNT" => r1 # NoReq /\ r1.fu = "LOAD"
  BY DEF IInv, LoadUnit, Holding
<1>5. TakesLd(in, s) <=> /\ r1 # NoReq /\ r1.fu = "LOAD" /\ in.ld_gnt /\ ~s.stall
                         /\ LD!ld_data_req(s.ld, s.matches)
  BY <1>2, <1>4 DEF TakesLd, LD!pop_ld_o, LD!ld_data_req, LD!Looks
<1> QED BY <1>2, <1>3, <1>5

\* The request an issued instruction leaves in the execute register.
ReqOf(id, i) == [id |-> id, fu |-> i.fu, amo |-> is_amo(i), io |-> i.op = "LW_IO"]

\* What the issue stage leaves in the execute register, and that it issues
\* only to a unit that is ready.
LEMMA FuStep ==
    ASSUME Quiet, IInv, NEW in, NEW s, Edge(in, s)
    PROVE  /\ s.flush => fu_data' = NoReq
           /\ fu_data' # NoReq => Issues(in, s)
           /\ Issues(in, s) => \E d \in in.decoded :
                IF Traps(d.instr) THEN fu_data' = NoReq
                ELSE /\ fu_data' = ReqOf(issue_pointer, d.instr)
                     /\ fu_data' \in Request
                     /\ fu_data'.fu \in {"LOAD", "STORE"} => bp_status_cnt = 0
                     /\ fu_data'.fu = "CSR" => CB!csr_ready_o(Uses("CSR"), s.commit.commit_csr)
<1>1. /\ s.to_unit = {d \in in.decoded : s.issue_ack /\ ~s.unissued /\ ~Traps(d.instr)}
      /\ s.issue_ack = issue_ack_o(in.decoded, CB!csr_ready_o(Uses("CSR"), s.commit.commit_csr),
                                   BP!lsu_ready_o)
  <2>1. s = Signals(in)
    BY DEF Edge
  <2>2. s.to_unit = {d \in in.decoded : s.issue_ack /\ ~s.unissued /\ ~Traps(d.instr)}
    BY <2>1, UnitSignals
  <2>3. s.issue_ack = issue_ack_o(in.decoded, CB!csr_ready_o(Uses("CSR"), s.commit.commit_csr),
                                  BP!lsu_ready_o)
    BY <2>1, UnitSignals
  <2> QED BY <2>2, <2>3
<1>2. fu_data' = IF s.to_unit = {} THEN NoReq
                 ELSE ReqOf(issue_pointer, (CHOOSE d \in s.to_unit : TRUE).instr)
  BY DEF Edge, Cycle, ReqOf
<1>3. /\ s.flush => s.unissued
      /\ s.issue_ack => ~SB!issue_full
  BY <1>1, CommitFacts DEF issue_ack_o
<1>4. s.flush => fu_data' = NoReq
  BY <1>1, <1>2, <1>3
<1>5. fu_data' # NoReq => Issues(in, s)
  BY <1>1, <1>2, <1>3 DEF Issues
<1>6. ASSUME Issues(in, s)
      PROVE  \E d \in in.decoded :
                IF Traps(d.instr) THEN fu_data' = NoReq
                ELSE /\ fu_data' = ReqOf(issue_pointer, d.instr)
                     /\ fu_data' \in Request
                     /\ fu_data'.fu \in {"LOAD", "STORE"} => bp_status_cnt = 0
                     /\ fu_data'.fu = "CSR" => CB!csr_ready_o(Uses("CSR"), s.commit.commit_csr)
  <2>1. /\ in.decoded # {} /\ s.issue_ack /\ ~s.unissued
    BY <1>6 DEF Issues
  <2>2. /\ \A d \in in.decoded : /\ d.instr \in Instrs
                                 /\ d.ex <=> d.instr.fu = "NONE"
        /\ \A d, f \in in.decoded : d = f
    BY InputFacts
  <2>3. PICK d : d \in in.decoded
    BY <2>1
  <2>4. CASE Traps(d.instr)
    BY <1>1, <1>2, <2>2, <2>3, <2>4
  <2>5. CASE ~Traps(d.instr)
    <3>1. s.to_unit = {d}
      BY <1>1, <2>1, <2>2, <2>3, <2>5
    <3>2. fu_data' = ReqOf(issue_pointer, d.instr)
      BY <1>2, <3>1
    <3>3. d.instr.fu \in {"ALU", "CTRL_FLOW", "CSR", "LOAD", "STORE"}
      BY <2>2, <2>3, <2>5, DecoderAssumption DEF Traps
    <3>4. issue_pointer \in Slots
      BY RingFacts DEF IInv
    <3>5. fu_data' \in Request /\ fu_data'.fu = d.instr.fu
      BY <3>2, <3>3, <3>4 DEF ReqOf, Request, is_amo
    <3>6. ~unit_busy(d.instr, CB!csr_ready_o(Uses("CSR"), s.commit.commit_csr), BP!lsu_ready_o)
      BY <1>1, <2>1, <2>2, <2>3, <2>5 DEF issue_ack_o, Traps
    <3>7. /\ fu_data'.fu \in {"LOAD", "STORE"} => bp_status_cnt = 0
          /\ fu_data'.fu = "CSR" => CB!csr_ready_o(Uses("CSR"), s.commit.commit_csr)
      BY <3>3, <3>5, <3>6 DEF unit_busy, BP!lsu_ready_o
    <3> QED BY <2>3, <2>5, <3>2, <3>5, <3>7
  <2> QED BY <2>4, <2>5
<1> QED BY <1>4, <1>5, <1>6

\* The bypass after a cycle without flush.
LEMMA BypassStep ==
    ASSUME Quiet, IInv, NEW in, NEW s, Edge(in, s), ~s.flush
    PROVE  /\ Ring'
           /\ bp_mem' \in [0 .. 1 -> Request \cup {NoReq}]
           /\ bp_read_pointer' \in 0 .. 1 /\ bp_write_pointer' \in 0 .. 1 /\ bp_status_cnt' \in 0 .. 2
           /\ lsu_req' # NoReq => r2 = NoReq
           /\ r1' = IF Pops(in, s) THEN (IF r2 # NoReq THEN r2 ELSE lsu_req')
                    ELSE IF r1 # NoReq THEN r1 ELSE lsu_req'
           /\ r2' = IF Pops(in, s) \/ r1 = NoReq THEN NoReq
                    ELSE IF r2 # NoReq THEN r2 ELSE lsu_req'
<1> DEFINE pop == Pops(in, s)
           rp == bp_read_pointer
           wp == bp_write_pointer
           cnt == bp_status_cnt
           X == lsu_req
           Y == lsu_req'
<1>1. /\ cnt \in 0 .. 2 /\ rp \in 0 .. 1 /\ wp \in 0 .. 1
      /\ bp_mem \in [0 .. 1 -> Request \cup {NoReq}]
      /\ wp = (rp + cnt) % 2
      /\ cnt = 2 => X = NoReq
      /\ fu_data \in Request \cup {NoReq}
  BY DEF IInv, Ring, Registers
<1>2. /\ cnt >= 1 => bp_mem[rp] # NoReq
      /\ cnt = 2 => bp_mem[(rp + 1) % 2] # NoReq
  <2>1. \A k \in 1 .. cnt : bp_mem[(rp + k - 1) % 2] # NoReq
    BY DEF IInv, Ring, Bypassed
  <2>2. cnt >= 1 => bp_mem[(rp + 1 - 1) % 2] # NoReq
    BY <1>1, <2>1
  <2>3. cnt = 2 => bp_mem[(rp + 2 - 1) % 2] # NoReq
    BY <1>1, <2>1
  <2>4. (rp + 1 - 1) % 2 = rp /\ (rp + 2 - 1) % 2 = (rp + 1) % 2
    BY <1>1
  <2> QED BY <2>2, <2>3, <2>4
<1>3. pop => r1 # NoReq
  BY FrontFacts DEF Pops
<1>4. X \in Request \cup {NoReq}
  BY <1>1 DEF lsu_req
<1>5. Y # NoReq => cnt = 0
  <2>1. Y # NoReq => fu_data' # NoReq /\ fu_data'.fu \in {"LOAD", "STORE"}
    BY DEF lsu_req, Uses
  <2> QED BY <2>1, FuStep, Zenon
<1>6. BP!BypassCycle(FALSE, X, pop)
  <2>1. s.flush = FALSE
    BY CommitFacts
  <2> QED BY <2>1 DEF Edge, Cycle, Pops, TakesSt, TakesLd
<1>7. pop \in BOOLEAN
  BY DEF Pops, TakesSt, TakesLd, ST!pop_st_o, LD!pop_ld_o
<1>8. r1 = IF cnt = 0 THEN X ELSE bp_mem[rp]
  BY DEF r1, BP!lsu_ctrl_o
<1>9. /\ r1' = IF cnt' = 0 THEN Y ELSE bp_mem'[rp']
      /\ r2' = IF cnt' = 2 THEN bp_mem'[(rp' + 1) % 2] ELSE IF cnt' = 1 THEN Y ELSE NoReq
  BY DEF r1, r2, BP!lsu_ctrl_o
<1> HIDE DEF pop, X, Y
<1>10. /\ bp_mem' = [i \in 0 .. 1 |-> IF pop /\ i = rp THEN NoReq
                                      ELSE IF X # NoReq /\ i = wp THEN X ELSE bp_mem[i]]
       /\ rp' = (rp + (IF pop THEN 1 ELSE 0)) % 2
       /\ wp' = (wp + (IF X # NoReq THEN 1 ELSE 0)) % 2
       /\ cnt' = (cnt + (IF X # NoReq THEN 1 ELSE 0) + (IF pop THEN 3 ELSE 0)) % 4
  BY <1>6 DEF BP!BypassCycle
<1>11. /\ cnt' = cnt + (IF X # NoReq THEN 1 ELSE 0) - (IF pop THEN 1 ELSE 0)
       /\ cnt' \in 0 .. 2
  BY <1>1, <1>3, <1>8, <1>10
<1>12. /\ rp' \in 0 .. 1 /\ wp' \in 0 .. 1 /\ wp' = (rp' + cnt') % 2
  BY <1>1, <1>10, <1>11
<1>13. bp_mem' \in [0 .. 1 -> Request \cup {NoReq}]
  BY <1>1, <1>4, <1>10
<1>14. r2 = IF cnt = 2 THEN bp_mem[(rp + 1) % 2] ELSE IF cnt = 1 THEN X ELSE NoReq
  BY DEF r2, X
<1>15. /\ cnt' >= 1 => bp_mem'[rp'] = IF pop THEN r2 ELSE r1
       /\ cnt' >= 1 => bp_mem'[rp'] # NoReq
  BY <1>1, <1>2, <1>3, <1>8, <1>10, <1>11, <1>14
<1>16. cnt' = 2 => ~pop /\ bp_mem'[(rp' + 1) % 2] = r2 /\ r2 # NoReq /\ Y = NoReq
  BY <1>1, <1>2, <1>5, <1>8, <1>10, <1>11, <1>14
<1>17. Ring'
  <2>1. \A k \in 1 .. cnt' : bp_mem'[(rp' + k - 1) % 2] # NoReq
    <3>1. \A k \in 1 .. cnt' : k = 1 \/ (k = 2 /\ cnt' = 2)
      BY <1>11
    <3>2. \A q \in 0 .. 1 : (q + 1 - 1) % 2 = q /\ (q + 2 - 1) % 2 = (q + 1) % 2
      OBVIOUS
    <3> SUFFICES ASSUME NEW k \in 1 .. cnt' PROVE bp_mem'[(rp' + k - 1) % 2] # NoReq
      OBVIOUS
    <3>3. CASE k = 1
      BY <1>11, <1>12, <1>15, <3>2, <3>3
    <3>4. CASE k = 2 /\ cnt' = 2
      BY <1>12, <1>16, <3>2, <3>4
    <3> QED BY <3>1, <3>3, <3>4
  <2> QED BY <1>12, <1>16, <2>1 DEF Ring, Bypassed, Y
<1>18. r1' = IF pop THEN (IF r2 # NoReq THEN r2 ELSE Y) ELSE IF r1 # NoReq THEN r1 ELSE Y
  BY <1>1, <1>2, <1>3, <1>8, <1>9, <1>11, <1>14, <1>15
<1>19. r2' = IF pop \/ r1 = NoReq THEN NoReq ELSE IF r2 # NoReq THEN r2 ELSE Y
  BY <1>1, <1>2, <1>3, <1>5, <1>8, <1>9, <1>11, <1>14, <1>16
<1>20. Y # NoReq => r2 = NoReq
  BY <1>5, <1>14
<1> USE DEF pop, Y
<1> QED BY <1>11, <1>12, <1>13, <1>17, <1>18, <1>19, <1>20

-----------------------------------------------------------------------------
(* Requests: what is written back, what stays, what is new.                *)

\* The three sources of write-backs never name one slot, and none of them
\* names an instruction that still waits.
LEMMA WrittenFacts ==
    ASSUME IInv
    PROVE  /\ \A i \in flu_ids : /\ i \in InFlight /\ ~mem[i].valid
                                 /\ mem[i].instr.fu \notin {"NONE", "LOAD", "STORE"}
                                 /\ fu_data # NoReq /\ fu_data.id = i /\ fu_data.fu = mem[i].instr.fu
           /\ \A i \in store_ids : /\ i \in InFlight /\ ~mem[i].valid /\ mem[i].instr.fu = "STORE"
                                   /\ st_state = "VALID_STORE" /\ st_req.id = i
                                   /\ st_req \in Request /\ st_req \in InUnit
                                   /\ st_req.amo <=> is_amo(mem[i].instr)
           /\ \A i \in ld_pipe : InFlight # {} => /\ i \in InFlight /\ ~mem[i].valid
                                                  /\ mem[i].instr.fu = "LOAD"
           /\ flu_ids \cap store_ids = {} /\ (flu_ids \cup store_ids) \cap ld_pipe = {}
           /\ \A r \in Firsts \cup Seconds : r.id \notin Written
           /\ \A i \in Outstanding : i \notin Written
<1>0. /\ Requests /\ LoadUnit
      /\ \A i \in Slots : Age(i) \in Slots /\ (i \in InFlight <=> Age(i) < issue_cnt)
      /\ issue_cnt \in Slots
  BY RingFacts DEF IInv
<1>1. \A i \in flu_ids : /\ i \in InFlight /\ ~mem[i].valid
                         /\ mem[i].instr.fu \notin {"NONE", "LOAD", "STORE"}
                         /\ fu_data # NoReq /\ fu_data.id = i /\ fu_data.fu = mem[i].instr.fu
  <2>1. \A i \in flu_ids : /\ fu_data # NoReq /\ fu_data.id = i
                           /\ fu_data.fu \notin {"LOAD", "STORE"}
    BY DEF flu_ids, flu_valid_o
  <2>2. fu_data # NoReq => Open(fu_data)
    BY <1>0 DEF Requests, Executing
  <2> QED BY <2>1, <2>2 DEF Open, Request
<1>2. \A i \in store_ids : /\ i \in InFlight /\ ~mem[i].valid /\ mem[i].instr.fu = "STORE"
                           /\ st_state = "VALID_STORE" /\ st_req.id = i
                           /\ st_req \in Request /\ st_req \in InUnit
                           /\ st_req.amo <=> is_amo(mem[i].instr)
  <2>1. \A i \in store_ids : st_state = "VALID_STORE" /\ st_req.id = i
    BY DEF store_ids, ST!st_valid_o
  <2>2. st_state = "VALID_STORE" => st_req \in InUnit /\ Open(st_req) /\ st_req.fu = "STORE"
    BY <1>0 DEF Requests, InUnit
  <2> QED BY <2>1, <2>2 DEF Open
<1>3. \A i \in ld_pipe : InFlight # {} => Reading(i)
  <2>1. InFlight # {} => issue_cnt # 0
    BY <1>0 DEF InFlight, Slots
  <2> QED BY <1>0, <2>1 DEF LoadUnit
<1>4. \A i \in ld_pipe : InFlight # {} => /\ i \in InFlight /\ ~mem[i].valid
                                          /\ mem[i].instr.fu = "LOAD"
  BY <1>3 DEF Reading, Loads
<1>5. flu_ids \cap store_ids = {}
  BY <1>1, <1>2
<1>6. (flu_ids \cup store_ids) \cap ld_pipe = {}
  BY <1>1, <1>2, <1>4
<1>7. \A r \in Firsts \cup Seconds : /\ Open(r) /\ r.fu \in {"LOAD", "STORE"}
                                     /\ \E q \in Firsts : Age(q.id) <= Age(r.id)
                                     /\ Age(r.id) \in Slots
  <2>1. \A r \in Firsts \cup Seconds : Open(r) /\ r.fu \in {"LOAD", "STORE"}
    BY <1>0 DEF Requests
  <2>2. \A r \in Firsts \cup Seconds : r.id \in Slots /\ Age(r.id) \in Slots
    BY <1>0, <2>1 DEF Open, Request
  <2>3. \A r \in Seconds : \E q \in Firsts : Age(q.id) < Age(r.id)
    BY <1>0 DEF Requests
  <2> QED BY <2>1, <2>2, <2>3 DEF Slots
<1>8. \A i \in Slots : Older(i) => \A r \in Firsts \cup Seconds : i # r.id
  BY <1>0, <1>7 DEF Older, Slots
<1>9. ASSUME NEW r \in Firsts \cup Seconds PROVE r.id \notin Written
  <2>1. r.id \in InFlight /\ mem[r.id].instr.fu \in {"LOAD", "STORE"}
    BY <1>7 DEF Open
  <2>2. r.id \notin flu_ids
    BY <1>1, <2>1
  <2>3. r.id \notin store_ids
    <3>1. \A i \in store_ids : Older(i) /\ i \in Slots
      BY <1>0, <1>2 DEF Requests, Request
    <3> QED BY <1>8, <3>1
  <2>4. r.id \notin ld_pipe
    <3>1. \A i \in ld_pipe : Older(i) /\ i \in Slots
      BY <1>3, <2>1 DEF Reading, Loads, InFlight
    <3> QED BY <1>8, <3>1
  <2> QED BY <2>2, <2>3, <2>4 DEF Written
<1>10. ASSUME NEW i \in Outstanding PROVE i \notin Written
  <2>1. Reading(i)
    BY <1>0 DEF LoadUnit
  <2>2. i \in InFlight /\ mem[i].instr.fu = "LOAD"
    BY <2>1 DEF Reading, Loads
  <2>3. i \notin flu_ids \cup store_ids
    BY <1>1, <1>2, <2>2
  <2>4. i \notin ld_pipe
    <3>1. issue_cnt # 0
      BY <1>0, <2>2 DEF InFlight, Slots
    <3>2. \A j \in ld_pipe : Age(j) < Age(i)
      BY <1>0, <3>1 DEF LoadUnit
    <3>3. i \in Slots /\ Age(i) \in Slots
      BY <1>0, <2>2 DEF InFlight
    <3> QED BY <3>2, <3>3 DEF Slots
  <2> QED BY <2>3, <2>4 DEF Written
<1> QED BY <1>1, <1>2, <1>4, <1>5, <1>6, <1>9, <1>10

\* An instruction that is neither complete nor written back stays as it is.
LEMMA Kept ==
    ASSUME Quiet, IInv, NEW in, NEW s, Edge(in, s), ~s.flush,
           NEW i \in InFlight, ~mem[i].valid
    PROVE  /\ i \notin Retired(s) /\ i \in InFlight'
           /\ mem'[i].instr = mem[i].instr
           /\ mem'[i].valid <=> i \in Written
           /\ Age(i)' = Age(i) - Num(s)
<1>1. /\ \A j \in Retired(s) : mem[j].valid
      /\ InFlight' = (InFlight \ Retired(s)) \cup {j \in {issue_pointer} : Issues(in, s)}
      /\ \A j \in InFlight \ Retired(s) :
                /\ mem'[j].instr = mem[j].instr
                /\ mem'[j].valid <=> mem[j].valid \/ j \in Written
                /\ Age(j)' = Age(j) - Num(s)
  BY RingStep
<1>2. i \notin Retired(s)
  BY <1>1
<1> QED BY <1>1, <1>2

\* A request that waits stays the request of the same instruction.
LEMMA WaitingKept ==
    ASSUME Quiet, IInv, NEW in, NEW s, Edge(in, s), ~s.flush,
           NEW r \in Firsts \cup Seconds
    PROVE  /\ r \in Request /\ r.id \in InFlight \ Retired(s) /\ r.id \in InFlight'
           /\ r.fu \in {"LOAD", "STORE"} /\ r.fu = mem[r.id].instr.fu
           /\ r.amo <=> is_amo(mem[r.id].instr)
           /\ r.io <=> mem[r.id].instr.op = "LW_IO"
           /\ Open(r)'
           /\ Age(r.id)' = Age(r.id) - Num(s)
<1>1. Open(r) /\ r.fu \in {"LOAD", "STORE"}
  BY DEF IInv, Requests
<1>2. /\ r \in Request /\ r.id \in InFlight /\ ~mem[r.id].valid
      /\ r.fu = mem[r.id].instr.fu
      /\ r.amo <=> is_amo(mem[r.id].instr)
      /\ r.io <=> mem[r.id].instr.op = "LW_IO"
  BY <1>1 DEF Open
<1>3. r.id \notin Written
  BY WrittenFacts
<1> DEFINE i == r.id
<1>4. /\ i \notin Retired(s) /\ i \in InFlight'
      /\ mem'[i].instr = mem[i].instr
      /\ mem'[i].valid <=> i \in Written
      /\ Age(i)' = Age(i) - Num(s)
  BY <1>2, Kept
<1>5. Open(r)'
  <2>1. Open(r)' <=> /\ r \in Request /\ r.id \in InFlight' /\ ~mem'[r.id].valid
                     /\ r.fu = mem'[r.id].instr.fu
                     /\ r.amo <=> is_amo(mem'[r.id].instr)
                     /\ r.io <=> mem'[r.id].instr.op = "LW_IO"
    BY DEF Open, Request, Slots
  <2> QED BY <1>2, <1>3, <1>4, <2>1
<1> QED BY <1>1, <1>2, <1>4, <1>5

\* The newly issued request.
LEMMA NewRequest ==
    ASSUME Quiet, IInv, NEW in, NEW s, Edge(in, s), ~s.flush,
           NEW r \in Executing'
    PROVE  /\ Open(r)' /\ Age(r.id)' = issue_cnt' - 1
           /\ \A i \in InFlight \ Retired(s) : Age(i)' < Age(r.id)'
           /\ r.id = issue_pointer /\ Issues(in, s)
<1>1. r = fu_data' /\ fu_data' # NoReq
  BY DEF Executing
<1>2. Issues(in, s)
  BY <1>1, FuStep
<1>3. PICK d \in in.decoded : r = ReqOf(issue_pointer, d.instr) /\ r \in Request /\ ~Traps(d.instr)
  BY <1>1, <1>2, FuStep
<1>4. /\ \A f, g \in in.decoded : f = g
      /\ d.ex <=> d.instr.fu = "NONE"
  BY InputFacts
<1>5. /\ \E f \in in.decoded : /\ mem'[issue_pointer].instr = f.instr
                               /\ mem'[issue_pointer].valid <=> f.ex
      /\ \A i \in Slots : i = issue_pointer => Age(i)' = issue_cnt - Num(s)
      /\ issue_cnt' = issue_cnt - Num(s) + SB!One(Issues(in, s))
      /\ Num(s) \in 0 .. 2
      /\ \A i \in InFlight \ Retired(s) : Age(i)' = Age(i) - Num(s)
      /\ issue_pointer \in Slots
      /\ InFlight' = (InFlight \ Retired(s)) \cup {i \in {issue_pointer} : Issues(in, s)}
  BY <1>2, RingStep
<1>6. /\ mem'[issue_pointer].instr = d.instr /\ ~mem'[issue_pointer].valid
  BY <1>3, <1>4, <1>5 DEF Traps
<1>7. /\ r.id = issue_pointer /\ r.fu = d.instr.fu
      /\ r.amo = is_amo(d.instr) /\ r.io = (d.instr.op = "LW_IO")
  BY <1>3 DEF ReqOf
<1>8. Open(r)'
  <2>1. r.id \in InFlight'
    BY <1>2, <1>5, <1>7
  <2> QED BY <1>3, <1>6, <1>7, <2>1 DEF Open
<1>9. Age(r.id)' = issue_cnt - Num(s)
  BY <1>5, <1>7
<1>10. issue_cnt' - 1 = issue_cnt - Num(s)
  <2>1. issue_cnt \in Slots
    BY RingFacts DEF IInv
  <2> QED BY <1>2, <1>5, <2>1 DEF SB!One, Slots
<1>11. \A i \in InFlight \ Retired(s) : Age(i)' < Age(r.id)'
  <2>1. \A i \in InFlight : Age(i) \in Slots /\ Age(i) < issue_cnt /\ issue_cnt \in Slots
    BY RingFacts DEF IInv, InFlight
  <2> QED BY <1>5, <1>9, <2>1 DEF Slots
<1> QED BY <1>2, <1>7, <1>8, <1>9, <1>10, <1>11

\* Where the first and the second request of the next cycle come from.
LEMMA Moves ==
    ASSUME Quiet, IInv, NEW in, NEW s, Edge(in, s), ~s.flush
    PROVE  /\ \A r \in Firsts' : \/ r \in Firsts /\ ~Pops(in, s)
                                 \/ r \in Seconds /\ Pops(in, s)
                                 \/ /\ r \in Executing' /\ r.fu \in {"LOAD", "STORE"}
                                    /\ Pops(in, s) \/ Firsts = {}
           /\ \A r \in Seconds' : /\ ~Pops(in, s) /\ Firsts # {} /\ Firsts' = Firsts
                                  /\ \/ r \in Seconds
                                     \/ r \in Executing' /\ r.fu \in {"LOAD", "STORE"}
           /\ \A r \in Firsts : Pops(in, s) \/ r \in Firsts'
           /\ \A r \in Seconds : r \in Firsts' \cup Seconds'
           /\ \A r \in Executing' : r.fu \in {"LOAD", "STORE"} => r \in Firsts' \cup Seconds'
<1>1. /\ lsu_req' # NoReq => r2 = NoReq
      /\ r1' = IF Pops(in, s) THEN (IF r2 # NoReq THEN r2 ELSE lsu_req')
               ELSE IF r1 # NoReq THEN r1 ELSE lsu_req'
      /\ r2' = IF Pops(in, s) \/ r1 = NoReq THEN NoReq
               ELSE IF r2 # NoReq THEN r2 ELSE lsu_req'
  BY BypassStep
<1>2. Pops(in, s) => r1 # NoReq
  BY FrontFacts DEF Pops
<1>3. r2 # NoReq => r1 # NoReq
  BY DEF IInv, Requests, Firsts, Seconds
<1>4. /\ lsu_req' # NoReq => lsu_req' = fu_data' /\ fu_data' # NoReq /\ fu_data'.fu \in {"LOAD", "STORE"}
      /\ fu_data' # NoReq /\ fu_data'.fu \in {"LOAD", "STORE"} => lsu_req' = fu_data'
  BY DEF lsu_req, Uses
<1> QED BY <1>1, <1>2, <1>3, <1>4 DEF Firsts, Seconds, Executing

\* What is older than the first request stays older than the first one.
LEMMA OlderNext ==
    ASSUME Quiet, IInv, NEW in, NEW s, Edge(in, s), ~s.flush,
           NEW i \in InFlight \ Retired(s), Older(i)
    PROVE  Older(i)'
<1> SUFFICES ASSUME NEW r \in Firsts' PROVE Age(i)' < Age(r.id)'
  BY DEF Older
<1>1. Age(i)' = Age(i) - Num(s) /\ Num(s) \in 0 .. 2
  BY RingStep
<1>2. \A j \in InFlight : Age(j) \in Int
  BY RingFacts DEF IInv, InFlight, Slots
<1>3. CASE r \in Firsts \cup Seconds
  <2>1. Age(r.id)' = Age(r.id) - Num(s) /\ r.id \in InFlight
    BY <1>3, WaitingKept
  <2>2. Age(i) < Age(r.id)
    <3>1. CASE r \in Firsts
      BY <3>1 DEF Older
    <3>2. CASE r \in Seconds
      <4>1. PICK q \in Firsts : Age(q.id) < Age(r.id)
        BY <3>2 DEF IInv, Requests
      <4>2. Age(i) < Age(q.id) /\ q.id \in InFlight
        BY WaitingKept DEF Older
      <4> QED BY <1>2, <2>1, <4>1, <4>2
    <3> QED BY <1>3, <3>1, <3>2
  <2> QED BY <1>1, <1>2, <2>1, <2>2
<1>4. CASE r \in Executing'
  BY <1>4, NewRequest
<1> QED BY <1>3, <1>4, Moves

\* The request the store unit takes is the store it posts a cycle later.
LEMMA StoreUnitNext ==
    ASSUME Quiet, IInv, NEW in, NEW s, Edge(in, s), ~s.flush
    PROVE  /\ st_state' \in ST!StoreUnitStates
           /\ st_req' = s.st
           /\ st_state' = "VALID_STORE" <=> TakesSt(s)
           /\ st_state' # "WAIT_TRANSLATION"
           /\ \A r \in InUnit' : r \in Firsts /\ r.fu = "STORE" /\ TakesSt(s)
           /\ \A r \in Firsts : r.fu = "STORE" /\ Pops(in, s) => r \in InUnit'
<1>1. ST!StoreUnitCycle(FALSE, s.st, TRUE, FALSE, s.st_ready, s.commit.amo_valid_commit, in.amo_ack)
  <2>1. s.flush = FALSE
    BY CommitFacts
  <2> QED BY <2>1 DEF Edge, Cycle
<1>2. st_state \in ST!StoreUnitStates /\ st_state # "WAIT_TRANSLATION"
  BY DEF IInv, Registers, Posted
<1>3. /\ st_req' = s.st
      /\ st_state' = IF ST!takes(s.st) THEN (IF ~s.st_ready THEN "WAIT_STORE_READY" ELSE "VALID_STORE")
                     ELSE IF st_state = "VALID_STORE" \/ (st_state = "WAIT_STORE_READY" /\ s.st_ready)
                     THEN "IDLE" ELSE st_state
  BY <1>1, <1>2 DEF ST!StoreUnitCycle
<1>4. TakesSt(s) <=> ST!takes(s.st) /\ s.st_ready
  BY DEF TakesSt, ST!pop_st_o
<1>5. /\ st_state' = "VALID_STORE" <=> TakesSt(s)
      /\ st_state' # "WAIT_TRANSLATION" /\ st_state' \in ST!StoreUnitStates
  BY <1>2, <1>3, <1>4 DEF ST!StoreUnitStates
<1>6. /\ s.st = IF r1 # NoReq /\ r1.fu = "STORE" THEN r1 ELSE NoReq
      /\ TakesSt(s) => r1 # NoReq /\ r1.fu = "STORE"
      /\ Pops(in, s) /\ r1 # NoReq /\ r1.fu = "STORE" => TakesSt(s)
  BY FrontFacts DEF Pops
<1> QED BY <1>3, <1>5, <1>6 DEF InUnit, Firsts

\* Every request keeps naming an uncompleted instruction, in program order.
LEMMA RequestsNext ==
    ASSUME Quiet, IInv, NEW in, NEW s, Edge(in, s), ~s.flush
    PROVE  Requests'
<1>0. \A j \in InFlight : Age(j) \in Int
  BY RingFacts DEF IInv, InFlight, Slots
<1>00. Num(s) \in Int
  BY RingStep
<1>1. \A r \in Executing' : Open(r)' /\ Age(r.id)' = issue_cnt' - 1
  BY NewRequest
<1>2. \A r \in Firsts' : Open(r)' /\ r.fu \in {"LOAD", "STORE"}
  <2>1. TAKE r \in Firsts'
  <2>2. CASE r \in Firsts \cup Seconds
    BY <2>2, WaitingKept
  <2>3. CASE r \in Executing' /\ r.fu \in {"LOAD", "STORE"}
    BY <2>3, NewRequest
  <2> QED BY <2>2, <2>3, Moves
<1>3. \A r \in Seconds' : /\ Open(r)' /\ r.fu \in {"LOAD", "STORE"}
                          /\ \E q \in Firsts' : Age(q.id)' < Age(r.id)'
  <2>1. TAKE r \in Seconds'
  <2>2. /\ Firsts # {} /\ Firsts' = Firsts
        /\ r \in Seconds \/ (r \in Executing' /\ r.fu \in {"LOAD", "STORE"})
    BY Moves
  <2>3. CASE r \in Seconds
    <3>1. PICK q \in Firsts : Age(q.id) < Age(r.id)
      BY <2>3 DEF IInv, Requests
    <3>2. /\ Age(q.id)' = Age(q.id) - Num(s) /\ Age(r.id)' = Age(r.id) - Num(s)
          /\ q.id \in InFlight /\ r.id \in InFlight
          /\ Open(r)' /\ r.fu \in {"LOAD", "STORE"}
      BY <2>3, WaitingKept
    <3>3. Age(q.id)' < Age(r.id)'
      BY <1>0, <1>00, <3>1, <3>2
    <3> QED BY <2>2, <3>1, <3>2, <3>3
  <2>4. CASE r \in Executing' /\ r.fu \in {"LOAD", "STORE"}
    <3>1. PICK q : q \in Firsts
      BY <2>2
    <3>2. q.id \in InFlight \ Retired(s)
      BY <3>1, WaitingKept
    <3>3. Age(q.id)' < Age(r.id)' /\ Open(r)'
      BY <2>4, <3>2, NewRequest
    <3> QED BY <2>2, <2>4, <3>1, <3>3
  <2> QED BY <2>2, <2>3, <2>4
<1>4. \A r \in InUnit' : Open(r)' /\ r.fu = "STORE" /\ Older(r.id)'
  <2>1. TAKE r \in InUnit'
  <2>2. r \in Firsts /\ r.fu = "STORE" /\ Pops(in, s)
    BY StoreUnitNext DEF Pops
  <2>3. Open(r)' /\ r.id \in InFlight \ Retired(s) /\ Age(r.id)' = Age(r.id) - Num(s)
    BY <2>2, WaitingKept
  <2>4. ASSUME NEW q \in Firsts' PROVE Age(r.id)' < Age(q.id)'
    <3>1. CASE q \in Seconds
      <4>1. Age(r.id) < Age(q.id)
        BY <2>2, <3>1 DEF IInv, Requests, Firsts
      <4>2. Age(q.id)' = Age(q.id) - Num(s) /\ q.id \in InFlight
        BY <3>1, WaitingKept
      <4> QED BY <1>0, <1>00, <2>3, <4>1, <4>2
    <3>2. CASE q \in Executing'
      BY <2>3, <3>2, NewRequest
    <3> QED BY <2>2, <3>1, <3>2, Moves
  <2>5. Older(r.id)'
    BY <2>4 DEF Older
  <2> QED BY <2>2, <2>3, <2>5
<1> QED BY <1>1, <1>2, <1>3, <1>4 DEF Requests

-----------------------------------------------------------------------------
(* The load unit.                                                          *)

\* What the load unit sees in a cycle.
LEMMA LoadInputs ==
    ASSUME IInv, NEW in, NEW s, Edge(in, s)
    PROVE  /\ in.ld_gnt \in BOOLEAN /\ in.ld_answer \in BOOLEAN /\ in.miss_rtrn \in BOOLEAN
           /\ in.ld_gnt => LD!ld_data_req(s.ld, s.matches) /\ (ld_port = "idle" \/ in.ld_answer)
           /\ in.ld_answer => ld_port = "out" /\ ~LD!kill_req
           /\ LD!ld_data_req(s.ld, s.matches) <=>
                \/ ld_state = "WAIT_GNT"
                \/ ld_state \in {"IDLE", "SEND_TAG"} /\ s.ld # NoReq /\ ~s.matches
           /\ s.ld # NoReq => s.ld = r1 /\ r1 # NoReq /\ r1.fu = "LOAD"
           /\ r1 # NoReq /\ r1.fu = "LOAD" => s.ld = r1
           /\ ld_state \in Holding => s.ld # NoReq
           /\ s.stall => in.ld_gnt /\ s.ld.io
           /\ in.ld_gnt /\ ~s.stall /\ s.ld.io =>
                speculative_status_cnt = 0 /\ commit_status_cnt = 0 /\ commit_pointer[0] = s.ld.id
           /\ s.stall \in BOOLEAN
<1>1. /\ s.ld = ForUnit("LOAD") /\ s.matches = page_offset_matches
      /\ s.stall = (in.ld_gnt /\ LD!stall_ni(s.ld, ~wb_ni, BUF!store_buffer_empty_o, commit_pointer[0]))
      /\ Inputs(in)
  BY UnitSignals DEF Edge
<1>2. /\ in.ld_gnt \in BOOLEAN /\ in.ld_answer \in BOOLEAN /\ in.miss_rtrn \in BOOLEAN
      /\ in.ld_gnt => LD!ld_data_req(s.ld, s.matches) /\ (ld_port = "idle" \/ in.ld_answer)
      /\ in.ld_answer => ld_port = "out" /\ ~LD!kill_req
  BY <1>1 DEF Inputs, ld_req
<1>3. LD!ld_data_req(s.ld, s.matches) <=>
                \/ ld_state = "WAIT_GNT"
                \/ ld_state \in {"IDLE", "SEND_TAG"} /\ s.ld # NoReq /\ ~s.matches
  BY DEF LD!ld_data_req, LD!Looks
<1>4. s.ld = IF r1 # NoReq /\ r1.fu = "LOAD" THEN r1 ELSE NoReq
  BY FrontFacts
<1>5. ld_state \in Holding => r1 # NoReq /\ r1.fu = "LOAD"
  BY DEF IInv, LoadUnit
<1>6. /\ s.stall => in.ld_gnt /\ s.ld.io
      /\ in.ld_gnt /\ ~s.stall /\ s.ld.io =>
           speculative_status_cnt = 0 /\ commit_status_cnt = 0 /\ commit_pointer[0] = s.ld.id
      /\ s.stall \in BOOLEAN
  BY <1>1, <1>2 DEF LD!stall_ni, BUF!store_buffer_empty_o, BUF!no_st_pending_o
<1> QED BY <1>2, <1>3, <1>4, <1>5, <1>6

\* What the load unit does in a cycle without flush.
LEMMA LoadStep ==
    ASSUME Quiet, IInv, NEW in, NEW s, Edge(in, s), ~s.flush
    PROVE  /\ ld_state' \in LD!LoadUnitStates /\ load_data' \in Slots /\ ld_pipe' \in SUBSET Slots
           /\ ld_port' \in {"idle", "out", "killed"}
           /\ \A i : i \in Outstanding' <=> \/ TakesLd(in, s) /\ i = r1.id
                                            \/ i \in Outstanding /\ ~in.ld_answer
           /\ \A i : i \in ld_pipe' <=> i \in Outstanding /\ in.ld_answer
           /\ \A i, j \in ld_pipe' : i = j
           /\ ld_state' \in Holding => r1 # NoReq /\ r1.fu = "LOAD" /\ ~Pops(in, s)
           /\ ld_state' \in {"ABORT_TRANSACTION_NI", "WAIT_WB_EMPTY", "WAIT_TRANSLATION"} => r1.io
           /\ ld_state' \in {"WAIT_WB_EMPTY", "WAIT_TRANSLATION"} => ld_port' # "out"
           /\ ld_state' = "WAIT_GNT" => \/ ld_state = "WAIT_GNT"
                                        \/ r1.io
                                        \/ ~s.matches
           /\ TakesLd(in, s) => \/ ld_state = "WAIT_GNT"
                                \/ ~s.matches
<1>1. /\ ld_state' = LD!load_control(FALSE, s.ld, s.matches, in.ld_gnt, s.stall, ~wb_ni)
      /\ load_data' = IF TakesLd(in, s) THEN s.ld.id ELSE load_data
      /\ ld_pipe' = IF LD!ld_valid(in.ld_answer) THEN {load_data} ELSE {}
      /\ ld_port' = LD!port_d(in.ld_gnt, in.ld_answer, in.miss_rtrn)
  <2>1. s.flush = FALSE
    BY CommitFacts
  <2> QED BY <2>1 DEF Edge, Cycle, LD!LoadUnitCycle, TakesLd
<1>2. /\ ld_state \in LD!LoadUnitStates /\ load_data \in Slots
      /\ ld_port \in {"idle", "out", "killed"}
      /\ ld_state \in {"WAIT_WB_EMPTY", "WAIT_TRANSLATION"} => ld_port # "out"
      /\ ld_state \in {"ABORT_TRANSACTION_NI", "WAIT_WB_EMPTY", "WAIT_TRANSLATION"} => r1.io
      /\ ld_state \in Holding => r1 # NoReq /\ r1.fu = "LOAD"
  BY DEF IInv, Registers, LoadUnit
<1> DEFINE req == LD!ld_data_req(s.ld, s.matches)
<1>3. /\ in.ld_gnt \in BOOLEAN /\ in.ld_answer \in BOOLEAN /\ in.miss_rtrn \in BOOLEAN
      /\ in.ld_gnt => req /\ (ld_port = "idle" \/ in.ld_answer)
      /\ in.ld_answer => ld_port = "out" /\ ~LD!kill_req
      /\ req <=> \/ ld_state = "WAIT_GNT"
                 \/ ld_state \in {"IDLE", "SEND_TAG"} /\ s.ld # NoReq /\ ~s.matches
      /\ s.ld # NoReq => s.ld = r1 /\ r1 # NoReq /\ r1.fu = "LOAD"
      /\ ld_state \in Holding => s.ld # NoReq
      /\ s.stall => in.ld_gnt /\ s.ld.io
      /\ s.stall \in BOOLEAN
  BY LoadInputs
<1>4. /\ req => s.ld # NoReq
      /\ TakesLd(in, s) <=> req /\ in.ld_gnt /\ ~s.stall
      /\ Pops(in, s) /\ s.ld # NoReq => TakesLd(in, s)
  <2>1. req => s.ld # NoReq
    BY <1>3 DEF Holding
  <2>2. TakesLd(in, s) <=> req /\ in.ld_gnt /\ ~s.stall
    BY DEF TakesLd, LD!pop_ld_o
  <2>3. TakesSt(s) => r1.fu = "STORE"
    BY FrontFacts
  <2> QED BY <1>3, <2>1, <2>2, <2>3 DEF Pops
<1> HIDE DEF req
<1>5. ld_state' = IF req THEN (IF ~in.ld_gnt THEN "WAIT_GNT"
                               ELSE IF s.stall THEN "ABORT_TRANSACTION_NI" ELSE "SEND_TAG")
                  ELSE CASE LD!Looks(s.ld)                               -> "WAIT_PAGE_OFFSET"
                         [] ld_state = "WAIT_PAGE_OFFSET" /\ ~s.matches  -> "WAIT_GNT"
                         [] ld_state = "ABORT_TRANSACTION_NI"            -> "WAIT_WB_EMPTY"
                         [] ld_state = "WAIT_WB_EMPTY" /\ ~wb_ni         -> "WAIT_TRANSLATION"
                         [] ld_state = "WAIT_TRANSLATION"                -> "WAIT_GNT"
                         [] ld_state \in {"SEND_TAG", "WAIT_FLUSH"} /\ ~LD!Looks(s.ld) -> "IDLE"
                         [] OTHER                                        -> ld_state
  BY <1>1 DEF LD!load_control, req
<1>6. LD!Looks(s.ld) <=> ld_state \in {"IDLE", "SEND_TAG"} /\ s.ld # NoReq
  BY DEF LD!Looks
<1> DEFINE looks == LD!Looks(s.ld)
<1> HIDE DEF looks
<1>7. /\ req /\ ~in.ld_gnt => ld_state' = "WAIT_GNT"
      /\ req /\ in.ld_gnt /\ s.stall => ld_state' = "ABORT_TRANSACTION_NI"
      /\ req /\ in.ld_gnt /\ ~s.stall => ld_state' = "SEND_TAG"
  BY <1>5
<1>8. ~req => /\ ld_state \in {"IDLE", "SEND_TAG"} /\ s.ld # NoReq => ld_state' = "WAIT_PAGE_OFFSET"
              /\ ld_state = "IDLE" /\ s.ld = NoReq => ld_state' = "IDLE"
              /\ ld_state = "SEND_TAG" /\ s.ld = NoReq => ld_state' = "IDLE"
              /\ ld_state = "WAIT_FLUSH" => ld_state' = "IDLE"
              /\ ld_state = "WAIT_PAGE_OFFSET" => ld_state' = IF s.matches THEN "WAIT_PAGE_OFFSET" ELSE "WAIT_GNT"
              /\ ld_state = "ABORT_TRANSACTION_NI" => ld_state' = "WAIT_WB_EMPTY"
              /\ ld_state = "WAIT_WB_EMPTY" => ld_state' \in {"WAIT_WB_EMPTY", "WAIT_TRANSLATION"}
              /\ ld_state = "WAIT_TRANSLATION" => ld_state' = "WAIT_GNT"
  BY <1>5, <1>6
<1>9. ld_state' \in LD!LoadUnitStates
  BY <1>2, <1>3, <1>7, <1>8 DEF LD!LoadUnitStates
<1>10. /\ ld_state' # "WAIT_FLUSH"
       /\ ld_state' = "ABORT_TRANSACTION_NI" <=> req /\ in.ld_gnt /\ s.stall
  BY <1>2, <1>3, <1>7, <1>8 DEF LD!LoadUnitStates
<1>11. ld_state' \in Holding => r1 # NoReq /\ r1.fu = "LOAD" /\ ~Pops(in, s)
  <2>1. ld_state' \in Holding => s.ld # NoReq /\ ~(req /\ in.ld_gnt /\ ~s.stall)
    BY <1>2, <1>3, <1>4, <1>7, <1>8 DEF LD!LoadUnitStates, Holding
  <2> QED BY <1>3, <1>4, <2>1
<1>12. ld_state' \in {"ABORT_TRANSACTION_NI", "WAIT_WB_EMPTY", "WAIT_TRANSLATION"} => r1.io
  BY <1>2, <1>3, <1>4, <1>7, <1>8 DEF LD!LoadUnitStates
<1>13. /\ ld_port' \in {"idle", "out", "killed"}
       /\ ld_port' = "out" <=> in.ld_gnt \/ (ld_port = "out" /\ ~LD!kill_req /\ ~in.ld_answer)
  BY <1>1, <1>2, <1>3 DEF LD!port_d
<1>14. ld_state' \in {"WAIT_WB_EMPTY", "WAIT_TRANSLATION"} => ld_port' # "out"
  BY <1>2, <1>3, <1>7, <1>8, <1>13 DEF LD!LoadUnitStates, LD!kill_req
<1>15. ld_state' = "WAIT_GNT" => ld_state = "WAIT_GNT" \/ r1.io \/ ~s.matches
  BY <1>2, <1>3, <1>7, <1>8 DEF LD!LoadUnitStates
<1>16. TakesLd(in, s) => ld_state = "WAIT_GNT" \/ ~s.matches
  BY <1>3, <1>4
<1>17. load_data' \in Slots /\ ld_pipe' \in SUBSET Slots
  <2>1. s.ld # NoReq => s.ld.id \in Slots
    BY <1>3 DEF IInv, Requests, Firsts, Open, Request
  <2> QED BY <1>1, <1>2, <1>4, <2>1
<1>18. \A i : i \in Outstanding' <=> \/ TakesLd(in, s) /\ i = r1.id
                                     \/ i \in Outstanding /\ ~in.ld_answer
  <2>1. LD!kill_req' <=> req /\ in.ld_gnt /\ s.stall
    BY <1>10 DEF LD!kill_req
  <2>2. \A i : i \in Outstanding' <=> i = load_data' /\ ld_port' = "out" /\ ~LD!kill_req'
    BY DEF Outstanding
  <2>3. \A i : i \in Outstanding <=> i = load_data /\ ld_port = "out" /\ ~LD!kill_req
    BY DEF Outstanding
  <2>4. TakesLd(in, s) => s.ld = r1
    BY <1>3, <1>4
  <2>5. in.ld_gnt => ld_port = "idle" \/ in.ld_answer
    BY <1>3
  <2> QED BY <1>1, <1>3, <1>4, <1>13, <2>1, <2>2, <2>3, <2>4, <2>5
<1>19. /\ \A i : i \in ld_pipe' <=> i \in Outstanding /\ in.ld_answer
       /\ \A i, j \in ld_pipe' : i = j
  <2>1. \A i : i \in Outstanding <=> i = load_data /\ ld_port = "out" /\ ~LD!kill_req
    BY DEF Outstanding
  <2>2. LD!ld_valid(in.ld_answer) <=> ld_port = "out" /\ ~LD!kill_req /\ in.ld_answer
    BY <1>2, <1>3 DEF LD!ld_valid
  <2> QED BY <1>1, <2>1, <2>2
<1> QED BY <1>9, <1>11, <1>12, <1>13, <1>14, <1>15, <1>16, <1>17, <1>18, <1>19

\* No uncompleted instruction gets lost.
LEMMA FoundNext ==
    ASSUME Quiet, IInv, NEW in, NEW s, Edge(in, s), ~s.flush
    PROVE  Found'
<1> SUFFICES ASSUME NEW i \in InFlight', ~mem'[i].valid
             PROVE  \/ i \in flu_ids'
                    \/ \E r \in Firsts' \cup Seconds' : r.id = i
                    \/ \E r \in InUnit' : r.id = i
                    \/ mem'[i].instr.fu = "LOAD" /\ i \in ld_pipe' \cup Outstanding'
  BY DEF Found
<1>1. InFlight' = (InFlight \ Retired(s)) \cup {j \in {issue_pointer} : Issues(in, s)}
  BY RingStep
<1>2. CASE i = issue_pointer /\ Issues(in, s)
  <2>1. PICK f \in in.decoded : mem'[issue_pointer].valid <=> f.ex
    BY <1>2, RingStep
  <2>2. /\ \A d \in in.decoded : d = f
        /\ f.ex <=> f.instr.fu = "NONE"
    BY InputFacts
  <2>3. ~Traps(f.instr)
    BY <1>2, <2>1, <2>2 DEF Traps
  <2>4. fu_data' = ReqOf(issue_pointer, f.instr) /\ fu_data' \in Request
    BY <1>2, <2>2, <2>3, FuStep
  <2>5. fu_data' # NoReq /\ fu_data' \in Executing' /\ fu_data'.id = i
    BY <1>2, <2>4, SizesAssumption DEF Executing, ReqOf
  <2>6. CASE fu_data'.fu \in {"LOAD", "STORE"}
    BY <2>5, <2>6, Moves
  <2>7. CASE fu_data'.fu \notin {"LOAD", "STORE"}
    BY <2>5, <2>7 DEF flu_ids, flu_valid_o
  <2> QED BY <2>6, <2>7
<1>3. CASE i \in InFlight \ Retired(s)
  <2>1. ~mem[i].valid /\ i \notin Written /\ mem'[i].instr = mem[i].instr
    BY <1>3, RingStep
  <2>2. \/ \E r \in Firsts \cup Seconds : r.id = i
        \/ mem[i].instr.fu = "LOAD" /\ i \in Outstanding
    <3>1. \/ i \in flu_ids
          \/ \E r \in Firsts \cup Seconds : r.id = i
          \/ \E r \in InUnit : r.id = i
          \/ mem[i].instr.fu = "LOAD" /\ i \in ld_pipe \cup Outstanding
      BY <1>3, <2>1 DEF IInv, Found
    <3>2. \A r \in InUnit : r.id \in store_ids
      BY DEF InUnit, store_ids, ST!st_valid_o
    <3> QED BY <2>1, <3>1, <3>2 DEF Written
  <2>3. CASE \E r \in Firsts \cup Seconds : r.id = i
    <3>1. PICK r \in Firsts \cup Seconds : r.id = i
      BY <2>3
    <3>2. r.fu \in {"LOAD", "STORE"} /\ r.fu = mem[i].instr.fu
      BY <3>1, WaitingKept
    <3>3. CASE r \in Firsts' \cup Seconds'
      BY <3>1, <3>3
    <3>4. CASE r \in Firsts /\ Pops(in, s)
      <4>1. CASE r.fu = "STORE"
        BY <3>1, <3>4, <4>1, StoreUnitNext
      <4>2. CASE r.fu = "LOAD"
        <5>1. r = r1
          BY <3>4 DEF Firsts
        <5>2. TakesLd(in, s)
          BY <3>4, <4>2, <5>1, FrontFacts DEF Pops
        <5>3. i \in Outstanding'
          BY <3>1, <5>1, <5>2, LoadStep
        <5> QED BY <2>1, <3>2, <4>2, <5>3
      <4> QED BY <3>2, <4>1, <4>2
    <3> QED BY <3>1, <3>3, <3>4, Moves
  <2>4. CASE mem[i].instr.fu = "LOAD" /\ i \in Outstanding
    <3>1. i \in ld_pipe' \cup Outstanding'
      BY <2>4, LoadStep
    <3> QED BY <2>1, <2>4, <3>1
  <2> QED BY <2>2, <2>3, <2>4
<1> QED BY <1>1, <1>2, <1>3

-----------------------------------------------------------------------------
(* The store buffer.                                                       *)

\* The stores in program order: the oldest completed one is the head of the
\* speculative queue.
LEMMA QueueFacts ==
    ASSUME IInv
    PROVE  /\ BUFP!SpecTypeOK /\ BUFP!SpecRing /\ BUFP!CommitTypeOK /\ BUFP!CommitRing
           /\ speculative_status_cnt \in 0 .. DEPTH_SPEC /\ commit_status_cnt \in 0 .. DEPTH_COMMIT
           /\ \A k \in 1 .. speculative_status_cnt : BUF!SpecSeq[k] \in (Stores \cap Completed) \ Amos
           /\ \A i \in (Stores \cap Completed) \ Amos :
                \E k \in 1 .. speculative_status_cnt : BUF!SpecSeq[k] = i
           /\ \A k, l \in 1 .. speculative_status_cnt :
                k < l => Age(BUF!SpecSeq[k]) < Age(BUF!SpecSeq[l])
           /\ \A k \in 1 .. speculative_status_cnt : Older(BUF!SpecSeq[k])
<1>1. /\ BUFP!SpecTypeOK /\ BUFP!SpecRing /\ BUFP!CommitTypeOK /\ BUFP!CommitRing
  <2>1. BUFP!Inv
    BY DEF IInv
  <2> QED BY <2>1, Instances, BUFP!TypeSplit DEF BUFP!Inv, BUFP!RingInv
<1>2. speculative_status_cnt \in 0 .. DEPTH_SPEC /\ commit_status_cnt \in 0 .. DEPTH_COMMIT
  BY <1>1 DEF BUFP!SpecTypeOK, BUFP!CommitTypeOK
<1>3. /\ {x.id : x \in Queued} = (Stores \cap Completed) \ Amos
      /\ \A x, y \in Queued : x.at < y.at => Age(x.id) < Age(y.id)
      /\ \A x \in Queued : Older(x.id)
  BY DEF IInv, Posted, StoreAgreement, InProgramOrder, Queued
<1> DEFINE Q(k) == [at |-> k, id |-> BUF!SpecSeq[k]]
<1>4. \A k \in 1 .. speculative_status_cnt : Q(k) \in Queued /\ Q(k).id = BUF!SpecSeq[k] /\ Q(k).at = k
  BY DEF Queued
<1>5. \A x \in Queued : \E k \in 1 .. speculative_status_cnt : x.id = BUF!SpecSeq[k]
  BY DEF Queued
<1> HIDE DEF Q
<1>6. \A k \in 1 .. speculative_status_cnt : BUF!SpecSeq[k] \in (Stores \cap Completed) \ Amos
  BY <1>3, <1>4
<1>7. \A i \in (Stores \cap Completed) \ Amos :
                \E k \in 1 .. speculative_status_cnt : BUF!SpecSeq[k] = i
  BY <1>3, <1>5
<1>8. \A k, l \in 1 .. speculative_status_cnt :
                k < l => Age(BUF!SpecSeq[k]) < Age(BUF!SpecSeq[l])
  BY <1>3, <1>4
<1>9. \A k \in 1 .. speculative_status_cnt : Older(BUF!SpecSeq[k])
  BY <1>3, <1>4
<1> QED BY <1>1, <1>2, <1>6, <1>7, <1>8, <1>9

Push(s) == SB!One(s.posted)
Pop(s) == SB!One(s.commit.commit_lsu)

\* The store buffer's environment keeps its contract.
LEMMA BufferContract ==
    ASSUME Quiet, IInv, NEW in, NEW s, Edge(in, s)
    PROVE  /\ s.posted \in BOOLEAN /\ s.commit.commit_lsu \in BOOLEAN /\ in.gnt \in BOOLEAN
           /\ s.posted <=> st_state = "VALID_STORE" /\ ~s.flush /\ ~st_req.amo
           /\ s.posted => st_req \in InUnit /\ st_req \in Request /\ speculative_status_cnt < DEPTH_SPEC
           /\ s.commit.commit_lsu => /\ speculative_status_cnt >= 1
                                     /\ BUF!SpecSeq[1] = commit_pointer[0]
           /\ s.commit.commit_lsu => commit_status_cnt < DEPTH_COMMIT /\ ~s.flush
           /\ BUFP!Contract(s.flush, s.posted, s.commit.commit_lsu)
           /\ BUFP!core_if(s.flush, s.posted, IF s.posted THEN st_req.id ELSE 0, s.commit.commit_lsu)
           /\ BUFP!store_if(s.commit.commit_lsu, in.gnt)
           /\ (IF s.posted THEN st_req.id ELSE 0) \in Slots
<1>1. /\ s.commit.commit_lsu \in BOOLEAN /\ s.flush \in BOOLEAN
      /\ s.commit.commit_lsu <=> s.ack[0] /\ e0.instr.fu = "STORE" /\ ~is_amo(e0.instr)
      /\ s.commit.commit_lsu => commit_status_cnt < DEPTH_COMMIT /\ ~s.flush
      /\ s.ack[0] => e0.valid /\ ~e0.ex
  BY CommitFacts
<1>2. in.gnt \in BOOLEAN
  BY DEF Edge, Inputs
<1>3. s.posted = ST!store_buffer_valid(s.flush, FALSE)
  BY UnitSignals DEF Edge
<1>4. s.posted \in BOOLEAN /\ (s.posted <=> st_state = "VALID_STORE" /\ ~s.flush /\ ~st_req.amo)
  BY <1>3 DEF ST!store_buffer_valid, ST!st_valid
<1>5. s.posted => st_req \in InUnit /\ st_req \in Request /\ speculative_status_cnt < DEPTH_SPEC
  <2>1. s.posted => st_req \in InUnit
    BY <1>4 DEF InUnit
  <2>2. \A r \in InUnit : Open(r) /\ IF r.amo THEN amo_fifo = {} ELSE speculative_status_cnt < DEPTH_SPEC
    BY DEF IInv, Requests, Posted
  <2> QED BY <1>4, <2>1, <2>2 DEF Open
<1>6. ASSUME s.commit.commit_lsu
      PROVE  /\ speculative_status_cnt >= 1
             /\ BUF!SpecSeq[1] = commit_pointer[0]
  <2>1. /\ commit_pointer[0] \in Slots /\ Age(commit_pointer[0]) = 0
        /\ \A i \in Slots : Age(i) \in Slots /\ (mem[i].valid => i \in InFlight)
    BY RingFacts DEF IInv
  <2>2. commit_pointer[0] \in (Stores \cap Completed) \ Amos
    BY <1>1, <1>6, <2>1 DEF Stores, Completed, Amos, e0
  <2>3. PICK k \in 1 .. speculative_status_cnt : BUF!SpecSeq[k] = commit_pointer[0]
    BY <2>2, QueueFacts
  <2>4. speculative_status_cnt \in Nat /\ 1 \in 1 .. speculative_status_cnt
    BY <2>3, QueueFacts, Instances
  <2>5. BUF!SpecSeq[1] \in Slots /\ (1 < k => Age(BUF!SpecSeq[1]) < Age(BUF!SpecSeq[k]))
    BY <2>4, QueueFacts DEF Stores, InFlight
  <2>6. k = 1
    BY <2>1, <2>3, <2>5 DEF Slots
  <2> QED BY <2>3, <2>4, <2>6
<1>7. BUFP!Contract(s.flush, s.posted, s.commit.commit_lsu)
  <2>1. speculative_status_cnt \in 0 .. DEPTH_SPEC /\ commit_status_cnt \in 0 .. DEPTH_COMMIT
    BY QueueFacts
  <2> QED BY <1>1, <1>5, <1>6, <2>1, Instances
      DEF BUFP!Contract, BUFP!commit_and_flush, BUFP!speculative_buffer_overflow,
          BUFP!speculative_buffer_underflow, BUFP!commit_buffer_overflow
<1>8. BUF!Cycle(s.flush, s.posted, IF s.posted THEN st_req.id ELSE 0, s.commit.commit_lsu, in.gnt)
  BY DEF Edge, Cycle
<1>9. /\ BUFP!core_if(s.flush, s.posted, IF s.posted THEN st_req.id ELSE 0, s.commit.commit_lsu)
      /\ BUFP!store_if(s.commit.commit_lsu, in.gnt)
  BY <1>8 DEF BUF!Cycle, BUF!core_if, BUFP!core_if, BUF!store_if, BUFP!store_if, BUF!SpecSlots, BUFP!SpecSlots,
     BUF!CommitSlots, BUFP!CommitSlots, BUF!Inc, BUFP!Inc, BUF!Wrap, BUFP!Wrap, BUF!One, BUFP!One,
     BUF!data_req_o, BUFP!data_req_o
<1>10. (IF s.posted THEN st_req.id ELSE 0) \in Slots
  BY <1>5, Instances DEF Request
<1> QED BY <1>1, <1>2, <1>4, <1>5, <1>6, <1>7, <1>9, <1>10

\* The store buffer after a cycle.
LEMMA BufferNext ==
    ASSUME Quiet, IInv, NEW in, NEW s, Edge(in, s)
    PROVE  /\ BUFP!Inv'
           /\ s.flush => speculative_status_cnt' = 0
           /\ ~s.flush =>
                /\ speculative_status_cnt' = speculative_status_cnt + Push(s) - Pop(s)
                /\ \A k \in 1 .. speculative_status_cnt' :
                     BUF!SpecSeq'[k] = IF k + Pop(s) <= speculative_status_cnt
                                       THEN BUF!SpecSeq[k + Pop(s)] ELSE st_req.id
           /\ commit_status_cnt = 0 /\ ~s.commit.commit_lsu => commit_status_cnt' = 0
<1> DEFINE st == IF s.posted THEN st_req.id ELSE 0
<1>1. /\ BUFP!SpecTypeOK /\ BUFP!SpecRing /\ BUFP!CommitTypeOK /\ BUFP!CommitRing
  BY QueueFacts
<1>2. /\ s.posted \in BOOLEAN /\ s.commit.commit_lsu \in BOOLEAN /\ in.gnt \in BOOLEAN
      /\ BUFP!Contract(s.flush, s.posted, s.commit.commit_lsu)
      /\ BUFP!core_if(s.flush, s.posted, st, s.commit.commit_lsu)
      /\ BUFP!store_if(s.commit.commit_lsu, in.gnt)
      /\ st \in Slots
      /\ s.commit.commit_lsu => speculative_status_cnt >= 1 /\ ~s.flush
      /\ s.flush \in BOOLEAN
  BY BufferContract, CommitFacts
<1>3. st = IF s.posted THEN st_req.id ELSE 0
  OBVIOUS
<1> HIDE DEF st
<1>4. BUFP!SpecTypeOK' /\ BUFP!SpecRing'
  BY <1>1, <1>2, Instances, BUFP!CoreIfStep
<1>5. BUFP!CommitTypeOK' /\ BUFP!CommitRing'
  BY <1>1, <1>2, Instances, BUFP!StoreIfStep
<1>6. BUFP!Inv'
  <2>1. BUFP!TypeOK' <=> BUFP!SpecTypeOK' /\ BUFP!CommitTypeOK'
    BY DEF BUFP!TypeOK, BUFP!SpecTypeOK, BUFP!CommitTypeOK
  <2> QED BY <1>4, <1>5, <2>1 DEF BUFP!Inv, BUFP!RingInv
<1>7. BUFP!SpecSeq' = IF s.flush THEN <<>>
                      ELSE (IF s.commit.commit_lsu THEN Tail(BUFP!SpecSeq) ELSE BUFP!SpecSeq)
                             \o (IF s.posted THEN <<st>> ELSE <<>>)
  BY <1>1, <1>2, <1>4, Instances, BUFP!SpecSeqStep
<1>8. BUFP!SpecSeq \in Seq(Slots) /\ Len(BUFP!SpecSeq) = speculative_status_cnt
  BY <1>1, Instances, BUFP!SpecSeqType
<1>9. /\ s.flush => speculative_status_cnt' = 0
      /\ ~s.flush => speculative_status_cnt' = speculative_status_cnt + Push(s) - Pop(s)
      /\ Push(s) = (IF s.posted THEN 1 ELSE 0) /\ Pop(s) = (IF s.commit.commit_lsu THEN 1 ELSE 0)
  <2>1. speculative_status_cnt \in 0 .. DEPTH_SPEC
    BY QueueFacts
  <2>2. /\ Push(s) = (IF s.posted THEN 1 ELSE 0) /\ Pop(s) = (IF s.commit.commit_lsu THEN 1 ELSE 0)
    BY DEF Push, Pop, SB!One
  <2>3. speculative_status_cnt' = IF s.flush THEN 0
                                  ELSE BUFP!Wrap(speculative_status_cnt + Push(s) - Pop(s), DEPTH_SPEC)
    BY <1>2, <2>2 DEF BUFP!core_if, BUFP!One
  <2> QED BY <1>2, <2>1, <2>2, <2>3, Instances DEF BUFP!Wrap
<1>10. ASSUME ~s.flush, NEW k \in 1 .. speculative_status_cnt'
       PROVE  BUFP!SpecSeq'[k] = IF k + Pop(s) <= speculative_status_cnt
                                 THEN BUFP!SpecSeq[k + Pop(s)] ELSE st_req.id
  <2> DEFINE S == BUFP!SpecSeq
             T == IF s.commit.commit_lsu THEN Tail(S) ELSE S
             U == IF s.posted THEN <<st>> ELSE <<>>
             n == speculative_status_cnt
  <2>1. S \in Seq(Slots) /\ Len(S) = n /\ n \in Nat /\ (s.commit.commit_lsu => n >= 1)
    BY <1>2, <1>8, QueueFacts, Instances
  <2> HIDE DEF S
  <2>2. /\ T \in Seq(Slots) /\ Len(T) = n - Pop(s)
        /\ \A j \in 1 .. n - Pop(s) : T[j] = S[j + Pop(s)]
    BY <1>9, <2>1
  <2>3. U \in Seq(Slots) /\ Len(U) = Push(s) /\ (s.posted => U[1] = st_req.id)
    BY <1>2, <1>3, <1>9
  <2>4. BUFP!SpecSeq' = T \o U
    BY <1>7, <1>10 DEF S
  <2>5. k \in 1 .. n + Push(s) - Pop(s)
    BY <1>9, <1>10
  <2> HIDE DEF T, U
  <2>6. CASE k + Pop(s) <= n
    <3>1. k \in 1 .. Len(T) /\ k \in Nat
      BY <1>9, <2>1, <2>2, <2>5, <2>6
    <3>2. (T \o U)[k] = T[k]
      BY <2>2, <2>3, <3>1
    <3>3. T[k] = S[k + Pop(s)]
      BY <2>2, <3>1
    <3> QED BY <2>4, <2>6, <3>2, <3>3 DEF S
  <2>7. CASE ~(k + Pop(s) <= n)
    <3>1. s.posted /\ k = Len(T) + 1 /\ Len(U) = 1
      BY <1>9, <2>1, <2>2, <2>3, <2>5, <2>7
    <3>2. (T \o U)[k] = U[1]
      <4>1. Len(T) \in Nat /\ k \in 1 .. Len(T) + Len(U) /\ k - Len(T) = 1 /\ ~(k <= Len(T))
        BY <1>9, <2>1, <2>2, <3>1
      <4>2. T \in Seq(Slots) /\ U \in Seq(Slots)
        BY <2>2, <2>3
      <4>3. (T \o U)[k] = IF k <= Len(T) THEN T[k] ELSE U[k - Len(T)]
        BY <4>1, <4>2
      <4> QED BY <4>1, <4>3
    <3> QED BY <2>3, <2>4, <2>7, <3>1, <3>2
  <2> QED BY <2>6, <2>7
<1>11. BUFP!SpecSeq = BUF!SpecSeq /\ BUFP!SpecSeq' = BUF!SpecSeq'
  BY DEF BUFP!SpecSeq, BUF!SpecSeq, BUFP!Slot, BUF!Slot
<1>12. commit_status_cnt = 0 /\ ~s.commit.commit_lsu => commit_status_cnt' = 0
  <2>1. commit_status_cnt = 0 => ~BUFP!data_req_o
    <3>1. /\ commit_read_pointer \in BUFP!CommitSlots
          /\ commit_queue[commit_read_pointer].valid <=>
               BUFP!Dist(commit_read_pointer, commit_read_pointer, DEPTH_COMMIT) < commit_status_cnt
      BY <1>1 DEF BUFP!CommitTypeOK, BUFP!CommitRing
    <3> QED BY <3>1, Instances DEF BUFP!data_req_o, BUFP!Dist, BUFP!CommitSlots
  <2>2. commit_status_cnt' = BUFP!Wrap(commit_status_cnt + BUFP!One(s.commit.commit_lsu)
                                         - BUFP!One(BUFP!data_req_o /\ in.gnt), DEPTH_COMMIT)
    BY <1>2 DEF BUFP!store_if
  <2> QED BY <2>1, <2>2, Instances DEF BUFP!Wrap, BUFP!One
<1> QED BY <1>6, <1>9, <1>10, <1>11, <1>12

\* The completed stores after a cycle without flush: the one the commit
\* stage retires leaves, the one the store unit posts comes.
Ready == (Stores \cap Completed) \ Amos
ReadyAmos == Stores \cap Completed \cap Amos

\* How the completed stores and AMOs change in a cycle without flush.
LEMMA ReadyNext ==
    ASSUME Quiet, IInv, NEW in, NEW s, Edge(in, s), ~s.flush
    PROVE  /\ \A i : i \in Ready' <=> \/ i \in Ready /\ ~(s.commit.commit_lsu /\ i = commit_pointer[0])
                                      \/ s.posted /\ i = st_req.id
           /\ \A i : i \in ReadyAmos' <=> \/ i \in ReadyAmos
                                          \/ st_state = "VALID_STORE" /\ st_req.amo /\ i = st_req.id
           /\ \A i \in Ready' : i \in InFlight \ Retired(s)
           /\ \A i \in Stores' : i \in Stores \ Retired(s) \/ (i = issue_pointer /\ Issues(in, s))
           /\ \A i \in Amos \ Retired(s) : i \in Amos'
<1>1. /\ InFlight' = (InFlight \ Retired(s)) \cup {i \in {issue_pointer} : Issues(in, s)}
      /\ issue_pointer \notin InFlight
      /\ \A i \in Retired(s) : i = commit_pointer[0] \/ mem[i].instr.fu # "STORE"
      /\ \A i \in InFlight \ Retired(s) :
                /\ mem'[i].instr = mem[i].instr /\ (mem'[i].ex <=> mem[i].ex)
                /\ mem'[i].valid <=> mem[i].valid \/ i \in Written
      /\ Issues(in, s) => \E d \in in.decoded : /\ mem'[issue_pointer].ex <=> d.ex
                                                /\ mem'[issue_pointer].valid <=> d.ex
  BY RingStep
<1>2. /\ s.commit.commit_lsu <=> s.ack[0] /\ e0.instr.fu = "STORE" /\ ~is_amo(e0.instr)
      /\ s.ack[0] => ~is_amo(e0.instr)
      /\ s.ack[1] => s.ack[0]
  BY CommitFacts
<1>3. commit_pointer[0] \in Slots /\ (commit_pointer[0] \in Retired(s) <=> s.ack[0])
  BY <1>2, RingFacts DEF IInv, Retired, SB!Ports
<1>4. \A i \in InFlight : mem[i].instr.fu = "STORE" => ~mem[i].ex
  BY DEF IInv, Decoded
<1>5. \A i \in InFlight : i \in Written /\ mem[i].instr.fu = "STORE" =>
        st_state = "VALID_STORE" /\ i = st_req.id
  BY WrittenFacts DEF Written
<1>6. st_state = "VALID_STORE" =>
        /\ st_req.id \in InFlight /\ ~mem[st_req.id].valid /\ mem[st_req.id].instr.fu = "STORE"
        /\ st_req.amo <=> is_amo(mem[st_req.id].instr)
        /\ st_req.id \in Written
  <2>1. st_state = "VALID_STORE" => st_req.id \in store_ids
    BY DEF store_ids, ST!st_valid_o
  <2> QED BY <2>1, WrittenFacts DEF Written
<1>7. st_state = "VALID_STORE" => st_req.id \notin Retired(s)
  BY <1>6, Kept
<1>8. s.posted <=> st_state = "VALID_STORE" /\ ~st_req.amo
  BY BufferContract
<1>9. \A i \in InFlight : i \in Retired(s) /\ mem[i].instr.fu = "STORE" =>
        i = commit_pointer[0] /\ s.commit.commit_lsu /\ ~is_amo(mem[i].instr)
  BY <1>1, <1>2, <1>3 DEF e0
<1>10. /\ \A i : i \in Ready <=> /\ i \in InFlight /\ mem[i].instr.fu = "STORE" /\ ~mem[i].ex
                                 /\ mem[i].valid /\ ~is_amo(mem[i].instr)
       /\ \A i : i \in ReadyAmos <=> /\ i \in InFlight /\ mem[i].instr.fu = "STORE" /\ ~mem[i].ex
                                     /\ mem[i].valid /\ is_amo(mem[i].instr)
  BY DEF Ready, ReadyAmos, Stores, Completed, Amos
<1>11. /\ \A i : i \in Ready' <=> /\ i \in InFlight' /\ mem'[i].instr.fu = "STORE" /\ ~mem'[i].ex
                                  /\ mem'[i].valid /\ ~is_amo(mem'[i].instr)
       /\ \A i : i \in ReadyAmos' <=> /\ i \in InFlight' /\ mem'[i].instr.fu = "STORE" /\ ~mem'[i].ex
                                      /\ mem'[i].valid /\ is_amo(mem'[i].instr)
  BY DEF Ready, ReadyAmos, Stores, Completed, Amos
<1>12. \A i : /\ i \in InFlight' /\ ~mem'[i].ex /\ mem'[i].valid => i \in InFlight \ Retired(s)
              /\ i \in InFlight \ Retired(s) => i \in InFlight'
  BY <1>1
<1>13. ASSUME NEW i
       PROVE i \in Ready' <=> \/ i \in Ready /\ ~(s.commit.commit_lsu /\ i = commit_pointer[0])
                              \/ s.posted /\ i = st_req.id
  <2>1. ASSUME i \in Ready'
        PROVE  \/ i \in Ready /\ ~(s.commit.commit_lsu /\ i = commit_pointer[0])
               \/ s.posted /\ i = st_req.id
    <3>1. /\ i \in InFlight \ Retired(s) /\ mem[i].instr.fu = "STORE" /\ ~mem[i].ex
          /\ ~is_amo(mem[i].instr) /\ (mem[i].valid \/ i \in Written)
      BY <1>1, <1>11, <1>12, <2>1
    <3>2. ~(s.commit.commit_lsu /\ i = commit_pointer[0])
      BY <1>2, <1>3, <3>1
    <3>3. CASE mem[i].valid
      BY <1>10, <3>1, <3>2, <3>3
    <3>4. CASE i \in Written
      BY <1>5, <1>6, <1>8, <3>1, <3>4
    <3> QED BY <3>1, <3>3, <3>4
  <2>2. ASSUME i \in Ready, ~(s.commit.commit_lsu /\ i = commit_pointer[0])
        PROVE  i \in Ready'
    <3>1. i \in InFlight \ Retired(s)
      BY <1>9, <1>10, <2>2
    <3> QED BY <1>1, <1>10, <1>11, <1>12, <2>2, <3>1
  <2>3. ASSUME s.posted, i = st_req.id
        PROVE  i \in Ready'
    <3>1. i \in InFlight \ Retired(s) /\ i \in Written /\ mem[i].instr.fu = "STORE" /\ ~is_amo(mem[i].instr)
      BY <1>6, <1>7, <1>8, <2>3
    <3> QED BY <1>1, <1>4, <1>11, <1>12, <3>1
  <2> QED BY <2>1, <2>2, <2>3
<1>14. ASSUME NEW i
       PROVE i \in ReadyAmos' <=> \/ i \in ReadyAmos
                                  \/ st_state = "VALID_STORE" /\ st_req.amo /\ i = st_req.id
  <2>1. ASSUME i \in ReadyAmos'
        PROVE  \/ i \in ReadyAmos
               \/ st_state = "VALID_STORE" /\ st_req.amo /\ i = st_req.id
    <3>1. /\ i \in InFlight \ Retired(s) /\ mem[i].instr.fu = "STORE" /\ ~mem[i].ex
          /\ is_amo(mem[i].instr) /\ (mem[i].valid \/ i \in Written)
      BY <1>1, <1>11, <1>12, <2>1
    <3>2. CASE mem[i].valid
      BY <1>10, <3>1, <3>2
    <3>3. CASE i \in Written
      BY <1>5, <1>6, <3>1, <3>3
    <3> QED BY <3>1, <3>2, <3>3
  <2>2. ASSUME i \in ReadyAmos
        PROVE  i \in ReadyAmos'
    <3>1. i \in InFlight \ Retired(s)
      BY <1>9, <1>10, <2>2
    <3> QED BY <1>1, <1>10, <1>11, <1>12, <2>2, <3>1
  <2>3. ASSUME st_state = "VALID_STORE", st_req.amo, i = st_req.id
        PROVE  i \in ReadyAmos'
    <3>1. i \in InFlight \ Retired(s) /\ i \in Written /\ mem[i].instr.fu = "STORE" /\ is_amo(mem[i].instr)
      BY <1>6, <1>7, <2>3
    <3> QED BY <1>1, <1>4, <1>11, <1>12, <3>1
  <2> QED BY <2>1, <2>2, <2>3
<1>15. \A i \in Ready' : i \in InFlight \ Retired(s)
  BY <1>11, <1>12
<1>16. \A i \in Stores' : i \in Stores \ Retired(s) \/ (i = issue_pointer /\ Issues(in, s))
  <2>1. TAKE i \in Stores'
  <2>2. i \in InFlight' /\ mem'[i].instr.fu = "STORE" /\ ~mem'[i].ex
    BY DEF Stores
  <2>3. CASE i \in InFlight \ Retired(s)
    BY <1>1, <2>2, <2>3 DEF Stores
  <2> QED BY <1>1, <2>2, <2>3
<1>17. \A i \in Amos \ Retired(s) : i \in Amos'
  BY <1>1 DEF Amos
<1> QED BY <1>13, <1>14, <1>15, <1>16, <1>17

\* The speculative queue and the AMO buffer keep up with the scoreboard.
LEMMA PostedNext ==
    ASSUME Quiet, IInv, NEW in, NEW s, Edge(in, s), ~s.flush
    PROVE  Posted'
<1> DEFINE n == speculative_status_cnt
           n1 == speculative_status_cnt'
           S == BUF!SpecSeq
           S1 == BUF!SpecSeq'
<1>0. /\ n \in 0 .. DEPTH_SPEC /\ DEPTH_SPEC \in Nat
      /\ \A k \in 1 .. n : S[k] \in Ready /\ Older(S[k])
      /\ \A i \in Ready : \E k \in 1 .. n : S[k] = i
      /\ \A k, l \in 1 .. n : k < l => Age(S[k]) < Age(S[l])
  BY QueueFacts, Instances DEF Ready
<1>1. /\ n1 = n + Push(s) - Pop(s)
      /\ \A k \in 1 .. n1 : S1[k] = IF k + Pop(s) <= n THEN S[k + Pop(s)] ELSE st_req.id
  BY BufferNext
<1>2. /\ s.posted \in BOOLEAN /\ s.commit.commit_lsu \in BOOLEAN
      /\ s.posted <=> st_state = "VALID_STORE" /\ ~st_req.amo
      /\ s.posted => st_req \in InUnit /\ n < DEPTH_SPEC
      /\ s.commit.commit_lsu => n >= 1 /\ S[1] = commit_pointer[0]
  BY BufferContract
<1>3. /\ Push(s) = (IF s.posted THEN 1 ELSE 0) /\ Pop(s) = (IF s.commit.commit_lsu THEN 1 ELSE 0)
  BY DEF Push, Pop, SB!One
<1>4. /\ \A i : i \in Ready' <=> \/ i \in Ready /\ ~(s.commit.commit_lsu /\ i = commit_pointer[0])
                                 \/ s.posted /\ i = st_req.id
      /\ \A i \in Ready' : i \in InFlight \ Retired(s)
      /\ \A i : i \in ReadyAmos' <=> \/ i \in ReadyAmos
                                     \/ st_state = "VALID_STORE" /\ st_req.amo /\ i = st_req.id
  BY ReadyNext
<1>5. \A i \in InFlight \ Retired(s) : Age(i)' = Age(i) - Num(s) /\ Age(i) \in Int
  <2>1. \A i \in InFlight \ Retired(s) : Age(i)' = Age(i) - Num(s)
    BY RingStep
  <2>2. \A i \in InFlight : Age(i) \in Int
    BY RingFacts DEF IInv, InFlight, Slots
  <2> QED BY <2>1, <2>2
<1>6. Num(s) \in Int
  BY RingStep
<1>7. \A k \in 1 .. n1 : \/ k + Pop(s) \in 1 .. n /\ S1[k] = S[k + Pop(s)]
                         \/ k + Pop(s) = n + 1 /\ s.posted /\ S1[k] = st_req.id
  BY <1>0, <1>1, <1>3
<1> HIDE DEF n, n1, S, S1
<1>8. \A k \in 1 .. n1 : S1[k] \in Ready'
  <2>1. TAKE k \in 1 .. n1
  <2>2. CASE k + Pop(s) \in 1 .. n /\ S1[k] = S[k + Pop(s)]
    <3>1. S[k + Pop(s)] \in Ready
      BY <1>0, <2>2
    <3>2. s.commit.commit_lsu => S[k + Pop(s)] # S[1]
      <4>1. s.commit.commit_lsu => 1 < k + Pop(s) /\ 1 \in 1 .. n
        BY <1>0, <1>3, <2>2
      <4>2. s.commit.commit_lsu => Age(S[1]) < Age(S[k + Pop(s)]) /\ Age(S[1]) \in Int
        <5>1. \A i \in Ready : Age(i) \in Int
          BY RingFacts DEF IInv, Ready, Stores, InFlight, Slots
        <5> QED BY <1>0, <2>2, <4>1, <5>1
      <4> QED BY <4>2
    <3> QED BY <1>2, <1>4, <2>2, <3>1, <3>2
  <2>3. CASE s.posted /\ S1[k] = st_req.id
    BY <1>4, <2>3
  <2> QED BY <1>7, <2>2, <2>3
<1>9. \A i \in Ready' : \E k \in 1 .. n1 : S1[k] = i
  <2>1. TAKE i \in Ready'
  <2>2. CASE i \in Ready /\ ~(s.commit.commit_lsu /\ i = commit_pointer[0])
    <3>1. PICK k \in 1 .. n : S[k] = i
      BY <1>0, <2>2
    <3>2. k - Pop(s) \in 1 .. n1 /\ (k - Pop(s)) + Pop(s) = k
      BY <1>0, <1>1, <1>2, <1>3, <2>2, <3>1 DEF n1, n
    <3>3. S1[k - Pop(s)] = S[k]
      <4>1. ~((k - Pop(s)) + Pop(s) = n + 1)
        BY <1>0, <3>1, <3>2
      <4> QED BY <1>7, <3>2, <4>1
    <3> QED BY <3>1, <3>2, <3>3
  <2>3. CASE s.posted /\ i = st_req.id
    <3>1. n1 \in 1 .. n1 /\ n1 + Pop(s) = n + 1
      BY <1>0, <1>1, <1>2, <1>3, <2>3 DEF n1, n
    <3>2. S1[n1] = st_req.id
      BY <1>0, <1>7, <3>1
    <3> QED BY <2>3, <3>1, <3>2
  <2> QED BY <1>4, <2>2, <2>3
<1>10. \A i \in Ready \cup {st_req.id} : i \in Ready' => Older(i)
  <2>1. \A i \in Ready : Older(i)
    BY <1>0
  <2>2. s.posted => Older(st_req.id)
    BY <1>2 DEF IInv, Requests
  <2> QED BY <1>4, <2>1, <2>2
<1>11. ASSUME NEW k \in 1 .. n1, NEW l \in 1 .. n1, k < l
       PROVE  Age(S1[k]) < Age(S1[l])
  <2>1. k + Pop(s) < l + Pop(s) /\ k + Pop(s) \in 1 .. n /\ S1[k] = S[k + Pop(s)]
    BY <1>0, <1>1, <1>3, <1>7, <1>11 DEF n1, n
  <2>2. CASE l + Pop(s) \in 1 .. n /\ S1[l] = S[l + Pop(s)]
    BY <1>0, <2>1, <2>2
  <2>3. CASE s.posted /\ S1[l] = st_req.id
    <3>1. \A x \in Queued : \A r \in InUnit : Age(x.id) < Age(r.id)
      BY DEF IInv, Posted
    <3>2. [at |-> k + Pop(s), id |-> S[k + Pop(s)]] \in Queued
      BY <2>1 DEF Queued, n, S
    <3> QED BY <1>2, <2>1, <2>3, <3>1, <3>2
  <2> QED BY <1>7, <2>2, <2>3
<1>12. \A x : x \in Queued' <=> \E k \in 1 .. n1 : x = [at |-> k, id |-> S1[k]]
  BY DEF Queued, n1, S1
<1>13. \A x \in Queued' : /\ x.at \in 1 .. n1 /\ x.id = S1[x.at] /\ x.id \in Ready'
                          /\ x.id \in InFlight \ Retired(s)
                          /\ Age(x.id)' = Age(x.id) - Num(s) /\ Age(x.id) \in Int
                          /\ Older(x.id)
  <2>1. TAKE x \in Queued'
  <2>2. PICK k \in 1 .. n1 : x = [at |-> k, id |-> S1[k]]
    BY <1>12
  <2>3. x.at = k /\ x.id = S1[k]
    BY <2>2
  <2>4. x.id \in Ready'
    BY <1>8, <2>3
  <2>5. x.id \in InFlight \ Retired(s) /\ x.id \in Ready \cup {st_req.id}
    BY <1>4, <2>4
  <2> QED BY <1>5, <1>10, <2>3, <2>4, <2>5
<1>14. \A x, y \in Queued' : x.at < y.at => Age(x.id)' < Age(y.id)'
  <2> SUFFICES ASSUME NEW x \in Queued', NEW y \in Queued', x.at < y.at
               PROVE  Age(x.id)' < Age(y.id)'
    OBVIOUS
  <2>1. Age(x.id) < Age(y.id)
    BY <1>11, <1>13
  <2> QED BY <1>6, <1>13, <2>1
<1>15. {x.id : x \in Queued'} = Ready'
  <2>1. \A i \in Ready' : \E x \in Queued' : x.id = i
    <3>1. TAKE i \in Ready'
    <3>2. PICK k \in 1 .. n1 : S1[k] = i
      BY <1>9
    <3>3. [at |-> k, id |-> i] \in Queued'
      BY <1>12, <3>2
    <3> QED BY <3>3
  <2> QED BY <1>13, <2>1
<1>16. \A x \in Queued' : Older(x.id)' /\ \A r \in InUnit' : Age(x.id)' < Age(r.id)'
  <2>1. TAKE x \in Queued'
  <2>2. Older(x.id)'
    BY <1>13, OlderNext
  <2>3. ASSUME NEW r \in InUnit' PROVE Age(x.id)' < Age(r.id)'
    <3>1. r \in Firsts
      BY StoreUnitNext
    <3>2. Age(x.id) < Age(r.id)
      BY <1>13, <3>1 DEF Older
    <3>3. r.id \in InFlight \ Retired(s)
      BY <3>1, WaitingKept
    <3> QED BY <1>5, <1>6, <1>13, <3>2, <3>3
  <2> QED BY <2>2, <2>3
<1>17. amo_fifo' = ReadyAmos'
  <2>1. ST!StoreUnitCycle(FALSE, s.st, TRUE, FALSE, s.st_ready, s.commit.amo_valid_commit, in.amo_ack)
    <3>1. s.flush = FALSE
      BY CommitFacts
    <3> QED BY <3>1 DEF Edge, Cycle
  <2>2. ~in.amo_ack
    BY CommitFacts
  <2>3. amo_fifo' = IF st_state = "VALID_STORE" /\ st_req.amo /\ amo_fifo = {} THEN {st_req.id} ELSE amo_fifo
    BY <2>1, <2>2 DEF ST!StoreUnitCycle, ST!amo_fifo_kept, ST!amo_buffer_valid, ST!st_valid
  <2>4. amo_fifo = ReadyAmos
    BY DEF IInv, Posted, StoreAgreement, ReadyAmos
  <2>5. st_state = "VALID_STORE" /\ st_req.amo => amo_fifo = {}
    BY DEF IInv, Posted, InUnit
  <2> QED BY <1>4, <2>3, <2>4, <2>5
<1>18. \A r \in InUnit' : IF r.amo THEN amo_fifo' = {} ELSE n1 < DEPTH_SPEC
  <2>1. TAKE r \in InUnit'
  <2>2. r = r1 /\ TakesSt(s)
    BY StoreUnitNext DEF Firsts
  <2>3. /\ s.st_ready
        /\ st_state = "IDLE" \/ (st_state = "VALID_STORE" /\ ~r.amo)
    BY <2>2, FrontFacts
  <2>4. s.st_ready = (BUF!ready_o(s.commit.commit_lsu) /\ ST!amo_buffer_ready)
    BY UnitSignals DEF Edge
  <2>5. amo_fifo = {} /\ (n < DEPTH_SPEC - 1 \/ s.commit.commit_lsu)
    BY <2>3, <2>4 DEF BUF!ready_o, ST!amo_buffer_ready, n
  <2>6. CASE r.amo
    <3>1. st_state = "IDLE"
      BY <2>3, <2>6
    <3>2. ReadyAmos = {}
      BY <2>5 DEF IInv, Posted, StoreAgreement, ReadyAmos
    <3> QED BY <1>4, <1>17, <2>6, <3>1, <3>2
  <2>7. CASE ~r.amo
    BY <1>0, <1>1, <1>2, <1>3, <2>5, <2>7 DEF n, n1
  <2> QED BY <2>6, <2>7
<1>19. st_state' # "WAIT_TRANSLATION"
  BY StoreUnitNext
<1>20. StoreAgreement'
  <2>1. Ready' = ((Stores \cap Completed) \ Amos)' /\ ReadyAmos' = (Stores \cap Completed \cap Amos)'
    BY DEF Ready, ReadyAmos
  <2> QED BY <1>14, <1>15, <1>17, <2>1 DEF StoreAgreement, InProgramOrder, Queued
<1> QED BY <1>16, <1>18, <1>19, <1>20 DEF Posted, n1

-----------------------------------------------------------------------------
(* Loads and the stores before them.                                       *)

\* The request a unit takes is older than the next first one.
LEMMA PoppedOlder ==
    ASSUME Quiet, IInv, NEW in, NEW s, Edge(in, s), ~s.flush,
           NEW r \in Firsts, Pops(in, s)
    PROVE  Older(r.id)'
<1> SUFFICES ASSUME NEW q \in Firsts' PROVE Age(r.id)' < Age(q.id)'
  BY DEF Older
<1>1. r.id \in InFlight \ Retired(s) /\ Age(r.id)' = Age(r.id) - Num(s)
  BY WaitingKept
<1>2. /\ \A j \in InFlight : Age(j) \in Int
      /\ Num(s) \in Int
  <2>1. \A j \in InFlight : Age(j) \in Int
    BY RingFacts DEF IInv, InFlight, Slots
  <2> QED BY <2>1, RingStep
<1>3. CASE q \in Seconds
  <2>1. Age(r.id) < Age(q.id)
    BY <1>3 DEF IInv, Requests, Firsts
  <2>2. Age(q.id)' = Age(q.id) - Num(s) /\ q.id \in InFlight
    BY <1>3, WaitingKept
  <2> QED BY <1>1, <1>2, <2>1, <2>2
<1>4. CASE q \in Executing'
  BY <1>1, <1>4, NewRequest
<1> QED BY <1>3, <1>4, Moves

\* A load that nothing older holds back is not held back later.
LEMMA ClearNext ==
    ASSUME Quiet, IInv, NEW in, NEW s, Edge(in, s), ~s.flush,
           NEW i \in InFlight \ Retired(s), Clear(i)
    PROVE  Clear(i)'
<1>0. /\ \A j \in Slots : Age(j) \in Slots /\ (j \in InFlight <=> Age(j) < issue_cnt)
                          /\ (mem[j].valid => j \in InFlight)
      /\ commit_pointer[0] \in Slots /\ Age(commit_pointer[0]) = 0 /\ issue_cnt \in Slots
  BY RingFacts DEF IInv
<1>1. commit_status_cnt = 0 /\ \A j \in Stores \ Amos : Age(i) < Age(j)
  BY DEF Clear
<1>2. ~s.commit.commit_lsu
  <2>1. /\ s.commit.commit_lsu => s.ack[0] /\ e0.instr.fu = "STORE" /\ ~is_amo(e0.instr)
        /\ s.ack[0] => e0.valid /\ ~e0.ex
    BY CommitFacts
  <2>2. s.commit.commit_lsu => commit_pointer[0] \in Stores \ Amos
    BY <1>0, <2>1 DEF e0, Stores, Amos
  <2> QED BY <1>0, <1>1, <2>2 DEF InFlight, Slots
<1>3. commit_status_cnt' = 0
  BY <1>1, <1>2, BufferNext
<1>4. ASSUME NEW j \in Stores' \ Amos' PROVE Age(i)' < Age(j)'
  <2>1. /\ \A k \in InFlight \ Retired(s) : Age(k)' = Age(k) - Num(s)
        /\ Num(s) \in 0 .. 2
    BY RingStep
  <2>2. CASE j \in Stores \ Retired(s)
    <3>1. j \notin Amos
      BY <2>2, ReadyNext
    <3>2. Age(i) < Age(j) /\ j \in InFlight
      BY <1>1, <2>2, <3>1 DEF Stores
    <3> QED BY <1>0, <2>1, <2>2, <3>2 DEF InFlight, Slots
  <2>3. CASE j = issue_pointer /\ Issues(in, s)
    <3>1. \A k \in Slots : k = issue_pointer => Age(k)' = issue_cnt - Num(s)
      BY <2>3, RingStep
    <3>2. j \in Slots
      BY <2>3, RingFacts DEF IInv
    <3> QED BY <1>0, <2>1, <2>3, <3>1, <3>2 DEF InFlight, Slots
  <2> QED BY <2>2, <2>3, ReadyNext
<1> QED BY <1>3, <1>4 DEF Clear

\* The interlock: a load that finds no page offset of its own finds no
\* older store at all.
LEMMA AskedClear ==
    ASSUME IInv, NEW in, NEW s, Edge(in, s), ~s.matches,
           r1 # NoReq, r1.fu = "LOAD", ~r1.io
    PROVE  Clear(r1.id)
<1>1. ~page_offset_matches /\ ForUnit("LOAD") = r1
  <2>1. s.ld = r1
    BY FrontFacts
  <2>2. s.ld = ForUnit("LOAD") /\ s.matches = page_offset_matches
    BY UnitSignals DEF Edge
  <2> QED BY <2>1, <2>2
<1>2. ~BUF!page_offset_matches_o(0, IF st_state = "VALID_STORE" THEN {0} ELSE {})
  BY <1>1 DEF page_offset_matches
<1>3. BUFP!SpecTypeOK /\ BUFP!SpecRing /\ BUFP!CommitTypeOK /\ BUFP!CommitRing
  BY QueueFacts
<1>4. /\ \A k \in BUF!CommitSlots : ~commit_queue[k].valid
      /\ \A k \in BUF!SpecSlots : ~speculative_queue[k].valid
      /\ st_state # "VALID_STORE"
  <2>1. /\ \A k \in BUF!CommitSlots : commit_queue[k].st \in Slots
        /\ \A k \in BUF!SpecSlots : speculative_queue[k].st \in Slots
    BY <1>3 DEF BUFP!CommitTypeOK, BUFP!SpecTypeOK, BUFP!Entry, BUFP!CommitSlots, BUFP!SpecSlots,
       BUF!CommitSlots, BUF!SpecSlots
  <2> QED BY <1>2, <2>1 DEF BUF!page_offset_matches_o
<1>5. commit_status_cnt = 0
  <2>1. /\ commit_read_pointer \in BUF!CommitSlots
        /\ commit_queue[commit_read_pointer].valid <=>
             BUFP!Dist(commit_read_pointer, commit_read_pointer, DEPTH_COMMIT) < commit_status_cnt
        /\ commit_status_cnt \in Nat
    BY <1>3, Instances DEF BUFP!CommitTypeOK, BUFP!CommitRing, BUF!CommitSlots, BUFP!CommitSlots
  <2> QED BY <1>4, <2>1, Instances DEF BUFP!Dist, BUF!CommitSlots
<1>6. speculative_status_cnt = 0
  <2>1. /\ speculative_read_pointer \in BUF!SpecSlots
        /\ speculative_queue[speculative_read_pointer].valid <=>
             BUFP!Dist(speculative_read_pointer, speculative_read_pointer, DEPTH_SPEC) < speculative_status_cnt
        /\ speculative_status_cnt \in Nat
    BY <1>3, Instances DEF BUFP!SpecTypeOK, BUFP!SpecRing, BUF!SpecSlots, BUFP!SpecSlots
  <2> QED BY <1>4, <2>1, Instances DEF BUFP!Dist, BUF!SpecSlots
<1>7. ASSUME NEW j \in Stores \ Amos PROVE Age(r1.id) < Age(j)
  <2>1. j \in InFlight /\ mem[j].instr.fu = "STORE" /\ ~mem[j].valid
    <3>1. \A k \in (Stores \cap Completed) \ Amos : \E l \in 1 .. speculative_status_cnt : BUF!SpecSeq[l] = k
      BY QueueFacts
    <3> QED BY <1>6, <3>1 DEF Stores, Completed
  <2>2. \/ j \in flu_ids
        \/ \E r \in Firsts \cup Seconds : r.id = j
        \/ \E r \in InUnit : r.id = j
    BY <2>1 DEF IInv, Found
  <2>3. j \notin flu_ids
    BY <2>1, WrittenFacts
  <2>4. PICK r \in Firsts \cup Seconds : r.id = j
    BY <1>4, <2>2, <2>3 DEF InUnit
  <2>5. r \notin Firsts
    <3>1. \A q \in Firsts : Open(q) /\ q.fu = "LOAD"
      BY DEF IInv, Requests, Firsts
    <3> QED BY <2>1, <2>4, <3>1 DEF Open
  <2>6. \E q \in Firsts : Age(q.id) < Age(r.id)
    BY <2>4, <2>5 DEF IInv, Requests
  <2> QED BY <2>4, <2>6 DEF Firsts
<1> QED BY <1>5, <1>7 DEF Clear

\* A load that is granted has no older store left.
LEMMA TakenClear ==
    ASSUME Quiet, IInv, NEW in, NEW s, Edge(in, s), ~s.flush, TakesLd(in, s)
    PROVE  Clear(r1.id)
<1>1. /\ r1 # NoReq /\ r1.fu = "LOAD" /\ in.ld_gnt /\ ~s.stall /\ s.ld = r1
  BY FrontFacts
<1>2. CASE ~r1.io
  <2>1. CASE ld_state = "WAIT_GNT"
    BY <1>1, <1>2, <2>1 DEF IInv, LoadUnit, Firsts
  <2>2. CASE ~s.matches
    BY <1>1, <1>2, <2>2, AskedClear
  <2> QED BY <2>1, <2>2, LoadStep
<1>3. CASE r1.io
  <2>1. commit_status_cnt = 0 /\ commit_pointer[0] = r1.id
    BY <1>1, <1>3, LoadInputs
  <2>2. /\ \A j \in Slots : Age(j) \in Slots
        /\ \A j, k \in Slots : Age(j) = Age(k) => j = k
        /\ Age(commit_pointer[0]) = 0 /\ commit_pointer[0] \in Slots
    BY RingFacts DEF IInv
  <2>3. r1.id = commit_pointer[0] /\ mem[r1.id].instr.fu = "LOAD"
    BY <1>1, <2>1 DEF IInv, Requests, Firsts, Open
  <2>4. \A j \in Stores : j \in Slots /\ j # commit_pointer[0]
    BY <2>3 DEF Stores, InFlight
  <2>5. \A j \in Stores : Age(commit_pointer[0]) < Age(j)
    BY <2>2, <2>4 DEF Slots
  <2> QED BY <2>1, <2>5 DEF Clear
<1> QED BY <1>2, <1>3

\* A load in flight that is not written back stays one.
LEMMA ReadingNext ==
    ASSUME Quiet, IInv, NEW in, NEW s, Edge(in, s), ~s.flush,
           NEW i \in Outstanding
    PROVE  /\ Reading(i)' /\ i \in InFlight \ Retired(s)
           /\ \A r \in Firsts : Age(i) < Age(r.id)
<1>1. Reading(i)
  BY DEF IInv, LoadUnit
<1>2. i \in InFlight /\ mem[i].instr.fu = "LOAD" /\ ~mem[i].valid /\ Older(i)
  BY <1>1 DEF Reading, Loads
<1>3. i \notin Written
  BY WrittenFacts
<1>4. /\ i \notin Retired(s) /\ i \in InFlight'
      /\ mem'[i].instr = mem[i].instr /\ ~mem'[i].valid
  BY <1>2, <1>3, Kept
<1>5. Older(i)'
  BY <1>2, <1>4, OlderNext
<1>6. Reading(i)'
  BY <1>2, <1>4, <1>5 DEF Reading, Loads
<1> QED BY <1>2, <1>4, <1>6 DEF Older

\* The load unit keeps up with the scoreboard.
LEMMA LoadUnitNext ==
    ASSUME Quiet, IInv, NEW in, NEW s, Edge(in, s), ~s.flush
    PROVE  LoadUnit'
<1>1. /\ \A i : i \in Outstanding' <=> \/ TakesLd(in, s) /\ i = r1.id
                                       \/ i \in Outstanding /\ ~in.ld_answer
      /\ \A i : i \in ld_pipe' <=> i \in Outstanding /\ in.ld_answer
      /\ \A i, j \in ld_pipe' : i = j
      /\ ld_state' \in Holding => r1 # NoReq /\ r1.fu = "LOAD" /\ ~Pops(in, s)
      /\ ld_state' \in {"ABORT_TRANSACTION_NI", "WAIT_WB_EMPTY", "WAIT_TRANSLATION"} => r1.io
      /\ ld_state' \in {"WAIT_WB_EMPTY", "WAIT_TRANSLATION"} => ld_port' # "out"
      /\ ld_state' = "WAIT_GNT" => \/ ld_state = "WAIT_GNT"
                                   \/ r1.io
                                   \/ ~s.matches
  BY LoadStep
<1>2. TakesLd(in, s) => r1 \in Firsts /\ r1.fu = "LOAD" /\ Pops(in, s)
  BY FrontFacts DEF Firsts, Pops
<1>3. ASSUME TakesLd(in, s), NEW i, i = r1.id
      PROVE  Reading(i)' /\ Clear(i)' /\ i \in InFlight \ Retired(s)
  <2>1. PICK r \in Firsts : r = r1 /\ r.id = i
    BY <1>2, <1>3
  <2>2. /\ i \in InFlight \ Retired(s) /\ Open(r)' /\ r.fu = "LOAD"
    BY <1>2, <1>3, <2>1, WaitingKept
  <2>3. Older(i)'
    BY <1>2, <1>3, <2>1, PoppedOlder
  <2>4. Reading(i)'
    BY <2>1, <2>2, <2>3 DEF Reading, Loads, Open
  <2>5. Clear(i)
    BY <1>3, TakenClear
  <2> QED BY <2>2, <2>4, <2>5, ClearNext
<1>4. ASSUME NEW i \in Outstanding'
      PROVE  Reading(i)' /\ Clear(i)'
  <2>1. CASE TakesLd(in, s) /\ i = r1.id
    BY <1>3, <2>1
  <2>2. CASE i \in Outstanding
    <3>1. Clear(i)
      BY <2>2 DEF IInv, LoadUnit
    <3> QED BY <2>2, <3>1, ReadingNext, ClearNext
  <2> QED BY <1>1, <2>1, <2>2
<1>5. ASSUME NEW i \in ld_pipe'
      PROVE  Reading(i)' /\ \A j \in Outstanding' : Age(i)' < Age(j)'
  <2>1. i \in Outstanding /\ in.ld_answer
    BY <1>1
  <2>2. Reading(i)' /\ i \in InFlight \ Retired(s)
    BY <2>1, ReadingNext
  <2>3. ASSUME NEW j \in Outstanding' PROVE Age(i)' < Age(j)'
    <3>1. TakesLd(in, s) /\ j = r1.id
      BY <1>1, <2>1
    <3>2. r1 \in Firsts /\ j \in InFlight \ Retired(s)
      BY <1>2, <1>3, <3>1
    <3>3. Age(i) < Age(j)
      BY <2>1, <3>1, <3>2, ReadingNext
    <3>4. Age(i)' = Age(i) - Num(s) /\ Age(j)' = Age(j) - Num(s) /\ Num(s) \in 0 .. 2
      BY <2>2, <3>2, RingStep
    <3>5. Age(i) \in Int /\ Age(j) \in Int
      BY <2>2, <3>2, RingFacts DEF IInv, InFlight, Slots
    <3> QED BY <3>3, <3>4, <3>5
  <2> QED BY <2>2, <2>3
<1>6. ld_state' \in Holding => r1' = r1
  <2>1. ld_state' \in Holding => Firsts = {r1} /\ r1 \in Firsts'
    BY <1>1, Moves DEF Firsts
  <2> QED BY <2>1 DEF Firsts
<1>7. ld_state' = "WAIT_GNT" => \A r \in Firsts' : ~r.io => Clear(r.id)'
  <2> SUFFICES ASSUME ld_state' = "WAIT_GNT", NEW r \in Firsts', ~r.io PROVE Clear(r.id)'
    OBVIOUS
  <2>1. r = r1 /\ r1 # NoReq /\ r1.fu = "LOAD" /\ r \in Firsts
    BY <1>1, <1>6 DEF Holding, Firsts
  <2>2. Clear(r.id)
    <3>1. CASE ld_state = "WAIT_GNT"
      BY <2>1, <3>1 DEF IInv, LoadUnit
    <3>2. CASE ~s.matches
      BY <2>1, <3>2, AskedClear
    <3> QED BY <1>1, <2>1, <3>1, <3>2
  <2>3. r.id \in InFlight \ Retired(s)
    BY <2>1, WaitingKept
  <2> QED BY <2>2, <2>3, ClearNext
<1>8. /\ ld_state' \in Holding => r1' # NoReq /\ r1'.fu = "LOAD"
      /\ ld_state' \in {"ABORT_TRANSACTION_NI", "WAIT_WB_EMPTY", "WAIT_TRANSLATION"} => r1'.io
  BY <1>1, <1>6 DEF Holding
<1> QED BY <1>1, <1>4, <1>5, <1>7, <1>8 DEF LoadUnit

-----------------------------------------------------------------------------
(* The CSR buffer.                                                         *)

\* A waiting fence stays in the commit stage until it flushes.
LEMMA FencingNext ==
    ASSUME Quiet, IInv, NEW in, NEW s, Edge(in, s), ~s.flush, Fencing
    PROVE  Fencing'
<1>1. e0.valid /\ e0.instr.op \in WaitsForStores
  BY DEF Fencing, SB!commit_instr_o, e0
<1>2. ~s.ack[0] /\ ~s.ack[1]
  BY <1>1, CommitFacts
<1>3. /\ commit_pointer[0] \in Slots /\ commit_pointer[0] \in InFlight
  BY <1>1, RingFacts DEF IInv, e0
<1>4. Retired(s) = {} /\ Num(s) = 0
  BY <1>2 DEF Retired, SB!Ports, Num, SB!One
<1>5. /\ mem'[commit_pointer[0]].instr = mem[commit_pointer[0]].instr
      /\ mem'[commit_pointer[0]].valid
  BY <1>1, <1>3, <1>4, RingStep DEF e0
<1>6. commit_pointer'[0] = commit_pointer[0]
  <2>1. /\ Age(commit_pointer[0]) = 0
        /\ \A i \in InFlight : Age(i)' = Age(i) - 0
    <3>1. \A i \in InFlight \ Retired(s) : Age(i)' = Age(i) - Num(s)
      BY RingStep
    <3> QED BY <1>4, <3>1, RingFacts DEF IInv
  <2>2. commit_pointer'[0] \in Slots
    BY ScoreboardNext DEF SBP!Inv, SBP!TypeOK, SBP!Slots, SBP!Ports, Slots
  <2>3. \A i \in InFlight : i = commit_pointer[0] => SB!Dist(i, commit_pointer'[0]) = 0
    BY <2>1 DEF Age
  <2> QED BY <1>3, <2>2, <2>3, Instances DEF SB!Dist, Slots
<1> QED BY <1>1, <1>5, <1>6 DEF Fencing, SB!commit_instr_o, e0

\* An instruction of the CSR unit that has not completed is executing.
LEMMA CsrExecuting ==
    ASSUME IInv, NEW i \in CsrOps, ~mem[i].valid
    PROVE  Uses("CSR") /\ fu_data.id = i /\ i \in Written
<1>1. i \in InFlight /\ mem[i].instr.fu = "CSR"
  BY DEF CsrOps
<1>2. \A r \in Firsts \cup Seconds \cup InUnit : r.id # i
  BY <1>1 DEF IInv, Requests, Open
<1>3. i \in flu_ids
  BY <1>1, <1>2 DEF IInv, Found
<1>4. fu_data # NoReq /\ fu_data.id = i /\ fu_data.fu = "CSR"
  BY <1>1, <1>3, WrittenFacts
<1> QED BY <1>3, <1>4 DEF Uses, Written

\* The CSR buffer keeps the address of the one instruction it belongs to.
LEMMA CsrUnitNext ==
    ASSUME Quiet, IInv, NEW in, NEW s, Edge(in, s), ~s.flush
    PROVE  CsrUnit'
<1>1. CASE Fencing
  <2>1. Fencing'
    BY <1>1, FencingNext
  <2> QED BY <2>1 DEF CsrUnit
<1>2. CASE ~Fencing
  <2>1. /\ \A i, j \in CsrOps : i = j
        /\ \A i \in CsrOps : mem[i].valid => csr_valid /\ csr_address = i
    BY <1>2 DEF IInv, CsrUnit
  <2>2. /\ csr_address' = IF Uses("CSR") THEN fu_data.id ELSE csr_address
        /\ csr_valid' = (Uses("CSR") \/ (csr_valid /\ ~s.commit.commit_csr))
    <3>1. CB!CsrBufferCycle(s.flush, Uses("CSR"), IF Uses("CSR") THEN fu_data.id ELSE 0,
                            s.commit.commit_csr)
      BY DEF Edge, Cycle
    <3> QED BY <3>1 DEF CB!CsrBufferCycle
  <2>3. s.commit.commit_csr => commit_pointer[0] \in CsrOps \cap Retired(s)
    <3> SUFFICES ASSUME s.commit.commit_csr PROVE commit_pointer[0] \in CsrOps \cap Retired(s)
      OBVIOUS
    <3>1. e0.valid /\ e0.instr.fu = "CSR" /\ s.ack[0]
      BY <1>2, CommitFacts DEF Fencing, SB!commit_instr_o, e0
    <3>2. commit_pointer[0] \in Slots /\ commit_pointer[0] \in InFlight
      BY <3>1, RingFacts DEF IInv, e0
    <3> QED BY <3>1, <3>2 DEF CsrOps, e0, Retired, SB!Ports
  <2>4. Uses("CSR") => fu_data.id \in CsrOps /\ ~mem[fu_data.id].valid
    <3> SUFFICES ASSUME Uses("CSR") PROVE fu_data.id \in CsrOps /\ ~mem[fu_data.id].valid
      OBVIOUS
    <3>1. fu_data \in Executing /\ fu_data.fu = "CSR"
      BY DEF Uses, Executing
    <3> QED BY <3>1 DEF IInv, Requests, Open, CsrOps
  <2>5. \A i \in CsrOps' : i \in CsrOps \ Retired(s) \/ (i = issue_pointer /\ Issues(in, s))
    <3>1. \A i \in InFlight' : i \in InFlight \ Retired(s) \/ (i = issue_pointer /\ Issues(in, s))
      BY RingStep
    <3>2. \A i \in InFlight \ Retired(s) : mem'[i].instr = mem[i].instr
      BY RingStep
    <3> QED BY <3>1, <3>2 DEF CsrOps
  <2>6. ASSUME Issues(in, s), issue_pointer \in CsrOps'
        PROVE  ~mem'[issue_pointer].valid /\ CsrOps \subseteq Retired(s)
    <3>1. PICK d \in in.decoded : /\ mem'[issue_pointer].instr = d.instr
                                  /\ mem'[issue_pointer].valid <=> d.ex
      BY <2>6, RingStep
    <3>2. d.instr.fu = "CSR"
      BY <2>6, <3>1 DEF CsrOps
    <3>3. ~d.ex /\ ~Traps(d.instr) /\ \A f \in in.decoded : f = d
      BY <3>2, InputFacts DEF Traps
    <3>4. CB!csr_ready_o(Uses("CSR"), s.commit.commit_csr)
      <4>1. fu_data' = ReqOf(issue_pointer, d.instr) /\ (fu_data'.fu = "CSR" => CB!csr_ready_o(Uses("CSR"), s.commit.commit_csr))
        BY <2>6, <3>3, FuStep
      <4> QED BY <3>2, <4>1 DEF ReqOf
    <3>5. s.commit.commit_csr \/ ~(csr_valid \/ Uses("CSR"))
      BY <3>4 DEF CB!csr_ready_o
    <3>6. ASSUME NEW i \in CsrOps PROVE i \in Retired(s)
      <4>1. csr_valid \/ Uses("CSR")
        BY <2>1, <3>6, CsrExecuting
      <4> QED BY <2>1, <2>3, <3>5, <3>6, <4>1
    <3> QED BY <3>1, <3>3, <3>6
  <2>7. \A i, j \in CsrOps' : i = j
    BY <2>1, <2>5, <2>6
  <2>8. ASSUME NEW i \in CsrOps \ Retired(s), mem'[i].valid
        PROVE  csr_valid' /\ csr_address' = i
    <3>1. ~s.commit.commit_csr
      BY <2>1, <2>3, <2>8
    <3>2. CASE mem[i].valid
      <4>1. csr_valid /\ csr_address = i
        BY <2>1, <3>2
      <4>2. ~Uses("CSR")
        BY <2>1, <2>4, <3>2
      <4> QED BY <2>2, <3>1, <4>1, <4>2
    <3>3. CASE ~mem[i].valid
      BY <2>2, <3>3, CsrExecuting
    <3> QED BY <3>2, <3>3
  <2>9. \A i \in CsrOps' : mem'[i].valid => csr_valid' /\ csr_address' = i
    BY <2>5, <2>6, <2>8
  <2> QED BY <2>7, <2>9 DEF CsrUnit
<1> QED BY <1>1, <1>2

-----------------------------------------------------------------------------
(* The rest of the registers.                                              *)

\* Exceptions come from decode alone in this build.
LEMMA DecodedNext ==
    ASSUME Quiet, IInv, NEW in, NEW s, Edge(in, s), ~s.flush
    PROVE  Decoded'
<1> SUFFICES ASSUME NEW i \in InFlight'
             PROVE  /\ mem'[i].ex <=> mem'[i].instr.fu = "NONE"
                    /\ mem'[i].ex => mem'[i].valid
  BY DEF Decoded
<1>1. CASE i \in InFlight \ Retired(s)
  <2>1. /\ mem'[i].instr = mem[i].instr /\ (mem'[i].ex <=> mem[i].ex)
        /\ mem'[i].valid <=> mem[i].valid \/ i \in Written
    BY <1>1, RingStep
  <2> QED BY <1>1, <2>1 DEF IInv, Decoded
<1>2. CASE i = issue_pointer /\ Issues(in, s)
  <2>1. PICK d \in in.decoded : /\ mem'[i].instr = d.instr
                                /\ mem'[i].ex <=> d.ex
                                /\ mem'[i].valid <=> d.ex
    BY <1>2, RingStep
  <2>2. d.ex <=> d.instr.fu = "NONE"
    BY InputFacts
  <2> QED BY <2>1, <2>2
<1>3. i \in InFlight \ Retired(s) \/ (i = issue_pointer /\ Issues(in, s))
  BY RingStep
<1> QED BY <1>1, <1>2, <1>3

\* The requests in front of the units are requests.
LEMMA FrontTypes ==
    ASSUME IInv, NEW in, NEW s, Edge(in, s)
    PROVE  /\ s.st \in Request \cup {NoReq}
           /\ s.ld \in Request \cup {NoReq}
           /\ \A q \in InUnit : q \in Request /\ q.id \in Slots
           /\ Uses("CSR") => fu_data.id \in Slots
<1>1. r1 # NoReq => r1 \in Request
  BY DEF IInv, Requests, Firsts, Open
<1>2. \A q \in InUnit : q \in Request
  BY DEF IInv, Requests, Open
<1>3. fu_data # NoReq => fu_data \in Request
  BY DEF IInv, Registers
<1>4. /\ s.st \in Request \cup {NoReq}
      /\ s.ld \in Request \cup {NoReq}
  BY <1>1, FrontFacts
<1> QED BY <1>2, <1>3, <1>4 DEF Request, Uses

\* A flush empties everything but the committed stores, and leaves at most
\* one load behind in the output register of the load unit.
LEMMA FlushStep ==
    ASSUME Quiet, IInv, NEW in, NEW s, Edge(in, s), s.flush
    PROVE  /\ InFlight' = {} /\ issue_cnt' = 0
           /\ fu_data' = NoReq
           /\ bp_mem' = [i \in 0 .. 1 |-> NoReq]
           /\ bp_read_pointer' = 0 /\ bp_write_pointer' = 0 /\ bp_status_cnt' = 0
           /\ st_state' = "IDLE" /\ amo_fifo' = {}
           /\ speculative_status_cnt' = 0
           /\ ld_state' = "WAIT_FLUSH"
           /\ ld_pipe' = {} \/ ld_pipe' = {load_data}
<1>1. s.flush = TRUE
  BY CommitFacts
<1>2. InFlight' = {} /\ issue_cnt' = 0
  <2>1. SB!Cycle(s.unissued, TRUE, in.decoded, s.issue_ack, s.wb, s.ack)
    BY <1>1 DEF Edge, Cycle
  <2>2. issue_cnt' = 0
    BY <2>1 DEF SB!Cycle
  <2>3. \A i \in Slots : ~mem'[i].issued
    BY <2>1 DEF SB!Cycle, SB!issue_fifo, SB!Clears, SB!Slots, Slots
  <2> QED BY <2>2, <2>3 DEF InFlight
<1>3. fu_data' = NoReq
  BY FuStep
<1>4. /\ bp_mem' = [i \in 0 .. 1 |-> NoReq]
      /\ bp_read_pointer' = 0 /\ bp_write_pointer' = 0 /\ bp_status_cnt' = 0
  <2>1. BP!BypassCycle(TRUE, lsu_req, Pops(in, s))
    BY <1>1 DEF Edge, Cycle, Pops, TakesSt, TakesLd
  <2> QED BY <2>1 DEF BP!BypassCycle
<1>5. st_state' = "IDLE" /\ amo_fifo' = {}
  <2>1. ST!StoreUnitCycle(TRUE, s.st, TRUE, FALSE, s.st_ready, s.commit.amo_valid_commit, in.amo_ack)
    BY <1>1 DEF Edge, Cycle
  <2>2. s.commit.amo_valid_commit => in.amo_ack
    BY CommitFacts
  <2> QED BY <2>1, <2>2 DEF ST!StoreUnitCycle, ST!amo_fifo_kept
<1>6. speculative_status_cnt' = 0
  BY BufferNext
<1>7. ld_state' = "WAIT_FLUSH" /\ (ld_pipe' = {} \/ ld_pipe' = {load_data})
  <2>1. LD!LoadUnitCycle(TRUE, s.ld, s.matches, in.ld_gnt, s.stall, ~wb_ni, in.ld_answer, in.miss_rtrn)
    BY <1>1 DEF Edge, Cycle
  <2> QED BY <2>1 DEF LD!LoadUnitCycle, LD!load_control
<1> QED BY <1>2, <1>3, <1>4, <1>5, <1>6, <1>7

\* The registers of the load and the store unit keep their types.
LEMMA UnitTypes ==
    ASSUME Quiet, IInv, NEW in, NEW s, Edge(in, s)
    PROVE  /\ fu_data' \in Request \cup {NoReq}
           /\ bp_mem' \in [0 .. 1 -> Request \cup {NoReq}]
           /\ bp_read_pointer' \in 0 .. 1 /\ bp_write_pointer' \in 0 .. 1 /\ bp_status_cnt' \in 0 .. 2
           /\ st_state' \in ST!StoreUnitStates
           /\ st_req' \in Request \cup {NoReq}
           /\ amo_fifo' \in SUBSET Slots
           /\ ld_state' \in LD!LoadUnitStates /\ load_data' \in Slots /\ ld_pipe' \in SUBSET Slots
           /\ ld_port' \in {"idle", "out", "killed"}
<1>1. fu_data' \in Request \cup {NoReq}
  <2>1. fu_data' # NoReq => Issues(in, s)
    BY FuStep
  <2>2. Issues(in, s) => fu_data' = NoReq \/ fu_data' \in Request
    BY FuStep
  <2> QED BY <2>1, <2>2
<1>2. /\ bp_mem' \in [0 .. 1 -> Request \cup {NoReq}]
      /\ bp_read_pointer' \in 0 .. 1 /\ bp_write_pointer' \in 0 .. 1 /\ bp_status_cnt' \in 0 .. 2
  <2>1. CASE s.flush
    BY <2>1, FlushStep
  <2>2. CASE ~s.flush
    BY <2>2, BypassStep
  <2> QED BY <2>1, <2>2
<1>3. st_state' \in ST!StoreUnitStates
  <2>1. CASE s.flush
    BY <2>1, FlushStep DEF ST!StoreUnitStates
  <2>2. CASE ~s.flush
    BY <2>2, StoreUnitNext
  <2> QED BY <2>1, <2>2
<1>4. ST!StoreUnitCycle(s.flush, s.st, TRUE, FALSE, s.st_ready, s.commit.amo_valid_commit, in.amo_ack)
  BY DEF Edge, Cycle
<1>5. st_req' \in Request \cup {NoReq}
  BY <1>4, FrontTypes DEF ST!StoreUnitCycle
<1>6. amo_fifo' \in SUBSET Slots
  <2>1. amo_fifo \in SUBSET Slots
    BY DEF IInv, Registers
  <2>2. ST!amo_buffer_valid(s.flush, FALSE) => st_req.id \in Slots
    BY FrontTypes DEF InUnit, ST!amo_buffer_valid, ST!st_valid
  <2>3. \/ amo_fifo' = {} \/ amo_fifo' = amo_fifo
        \/ ST!amo_buffer_valid(s.flush, FALSE) /\ amo_fifo' = {st_req.id}
    BY <1>4 DEF ST!StoreUnitCycle
  <2> QED BY <2>1, <2>2, <2>3
<1>7. LD!LoadUnitCycle(s.flush, s.ld, s.matches, in.ld_gnt, s.stall, ~wb_ni, in.ld_answer, in.miss_rtrn)
  BY DEF Edge, Cycle
<1>8. ld_state' \in LD!LoadUnitStates
  <2>1. CASE s.flush
    BY <2>1, FlushStep DEF LD!LoadUnitStates
  <2>2. CASE ~s.flush
    BY <2>2, LoadStep
  <2> QED BY <2>1, <2>2
<1>9. load_data' \in Slots /\ ld_pipe' \in SUBSET Slots
  <2>1. load_data \in Slots
    BY DEF IInv, Registers
  <2>2. LD!ld_data_req(s.ld, s.matches) => s.ld # NoReq
    BY LoadInputs DEF Holding
  <2>3. s.ld # NoReq => s.ld.id \in Slots
    BY FrontTypes DEF Request
  <2> QED BY <1>7, <2>1, <2>2, <2>3 DEF LD!LoadUnitCycle, LD!pop_ld_o
<1>10. ld_port' \in {"idle", "out", "killed"}
  <2>1. ld_port \in {"idle", "out", "killed"}
    BY DEF IInv, Registers
  <2> QED BY <1>7, <2>1 DEF LD!LoadUnitCycle, LD!port_d
<1> QED BY <1>1, <1>2, <1>3, <1>5, <1>6, <1>8, <1>9, <1>10

\* Without a marker and without single step the monitor and the debug mode
\* never interfere.
LEMMA ControlNext ==
    ASSUME Quiet, IInv, NEW in, NEW s, Edge(in, s)
    PROVE  /\ csr_address' \in Slots /\ csr_valid' \in BOOLEAN
           /\ debug_mode' \in BOOLEAN /\ wfi' \in BOOLEAN
           /\ step' = FALSE
           /\ state_JALR' \in Mon!States \ {"state_JALR_3"}
           /\ flow_integrity_violated' = FALSE
<1>1. /\ csr_address' \in Slots /\ csr_valid' \in BOOLEAN
  <2>1. CB!CsrBufferCycle(s.flush, Uses("CSR"), IF Uses("CSR") THEN fu_data.id ELSE 0,
                          s.commit.commit_csr)
    BY DEF Edge, Cycle
  <2>2. csr_address \in Slots /\ (Uses("CSR") => fu_data.id \in Slots)
    BY FrontTypes DEF IInv, Registers
  <2>3. csr_address' \in Slots
    BY <2>1, <2>2 DEF CB!CsrBufferCycle
  <2>4. csr_valid' \in BOOLEAN
    BY <2>1 DEF CB!CsrBufferCycle
  <2> QED BY <2>3, <2>4
<1>2. e0.instr \in Instrs /\ e1.instr \in Instrs
  BY RingFacts DEF IInv, e0, e1, Entry
<1>3. debug_mode' \in BOOLEAN /\ wfi' \in BOOLEAN /\ step' = FALSE
  <2>1. CSR!CsrCycle(csr_op, s.commit.exception, s.cause, s.commit.ack0, in.ebreak, in.wake, in.step)
    <3>1. s.op = csr_op
      BY SignalFacts DEF Edge
    <3>2. CSR!CsrCycle(s.op, s.commit.exception, s.cause, s.commit.ack0, in.ebreak, in.wake, in.step)
      BY DEF Edge, Cycle
    <3> QED BY <3>1, <3>2
  <2>2. csr_op # "CSR_DCSR"
    BY <1>2 DEF Quiet, csr_op, csr_op_o, SB!commit_instr_o, e0
  <2>3. step' = step
    BY <2>1, <2>2 DEF CSR!CsrCycle
  <2>4. step = FALSE
    BY DEF IInv, Calm, Registers
  <2>5. debug_mode' \in BOOLEAN
    BY <2>1 DEF CSR!CsrCycle
  <2>6. wfi' \in BOOLEAN
    BY <2>1 DEF CSR!CsrCycle, CSR!wfi_ctrl
  <2> QED BY <2>3, <2>4, <2>5, <2>6
<1>4. /\ state_JALR' \in Mon!States \ {"state_JALR_3"}
      /\ flow_integrity_violated' = FALSE
  <2>1. Mon!CCycle(s.commit.ack0, s.commit.ack1, e0.instr, e1.instr)
    BY DEF Edge, Cycle, SB!commit_instr_o, e0, e1
  <2>2. ~Mon!nop_perso(e0.instr) /\ ~Mon!nop_perso(e1.instr)
    BY <1>2 DEF Quiet
  <2>3. state_JALR \in {"state_JALR_1", "state_JALR_2"}
    BY DEF IInv, Calm, Registers, Mon!States
  <2> QED BY <2>1, <2>2, <2>3 DEF Mon!CCycle, Mon!from_JALR_1, Mon!from_JALR_2, Mon!violated, Mon!States
<1> QED BY <1>1, <1>3, <1>4

\* Every register outside the scoreboard and the store buffer keeps its type.
LEMMA RegistersNext ==
    ASSUME Quiet, IInv, NEW in, NEW s, Edge(in, s)
    PROVE  Registers'
<1>1. wb_ni' \in BOOLEAN /\ clk' \in BOOLEAN /\ program' \in Programs
  BY DEF IInv, Registers, Edge, Inputs, Cycle
<1>2. step' \in BOOLEAN /\ state_JALR' \in Mon!States /\ flow_integrity_violated' \in BOOLEAN
  BY ControlNext
<1> QED BY <1>1, <1>2, UnitTypes, ControlNext DEF Registers

\* No assertion fails at this edge.
LEMMA NoneFails ==
    ASSUME Quiet, IInv, NEW in, NEW s, Edge(in, s)
    PROVE  failed' = {}
<1>1. /\ BUF!commit_and_flush(s.flush, s.commit.commit_lsu)
      /\ BUF!speculative_buffer_overflow(s.posted)
      /\ BUF!speculative_buffer_underflow(s.commit.commit_lsu)
      /\ BUF!commit_buffer_overflow(s.commit.commit_lsu)
  <2>1. BUFP!Contract(s.flush, s.posted, s.commit.commit_lsu)
    BY BufferContract
  <2> QED BY <2>1 DEF BUFP!Contract, BUFP!commit_and_flush, BUFP!speculative_buffer_overflow,
            BUFP!speculative_buffer_underflow, BUFP!commit_buffer_overflow, BUF!commit_and_flush,
            BUF!speculative_buffer_overflow, BUF!speculative_buffer_underflow, BUF!commit_buffer_overflow
<1>2. ~(s.eret /\ s.commit.exception)
  BY CommitFacts
<1>3. flu_ids \cap store_ids = {} /\ (flu_ids \cup store_ids) \cap ld_pipe = {}
  BY WrittenFacts
<1> QED BY <1>1, <1>2, <1>3 DEF Edge, Cycle

\* Neither alarm nor single step nor a failed assertion.
LEMMA CalmNext ==
    ASSUME Quiet, IInv, NEW in, NEW s, Edge(in, s)
    PROVE  Calm'
  BY ControlNext, NoneFails DEF Calm

\* After a flush there is nothing to keep track of.
LEMMA FlushNext ==
    ASSUME Quiet, IInv, NEW in, NEW s, Edge(in, s), s.flush
    PROVE  Decoded' /\ Ring' /\ Requests' /\ Found' /\ Posted' /\ LoadUnit' /\ CsrUnit'
<1>1. InFlight' = {} /\ issue_cnt' = 0
  BY FlushStep
<1>2. lsu_req' = NoReq /\ r1' = NoReq /\ r2' = NoReq
  <2>1. lsu_req' = NoReq
    BY FlushStep DEF lsu_req, Uses
  <2>2. bp_status_cnt' = 0
    BY FlushStep
  <2> QED BY <2>1, <2>2 DEF r1, r2, BP!lsu_ctrl_o
<1>3. Executing' = {} /\ Firsts' = {} /\ Seconds' = {} /\ InUnit' = {}
  <2>1. fu_data' = NoReq /\ st_state' = "IDLE"
    BY FlushStep
  <2> QED BY <1>2, <2>1 DEF Executing, Firsts, Seconds, InUnit
<1>4. Decoded' /\ Found'
  BY <1>1 DEF Decoded, Found
<1>5. Ring'
  <2>1. bp_read_pointer' = 0 /\ bp_write_pointer' = 0 /\ bp_status_cnt' = 0
    BY FlushStep
  <2> QED BY <2>1 DEF Ring
<1>6. Requests'
  BY <1>3 DEF Requests
<1>7. Posted'
  <2>1. Stores' = {}
    BY <1>1 DEF Stores
  <2>2. Queued' = {} /\ amo_fifo' = {} /\ st_state' = "IDLE"
    BY FlushStep DEF Queued
  <2>3. StoreAgreement'
    BY <2>1, <2>2 DEF StoreAgreement, InProgramOrder, Queued
  <2> QED BY <1>3, <2>2, <2>3 DEF Posted
<1>8. LoadUnit'
  <2>1. ld_state' = "WAIT_FLUSH" /\ (ld_pipe' = {} \/ ld_pipe' = {load_data})
    BY FlushStep
  <2>2. Outstanding' = {}
    BY <2>1 DEF Outstanding, LD!kill_req
  <2> QED BY <1>1, <2>1, <2>2 DEF LoadUnit, Holding
<1>9. CsrUnit'
  BY <1>1 DEF CsrUnit, CsrOps
<1> QED BY <1>4, <1>5, <1>6, <1>7, <1>8, <1>9

-----------------------------------------------------------------------------
(* The invariant is inductive.                                             *)

\* A clock edge, with and without flush, preserves the invariant.
LEMMA EdgeInductive ==
    ASSUME Quiet, IInv, NEW in, NEW s, Edge(in, s)
    PROVE  IInv'
<1>1. SBP!Inv' /\ BUFP!Inv' /\ Registers' /\ Calm'
  BY ScoreboardNext, BufferNext, RegistersNext, CalmNext
<1>2. CASE s.flush
  BY <1>1, <1>2, FlushNext DEF IInv
<1>3. CASE ~s.flush
  <2>1. Ring'
    BY <1>3, BypassStep
  <2> QED BY <1>1, <1>3, <2>1, DecodedNext, RequestsNext, FoundNext, PostedNext, LoadUnitNext,
             CsrUnitNext DEF IInv
<1> QED BY <1>2, <1>3

\* Reset establishes the invariant.
LEMMA InitIInv == Init => IInv
<1> SUFFICES ASSUME Init PROVE IInv
  OBVIOUS
<1>1. SBP!Inv
  <2>1. SBP!Init
    BY DEF Init, SB!Init, SBP!Init, SB!Slots, SBP!Slots, SB!Ports, SBP!Ports
  <2> QED BY <2>1, Instances, SBP!InitInv
<1>2. BUFP!Inv
  <2>1. BUFP!Init
    BY DEF Init, BUF!Init, BUFP!Init, BUF!SpecSlots, BUFP!SpecSlots, BUF!CommitSlots, BUFP!CommitSlots
  <2> QED BY <2>1, Instances, BUFP!InitInv
<1>3. InFlight = {} /\ issue_cnt = 0
  BY DEF Init, SB!Init, InFlight, SB!Slots, Slots
<1>4. /\ fu_data = NoReq
      /\ bp_mem = [i \in 0 .. 1 |-> NoReq]
      /\ bp_read_pointer = 0 /\ bp_write_pointer = 0 /\ bp_status_cnt = 0
      /\ st_state = "IDLE" /\ st_req = NoReq /\ amo_fifo = {}
      /\ ld_state = "IDLE" /\ load_data = 0 /\ ld_pipe = {} /\ ld_port = "idle"
  BY DEF Init, BP!BypassInit, ST!StoreUnitInit, LD!LoadUnitInit
<1>5. speculative_status_cnt = 0
  BY DEF Init, BUF!Init
<1>6. Registers /\ Calm
  <2>1. wb_ni = FALSE /\ program \in Programs /\ clk = FALSE /\ failed = {}
    BY DEF Init
  <2>2. /\ csr_address = 0 /\ csr_valid = FALSE
        /\ debug_mode = FALSE /\ step = FALSE /\ wfi = FALSE
        /\ state_JALR = "state_JALR_1" /\ flow_integrity_violated = FALSE
    BY DEF Init, CB!CsrBufferInit, CSR!CsrInit, Mon!CInit
  <2>3. Calm
    BY <2>1, <2>2 DEF Calm
  <2>4. /\ bp_mem \in [0 .. 1 -> Request \cup {NoReq}]
        /\ load_data \in Slots /\ csr_address \in Slots
    BY <1>4, <2>2, Instances
  <2>5. st_state \in ST!StoreUnitStates /\ ld_state \in LD!LoadUnitStates /\ state_JALR \in Mon!States
    BY <1>4, <2>2 DEF ST!StoreUnitStates, LD!LoadUnitStates, Mon!States
  <2>6. /\ wb_ni \in BOOLEAN /\ clk \in BOOLEAN /\ csr_valid \in BOOLEAN /\ debug_mode \in BOOLEAN
        /\ step \in BOOLEAN /\ wfi \in BOOLEAN /\ flow_integrity_violated \in BOOLEAN
    BY <2>1, <2>2
  <2>7. /\ fu_data \in Request \cup {NoReq} /\ st_req \in Request \cup {NoReq}
        /\ bp_read_pointer \in 0 .. 1 /\ bp_write_pointer \in 0 .. 1 /\ bp_status_cnt \in 0 .. 2
        /\ amo_fifo \in SUBSET Slots /\ ld_pipe \in SUBSET Slots
        /\ ld_port \in {"idle", "out", "killed"}
    BY <1>4
  <2>8. program \in Programs
    BY <2>1
  <2> QED BY <2>3, <2>4, <2>5, <2>6, <2>7, <2>8 DEF Registers
<1>7. lsu_req = NoReq /\ r1 = NoReq /\ r2 = NoReq
  BY <1>4 DEF lsu_req, Uses, r1, r2, BP!lsu_ctrl_o
<1>8. Executing = {} /\ Firsts = {} /\ Seconds = {} /\ InUnit = {}
  BY <1>4, <1>7 DEF Executing, Firsts, Seconds, InUnit
<1>9. Decoded /\ Found
  BY <1>3 DEF Decoded, Found
<1>10. Ring
  BY <1>4 DEF Ring
<1>11. Requests
  BY <1>8 DEF Requests
<1>12. Posted
  <2>1. Stores = {}
    BY <1>3 DEF Stores
  <2>2. Queued = {}
    BY <1>5 DEF Queued
  <2>3. StoreAgreement
    BY <1>4, <2>1, <2>2 DEF StoreAgreement, InProgramOrder, Queued
  <2> QED BY <1>4, <1>8, <2>2, <2>3 DEF Posted
<1>13. LoadUnit
  <2>1. Outstanding = {}
    BY <1>4 DEF Outstanding
  <2> QED BY <1>4, <2>1 DEF LoadUnit, Holding
<1>14. CsrUnit
  BY <1>3 DEF CsrUnit, CsrOps
<1> QED BY <1>1, <1>2, <1>6, <1>9, <1>10, <1>11, <1>12, <1>13, <1>14 DEF IInv

\* The invariant is a state predicate of the registers.
LEMMA StutterIInv == IInv /\ UNCHANGED vars => IInv'
<1> SUFFICES ASSUME IInv, UNCHANGED vars PROVE IInv'
  OBVIOUS
<1>1. /\ UNCHANGED <<mem, issue_cnt, issue_pointer, commit_pointer>>
      /\ UNCHANGED <<fu_data, bp_mem, bp_read_pointer, bp_write_pointer, bp_status_cnt>>
      /\ UNCHANGED <<st_state, st_req, amo_fifo, ld_state, load_data, ld_pipe, ld_port, wb_ni>>
      /\ UNCHANGED <<speculative_queue, speculative_read_pointer,
                     speculative_write_pointer, speculative_status_cnt>>
      /\ UNCHANGED <<commit_queue, commit_read_pointer, commit_write_pointer, commit_status_cnt>>
      /\ UNCHANGED <<csr_address, csr_valid, debug_mode, step, wfi, state_JALR,
                     flow_integrity_violated, program, clk, failed>>
  BY DEF vars, SB!vars, BP!bpvars, ST!stvars, LD!ldvars, BUF!vars, BUF!specvars, BUF!commitvars,
         CB!csrbufvars, CSR!csrvars, Mon!cvars
<1>2. SBP!Inv'
  BY <1>1 DEF IInv, SBP!Inv, SBP!TypeOK, SBP!RingInv, SBP!PortsApart
<1>3. BUFP!Inv'
  BY <1>1 DEF IInv, BUFP!Inv, BUFP!TypeOK, BUFP!RingInv, BUFP!SpecRing, BUFP!CommitRing
<1>4. Registers' /\ Calm'
  BY <1>1 DEF IInv, Registers, Calm
<1>5. InFlight' = InFlight /\ \A i : Age(i)' = Age(i)
  BY <1>1 DEF InFlight, Age
<1>6. lsu_req' = lsu_req /\ r1' = r1 /\ r2' = r2 /\ flu_ids' = flu_ids /\ Outstanding' = Outstanding
  BY <1>1 DEF lsu_req, Uses, r1, r2, BP!lsu_ctrl_o, flu_ids, flu_valid_o, Outstanding, LD!kill_req
<1>7. /\ Executing' = Executing /\ Firsts' = Firsts /\ Seconds' = Seconds /\ InUnit' = InUnit
      /\ \A i : Older(i)' <=> Older(i)
      /\ \A r : Open(r)' <=> Open(r)
  BY <1>1, <1>5, <1>6 DEF Executing, Firsts, Seconds, InUnit, Older, Open
<1>8. Stores' = Stores /\ Loads' = Loads /\ Completed' = Completed /\ Amos' = Amos /\ CsrOps' = CsrOps
  BY <1>1, <1>5 DEF Stores, Loads, Completed, Amos, CsrOps
<1>9. Queued' = Queued /\ BUF!SpecSeq' = BUF!SpecSeq
  BY <1>1 DEF Queued, BUF!SpecSeq
<1>10. Decoded' /\ Found'
  BY <1>1, <1>5, <1>6, <1>7 DEF IInv, Decoded, Found
<1>11. Ring'
  BY <1>1, <1>6 DEF IInv, Ring, Bypassed
<1>12. Requests'
  BY <1>1, <1>5, <1>7 DEF IInv, Requests
<1>13. Posted'
  BY <1>1, <1>5, <1>7, <1>8, <1>9 DEF IInv, Posted, StoreAgreement, InProgramOrder
<1>14. LoadUnit'
  <2>1. \A i : (Clear(i)' <=> Clear(i)) /\ (Reading(i)' <=> Reading(i))
    BY <1>1, <1>5, <1>7, <1>8 DEF Clear, Reading
  <2> QED BY <1>1, <1>5, <1>6, <1>7, <2>1 DEF IInv, LoadUnit
<1>15. CsrUnit'
  BY <1>1, <1>8 DEF IInv, CsrUnit, Fencing, SB!commit_instr_o
<1> QED BY <1>2, <1>3, <1>4, <1>10, <1>11, <1>12, <1>13, <1>14, <1>15 DEF IInv

\* Every step preserves the invariant.
LEMMA NextIInv == ASSUME Quiet PROVE IInv /\ [Next]_vars => IInv'
  BY NextEdge, EdgeInductive, StutterIInv

\* Everything in flight is where its unit expects it, whatever is decoded
\* and whatever the caches answer: the invariant behind the theorems below.
THEOREM Inductive == ASSUME Quiet PROVE Spec => []IInv
  BY InitIInv, NextIInv, PTL DEF Spec

-----------------------------------------------------------------------------
(* What the invariant says of the properties of CommitPath.                *)

\* Where the first and the second request are, as Waiting numbers the places.
FirstAt == IF bp_status_cnt = 0 THEN 3 ELSE 1
SecondAt == IF bp_status_cnt = 2 THEN 2 ELSE 3

\* The bypass and the execute register hold the first and the second request.
LEMMA WaitingIs ==
    ASSUME IInv, NEW fu \in {"LOAD", "STORE"}
    PROVE  /\ \A x \in Waiting(fu) :
                 \/ x.at = FirstAt /\ \E r \in Firsts : r.fu = fu /\ x.id = r.id
                 \/ x.at = SecondAt /\ \E r \in Seconds : r.fu = fu /\ x.id = r.id
           /\ \A r \in Firsts \cup Seconds : r.fu = fu => \E x \in Waiting(fu) : x.id = r.id
           /\ FirstAt \in {1, 3} /\ SecondAt \in {2, 3}
           /\ Seconds # {} => FirstAt = 1
<1>1. /\ bp_status_cnt \in 0 .. 2 /\ bp_read_pointer \in 0 .. 1
      /\ \A k \in 1 .. bp_status_cnt : Bypassed(k) # NoReq
      /\ bp_status_cnt = 2 => lsu_req = NoReq
  BY DEF IInv, Registers, Ring
<1>2. /\ bp_status_cnt = 0 => r1 = lsu_req /\ r2 = NoReq
      /\ bp_status_cnt = 1 => r1 = Bypassed(1) /\ r2 = lsu_req
      /\ bp_status_cnt = 2 => r1 = Bypassed(1) /\ r2 = Bypassed(2)
  BY <1>1 DEF r1, r2, BP!lsu_ctrl_o, Bypassed
<1>3. Uses(fu) <=> lsu_req # NoReq /\ lsu_req.fu = fu
  BY DEF lsu_req, Uses
<1>4. lsu_req # NoReq => lsu_req = fu_data
  BY DEF lsu_req
<1> DEFINE B == {k \in 1 .. bp_status_cnt : Bypassed(k).fu = fu}
           E == {q \in {fu_data} : Uses(fu)}
<1>5. Waiting(fu) = {[at |-> k, id |-> Bypassed(k).id] : k \in B} \cup {[at |-> 3, id |-> r.id] : r \in E}
  BY DEF Waiting
<1>6. /\ FirstAt \in {1, 3} /\ SecondAt \in {2, 3} /\ (Seconds # {} => FirstAt = 1)
  BY <1>1, <1>2 DEF FirstAt, SecondAt, Seconds
<1>7. ASSUME NEW k \in B
      PROVE  \/ k = FirstAt /\ Bypassed(k) \in Firsts /\ Bypassed(k).fu = fu
             \/ k = SecondAt /\ Bypassed(k) \in Seconds /\ Bypassed(k).fu = fu
  <2>1. k \in 1 .. bp_status_cnt /\ Bypassed(k) # NoReq /\ Bypassed(k).fu = fu
    BY <1>1
  <2>2. \/ k = 1 /\ bp_status_cnt # 0
        \/ k = 2 /\ bp_status_cnt = 2
    BY <1>1, <2>1
  <2> QED BY <1>1, <1>2, <2>1, <2>2 DEF FirstAt, SecondAt, Firsts, Seconds
<1>8. ASSUME NEW q \in E
      PROVE  \/ 3 = FirstAt /\ q \in Firsts /\ q.fu = fu
             \/ 3 = SecondAt /\ q \in Seconds /\ q.fu = fu
  <2>1. q = lsu_req /\ q # NoReq /\ q.fu = fu
    BY <1>3, <1>4
  <2> QED BY <1>1, <1>2, <2>1 DEF FirstAt, SecondAt, Firsts, Seconds
<1>9. ASSUME NEW r \in Firsts \cup Seconds, r.fu = fu
      PROVE  (\E k \in B : r = Bypassed(k)) \/ r \in E
  <2>1. r # NoReq /\ (r = r1 \/ r = r2)
    BY DEF Firsts, Seconds
  <2>2. r = lsu_req => r \in E
    BY <1>3, <1>4, <1>9, <2>1
  <2>3. \A k \in 1 .. bp_status_cnt : r = Bypassed(k) => k \in B
    BY <1>9
  <2> QED BY <1>1, <1>2, <2>1, <2>2, <2>3
<1> HIDE DEF B, E
<1>10. ASSUME NEW x \in Waiting(fu)
       PROVE  \/ x.at = FirstAt /\ \E r \in Firsts : r.fu = fu /\ x.id = r.id
              \/ x.at = SecondAt /\ \E r \in Seconds : r.fu = fu /\ x.id = r.id
  <2>1. \/ \E k \in B : x = [at |-> k, id |-> Bypassed(k).id]
        \/ \E q \in E : x = [at |-> 3, id |-> q.id]
    BY <1>5
  <2>2. ASSUME NEW k \in B, x = [at |-> k, id |-> Bypassed(k).id]
        PROVE  \/ x.at = FirstAt /\ \E r \in Firsts : r.fu = fu /\ x.id = r.id
               \/ x.at = SecondAt /\ \E r \in Seconds : r.fu = fu /\ x.id = r.id
    BY <1>7, <2>2
  <2>3. ASSUME NEW q \in E, x = [at |-> 3, id |-> q.id]
        PROVE  \/ x.at = FirstAt /\ \E r \in Firsts : r.fu = fu /\ x.id = r.id
               \/ x.at = SecondAt /\ \E r \in Seconds : r.fu = fu /\ x.id = r.id
    BY <1>8, <2>3
  <2> QED BY <2>1, <2>2, <2>3
<1>11. ASSUME NEW r \in Firsts \cup Seconds, r.fu = fu
       PROVE  \E x \in Waiting(fu) : x.id = r.id
  <2>1. CASE \E k \in B : r = Bypassed(k)
    <3>1. PICK k \in B : r = Bypassed(k)
      BY <2>1
    <3>2. [at |-> k, id |-> Bypassed(k).id] \in Waiting(fu)
      BY <1>5
    <3> QED BY <3>1, <3>2
  <2>2. CASE r \in E
    <3>1. [at |-> 3, id |-> r.id] \in Waiting(fu)
      BY <1>5, <2>2
    <3> QED BY <3>1
  <2> QED BY <1>9, <1>11, <2>1, <2>2
<1> QED BY <1>6, <1>10, <1>11

\* The order of the waiting requests of one unit.
LEMMA WaitingInOrder ==
    ASSUME IInv, NEW fu \in {"LOAD", "STORE"}
    PROVE  /\ \A x \in Waiting(fu) : /\ x.id \in InFlight /\ ~mem[x.id].valid
                                     /\ mem[x.id].instr.fu = fu
                                     /\ x.at \in 1 .. 3
           /\ \A x, y \in Waiting(fu) : x.at < y.at => Age(x.id) < Age(y.id)
           /\ \A i \in InFlight : Older(i) => \A x \in Waiting(fu) : Age(i) < Age(x.id)
           /\ \A i \in InFlight : \A r \in Firsts \cup Seconds :
                r.id = i /\ mem[i].instr.fu = fu => \E x \in Waiting(fu) : x.id = i
<1>1. \A i \in InFlight : Age(i) \in Int
  BY RingFacts DEF IInv, Slots, InFlight
<1>2. /\ \A x \in Waiting(fu) :
           \/ x.at = FirstAt /\ \E r \in Firsts : r.fu = fu /\ x.id = r.id
           \/ x.at = SecondAt /\ \E r \in Seconds : r.fu = fu /\ x.id = r.id
      /\ FirstAt \in {1, 3} /\ SecondAt \in {2, 3}
      /\ Seconds # {} => FirstAt = 1
  BY WaitingIs
<1>3. \A r \in Firsts \cup Seconds : r.id \in InFlight /\ ~mem[r.id].valid /\ r.fu = mem[r.id].instr.fu
  BY DEF IInv, Requests, Open
<1>4. \A r \in Seconds : \E q \in Firsts : Age(q.id) < Age(r.id)
  BY DEF IInv, Requests
<1>5. \A q, r \in Firsts : q = r
  BY DEF Firsts
<1>6. \A q, r \in Seconds : q = r
  BY DEF Seconds
<1>7. ASSUME NEW x \in Waiting(fu)
      PROVE  x.id \in InFlight /\ ~mem[x.id].valid /\ mem[x.id].instr.fu = fu /\ x.at \in 1 .. 3
  BY <1>2, <1>3
<1>8. ASSUME NEW x \in Waiting(fu), NEW y \in Waiting(fu), x.at < y.at
      PROVE  Age(x.id) < Age(y.id)
  <2>1. /\ x.at = FirstAt /\ \E r \in Firsts : x.id = r.id
        /\ y.at = SecondAt /\ \E r \in Seconds : y.id = r.id
    BY <1>2, <1>8
  <2> QED BY <1>4, <1>5, <2>1
<1>9. ASSUME NEW i \in InFlight, Older(i), NEW x \in Waiting(fu)
      PROVE  Age(i) < Age(x.id)
  <2>1. \A r \in Firsts : Age(i) < Age(r.id)
    BY <1>9 DEF Older
  <2>2. CASE \E r \in Firsts : x.id = r.id
    BY <2>1, <2>2
  <2>3. CASE \E r \in Seconds : x.id = r.id
    <3>1. PICK r \in Seconds, q \in Firsts : x.id = r.id /\ Age(q.id) < Age(r.id)
      BY <1>4, <2>3
    <3>2. Age(i) \in Int /\ Age(q.id) \in Int /\ Age(r.id) \in Int /\ Age(i) < Age(q.id)
      BY <1>1, <1>3, <2>1
    <3> QED BY <3>1, <3>2
  <2> QED BY <1>2, <2>2, <2>3
<1>10. ASSUME NEW i \in InFlight, NEW r \in Firsts \cup Seconds, r.id = i, mem[i].instr.fu = fu
       PROVE  \E x \in Waiting(fu) : x.id = i
  BY <1>3, <1>10, WaitingIs
<1> QED BY <1>7, <1>8, <1>9, <1>10

\* The invariant places every uncompleted store.
LEMMA StoresTrackedHolds == IInv => StoresTracked
<1> SUFFICES ASSUME IInv PROVE StoresTracked
  OBVIOUS
<1> DEFINE U == {[at |-> 0, id |-> i] : i \in store_ids}
           W == Waiting("STORE")
<1>1. /\ \A x \in W : x.id \in InFlight /\ ~mem[x.id].valid /\ mem[x.id].instr.fu = "STORE" /\ x.at \in 1 .. 3
      /\ \A x, y \in W : x.at < y.at => Age(x.id) < Age(y.id)
      /\ \A i \in InFlight : Older(i) => \A x \in W : Age(i) < Age(x.id)
      /\ \A i \in InFlight : \A r \in Firsts \cup Seconds :
           r.id = i /\ mem[i].instr.fu = "STORE" => \E x \in W : x.id = i
  BY WaitingInOrder
<1>2. \A i \in store_ids : /\ i \in InFlight /\ ~mem[i].valid /\ mem[i].instr.fu = "STORE"
                           /\ Older(i)
  <2>1. \A i \in store_ids : /\ i \in InFlight /\ ~mem[i].valid /\ mem[i].instr.fu = "STORE"
                             /\ st_req.id = i /\ st_req \in InUnit
    BY WrittenFacts
  <2>2. \A r \in InUnit : Older(r.id)
    BY DEF IInv, Requests
  <2> QED BY <2>1, <2>2
<1>3. \A x \in U : x.at = 0 /\ x.id \in store_ids
  OBVIOUS
<1>4. \A i \in store_ids : \E x \in U : x.id = i
  <2>1. \A i \in store_ids : [at |-> 0, id |-> i] \in U /\ [at |-> 0, id |-> i].id = i
    OBVIOUS
  <2> HIDE DEF U
  <2> QED BY <2>1
<1> HIDE DEF U, W
<1>5. \A x, y \in U \cup W : x.at < y.at => Age(x.id) < Age(y.id)
  <2> SUFFICES ASSUME NEW x \in U \cup W, NEW y \in U \cup W, x.at < y.at
               PROVE  Age(x.id) < Age(y.id)
    OBVIOUS
  <2>1. CASE x \in U
    <3>1. y \in W
      BY <1>3, <2>1
    <3> QED BY <1>1, <1>2, <1>3, <2>1, <3>1
  <2>2. CASE x \in W
    <3>1. y \in W
      BY <1>1, <1>3, <2>2
    <3> QED BY <1>1, <2>2, <3>1
  <2> QED BY <2>1, <2>2
<1>6. ASSUME NEW x \in U \cup W PROVE x.id \in Stores \ Completed
  <2>1. x.id \in InFlight /\ ~mem[x.id].valid /\ mem[x.id].instr.fu = "STORE"
    BY <1>1, <1>2, <1>3
  <2> QED BY <2>1 DEF IInv, Decoded, Stores, Completed
<1>7. ASSUME NEW i \in Stores \ Completed PROVE \E x \in U \cup W : x.id = i
  <2>1. i \in InFlight /\ ~mem[i].valid /\ mem[i].instr.fu = "STORE"
    BY DEF Stores, Completed
  <2>2. i \notin flu_ids
    BY <2>1, WrittenFacts
  <2>3. \A r \in InUnit : r.id \in store_ids
    BY DEF InUnit, store_ids, ST!st_valid_o
  <2>4. (\E r \in Firsts \cup Seconds : r.id = i) \/ i \in store_ids
    BY <2>1, <2>2, <2>3 DEF IInv, Found
  <2> QED BY <1>1, <1>4, <2>1, <2>4
<1>8. {x.id : x \in U \cup W} = Stores \ Completed
  BY <1>6, <1>7
<1>9. InProgramOrder(U \cup W, Stores \ Completed)
  BY <1>5, <1>8 DEF InProgramOrder
<1> QED BY <1>9 DEF StoresTracked, U, W

\* The invariant places every uncompleted load.
LEMMA LoadsTrackedHolds == IInv => LoadsTracked
<1> SUFFICES ASSUME IInv PROVE LoadsTracked
  OBVIOUS
<1> DEFINE pipe == IF issue_cnt = 0 THEN {} ELSE ld_pipe
           P == {[at |-> -1, id |-> i] : i \in pipe}
           O == {[at |-> 0, id |-> i] : i \in Outstanding}
           W == Waiting("LOAD")
<1>1. /\ \A x \in W : x.id \in InFlight /\ ~mem[x.id].valid /\ mem[x.id].instr.fu = "LOAD" /\ x.at \in 1 .. 3
      /\ \A x, y \in W : x.at < y.at => Age(x.id) < Age(y.id)
      /\ \A i \in InFlight : Older(i) => \A x \in W : Age(i) < Age(x.id)
      /\ \A i \in InFlight : \A r \in Firsts \cup Seconds :
           r.id = i /\ mem[i].instr.fu = "LOAD" => \E x \in W : x.id = i
  BY WaitingInOrder
<1>2. /\ \A i \in Outstanding : Reading(i)
      /\ \A i \in pipe : Reading(i) /\ \A j \in Outstanding : Age(i) < Age(j)
  BY DEF IInv, LoadUnit
<1>3. \A i : Reading(i) => i \in InFlight /\ ~mem[i].valid /\ mem[i].instr.fu = "LOAD" /\ Older(i)
  BY DEF Reading, Loads
<1>4. /\ \A x \in P : x.at = -1 /\ x.id \in pipe
      /\ \A x \in O : x.at = 0 /\ x.id \in Outstanding
  <2> HIDE DEF pipe
  <2> QED OBVIOUS
<1>5. /\ \A i \in pipe : \E x \in P : x.id = i
      /\ \A i \in Outstanding : \E x \in O : x.id = i
  <2> HIDE DEF pipe
  <2>1. \A i \in pipe : [at |-> -1, id |-> i] \in P /\ [at |-> -1, id |-> i].id = i
    OBVIOUS
  <2>2. \A i \in Outstanding : [at |-> 0, id |-> i] \in O /\ [at |-> 0, id |-> i].id = i
    OBVIOUS
  <2> HIDE DEF P, O
  <2> QED BY <2>1, <2>2
<1>6. InFlight # {} => pipe = ld_pipe
  <2>1. \A i \in InFlight : issue_cnt # 0
    BY RingFacts DEF IInv, InFlight, Slots
  <2> QED BY <2>1
<1> HIDE DEF pipe, P, O, W
<1>7. \A x, y \in P \cup O \cup W : x.at < y.at => Age(x.id) < Age(y.id)
  <2> SUFFICES ASSUME NEW x \in P \cup O \cup W, NEW y \in P \cup O \cup W, x.at < y.at
               PROVE  Age(x.id) < Age(y.id)
    OBVIOUS
  <2>1. CASE x \in P
    <3>1. y \in O \cup W
      BY <1>4, <2>1
    <3> QED BY <1>1, <1>2, <1>3, <1>4, <2>1, <3>1
  <2>2. CASE x \in O
    <3>1. y \in W
      BY <1>4, <2>2
    <3> QED BY <1>1, <1>2, <1>3, <1>4, <2>2, <3>1
  <2>3. CASE x \in W
    <3>1. y \in W
      BY <1>1, <1>4, <2>3
    <3> QED BY <1>1, <2>3, <3>1
  <2> QED BY <2>1, <2>2, <2>3
<1>8. ASSUME NEW x \in P \cup O \cup W PROVE x.id \in Loads \ Completed
  <2>1. x.id \in InFlight /\ ~mem[x.id].valid /\ mem[x.id].instr.fu = "LOAD"
    BY <1>1, <1>2, <1>3, <1>4
  <2> QED BY <2>1 DEF Loads, Completed
<1>9. ASSUME NEW i \in Loads \ Completed PROVE \E x \in P \cup O \cup W : x.id = i
  <2>1. i \in InFlight /\ ~mem[i].valid /\ mem[i].instr.fu = "LOAD"
    BY DEF Loads, Completed
  <2>2. i \notin flu_ids /\ \A r \in InUnit : r.id # i
    BY <2>1, WrittenFacts DEF IInv, Requests, Open
  <2>3. (\E r \in Firsts \cup Seconds : r.id = i) \/ i \in pipe \/ i \in Outstanding
    BY <1>6, <2>1, <2>2 DEF IInv, Found
  <2> QED BY <1>1, <1>5, <2>1, <2>3
<1>10. {x.id : x \in P \cup O \cup W} = Loads \ Completed
  BY <1>8, <1>9
<1>11. InProgramOrder(P \cup O \cup W, Loads \ Completed)
  BY <1>7, <1>10 DEF InProgramOrder
<1> QED BY <1>11 DEF LoadsTracked, P, O, W, pipe

\* An access in the commit stage is no fence, so the CSR buffer is its own.
LEMMA CsrOwnAddressHolds == IInv => CsrOwnAddress
<1> SUFFICES ASSUME IInv, csr_op \in {"CSR_WRITE", "CSR_READ", "CSR_DCSR"}
             PROVE  csr_valid /\ csr_address = commit_pointer[0]
  BY DEF CsrOwnAddress
<1>1. e0.valid /\ e0.instr.fu = "CSR" /\ e0.instr.op = csr_op
  BY DEF csr_op, csr_op_o, SB!commit_instr_o, e0
<1>2. ~Fencing
  BY <1>1 DEF Fencing, WaitsForStores, SB!commit_instr_o, e0
<1>3. commit_pointer[0] \in InFlight
  BY <1>1, RingFacts DEF IInv, e0
<1> QED BY <1>1, <1>2, <1>3 DEF IInv, CsrUnit, CsrOps, e0

\* The types of the parts are those of the whole.
LEMMA TypeOKHolds == IInv => TypeOK
<1> SUFFICES ASSUME IInv PROVE TypeOK
  OBVIOUS
<1>1. SB!TypeOK
  BY DEF IInv, SBP!Inv, SBP!TypeOK, SB!TypeOK, SBP!Slots, SB!Slots, SBP!Entry, SB!Entry, SBP!Ports, SB!Ports
<1>2. BUF!TypeOK
  BY DEF IInv, BUFP!Inv, BUFP!TypeOK, BUF!TypeOK, BUFP!SpecSlots, BUF!SpecSlots,
         BUFP!CommitSlots, BUF!CommitSlots, BUFP!Entry, BUF!Entry
<1> QED BY <1>1, <1>2 DEF IInv, Registers, TypeOK

(***************************************************************************)
(* Every register keeps its type, whatever is decoded.                     *)
(***************************************************************************)
THEOREM TypeCorrect == ASSUME Quiet PROVE Spec => []TypeOK
  BY Inductive, TypeOKHolds, PTL

(***************************************************************************)
(* None of the assertions of store_buffer.sv, csr_regfile.sv and           *)
(* scoreboard.sv that concern this path ever fails: the store unit, the    *)
(* units that write back and the commit stage keep the contracts the       *)
(* buffers are written for.                                                *)
(***************************************************************************)
THEOREM AssertionsNeverFail == ASSUME Quiet PROVE Spec => []AssertionsHold
<1>1. IInv => AssertionsHold
  BY DEF IInv, Calm, AssertionsHold
<1> QED BY <1>1, Inductive, PTL

(***************************************************************************)
(* What commit_lsu_o pops is the store that retires: the speculative queue *)
(* holds exactly the completed stores, in program order, and the AMO       *)
(* buffer the completed AMO.                                               *)
(***************************************************************************)
THEOREM StoresAgree == ASSUME Quiet PROVE Spec => []StoreAgreement
<1>1. IInv => StoreAgreement
  BY DEF IInv, Posted
<1> QED BY <1>1, Inductive, PTL

(***************************************************************************)
(* No store is lost, taken twice or overtaken between the execute register *)
(* and the store buffer.                                                   *)
(***************************************************************************)
THEOREM StoresInOrder == ASSUME Quiet PROVE Spec => []StoresTracked
  BY Inductive, StoresTrackedHolds, PTL

(***************************************************************************)
(* No load is lost, asked for twice or overtaken, and each answer of the   *)
(* cache completes the load it belongs to.                                 *)
(***************************************************************************)
THEOREM LoadsInOrder == ASSUME Quiet PROVE Spec => []LoadsTracked
  BY Inductive, LoadsTrackedHolds, PTL

(***************************************************************************)
(* A load reads memory only after every older store has left the core: the *)
(* page-offset interlock, asked once, and stall_ni for a device are enough.*)
(***************************************************************************)
THEOREM LoadsAfterStores == ASSUME Quiet PROVE Spec => []LoadsSeeStores
<1>1. IInv => LoadsSeeStores
  BY DEF IInv, LoadUnit, LoadsSeeStores, Clear
<1> QED BY <1>1, Inductive, PTL

(***************************************************************************)
(* A CSR access in the commit stage finds its own address in the one-entry *)
(* CSR buffer.                                                             *)
(***************************************************************************)
THEOREM CsrAddressIsOwn == ASSUME Quiet PROVE Spec => []CsrOwnAddress
  BY Inductive, CsrOwnAddressHolds, PTL

-----------------------------------------------------------------------------
(* The core implements the in-order core.                                  *)

WindowEntry == [id : Slots, store : BOOLEAN, done : BOOLEAN, ex : BOOLEAN]
IsStore(e) == e.instr.fu = "STORE" /\ ~is_amo(e.instr)

\* What the refinement mapping makes of the registers m, cp and cnt.
WindowOf(m, cp, cnt) ==
    [k \in 1 .. cnt |->
        [id |-> SB!Add(cp, k - 1), store |-> IsStore(m[SB!Add(cp, k - 1)]),
         done |-> m[SB!Add(cp, k - 1)].valid, ex |-> m[SB!Add(cp, k - 1)].ex]]

\* Place k of the window is the slot k - 1 places from the oldest.
LEMMA Place ==
    ASSUME NEW cp \in Slots, NEW k \in 1 .. NR_ENTRIES
    PROVE  SB!Add(cp, k - 1) \in Slots /\ SB!Dist(SB!Add(cp, k - 1), cp) = k - 1
  BY Instances DEF SB!Add, SB!Dist, Slots

\* Every slot is the one at its distance.
LEMMA PlaceOf ==
    ASSUME NEW cp \in Slots, NEW i \in Slots
    PROVE  SB!Add(cp, SB!Dist(i, cp)) = i
  BY Instances DEF SB!Add, SB!Dist, Slots

\* The same after n instructions have retired.
LEMMA PlaceMoves ==
    ASSUME NEW cp \in Slots, NEW n \in 0 .. 2, NEW k \in 1 .. NR_ENTRIES, k + n <= NR_ENTRIES
    PROVE  SB!Add(SB!Add(cp, n), k - 1) = SB!Add(cp, k + n - 1)
  BY Instances DEF SB!Add, Slots

\* The window is a sequence of as many entries as the counter says.
LEMMA WindowType ==
    ASSUME NEW m \in [Slots -> Entry], NEW cp \in Slots, NEW cnt \in Slots
    PROVE  /\ WindowOf(m, cp, cnt) \in Seq(WindowEntry)
           /\ Len(WindowOf(m, cp, cnt)) = cnt
           /\ \A k \in 1 .. cnt :
                /\ WindowOf(m, cp, cnt)[k].id = SB!Add(cp, k - 1)
                /\ WindowOf(m, cp, cnt)[k].store = IsStore(m[SB!Add(cp, k - 1)])
                /\ WindowOf(m, cp, cnt)[k].done = m[SB!Add(cp, k - 1)].valid
                /\ WindowOf(m, cp, cnt)[k].ex = m[SB!Add(cp, k - 1)].ex
<1>1. /\ cnt \in Nat
      /\ \A k \in 1 .. cnt : k \in 1 .. NR_ENTRIES
  BY Instances DEF Slots
<1>2. \A k \in 1 .. cnt : SB!Add(cp, k - 1) \in Slots
  BY <1>1, Place
<1>3. \A i \in Slots : IsStore(m[i]) \in BOOLEAN /\ m[i].valid \in BOOLEAN /\ m[i].ex \in BOOLEAN
  BY DEF IsStore, Entry
<1>4. WindowOf(m, cp, cnt) \in [1 .. cnt -> WindowEntry]
  <2> SUFFICES ASSUME NEW k \in 1 .. cnt
               PROVE  [id |-> SB!Add(cp, k - 1), store |-> IsStore(m[SB!Add(cp, k - 1)]),
                       done |-> m[SB!Add(cp, k - 1)].valid, ex |-> m[SB!Add(cp, k - 1)].ex]
                      \in WindowEntry
    BY DEF WindowOf
  <2> QED BY <1>2, <1>3 DEF WindowEntry
<1>5. WindowOf(m, cp, cnt) \in Seq(WindowEntry) /\ Len(WindowOf(m, cp, cnt)) = cnt
  BY <1>1, <1>4
<1> QED BY <1>5 DEF WindowOf

\* Window in terms of WindowOf, before and after a step.
LEMMA WindowIs ==
    /\ Window = WindowOf(mem, commit_pointer[0], issue_cnt)
    /\ Window' = WindowOf(mem', commit_pointer'[0], issue_cnt')
  BY DEF Window, WindowOf, IsStore

\* A cycle without flush shifts the window by the instructions that retire.
LEMMA WindowShifts ==
    ASSUME Quiet, IInv, NEW in, NEW s, Edge(in, s), ~s.flush
    PROVE  /\ Num(s) \in 0 .. 2
           /\ InOrder!Retirable(Num(s))
           /\ InOrder!Shifts(Num(s), SB!One(Issues(in, s)))
<1> USE Instances
<1> DEFINE cp == commit_pointer[0]
           n == Num(s)
           m == SB!One(Issues(in, s))
<1>1. /\ mem \in [Slots -> Entry] /\ cp \in Slots /\ issue_cnt \in Slots
      /\ \A i \in Slots : i \in InFlight <=> Age(i) < issue_cnt
  BY RingFacts DEF IInv
<1>2. /\ mem' \in [Slots -> Entry] /\ commit_pointer'[0] \in Slots /\ issue_cnt' \in Slots
      /\ issue_cnt' = SB!Dist(issue_pointer', commit_pointer'[0])
  <2>1. SBP!Inv'
    BY ScoreboardNext
  <2> QED BY <2>1 DEF SBP!Inv, SBP!TypeOK, SBP!Slots, SBP!Ports, SBP!Entry, Entry, Slots,
             SBP!RingInv, SBP!Dist, SB!Dist
<1>3. /\ n \in 0 .. 2 /\ n <= issue_cnt
      /\ \A i \in InFlight : i \in Retired(s) <=> Age(i) < n
      /\ \A i \in Retired(s) : /\ mem[i].valid /\ ~mem[i].ex
                               /\ i = cp \/ mem[i].instr.fu \notin {"STORE", "CSR"}
      /\ InFlight' = (InFlight \ Retired(s)) \cup {i \in {issue_pointer} : Issues(in, s)}
      /\ \A i \in InFlight \ Retired(s) :
                /\ mem'[i].instr = mem[i].instr /\ (mem'[i].ex <=> mem[i].ex)
                /\ mem'[i].valid <=> mem[i].valid \/ i \in Written
      /\ Issues(in, s) => \E d \in in.decoded : /\ mem'[issue_pointer].ex <=> d.ex
                                                /\ mem'[issue_pointer].valid <=> d.ex
      /\ issue_cnt' = issue_cnt - n + m
  BY RingStep
<1>4. m \in 0 .. 1 /\ (m = 1 => Issues(in, s))
  BY DEF SB!One
<1>5. commit_pointer'[0] = SB!Add(cp, n)
  <2>1. SB!Cycle(s.unissued, FALSE, in.decoded, s.issue_ack, s.wb, s.ack)
    <3>1. s.flush = FALSE
      BY CommitFacts
    <3> QED BY <3>1 DEF Edge, Cycle
  <2>2. commit_pointer' = [p \in SB!Ports |-> SB!Add(SB!Add(cp, n), p)]
    BY <2>1 DEF SB!Cycle, Num
  <2> QED BY <1>1, <1>3, <2>2, AddFacts DEF SB!Ports
<1> HIDE DEF n, m
<1>6. /\ Window \in Seq(WindowEntry) /\ Len(Window) = issue_cnt
      /\ \A k \in 1 .. issue_cnt :
           /\ Window[k].id = SB!Add(cp, k - 1)
           /\ Window[k].store = IsStore(mem[SB!Add(cp, k - 1)])
           /\ Window[k].done = mem[SB!Add(cp, k - 1)].valid
           /\ Window[k].ex = mem[SB!Add(cp, k - 1)].ex
  BY <1>1, WindowIs, WindowType
<1>7. /\ Len(Window') = issue_cnt'
      /\ \A k \in 1 .. issue_cnt' :
           /\ Window'[k].id = SB!Add(SB!Add(cp, n), k - 1)
           /\ Window'[k].store = IsStore(mem'[SB!Add(SB!Add(cp, n), k - 1)])
           /\ Window'[k].done = mem'[SB!Add(SB!Add(cp, n), k - 1)].valid
           /\ Window'[k].ex = mem'[SB!Add(SB!Add(cp, n), k - 1)].ex
  <2> DEFINE w == WindowOf(mem', commit_pointer'[0], issue_cnt')
  <2>1. /\ Len(w) = issue_cnt'
        /\ \A k \in 1 .. issue_cnt' :
             /\ w[k].id = SB!Add(commit_pointer'[0], k - 1)
             /\ w[k].store = IsStore(mem'[SB!Add(commit_pointer'[0], k - 1)])
             /\ w[k].done = mem'[SB!Add(commit_pointer'[0], k - 1)].valid
             /\ w[k].ex = mem'[SB!Add(commit_pointer'[0], k - 1)].ex
    BY <1>2, WindowType
  <2>2. Window' = w
    BY WindowIs
  <2> HIDE DEF w
  <2> QED BY <1>5, <2>1, <2>2
<1>8. ASSUME NEW k \in 1 .. issue_cnt
      PROVE  /\ k \in 1 .. NR_ENTRIES
             /\ SB!Add(cp, k - 1) \in InFlight /\ Age(SB!Add(cp, k - 1)) = k - 1
  <2>1. k \in 1 .. NR_ENTRIES
    BY <1>1 DEF Slots
  <2>2. SB!Add(cp, k - 1) \in Slots /\ Age(SB!Add(cp, k - 1)) = k - 1
    BY <1>1, <2>1, Place DEF Age
  <2>3. k - 1 < issue_cnt
    BY <1>1 DEF Slots
  <2> QED BY <1>1, <2>1, <2>2, <2>3
<1>9. InOrder!Retirable(n)
  <2>1. ASSUME NEW k \in 1 .. n
        PROVE  Window[k].done /\ ~Window[k].ex /\ (k # 1 => ~Window[k].store)
    <3> DEFINE i == SB!Add(cp, k - 1)
    <3>1. k \in 1 .. issue_cnt /\ k - 1 < n
      BY <1>1, <1>3 DEF Slots
    <3>2. i \in InFlight /\ Age(i) = k - 1
      BY <1>8, <3>1
    <3>3. i \in Retired(s)
      BY <1>3, <3>1, <3>2
    <3>4. k # 1 => i # cp
      <4>1. Age(cp) = 0
        BY RingFacts DEF IInv
      <4> QED BY <3>1, <3>2, <4>1
    <3> QED BY <1>3, <1>6, <3>1, <3>3, <3>4 DEF IsStore
  <2>2. \A k \in 2 .. n : k \in 1 .. n /\ k # 1
    BY <1>3
  <2> QED BY <1>3, <1>6, <2>1, <2>2 DEF InOrder!Retirable
<1>10. ASSUME NEW k \in 1 .. issue_cnt - n
       PROVE  InOrder!Advances(Window[k + n], Window'[k])
  <2> DEFINE i == SB!Add(cp, k + n - 1)
  <2>1. /\ k \in 1 .. issue_cnt' /\ k + n \in 1 .. issue_cnt
        /\ k \in 1 .. NR_ENTRIES /\ k + n <= NR_ENTRIES /\ k \in Nat
    BY <1>1, <1>3, <1>4 DEF Slots
  <2>2. SB!Add(SB!Add(cp, n), k - 1) = i
    BY <1>1, <1>3, <2>1, PlaceMoves
  <2>0. PICK j \in 1 .. issue_cnt : j = k + n /\ j - 1 = k + n - 1
    BY <1>3, <2>1
  <2>3. i \in InFlight /\ Age(i) = k + n - 1
    BY <1>8, <2>0
  <2>4. i \in InFlight \ Retired(s)
    BY <1>3, <2>1, <2>3
  <2>5. /\ mem'[i].instr = mem[i].instr /\ (mem'[i].ex <=> mem[i].ex)
        /\ mem[i].valid => mem'[i].valid
    BY <1>3, <2>4
  <2>6. /\ Window'[k].id = i /\ Window'[k].store = IsStore(mem'[i])
        /\ Window'[k].done = mem'[i].valid /\ Window'[k].ex = mem'[i].ex
    BY <1>7, <2>1, <2>2
  <2>7. /\ Window[k + n].id = i /\ Window[k + n].store = IsStore(mem[i])
        /\ Window[k + n].done = mem[i].valid /\ Window[k + n].ex = mem[i].ex
    BY <1>6, <2>0
  <2>8. IsStore(mem'[i]) = IsStore(mem[i])
    BY <2>5 DEF IsStore
  <2> HIDE DEF i
  <2> QED BY <2>5, <2>6, <2>7, <2>8 DEF InOrder!Advances
<1>11. ASSUME NEW k \in issue_cnt - n + 1 .. issue_cnt'
       PROVE  Window'[k].done => Window'[k].ex
  <2> DEFINE i == SB!Add(SB!Add(cp, n), k - 1)
  <2>1. /\ k = issue_cnt' /\ k = issue_cnt - n + 1 /\ Issues(in, s) /\ k \in 1 .. issue_cnt'
        /\ k \in 1 .. NR_ENTRIES /\ k + n <= NR_ENTRIES
    BY <1>1, <1>2, <1>3, <1>4 DEF Slots
  <2>2. i = issue_pointer
    <3>1. i = SB!Add(cp, issue_cnt)
      <4>1. i = SB!Add(cp, k + n - 1)
        BY <1>1, <1>3, <2>1, PlaceMoves
      <4>2. k + n - 1 = issue_cnt
        BY <1>1, <1>3, <2>1 DEF Slots
      <4> QED BY <4>1, <4>2
    <3>2. issue_cnt = SB!Dist(issue_pointer, cp) /\ issue_pointer \in Slots
      BY RingFacts DEF IInv
    <3> QED BY <1>1, <3>1, <3>2, PlaceOf
  <2>3. mem'[i].valid => mem'[i].ex
    BY <1>3, <2>1, <2>2
  <2> HIDE DEF i
  <2>4. Window'[k].done = mem'[i].valid /\ Window'[k].ex = mem'[i].ex
    BY <1>7, <2>1 DEF i
  <2> QED BY <2>3, <2>4
<1>12. issue_cnt' <= NR_ENTRIES - 1
  BY <1>2 DEF Slots
<1>13. InOrder!Shifts(n, m)
  BY <1>3, <1>6, <1>7, <1>10, <1>11, <1>12 DEF InOrder!Shifts
<1> QED BY <1>3, <1>9, <1>13 DEF n, m

\* What a cycle does to the committed stores: the memory may take the oldest,
\* and the store that retires comes last.
LEMMA OutgoingStep ==
    ASSUME Quiet, IInv, NEW in, NEW s, Edge(in, s)
    PROVE  \E take \in BOOLEAN :
             /\ take => BUF!CommitSeq # <<>>
             /\ BUF!CommitSeq' = (IF take THEN Tail(BUF!CommitSeq) ELSE BUF!CommitSeq)
                                   \o (IF s.commit.commit_lsu THEN <<commit_pointer[0]>> ELSE <<>>)
<1> DEFINE take == BUFP!data_req_o /\ in.gnt
<1>1. /\ BUFP!SpecTypeOK /\ BUFP!SpecRing /\ BUFP!CommitTypeOK /\ BUFP!CommitRing
  BY QueueFacts
<1>2. /\ s.posted \in BOOLEAN /\ s.commit.commit_lsu \in BOOLEAN /\ in.gnt \in BOOLEAN
      /\ s.flush \in BOOLEAN
      /\ BUFP!Contract(s.flush, s.posted, s.commit.commit_lsu)
      /\ BUFP!store_if(s.commit.commit_lsu, in.gnt)
      /\ s.commit.commit_lsu => speculative_status_cnt >= 1 /\ BUF!SpecSeq[1] = commit_pointer[0]
  BY BufferContract, CommitFacts
<1>3. BUFP!CommitTypeOK'
  BY BufferNext DEF BUFP!Inv, BUFP!TypeOK, BUFP!CommitTypeOK
<1>4. /\ take => BUFP!CommitSeq # <<>>
      /\ BUFP!CommitSeq' = (IF take THEN Tail(BUFP!CommitSeq) ELSE BUFP!CommitSeq)
                             \o (IF s.commit.commit_lsu THEN <<Head(BUFP!SpecSeq)>> ELSE <<>>)
  BY <1>1, <1>2, <1>3, Instances, BUFP!CommitSeqStep
<1>5. /\ BUFP!CommitSeq = BUF!CommitSeq /\ BUFP!CommitSeq' = BUF!CommitSeq'
      /\ BUFP!SpecSeq = BUF!SpecSeq
  BY DEF BUFP!CommitSeq, BUF!CommitSeq, BUFP!SpecSeq, BUF!SpecSeq, BUFP!Slot, BUF!Slot
<1>6. s.commit.commit_lsu => Head(BUFP!SpecSeq) = commit_pointer[0]
  <2>1. BUFP!SpecSeq \in Seq(Slots) /\ Len(BUFP!SpecSeq) = speculative_status_cnt
    BY <1>1, Instances, BUFP!SpecSeqType
  <2>2. Head(BUFP!SpecSeq) = BUFP!SpecSeq[1]
    BY <2>1
  <2> QED BY <1>2, <1>5, <2>2
<1>7. take \in BOOLEAN
  BY <1>1, <1>2 DEF BUFP!data_req_o, BUFP!CommitTypeOK, BUFP!Entry
<1> QED
  <2> HIDE DEF take
  <2>1. /\ take => BUF!CommitSeq # <<>>
        /\ BUF!CommitSeq' = (IF take THEN Tail(BUF!CommitSeq) ELSE BUF!CommitSeq)
                              \o (IF s.commit.commit_lsu THEN <<commit_pointer[0]>> ELSE <<>>)
    BY <1>4, <1>5, <1>6
  <2> QED BY <1>7, <2>1

\* The store that goes to memory is the one that retires.
LEMMA StoredIs ==
    ASSUME Quiet, IInv, NEW in, NEW s, Edge(in, s), ~s.flush
    PROVE  InOrder!Stored(Num(s)) =
             IF s.commit.commit_lsu THEN <<commit_pointer[0]>> ELSE <<>>
<1>1. /\ s.ack[0] \in BOOLEAN /\ s.ack[1] \in BOOLEAN /\ (s.ack[1] => s.ack[0])
      /\ s.commit.commit_lsu <=> s.ack[0] /\ IsStore(e0)
      /\ s.commit.commit_lsu \in BOOLEAN
  BY CommitFacts DEF SB!Ports, IsStore
<1>2. Num(s) > 0 <=> s.ack[0]
  BY <1>1 DEF Num, SB!One
<1>3. mem \in [Slots -> Entry] /\ commit_pointer[0] \in Slots /\ issue_cnt \in Slots
  BY RingFacts DEF IInv
<1>4. s.ack[0] => 1 \in 1 .. issue_cnt
  <2>1. Num(s) \in 0 .. 2 /\ Num(s) <= issue_cnt
    BY RingStep
  <2> QED BY <1>2, <1>3, <2>1 DEF Slots
<1>5. SB!Add(commit_pointer[0], 1 - 1) = commit_pointer[0]
  BY <1>3, Instances DEF SB!Add, Slots
<1>6. s.ack[0] => Window[1].id = commit_pointer[0] /\ Window[1].store = IsStore(e0)
  BY <1>3, <1>4, <1>5, WindowIs, WindowType DEF e0
<1> QED BY <1>1, <1>2, <1>6 DEF InOrder!Stored

\* A clock edge of the core is a step of the in-order core.
LEMMA EdgeInOrder ==
    ASSUME Quiet, IInv, NEW in, NEW s, Edge(in, s)
    PROVE  InOrder!PNext
<1>1. PICK take \in BOOLEAN :
             /\ take => BUF!CommitSeq # <<>>
             /\ BUF!CommitSeq' = (IF take THEN Tail(BUF!CommitSeq) ELSE BUF!CommitSeq)
                                   \o (IF s.commit.commit_lsu THEN <<commit_pointer[0]>> ELSE <<>>)
  BY OutgoingStep
<1>2. CASE s.flush
  <2>1. ~s.commit.commit_lsu
    BY <1>2, BufferContract
  <2>2. Window' = <<>>
    <3>1. issue_cnt' = 0
      BY <1>2, FlushStep
    <3> QED BY <3>1 DEF Window
  <2>3. InOrder!Retirable(0) /\ InOrder!Stored(0) = <<>>
    <3>1. Len(Window) \in Nat
      <4>1. mem \in [Slots -> Entry] /\ commit_pointer[0] \in Slots /\ issue_cnt \in Slots
        BY RingFacts DEF IInv
      <4> QED BY <4>1, WindowIs, WindowType, Instances DEF Slots
    <3> QED BY <3>1 DEF InOrder!Retirable, InOrder!Stored
  <2>4. BUF!CommitSeq' = (IF take THEN Tail(BUF!CommitSeq) ELSE BUF!CommitSeq) \o InOrder!Stored(0)
    BY <1>1, <2>1, <2>3
  <2> SUFFICES \E n \in 0 .. 2, m \in 0 .. 1, flush, t \in BOOLEAN :
        /\ InOrder!Retirable(n)
        /\ t => BUF!CommitSeq # <<>>
        /\ BUF!CommitSeq' = (IF t THEN Tail(BUF!CommitSeq) ELSE BUF!CommitSeq) \o InOrder!Stored(n)
        /\ IF flush THEN Window' = <<>> ELSE InOrder!Shifts(n, m)
    BY DEF InOrder!PNext
  <2> WITNESS 0 \in 0 .. 2, 0 \in 0 .. 1, TRUE \in BOOLEAN, take \in BOOLEAN
  <2> QED BY <1>1, <2>2, <2>3, <2>4
<1>3. CASE ~s.flush
  <2>1. /\ Num(s) \in 0 .. 2 /\ InOrder!Retirable(Num(s))
        /\ InOrder!Shifts(Num(s), SB!One(Issues(in, s)))
    BY <1>3, WindowShifts
  <2>2. InOrder!Stored(Num(s)) = IF s.commit.commit_lsu THEN <<commit_pointer[0]>> ELSE <<>>
    BY <1>3, StoredIs
  <2>3. SB!One(Issues(in, s)) \in 0 .. 1
    BY DEF SB!One
  <2>4. BUF!CommitSeq' = (IF take THEN Tail(BUF!CommitSeq) ELSE BUF!CommitSeq)
                            \o InOrder!Stored(Num(s))
    BY <1>1, <2>2
  <2>5. \E flush \in BOOLEAN :
           IF flush THEN Window' = <<>> ELSE InOrder!Shifts(Num(s), SB!One(Issues(in, s)))
    BY <2>1
  <2> QED BY <1>1, <2>1, <2>3, <2>4, <2>5 DEF InOrder!PNext
<1> QED BY <1>2, <1>3

(***************************************************************************)
(* The pipeline around the commit stage implements the in-order core: the  *)
(* scoreboard's window retires from its head, and the stores that go to    *)
(* memory are exactly those that retire, in that order, whatever is        *)
(* flushed, however late units and caches answer.                          *)
(***************************************************************************)
THEOREM CoreInOrder == ASSUME Quiet PROVE Spec => RetiresInOrder
<1>1. Init => InOrder!PInit
  BY DEF Init, SB!Init, BUF!Init, InOrder!PInit, Window, BUF!CommitSeq
<1>2. IInv /\ [Next]_vars => [InOrder!PNext]_InOrder!pvars
  <2> SUFFICES ASSUME IInv, [Next]_vars PROVE [InOrder!PNext]_InOrder!pvars
    OBVIOUS
  <2>1. CASE Next
    BY <2>1, NextEdge, EdgeInOrder
  <2>2. CASE UNCHANGED vars
    BY <2>2 DEF vars, SB!vars, BUF!vars, BUF!specvars, BUF!commitvars, InOrder!pvars, Window, BUF!CommitSeq
  <2> QED BY <2>1, <2>2
<1> QED BY <1>1, <1>2, InitIInv, NextIInv, PTL DEF Spec, RetiresInOrder, InOrder!PSpec

-----------------------------------------------------------------------------
(* The core as the environment of issue. *)

\* Nobody writes back an instruction that is not executing, except in the
\* cycle after a flush.
LEMMA WritesOwned == IInv => SBP!WriteBackOwned(WriteBacks)
<1> SUFFICES ASSUME IInv, NEW w \in WriteBacks, issue_cnt # 0
             PROVE  mem[w.id].issued /\ ~mem[w.id].valid
  BY DEF SBP!WriteBackOwned
<1>1. /\ \A i \in flu_ids : i \in InFlight /\ ~mem[i].valid
      /\ \A i \in store_ids : i \in InFlight /\ ~mem[i].valid
      /\ \A i \in ld_pipe : InFlight # {} => i \in InFlight /\ ~mem[i].valid
  BY WrittenFacts
<1>2. commit_pointer[0] \in InFlight
  <2>1. /\ commit_pointer[0] \in Slots /\ Age(commit_pointer[0]) = 0 /\ issue_cnt \in Slots
        /\ commit_pointer[0] \in InFlight <=> Age(commit_pointer[0]) < issue_cnt
    BY RingFacts DEF IInv
  <2> QED BY <2>1, Instances DEF Slots
<1>3. w.id \in flu_ids \cup store_ids \cup ld_pipe
  BY DEF WriteBacks
<1> QED BY <1>1, <1>2, <1>3 DEF InFlight

\* The write-back sources, the commit stage and the decoder keep what
\* IssueRead asks of its environment.
LEMMA IssueEnvironment ==
    ASSUME Quiet, IInv, NEW in, NEW s, Edge(in, s)
    PROVE  /\ SBP!WriteBackOwned(s.wb)
           /\ \A p \in SBP!Ports : s.ack[p] /\ SBP!Flushes(SBP!commit_instr_o(p)) => s.flush
           /\ \A d \in in.decoded : d.instr.fu = "NONE" => d.ex
<1>1. s.wb = WriteBacks
  BY UnitSignals DEF Edge
<1>3. SBP!WriteBackOwned(s.wb)
  BY <1>1, WritesOwned
<1>4. ASSUME NEW p \in SBP!Ports, s.ack[p], SBP!Flushes(SBP!commit_instr_o(p))
      PROVE  s.flush
  <2>1. /\ s.ack[0] => ~e0.ex
        /\ s.ack[0] /\ ~s.flush => ~is_amo(e0.instr) /\ e0.instr.op \notin WaitsForStores
        /\ s.ack[1] => ~e1.ex /\ e1.instr.fu \notin {"STORE", "CSR"}
        /\ s.flush \in BOOLEAN
    BY CommitFacts
  <2>2. e0.instr \in Instrs /\ e1.instr \in Instrs
    BY RingFacts DEF IInv, e0, e1, Entry
  <2>3. s.ack[1] => ~is_amo(e1.instr) /\ e1.instr.op \notin WaitsForStores
    BY <2>1, <2>2, DecoderAssumption
  <2>4. CASE p = 0
    BY <1>4, <2>1, <2>4 DEF SBP!Flushes, SBP!commit_instr_o, e0, is_amo, WaitsForStores
  <2>5. CASE p = 1
    BY <1>4, <2>1, <2>3, <2>5 DEF SBP!Flushes, SBP!commit_instr_o, e1, is_amo, WaitsForStores
  <2> QED BY <2>4, <2>5 DEF SBP!Ports
<1>5. ASSUME NEW d \in in.decoded, d.instr.fu = "NONE"
      PROVE  d.ex
  <2>1. in.decoded \in Decodes
    BY DEF Edge, Inputs
  <2>2. d.ex = Traps(d.instr)
    BY <2>1 DEF Decodes
  <2> QED BY <1>5, <2>2 DEF Traps
<1> QED BY <1>3, <1>4, <1>5

\* A unit writes back only what it is executing (load_store_unit.sv and
\* ex_stage.sv): a result that is late because of a flush arrives before
\* anything is issued again, and so is never taken for a new instruction's.
THEOREM WriteBacksOwned ==
    ASSUME Quiet PROVE Spec => []SBP!WriteBackOwned(WriteBacks)
  BY WritesOwned, Inductive, PTL
=============================================================================
