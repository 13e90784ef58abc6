------------------------------ MODULE CommitPath ------------------------------
(***************************************************************************)
(* The back end of the core around the commit stage, wired as in ariane.sv,*)
(* issue_stage.sv, ex_stage.sv and load_store_unit.sv: the scoreboard, the *)
(* issue logic with its execute register, the fixed-latency units, the LSU *)
(* bypass, the load unit, the store unit with the store and the AMO        *)
(* buffer, the CSR buffer, the commit stage, the pipeline control of the   *)
(* CSR file, the controller and the control-flow monitor.  One step is one *)
(* clock edge of the whole core.                                           *)
(*                                                                         *)
(* Left to the environment: what is decoded (program), whether the cache   *)
(* grants a request or answers a load or an AMO, whether its write buffer  *)
(* is empty, branch outcomes, whether a CSR access faults or needs a       *)
(* flush, and interrupts.  There is no MMU in this build, so address       *)
(* translation always hits and never faults.  Multiplication and the FPU   *)
(* are not part of this composition.                                       *)
(*                                                                         *)
(* Every store has page offset 0; a load from memory has the same, a load  *)
(* from a device (op LW_IO, non-idempotent) another one.                   *)
(***************************************************************************)
EXTENDS Integers, Sequences, FiniteSets

CONSTANTS NR_ENTRIES, DEPTH_SPEC, DEPTH_COMMIT,
          Programs,     \* sets of instructions: one of them is decoded from
          NoInstr,      \* what the reset value of a slot decodes to
          NoReq         \* no request

VARIABLES
    mem, issue_cnt, issue_pointer, commit_pointer,             \* scoreboard
    fu_data,                                                   \* execute register
    bp_mem, bp_read_pointer, bp_write_pointer, bp_status_cnt,  \* LSU bypass
    st_state, st_req, amo_fifo,                                \* store unit
    speculative_queue, speculative_read_pointer,               \* store buffer
    speculative_write_pointer, speculative_status_cnt,
    commit_queue, commit_read_pointer,
    commit_write_pointer, commit_status_cnt,
    ld_state, load_data, ld_pipe, ld_port,                     \* load unit
    wb_ni,              \* the cache's write buffer holds a device store
    csr_address, csr_valid,                                    \* CSR buffer
    debug_mode, step, wfi,                                     \* CSR file
    state_JALR, flow_integrity_violated,                       \* monitor
    program,            \* the instructions that may be decoded
    clk,                \* toggles at every edge
    failed              \* history: assertions that failed at the last edge

Instrs == (UNION Programs) \cup {NoInstr}
Slots == 0 .. NR_ENTRIES - 1

\* A request to a unit: its slot, unit, and for the load-store unit whether it
\* is an AMO or a load from a device.
Request == [id : Slots, fu : {"ALU", "CTRL_FLOW", "CSR", "LOAD", "STORE"},
            amo : BOOLEAN, io : BOOLEAN]

SB == INSTANCE Scoreboard WITH Instr <- Instrs, NR_WB_PORTS <- 3
BP == INSTANCE LsuBypass
ST == INSTANCE StoreUnit
LD == INSTANCE LoadUnit
\* A store is represented by its transaction id.
BUF == INSTANCE StoreBuffer WITH
    Store <- Slots, ZeroStore <- 0, PageOffset <- {0, 1}, OffsetOf <- [s \in Slots |-> 0]
CB == INSTANCE CsrBuffer
CSR == INSTANCE CsrControl
Mon == INSTANCE Cfi WITH
    Instr <- Instrs, last <- NoInstr, before <- NoInstr, suspicious <- "none"
INSTANCE CommitStage
INSTANCE Controller

ASSUME SizesAssumption ==
    /\ NR_ENTRIES \in Nat /\ NR_ENTRIES >= 4
    /\ DEPTH_SPEC \in Nat /\ DEPTH_SPEC >= 2
    /\ DEPTH_COMMIT \in Nat /\ DEPTH_COMMIT >= 2
    /\ NoReq \notin Request

\* The decoder gives every operation its unit: an AMO is one of the store
\* unit, a fence one of the CSR unit.
ASSUME DecoderAssumption == \A i \in Instrs :
    /\ i.fu \in {"NONE", "ALU", "CTRL_FLOW", "CSR", "LOAD", "STORE"}
    /\ is_amo(i) => i.fu = "STORE"
    /\ i.op \in WaitsForStores => i.fu = "CSR"

vars == <<SB!vars, fu_data, BP!bpvars, ST!stvars, LD!ldvars, wb_ni,
          BUF!vars, CB!csrbufvars, CSR!csrvars, Mon!cvars, program, clk, failed>>

Init ==
    /\ SB!Init /\ fu_data = NoReq
    /\ BP!BypassInit /\ ST!StoreUnitInit /\ LD!LoadUnitInit /\ wb_ni = FALSE /\ BUF!Init
    /\ CB!CsrBufferInit /\ CSR!CsrInit /\ Mon!CInit
    /\ program \in Programs
    /\ clk = FALSE /\ failed = {}

-----------------------------------------------------------------------------
(* Issue: decode marks an instruction that traps as complete (unit NONE).  *)

Traps(i) == i.fu = "NONE"

\* What the decoder can deliver in the current mode.
Decodable(i) ==
    /\ i.op = "DRET" => debug_mode
    /\ i.op \in {"DEBUG_REQUEST", "INTERRUPT"} => ~debug_mode

unit_busy(i, flu_ready_i, lsu_ready_i) ==
    CASE i.fu \in {"ALU", "CTRL_FLOW", "CSR"} -> ~flu_ready_i
      [] i.fu \in {"LOAD", "STORE"} -> ~lsu_ready_i
      [] OTHER -> FALSE

issue_ack_o(decoded, flu_ready_i, lsu_ready_i) ==
    \E d \in decoded : /\ ~SB!issue_full
                       /\ ~unit_busy(d.instr, flu_ready_i, lsu_ready_i) \/ d.ex

Uses(fu) == fu_data # NoReq /\ fu_data.fu = fu

\* The write-backs of this cycle: the fixed-latency units answer at once,
\* the store unit one cycle after it has taken a store, a load one cycle
\* after the cache's answer.
flu_valid_o == fu_data # NoReq /\ fu_data.fu \notin {"LOAD", "STORE"}
flu_ids == {q.id : q \in {r \in {fu_data} : flu_valid_o}}
store_ids == {q.id : q \in {r \in {st_req} : ST!st_valid_o(FALSE)}}
WriteBacks == {[id |-> i, ex |-> FALSE] : i \in flu_ids \cup store_ids \cup ld_pipe}

-----------------------------------------------------------------------------
(* Inputs of a cycle, restricted to the cycles in which they matter. *)

When(c) == IF c THEN BOOLEAN ELSE {FALSE}
HasDeviceLoads == \E i \in program : i.op = "LW_IO"

Decodes == {{}} \cup {{[instr |-> i, ex |-> Traps(i)]} : i \in {j \in program : Decodable(j)}}

\* The request in front of the load and of the store unit (which_op).
lsu_req == IF Uses("LOAD") \/ Uses("STORE") THEN fu_data ELSE NoReq
ForUnit(fu) == LET front == BP!lsu_ctrl_o(lsu_req)
               IN IF front # NoReq /\ front.fu = fu THEN front ELSE NoReq

\* The interlock of the load in front, and its request to the cache.
page_offset_matches ==
    LET ld == ForUnit("LOAD") IN
    ld # NoReq /\ BUF!page_offset_matches_o(
                     IF ld.io THEN 1 ELSE 0,
                     IF st_state = "VALID_STORE" THEN {0} ELSE {})
ld_req == LD!ld_data_req(ForUnit("LOAD"), page_offset_matches)

csr_op == csr_op_o(halt_o(wfi), SB!commit_instr_o(0))

\* The AMO in the commit stage asks the cache for its answer.
amo_req == LET e0 == SB!commit_instr_o(0) IN
    ST!amo_req_o(BUF!no_st_pending_o,
                 e0.valid /\ ~e0.ex /\ ~halt_o(wfi) /\ is_amo(e0.instr))

\* A fence is in the commit stage and the committed queue is empty.
fence_waits == csr_op \in WaitsForStores /\ BUF!no_st_pending_o

\* The combinational signals of a cycle, from the registers and the inputs.
Signals(in) ==
    LET e0 == SB!commit_instr_o(0)
        e1 == SB!commit_instr_o(1)
        halt == halt_o(wfi)
        op == csr_op_o(halt, e0)
        csr_ex == CSR!csr_exception_o(op, in.fault, flow_integrity_violated)
        c == commit(halt, step, e0, e1, csr_ex, BUF!commit_ready_o,
                    in.drained, in.amo_ack)
        cause == IF e0.ex THEN e0.instr.op ELSE "ILLEGAL_INSTR"
        eret == CSR!eret_o(op)
        dbg == CSR!set_debug_pc_o(c.exception, cause, c.ack0, in.ebreak)
        csr_flush == CSR!flush_o(op, in.flushes, c.exception)
        flush == flush_ex_o(c, eret, dbg, csr_flush)
        unissued == flush_unissued_instr_o(c, eret, dbg, csr_flush, in.mispredict)
        flu_ready == CB!csr_ready_o(Uses("CSR"), c.commit_csr)
        issue_ack == issue_ack_o(in.decoded, flu_ready, BP!lsu_ready_o)
        ld == ForUnit("LOAD")
    IN [commit |-> c, op |-> op, cause |-> cause, eret |-> eret,
        flush |-> flush, unissued |-> unissued, issue_ack |-> issue_ack,
        to_unit |-> {d \in in.decoded : issue_ack /\ ~unissued /\ ~Traps(d.instr)},
        st |-> ForUnit("STORE"), ld |-> ld, matches |-> page_offset_matches,
        stall |-> in.ld_gnt /\ LD!stall_ni(ld, ~wb_ni, BUF!store_buffer_empty_o,
                                          commit_pointer[0]),
        st_ready |-> BUF!ready_o(c.commit_lsu) /\ ST!amo_buffer_ready,
        posted |-> ST!store_buffer_valid(flush, FALSE),
        wb |-> WriteBacks, ack |-> [p \in SB!Ports |-> IF p = 0 THEN c.ack0 ELSE c.ack1]]

(***************************************************************************)
(* One clock edge: every component takes its step at once.                 *)
(***************************************************************************)
Cycle(in, s) ==
    LET c == s.commit
    IN /\ SB!Cycle(s.unissued, s.flush, in.decoded, s.issue_ack, s.wb, s.ack)
       /\ fu_data' = IF s.to_unit = {} THEN NoReq
                     ELSE LET i == (CHOOSE d \in s.to_unit : TRUE).instr IN
                          [id |-> issue_pointer, fu |-> i.fu, amo |-> is_amo(i),
                           io |-> i.op = "LW_IO"]
       /\ BP!BypassCycle(s.flush, lsu_req,
                         \/ ST!pop_st_o(s.st, TRUE, s.st_ready, FALSE)
                         \/ LD!pop_ld_o(s.ld, s.matches, in.ld_gnt, s.stall))
       /\ LD!LoadUnitCycle(s.flush, s.ld, s.matches, in.ld_gnt, s.stall, ~wb_ni,
                           in.ld_answer, in.miss_rtrn)
       /\ wb_ni' = in.wb_ni
       /\ ST!StoreUnitCycle(s.flush, s.st, TRUE, FALSE, s.st_ready,
                            c.amo_valid_commit, in.amo_ack)
       /\ BUF!Cycle(s.flush, s.posted, IF s.posted THEN st_req.id ELSE 0, c.commit_lsu, in.gnt)
       /\ CB!CsrBufferCycle(s.flush, Uses("CSR"), IF Uses("CSR") THEN fu_data.id ELSE 0,
                            c.commit_csr)
       /\ CSR!CsrCycle(s.op, c.exception, s.cause, c.ack0, in.ebreak, in.wake, in.step)
       /\ Mon!CCycle(c.ack0, c.ack1, SB!commit_instr_o(0).instr, SB!commit_instr_o(1).instr)
       /\ UNCHANGED program
       /\ clk' = ~clk
       /\ failed' =
            {a \in {"commit_and_flush"} : ~BUF!commit_and_flush(s.flush, c.commit_lsu)} \cup
            {a \in {"speculative_buffer_overflow"} : ~BUF!speculative_buffer_overflow(s.posted)} \cup
            {a \in {"speculative_buffer_underflow"} : ~BUF!speculative_buffer_underflow(c.commit_lsu)} \cup
            {a \in {"commit_buffer_overflow"} : ~BUF!commit_buffer_overflow(c.commit_lsu)} \cup
            {a \in {"eret_and_exception"} : s.eret /\ c.exception} \cup
            {a \in {"same_transaction_id"} :
               flu_ids \cap store_ids # {} \/ (flu_ids \cup store_ids) \cap ld_pipe # {}}

Next ==
    \E decoded \in Decodes,
       gnt \in When(BUF!data_req_o),
       amo_ack \in When(amo_req),
       drained \in When(fence_waits),
       mispredict \in When(Uses("CTRL_FLOW")),
       fault \in When(csr_op \in {"CSR_WRITE", "CSR_READ"}),
       flushes \in When(csr_op = "CSR_WRITE"),
       ebreak \in When(SB!commit_instr_o(0).instr.op = "BREAKPOINT"),
       new_step \in When(csr_op = "CSR_DCSR"),
       wake \in When(wfi \/ csr_op = "WFI"),
       ld_answer \in When(ld_port = "out" /\ ~LD!kill_req),
       miss_rtrn \in When(ld_port = "killed" \/ (ld_port = "out" /\ LD!kill_req)) :
    \E ld_gnt \in When(ld_req /\ (ld_port = "idle" \/ ld_answer)),
       new_wb_ni \in When((wb_ni \/ gnt) /\ HasDeviceLoads) :
    \E in \in {[decoded |-> decoded, gnt |-> gnt, amo_ack |-> amo_ack,
                drained |-> drained, mispredict |-> mispredict, fault |-> fault,
                flushes |-> flushes, ebreak |-> ebreak, step |-> new_step,
                wake |-> wake, ld_answer |-> ld_answer, ld_gnt |-> ld_gnt,
                miss_rtrn |-> miss_rtrn, wb_ni |-> new_wb_ni]} :
    \E s \in {Signals(in)} : Cycle(in, s)

Spec == Init /\ [][Next]_vars

(***************************************************************************)
(* The cache serves what it is asked for: it grants a pending store or     *)
(* load once its port is free, answers loads and AMOs, and drains its      *)
(* write buffer while a fence or a device load waits.                      *)
(* Each is weak fairness of the step that does so, written out because     *)
(* the step is enabled exactly while the request is there.                 *)
(***************************************************************************)
Granted == []<>~BUF!data_req_o \/ []<><<commit_read_pointer' # commit_read_pointer>>_vars
AmoAnswered == []<>~amo_req \/ []<><<amo_req /\ amo_fifo' = {}>>_vars
Drained == []<>~fence_waits \/ []<><<fence_waits /\ issue_cnt' = 0>>_vars

LoadGranted ==
    []<>~(ld_req /\ ld_port = "idle") \/ []<><<ld_req /\ ld_port' = "out">>_vars
LoadAnswered == []<>(ld_port # "out") \/ []<><<ld_pipe' # {}>>_vars
PortServed == LoadGranted /\ LoadAnswered /\ []<>(ld_port # "killed") /\ []<>~wb_ni

\* The clock never stops: weak fairness of Next, which is always enabled.
Clocked == []<><<clk' # clk>>_vars

FairSpec == Spec /\ Clocked /\ Granted /\ AmoAnswered /\ Drained /\ PortServed

-----------------------------------------------------------------------------
(* Properties *)

TypeOK ==
    /\ SB!TypeOK /\ BUF!TypeOK
    /\ fu_data \in Request \cup {NoReq}
    /\ bp_mem \in [0 .. 1 -> Request \cup {NoReq}]
    /\ bp_read_pointer \in 0 .. 1 /\ bp_write_pointer \in 0 .. 1
    /\ bp_status_cnt \in 0 .. 2
    /\ st_state \in ST!StoreUnitStates
    /\ st_req \in Request \cup {NoReq}
    /\ amo_fifo \in SUBSET Slots
    /\ ld_state \in LD!LoadUnitStates /\ load_data \in Slots /\ ld_pipe \in SUBSET Slots
    /\ ld_port \in {"idle", "out", "killed"} /\ wb_ni \in BOOLEAN
    /\ csr_address \in Slots /\ csr_valid \in BOOLEAN
    /\ debug_mode \in BOOLEAN /\ step \in BOOLEAN /\ wfi \in BOOLEAN
    /\ state_JALR \in Mon!States /\ flow_integrity_violated \in BOOLEAN
    /\ clk \in BOOLEAN

\* The instructions in flight; how many of them are older than slot i's.
InFlight == {i \in Slots : mem[i].issued}
Age(i) == SB!Dist(i, commit_pointer[0])

\* places, records [at, id], hold the instructions ids, each once, and taken
\* by increasing at they are in program order.
InProgramOrder(places, ids) ==
    /\ {x.id : x \in places} = ids
    /\ \A x, y \in places : x.at < y.at => Age(x.id) < Age(y.id)

Stores == {i \in InFlight : mem[i].instr.fu = "STORE" /\ ~mem[i].ex}
Loads == {i \in InFlight : mem[i].instr.fu = "LOAD"}
Completed == {i \in InFlight : mem[i].valid}
Amos == {i \in InFlight : is_amo(mem[i].instr)}

(***************************************************************************)
(* commit_lsu_o carries no transaction id: the commit stage pops whatever  *)
(* is at the head of the speculative queue.  The queue therefore holds     *)
(* exactly the completed stores in flight, in program order, and the AMO   *)
(* buffer exactly the completed AMO.                                       *)
(***************************************************************************)
StoreAgreement ==
    /\ InProgramOrder({[at |-> k, id |-> BUF!SpecSeq[k]] : k \in 1 .. speculative_status_cnt},
                      (Stores \cap Completed) \ Amos)
    /\ amo_fifo = Stores \cap Completed \cap Amos

\* The requests of a unit that wait in the LSU bypass and the execute register.
Bypassed(k) == bp_mem[(bp_read_pointer + k - 1) % 2]
Waiting(fu) ==
    {[at |-> k, id |-> Bypassed(k).id] : k \in {l \in 1 .. bp_status_cnt : Bypassed(l).fu = fu}}
    \cup {[at |-> 3, id |-> r.id] : r \in {q \in {fu_data} : Uses(fu)}}

(***************************************************************************)
(* A store in flight that has not completed is in exactly one place: with  *)
(* the store unit, in the LSU bypass or in the execute register; taken in  *)
(* that order they are in program order.  None is lost, taken twice or     *)
(* overtaken.                                                              *)
(***************************************************************************)
StoresTracked ==
    InProgramOrder({[at |-> 0, id |-> i] : i \in store_ids} \cup Waiting("STORE"),
                   Stores \ Completed)

\* The load the cache owes an answer to, unless it is being killed.
Outstanding == {i \in {load_data} : ld_port = "out" /\ ~LD!kill_req}

(***************************************************************************)
(* The same for loads: with the output register of the load unit (which a  *)
(* flush does not clear: in the cycle after it the register may hold a     *)
(* load that is gone), with the cache, in the bypass or in the execute     *)
(* register.  So each answer of the cache completes the load it belongs    *)
(* to, killed and flushed ones none, and no load is asked for twice.       *)
(***************************************************************************)
LoadsTracked ==
    InProgramOrder({[at |-> -1, id |-> i] : i \in IF issue_cnt = 0 THEN {} ELSE ld_pipe}
                   \cup {[at |-> 0, id |-> i] : i \in Outstanding} \cup Waiting("LOAD"),
                   Loads \ Completed)

(***************************************************************************)
(* A load reads memory only after every older store has left the core: the *)
(* commit queue is empty and every store still in flight is younger.  For  *)
(* a load from memory the page-offset interlock sees to it, which is asked *)
(* once and not again while the load waits for its grant; for one from a   *)
(* device stall_ni.                                                        *)
(***************************************************************************)
LoadsSeeStores ==
    \A i \in Outstanding :
        commit_status_cnt = 0 /\ \A j \in Stores \ Amos : Age(i) < Age(j)

\* The refinement mapping: the instructions in flight, oldest first.
Window == [k \in 1 .. issue_cnt |->
    LET i == SB!Add(commit_pointer[0], k - 1)
        e == mem[i]
    IN [id |-> i, store |-> e.instr.fu = "STORE" /\ ~is_amo(e.instr),
        done |-> e.valid, ex |-> e.ex]]

InOrder == INSTANCE InOrderCore WITH
    window <- Window, outgoing <- BUF!CommitSeq, Capacity <- NR_ENTRIES - 1

(***************************************************************************)
(* Scoreboard, commit stage, controller, store unit and store buffer hold  *)
(* a store in four places on its way and exchange no transaction id at     *)
(* commit.  Together they implement the in-order core: a store goes to     *)
(* memory exactly when it retires, in program order, and neither flush,    *)
(* dual commit nor a busy cache loses, repeats or revives one.             *)
(***************************************************************************)
RetiresInOrder == InOrder!PSpec

(***************************************************************************)
(* The CSR buffer has one entry and a waiting fence keeps freeing it.      *)
(* Still, a CSR access that reaches the commit stage finds its own address *)
(* in the buffer.                                                          *)
(***************************************************************************)
CsrOwnAddress ==
    csr_op \in {"CSR_WRITE", "CSR_READ", "CSR_DCSR"} =>
        csr_valid /\ csr_address = commit_pointer[0]

(***************************************************************************)
(* None of the assertions of store_buffer.sv, csr_regfile.sv and           *)
(* scoreboard.sv that concern this path ever fails.                        *)
(***************************************************************************)
AssertionsHold == failed = {}

(***************************************************************************)
(* store_buffer.sv:258: commit is never set when the pipeline is flushed.  *)
(***************************************************************************)
NoCommitWhileFlushing == "commit_and_flush" \notin failed

(***************************************************************************)
(* csr_regfile.sv:1191: eret and exception are never valid together.       *)
(***************************************************************************)
NoEretWithException == "eret_and_exception" \notin failed

(***************************************************************************)
(* Everyone waits on someone: the commit stage on the store buffer, stores *)
(* on the store unit, the issue stage on the scoreboard, fences and AMOs   *)
(* on the cache.  Still every issued instruction leaves the scoreboard, by *)
(* retiring or by a flush, unless the core sleeps in wait-for-interrupt.   *)
(***************************************************************************)
InFlightLeaves == \A i \in Slots : mem[i].issued ~> (~mem[i].issued \/ wfi)
=============================================================================
