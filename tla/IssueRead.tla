------------------------------ MODULE IssueRead ------------------------------
(***************************************************************************)
(* The issue stage's use of the scoreboard: rd_clobber and forwarding      *)
(* outputs of scoreboard.sv, operand check and issue decision of           *)
(* issue_read_operands.sv.  Both are combinational, so the state is that   *)
(* of Scoreboard; what Scoreboard leaves to its environment, issue_ack_i,  *)
(* is computed here.                                                       *)
(*                                                                         *)
(* An instruction is a record [fu, op, rd, rs1, rs2, use_zimm].  Register  *)
(* 0 is x0; there are no floating-point registers (FP_PRESENT is 0).  The  *)
(* value of an operand is represented by where it comes from: the slot     *)
(* that is forwarded, or none, which is the register file.                 *)
(***************************************************************************)
EXTENDS Scoreboard

\* The source arbiter has a fixed priority: the lowest requesting slot.
First(slots) == CHOOSE i \in slots : \A j \in slots : i <= j

Writers(r) == {i \in Slots : mem[i].issued /\ mem[i].instr.rd = r}

-----------------------------------------------------------------------------
(* scoreboard.sv: outputs to the issue stage *)

\* The unit that is going to write r; GPR[0] is always free.
rd_clobber_gpr_o(r) ==
    IF r = 0 \/ Writers(r) = {} THEN "NONE" ELSE mem[First(Writers(r))].instr.fu

\* A write-back port forwards for the slot its transaction id names, issued
\* or not; it has priority over the complete entries.
rs_fwd_wb(rs, wb) ==
    {i \in Slots : mem[i].instr.rd = rs /\ \E w \in wb : w.id = i /\ ~w.ex}
rs_fwd_entries(rs) == {i \in Writers(rs) : mem[i].valid}

rs_valid_o(rs, wb) == rs # 0 /\ rs_fwd_wb(rs, wb) \cup rs_fwd_entries(rs) # {}

\* The slots whose result may be the data: which of several ports wins
\* depends on the port numbers, which this model does not keep.
rs_o(rs, wb) == IF rs_fwd_wb(rs, wb) # {} THEN rs_fwd_wb(rs, wb)
                ELSE {First(rs_fwd_entries(rs))}

-----------------------------------------------------------------------------
(* issue_read_operands.sv *)

\* rs1 is an immediate if use_zimm; rs2 is looked at whether used or not.
Sources(instr) == {instr.rs2} \cup (IF instr.use_zimm THEN {} ELSE {instr.rs1})

\* Mutant: the result of a CSR instruction, which it has only once it is
\* committed, is forwarded.
forward_csr(instr, rs, wb) ==
    rd_clobber_gpr_o(rs) # "NONE" /\ rs_valid_o(rs, wb)

forward(instr, rs, wb) ==
    /\ rd_clobber_gpr_o(rs) # "NONE"
    /\ rs_valid_o(rs, wb)
    /\ rd_clobber_gpr_o(rs) # "CSR" \/ instr.op = "SFENCE_VMA"

stall(instr, wb) ==
    \E rs \in Sources(instr) : rd_clobber_gpr_o(rs) # "NONE" /\ ~forward(instr, rs, wb)

operand_n(instr, rs, wb) == IF forward(instr, rs, wb) THEN rs_o(rs, wb) ELSE {}

\* Mutant: the register at the commit ports counts as written although the
\* commit stage does not write it yet.
written_now_valid(rd, we_gpr_i) ==
    \E p \in Ports : commit_instr_o(p).valid /\ commit_instr_o(p).instr.rd = rd

\* The commit stage writes rd in this cycle (waddr_i is the rd at the port).
written_now(rd, we_gpr_i) ==
    \E p \in Ports : we_gpr_i[p] /\ commit_instr_o(p).instr.rd = rd

(***************************************************************************)
(* issue_scoreboard.  mult_held: a multiplication was issued in the last   *)
(* cycle and this is none.  (unresolved_branch_i is tied to 0.)            *)
(***************************************************************************)
issue_ack_o(decoded, mult_held, fu_busy, wb, we_gpr_i) ==
    /\ issue_instr_valid_o(decoded, FALSE)
    /\ ~mult_held
    /\ \E d \in decoded :
         \/ /\ ~stall(d.instr, wb) /\ ~fu_busy
            /\ \/ rd_clobber_gpr_o(d.instr.rd) = "NONE"
               \/ written_now(d.instr.rd, we_gpr_i)
         \/ d.ex
         \/ d.instr.fu = "NONE"

-----------------------------------------------------------------------------
(* The environment *)

\* Retires together with a flush of everything behind it: a trap, an AMO
\* (flush_commit_o) and the fences.
Flushes(e) == e.ex \/ e.instr.op \in {"AMO", "FENCE", "FENCE_I", "SFENCE_VMA"}

\* A unit writes back under the id of an instruction it is executing.  What
\* arrives late after a flush does so before anything is issued again.
WriteBackOwned(wb) ==
    issue_cnt = 0 \/ \A w \in wb : mem[w.id].issued /\ ~mem[w.id].valid

(***************************************************************************)
(* commit_stage.sv: what flushes is acknowledged with the flush; a         *)
(* register is written with the acknowledge, except that stores and fences *)
(* hold we_gpr_o high while they wait.  Those have no destination, but for *)
(* SFENCE.VMA, whose check of rd the decoder overwrites.                   *)
(***************************************************************************)
Commits(flush_i, ack, we_gpr_i) ==
    \A p \in Ports :
        /\ ack[p] /\ Flushes(commit_instr_o(p)) => flush_i
        /\ we_gpr_i[p] => /\ commit_instr_o(p).valid
                          /\ \/ ack[p]
                             \/ commit_instr_o(p).instr.rd = 0
                             \/ commit_instr_o(p).instr.op = "SFENCE_VMA"

\* decoder.sv: what needs no unit has an exception.
Decodes == {d \in Decoded : d.instr.fu = "NONE" => d.ex}

INext ==
    \E flush_i \in BOOLEAN, ack, we_gpr_i \in [Ports -> BOOLEAN], wb \in WriteBacks :
        /\ Commits(flush_i, ack, we_gpr_i)
        /\ WriteBackOwned(wb)
        /\ \E decoded \in {{}} \cup {{d} : d \in Decodes},
              flush_unissued_instr_i, mult_held, fu_busy \in BOOLEAN :
              LET issue_ack_i == issue_ack_o(decoded, mult_held, fu_busy, wb, we_gpr_i)
              IN /\ Contract(decoded, issue_ack_i, wb, ack)
                 /\ Cycle(flush_unissued_instr_i, flush_i, decoded, issue_ack_i, wb, ack)

ISpec == Init /\ [][INext]_vars

-----------------------------------------------------------------------------
(* Properties *)

\* The distance of slot i from the oldest instruction in flight.
Behind(i) == Dist(i, commit_pointer[0])

\* Nothing that is in flight before the instruction in slot i will flush it.
Certain(i) == \A j \in Slots : mem[j].issued /\ Behind(j) < Behind(i) => ~Flushes(mem[j])

(***************************************************************************)
(* At most one instruction in flight writes a register, x0 apart ("there   *)
(* should be only one", scoreboard.sv): the arbiters for rd_clobber and    *)
(* for the operands pick by slot number, which says nothing about age.     *)
(* Instructions that trap, or that are behind one that flushes, are issued *)
(* without this check or may pass it early, and never retire.              *)
(***************************************************************************)
OneWriter ==
    \A i, j \in Slots :
        /\ mem[i].issued /\ ~mem[i].ex /\ Certain(i)
        /\ mem[j].issued /\ ~mem[j].ex /\ Certain(j)
        /\ mem[i].instr.rd = mem[j].instr.rd /\ mem[i].instr.rd # 0
        => i = j

\* The youngest of the instructions in flight that write r.
Youngest(r) == {i \in Writers(r) : \A j \in Writers(r) : Behind(j) <= Behind(i)}

(***************************************************************************)
(* An instruction that is not held back reads every operand from the       *)
(* youngest instruction in flight that writes it, whose result is there or *)
(* arrives in this cycle, and from the register file only if no write is   *)
(* pending.  A CSR instruction has no result before it is committed; only  *)
(* SFENCE.VMA takes it nevertheless.                                       *)
(***************************************************************************)
OperandsFresh ==
    (\A i \in Slots : mem[i].issued => ~Flushes(mem[i])) =>
    \A instr \in Instr, wb \in WriteBacks :
        WriteBackOwned(wb) /\ ~stall(instr, wb) =>
        \A rs \in Sources(instr) \ {0} :
            /\ operand_n(instr, rs, wb) = Youngest(rs)
            /\ \A i \in Youngest(rs) :
                 /\ mem[i].valid \/ \E w \in wb : w.id = i /\ ~w.ex
                 /\ mem[i].instr.fu = "CSR" => instr.op = "SFENCE_VMA"
=============================================================================
