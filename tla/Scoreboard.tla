----------------------------- MODULE Scoreboard ------------------------------
(***************************************************************************)
(* scoreboard.sv: the ring of instructions in flight.  Instructions are    *)
(* issued at issue_pointer, written back under their slot number (the      *)
(* transaction id) and retired through two commit ports that look at       *)
(* commit_pointer[0] and commit_pointer[1].  The variables are the         *)
(* registers (source names without _q); one step is one clock edge.        *)
(*                                                                         *)
(* NR_ENTRIES is a power of two in the source (its own assertion), so its  *)
(* pointers and issue_cnt wrap at NR_ENTRIES.                              *)
(***************************************************************************)
EXTENDS Integers, Sequences, FiniteSets

CONSTANTS NR_ENTRIES, NR_WB_PORTS,
          Instr,        \* decoded instructions: records with a field fu
          NoInstr       \* what the reset value of a slot decodes to

ASSUME EntriesAssumption == /\ NR_ENTRIES \in Nat /\ NR_ENTRIES >= 4
                            /\ NR_WB_PORTS \in Nat
ASSUME InstrAssumption == NoInstr \in Instr

VARIABLES mem, issue_cnt, issue_pointer, commit_pointer

vars == <<mem, issue_cnt, issue_pointer, commit_pointer>>

Slots == 0 .. NR_ENTRIES - 1
Ports == 0 .. 1
Entry == [issued : BOOLEAN, valid : BOOLEAN, ex : BOOLEAN, instr : Instr]

\* Addition on pointers and counters of $clog2(NR_ENTRIES) bits, |k| <= 3.
Add(p, k) == IF p + k < 0 THEN p + k + NR_ENTRIES
             ELSE IF p + k >= NR_ENTRIES THEN p + k - NR_ENTRIES ELSE p + k

One(b) == IF b THEN 1 ELSE 0

-----------------------------------------------------------------------------
(* Outputs *)

\* Mutant: full one instruction too late.
issue_full_late == issue_cnt = NR_ENTRIES

\* Mutant: both ports offer the oldest instruction.
commit_instr_o_oldest(p) == mem[commit_pointer[0]]

issue_full == issue_cnt = NR_ENTRIES - 1
commit_instr_o(p) == mem[commit_pointer[p]]

\* The issue stage may take the decoded instruction (decoded: none or one).
issue_instr_valid_o(decoded, unresolved_branch_i) ==
    decoded # {} /\ ~unresolved_branch_i /\ ~issue_full

-----------------------------------------------------------------------------
Init ==
    /\ mem = [i \in Slots |-> [issued |-> FALSE, valid |-> FALSE,
                               ex |-> FALSE, instr |-> NoInstr]]
    /\ issue_cnt = 0
    /\ issue_pointer = 0
    /\ commit_pointer = [p \in Ports |-> 0]

\* What makes a slot invalid whatever else happens to it in the cycle.
Clears(commits, flush_i) == commits \/ flush_i

(***************************************************************************)
(* issue_fifo: later assignments win, so in one cycle a slot is written by *)
(* issue, then by FU NONE and write-back, then cleared by commit, then by  *)
(* flush.  issued: the [instr, ex] issued this cycle, none or one; the     *)
(* decoder marks one that already has an exception as valid (complete).    *)
(* wb: the write-backs [id, ex]; one for a slot not issued is ignored.     *)
(***************************************************************************)
issue_fifo(flush_i, issued, wb, ack) ==
    mem' = [i \in Slots |->
      LET new == {d \in issued : i = issue_pointer}
          none == mem[i].issued /\ mem[i].instr.fu = "NONE"
          writes == {w \in wb : w.id = i /\ mem[i].issued}
          commits == \E p \in Ports : ack[p] /\ commit_pointer[p] = i
      IN [issued |-> (new # {} \/ mem[i].issued) /\ ~Clears(commits, flush_i),
          valid  |-> /\ \/ \E d \in new : d.ex
                        \/ new = {} /\ mem[i].valid
                        \/ none
                        \/ writes # {}
                     /\ ~Clears(commits, flush_i),
          ex     |-> /\ \/ \E d \in new : d.ex
                        \/ new = {} /\ mem[i].ex
                        \/ \E w \in writes : w.ex
                     /\ ~flush_i,
          instr  |-> IF new = {} THEN mem[i].instr
                     ELSE (CHOOSE d \in new : TRUE).instr]]

Cycle(flush_unissued_instr_i, flush_i, decoded, issue_ack_i, wb, ack) ==
    LET issue_en == decoded # {} /\ issue_ack_i /\ ~issue_full /\ ~flush_unissued_instr_i
        num_commit == One(ack[0]) + One(ack[1])
        commit_pointer_0 == Add(commit_pointer[0], num_commit)
    IN /\ issue_fifo(flush_i, {d \in decoded : issue_en}, wb, ack)
       /\ issue_cnt' = IF flush_i THEN 0 ELSE Add(issue_cnt, One(issue_en) - num_commit)
       /\ issue_pointer' = IF flush_i THEN 0 ELSE Add(issue_pointer, One(issue_en))
       /\ commit_pointer' = IF flush_i THEN [p \in Ports |-> 0]
                            ELSE [p \in Ports |-> Add(commit_pointer_0, p)]

-----------------------------------------------------------------------------
(***************************************************************************)
(* The environment, as the assertions at the end of scoreboard.sv state    *)
(* it: only valid instructions are acknowledged, only a valid decoded      *)
(* instruction is issued, no two write-backs name one slot.  The commit    *)
(* stage acknowledges port 1 only together with port 0.                    *)
(***************************************************************************)
Contract(decoded, issue_ack_i, wb, ack) ==
    /\ \A p \in Ports : ack[p] => commit_instr_o(p).valid
    /\ ack[1] => ack[0]
    /\ issue_ack_i => issue_instr_valid_o(decoded, FALSE)
    /\ \A v, w \in wb : v.id = w.id => v = w

Decoded == [instr : Instr, ex : BOOLEAN]
WriteBack == [id : Slots, ex : BOOLEAN]
WriteBacks == {wb \in SUBSET WriteBack : Cardinality(wb) <= NR_WB_PORTS}

Next ==
    \E decoded \in {{}} \cup {{d} : d \in Decoded},
       flush_unissued_instr_i, flush_i, issue_ack_i \in BOOLEAN,
       ack \in [Ports -> BOOLEAN], wb \in WriteBacks :
        /\ Contract(decoded, issue_ack_i, wb, ack)
        /\ Cycle(flush_unissued_instr_i, flush_i, decoded, issue_ack_i, wb, ack)

Spec == Init /\ [][Next]_vars

-----------------------------------------------------------------------------
(* Properties *)

TypeOK ==
    /\ mem \in [Slots -> Entry]
    /\ issue_cnt \in Slots
    /\ issue_pointer \in Slots
    /\ commit_pointer \in [Ports -> Slots]

\* The distance of slot i from the oldest instruction, going round the ring.
Dist(i, oldest) == IF i >= oldest THEN i - oldest ELSE i - oldest + NR_ENTRIES

(***************************************************************************)
(* The counter and the two pointers agree, the slots between them are      *)
(* exactly the issued ones, and only an issued slot is ever complete: a    *)
(* write-back that arrives late finds its slot not issued.                 *)
(***************************************************************************)
RingInv ==
    /\ issue_cnt = Dist(issue_pointer, commit_pointer[0])
    /\ \A i \in Slots :
         /\ mem[i].issued <=> Dist(i, commit_pointer[0]) < issue_cnt
         /\ mem[i].valid => mem[i].issued

(***************************************************************************)
(* After reset and after a flush both ports look at slot 0 for a cycle.    *)
(* Port 1 nevertheless never offers an instruction unless it is the next   *)
(* one after port 0's: otherwise one instruction would retire twice.       *)
(***************************************************************************)
PortsInOrder ==
    commit_instr_o(1).valid => commit_pointer[1] = Add(commit_pointer[0], 1)

\* The refinement mapping: the instructions in flight, oldest first.
Rob == [k \in 1 .. issue_cnt |->
          LET e == mem[Add(commit_pointer[0], k - 1)]
          IN [instr |-> e.instr, done |-> e.valid, ex |-> e.ex]]

Queue == INSTANCE ReorderQueue WITH
    rob <- Rob, Instr <- Instr, Capacity <- NR_ENTRIES - 1

(***************************************************************************)
(* Issue, out-of-order write-back, dual commit and flush on the ring       *)
(* implement a queue that retires in program order and only what is        *)
(* complete.                                                               *)
(***************************************************************************)
ImplementsQueue == Queue!RSpec
=============================================================================
