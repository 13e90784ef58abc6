--------------------------------- MODULE Cfi ---------------------------------
(***************************************************************************)
(* CFI.sv: the control-flow monitor on the two commit ports.  It watches   *)
(* for a return (jalr x0, x1) that is followed directly by the marker      *)
(* (add x0, x1, imm with the two low result bits set) in program order,    *)
(* whichever ports and cycles the two retire in, and then raises           *)
(* flow_integrity_violated_o until reset.                                  *)
(*                                                                         *)
(* last and before are history variables: what retired last, and what      *)
(* retired before that.  The code has no such registers; the properties    *)
(* compare its three-state machine with them.                              *)
(***************************************************************************)
EXTENDS Naturals

CONSTANTS Instr,     \* records with the fields op, fu, rs1, rd, result
          NoInstr    \* an instruction that is neither return nor marker

VARIABLES state_JALR, flow_integrity_violated, last, before, suspicious

cvars == <<state_JALR, flow_integrity_violated>>
vars == <<state_JALR, flow_integrity_violated, last, before, suspicious>>

States == {"state_JALR_1", "state_JALR_2", "state_JALR_3"}

nop_perso(i) == /\ i.op = "ADD" /\ i.fu = "ALU" /\ i.rs1 = 1 /\ i.rd = 0
                /\ i.result % 4 = 3
JALR_det(i) == i.op = "JALR" /\ i.fu = "CTRL_FLOW" /\ i.rs1 = 1 /\ i.rd = 0

ASSUME CfiAssumption ==
    NoInstr \in Instr /\ ~nop_perso(NoInstr) /\ ~JALR_det(NoInstr)

CInit == state_JALR = "state_JALR_1" /\ flow_integrity_violated = FALSE

(***************************************************************************)
(* i, j: the instructions on port 0 and 1; the acknowledges are 00, 01     *)
(* (single) or 11 (dual).  Of the assignments of one case the last wins.   *)
(* c0 is declared and never driven; it only ever confirms a state.         *)
(***************************************************************************)
\* Mutant: a return and a marker that retire together go unnoticed.
from_JALR_1_no_c6(single, dual, i, j) ==
    IF \/ single /\ JALR_det(i)
       \/ dual /\ JALR_det(j)
    THEN "state_JALR_2" ELSE "state_JALR_1"

from_JALR_1(single, dual, i, j) ==
    LET c1 == single /\ JALR_det(i)
        c6 == dual /\ JALR_det(i) /\ nop_perso(j)
        c8 == dual /\ ~JALR_det(i) /\ JALR_det(j)
        c11 == dual /\ ~nop_perso(i) /\ JALR_det(j)
    IN IF c6 THEN "state_JALR_3"
       ELSE IF c1 \/ c8 \/ c11 THEN "state_JALR_2" ELSE "state_JALR_1"

\* Mutant: a single instruction after the return does not end the wait.
from_JALR_2_no_c3(single, dual, i, j) ==
    IF dual /\ ~nop_perso(i) /\ ~JALR_det(j) THEN "state_JALR_1"
    ELSE IF (single \/ dual) /\ nop_perso(i) THEN "state_JALR_3" ELSE "state_JALR_2"

from_JALR_2(single, dual, i, j) ==
    LET c3 == single /\ ~nop_perso(i)
        c4 == single /\ nop_perso(i)
        c9 == dual /\ ~nop_perso(i) /\ ~JALR_det(j)
        c10 == dual /\ nop_perso(i)
    IN IF c3 \/ c9 THEN "state_JALR_1"
       ELSE IF c4 \/ c10 THEN "state_JALR_3" ELSE "state_JALR_2"

violated(state) == state = "state_JALR_3"

CCycle(ack0, ack1, i, j) ==
    LET single == ack0 /\ ~ack1
        dual == ack0 /\ ack1
    IN /\ state_JALR' =
            CASE state_JALR = "state_JALR_1" -> from_JALR_1(single, dual, i, j)
              [] state_JALR = "state_JALR_2" -> from_JALR_2(single, dual, i, j)
              [] OTHER -> "state_JALR_3"
       /\ flow_integrity_violated' = violated(state_JALR)

-----------------------------------------------------------------------------
(* The monitor with the history of what retired. *)

Init == CInit /\ last = NoInstr /\ before = NoInstr /\ suspicious = "none"

\* A marker retired directly after a return: the pair the monitor is for.
\* It is "certain" if the return itself did not directly follow a return.
Pair(a, b, c) == IF JALR_det(b) /\ nop_perso(c)
                 THEN (IF JALR_det(a) THEN "pair" ELSE "certain") ELSE "none"

Stronger(x, y) == IF "certain" \in {x, y} THEN "certain"
                  ELSE IF "pair" \in {x, y} THEN "pair" ELSE "none"

Cycle(ack0, ack1, i, j) ==
    /\ CCycle(ack0, ack1, i, j)
    /\ last' = IF ack1 THEN j ELSE IF ack0 THEN i ELSE last
    /\ before' = IF ack1 THEN i ELSE IF ack0 THEN last ELSE before
    /\ suspicious' =
         IF ~ack0 THEN suspicious
         ELSE IF ~ack1 THEN Stronger(suspicious, Pair(before, last, i))
         ELSE Stronger(suspicious,
                       Stronger(Pair(before, last, i), Pair(last, i, j)))

Next == \E ack0, ack1 \in BOOLEAN, i, j \in Instr :
            (ack1 => ack0) /\ Cycle(ack0, ack1, i, j)

Spec == Init /\ [][Next]_vars

-----------------------------------------------------------------------------
(* Properties *)

TypeOK ==
    /\ state_JALR \in States
    /\ flow_integrity_violated \in BOOLEAN
    /\ last \in Instr /\ before \in Instr
    /\ suspicious \in {"none", "pair", "certain"}

(***************************************************************************)
(* No false alarm: however the instructions are paired on the two ports    *)
(* and spread over cycles, the machine enters its alarm state only if a    *)
(* marker did retire directly after a return.                              *)
(***************************************************************************)
NoFalseAlarm == state_JALR = "state_JALR_3" => suspicious # "none"

(***************************************************************************)
(* No missed pair: a marker directly after a return that does not itself   *)
(* directly follow a return puts the machine in its alarm state, whichever *)
(* ports and cycles the instructions before and after retire in.           *)
(***************************************************************************)
PairDetected == suspicious = "certain" => state_JALR = "state_JALR_3"

(***************************************************************************)
(* The alarm, once raised, is held until reset, and is raised only from    *)
(* the alarm state (the output register follows the state by one cycle).   *)
(***************************************************************************)
AlarmSticky == [][/\ flow_integrity_violated => flow_integrity_violated'
                  /\ flow_integrity_violated' => state_JALR = "state_JALR_3"]_vars

(***************************************************************************)
(* Strengthening: how far state 1 and state 2 remember what retired last.  *)
(***************************************************************************)
Memory ==
    /\ state_JALR = "state_JALR_2" => JALR_det(last)
    /\ state_JALR = "state_JALR_1" /\ JALR_det(last) => JALR_det(before)
    /\ flow_integrity_violated => state_JALR = "state_JALR_3"
=============================================================================
