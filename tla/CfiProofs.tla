------------------------------ MODULE CfiProofs -------------------------------
(***************************************************************************)
(* Proofs about the control-flow monitor, for every instruction set.       *)
(*                                                                         *)
(* Neither detection property is inductive: they need Memory, which says   *)
(* what the three states remember of the two instructions retired last.    *)
(***************************************************************************)
EXTENDS Cfi, TLAPS

Inv == TypeOK /\ Memory /\ NoFalseAlarm /\ PairDetected

\* No instruction is both a return and a marker.
LEMMA Exclusive == \A i : ~(JALR_det(i) /\ nop_perso(i))
  BY DEF JALR_det, nop_perso

\* Reset establishes the invariant.
LEMMA InitInv == Init => Inv
  BY CfiAssumption
  DEF Init, CInit, Inv, TypeOK, States, Memory, NoFalseAlarm, PairDetected

\* One clock edge, with none, one or two instructions retiring, preserves it.
LEMMA CycleInv ==
  ASSUME Inv, NEW ack0 \in BOOLEAN, NEW ack1 \in BOOLEAN, ack1 => ack0,
         NEW i \in Instr, NEW j \in Instr, Cycle(ack0, ack1, i, j)
  PROVE  Inv'
<1>1. TypeOK'
  BY DEF Inv, TypeOK, States, Cycle, CCycle,
        from_JALR_1, from_JALR_2, violated, Stronger, Pair
<1>2. CASE ~ack0
  <2>1. /\ last' = last /\ before' = before /\ suspicious' = suspicious
        /\ state_JALR' = state_JALR
        /\ flow_integrity_violated' = (state_JALR = "state_JALR_3")
    BY <1>2 DEF Inv, TypeOK, States, Cycle, CCycle,
        from_JALR_1, from_JALR_2, violated
  <2> QED
    BY <1>1, <2>1 DEF Inv, Memory, NoFalseAlarm, PairDetected
<1>3. CASE ack0 /\ ~ack1
  <2>1. /\ last' = i /\ before' = last
        /\ suspicious' = Stronger(suspicious, Pair(before, last, i))
        /\ flow_integrity_violated' = (state_JALR = "state_JALR_3")
        /\ state_JALR' = IF state_JALR = "state_JALR_1"
                         THEN (IF JALR_det(i) THEN "state_JALR_2" ELSE "state_JALR_1")
                         ELSE IF state_JALR = "state_JALR_2"
                         THEN (IF nop_perso(i) THEN "state_JALR_3" ELSE "state_JALR_1")
                         ELSE "state_JALR_3"
    BY <1>3 DEF Cycle, CCycle,
        from_JALR_1, from_JALR_2, violated
  <2> QED
    BY <1>1, <2>1, Exclusive
    DEF Inv, TypeOK, States, Memory, NoFalseAlarm, PairDetected, Stronger, Pair
<1>4. CASE ack0 /\ ack1
  <2>1. /\ last' = j /\ before' = i
        /\ suspicious' = Stronger(suspicious,
                            Stronger(Pair(before, last, i), Pair(last, i, j)))
        /\ flow_integrity_violated' = (state_JALR = "state_JALR_3")
        /\ state_JALR' = IF state_JALR = "state_JALR_1"
                         THEN (IF JALR_det(i) /\ nop_perso(j) THEN "state_JALR_3"
                               ELSE IF JALR_det(j) THEN "state_JALR_2"
                               ELSE "state_JALR_1")
                         ELSE IF state_JALR = "state_JALR_2"
                         THEN (IF nop_perso(i) THEN "state_JALR_3"
                               ELSE IF JALR_det(j) THEN "state_JALR_2"
                               ELSE "state_JALR_1")
                         ELSE "state_JALR_3"
    BY <1>4, Exclusive DEF Cycle, CCycle,
        from_JALR_1, from_JALR_2, violated
  <2> QED
    BY <1>1, <2>1, Exclusive
    DEF Inv, TypeOK, States, Memory, NoFalseAlarm, PairDetected, Stronger, Pair
<1> QED BY <1>2, <1>3, <1>4

\* Every step preserves the invariant.
LEMMA NextInv == Inv /\ [Next]_vars => Inv'
<1> SUFFICES ASSUME Inv, [Next]_vars PROVE Inv'
  OBVIOUS
<1>1. CASE Next
  BY <1>1, CycleInv DEF Next
<1>2. CASE UNCHANGED vars
  BY <1>2 DEF vars, Inv, TypeOK, Memory, NoFalseAlarm, PairDetected
<1> QED BY <1>1, <1>2

\* The monitor's state and output, and the history, keep their types.
THEOREM TypeCorrect == Spec => []TypeOK
<1>1. Inv => TypeOK
  BY DEF Inv
<1> QED BY <1>1, InitInv, NextInv, PTL DEF Spec

\* The three states of CFI.sv remember exactly what Memory says of the
\* instructions retired last.
THEOREM MemoryCorrect == Spec => []Memory
<1>1. Inv => Memory
  BY DEF Inv
<1> QED BY <1>1, InitInv, NextInv, PTL DEF Spec

\* The alarm state is entered only after a return directly followed by a
\* marker, however the instructions retire on the two ports.
THEOREM NoFalseAlarmCorrect == Spec => []NoFalseAlarm
<1>1. Inv => NoFalseAlarm
  BY DEF Inv
<1> QED BY <1>1, InitInv, NextInv, PTL DEF Spec

\* A marker directly after a return that does not itself follow a return is
\* never missed.
THEOREM PairDetectedCorrect == Spec => []PairDetected
<1>1. Inv => PairDetected
  BY DEF Inv
<1> QED BY <1>1, InitInv, NextInv, PTL DEF Spec

\* Once raised, the alarm stays raised until reset.
THEOREM AlarmStickyCorrect == Spec => AlarmSticky
<1>1. Inv /\ [Next]_vars =>
        [/\ flow_integrity_violated => flow_integrity_violated'
         /\ flow_integrity_violated' => state_JALR = "state_JALR_3"]_vars
  <2>1. Next => flow_integrity_violated' = (state_JALR = "state_JALR_3")
    BY DEF Next, Cycle, CCycle,
        from_JALR_1, from_JALR_2, violated
  <2>2. Inv => (flow_integrity_violated => state_JALR = "state_JALR_3")
    BY DEF Inv, Memory
  <2>3. Inv => flow_integrity_violated \in BOOLEAN
    BY DEF Inv, TypeOK
  <2> QED BY <2>1, <2>2, <2>3
<1> QED BY <1>1, InitInv, NextInv, PTL DEF Spec, AlarmSticky
=============================================================================
