--------------------------- MODULE ScoreboardProofs ---------------------------
(***************************************************************************)
(* Proofs about the scoreboard, for every power-of-two or other size of at *)
(* least four, every number of write-back ports and every instruction set. *)
(*                                                                         *)
(* RingInv alone is not inductive: that port 1 retires the instruction     *)
(* after port 0's has to be known to count retirements, and rests on the   *)
(* ports being equal only while nothing is in flight (PortsApart).         *)
(*                                                                         *)
(* The last part is about issue (IssueRead): OneWriter is inductive        *)
(* together with NoneTraps, and OperandsFresh follows from both.           *)
(***************************************************************************)
EXTENDS IssueRead, TLAPS

PortsApart ==
    \/ commit_pointer[1] = Add(commit_pointer[0], 1)
    \/ issue_cnt = 0 /\ commit_pointer[0] = 0 /\ commit_pointer[1] = 0

Inv == TypeOK /\ RingInv /\ PortsApart

\* Reset establishes the invariant.
LEMMA InitInv == Init => Inv
  BY EntriesAssumption, InstrAssumption
  DEF Init, Inv, TypeOK, RingInv, PortsApart, Dist, Slots, Ports, Entry

\* Port 1 offers a complete instruction only one place after port 0.
LEMMA InvPorts == Inv => PortsInOrder
<1> SUFFICES ASSUME Inv, commit_instr_o(1).valid
             PROVE  commit_pointer[1] = Add(commit_pointer[0], 1)
  BY DEF PortsInOrder
<1> USE EntriesAssumption
<1>1. commit_pointer[0] \in Slots /\ commit_pointer[1] \in Slots /\ issue_cnt \in Slots
  BY DEF Inv, TypeOK, Ports
<1>2. Dist(commit_pointer[1], commit_pointer[0]) < issue_cnt
  BY <1>1 DEF Inv, RingInv, commit_instr_o
<1>3. issue_cnt > 0
  BY <1>1, <1>2 DEF Dist, Slots
<1> QED
  BY <1>1, <1>3 DEF Inv, PortsApart, Slots

\* What is acknowledged is in flight: no more than issue_cnt instructions.
LEMMA AcksInFlight ==
  ASSUME Inv, NEW ack \in [Ports -> BOOLEAN],
         \A p \in Ports : ack[p] => commit_instr_o(p).valid,
         ack[1] => ack[0]
  PROVE  /\ One(ack[0]) + One(ack[1]) \in 0 .. 2
         /\ One(ack[0]) + One(ack[1]) <= issue_cnt
         /\ ack[1] => commit_pointer[1] = Add(commit_pointer[0], 1)
<1> USE EntriesAssumption
<1>1. commit_pointer[0] \in Slots /\ commit_pointer[1] \in Slots /\ issue_cnt \in Slots
  BY DEF Inv, TypeOK, Ports
<1>2. ack[0] \in BOOLEAN /\ ack[1] \in BOOLEAN
  BY DEF Ports
<1>3. ack[0] => Dist(commit_pointer[0], commit_pointer[0]) < issue_cnt
  BY <1>1 DEF Inv, RingInv, commit_instr_o, Ports
<1>4. ack[1] => /\ Dist(commit_pointer[1], commit_pointer[0]) < issue_cnt
                /\ commit_pointer[1] = Add(commit_pointer[0], 1)
  BY <1>1, InvPorts DEF Inv, RingInv, commit_instr_o, Ports, PortsInOrder
<1>5. ack[0] => 1 <= issue_cnt
  BY <1>1, <1>3 DEF Dist, Slots
<1>6. ack[1] => 2 <= issue_cnt
  BY <1>1, <1>4 DEF Dist, Slots, Add
<1> QED
  BY <1>1, <1>2, <1>4, <1>5, <1>6 DEF One, Slots

\* Pointer arithmetic of one cycle that retires n and issues e instructions.
LEMMA RingArith ==
  ASSUME NEW cp \in Slots, NEW ip \in Slots, NEW cnt \in Slots,
         NEW n \in 0 .. 2, NEW e \in 0 .. 1,
         cnt = Dist(ip, cp), n <= cnt, e = 1 => cnt < NR_ENTRIES - 1
  PROVE  /\ Add(Add(cp, n), 0) = Add(cp, n)
         /\ Add(cnt, e - n) = Dist(Add(ip, e), Add(cp, n))
         /\ \A i \in Slots :
              Dist(i, Add(cp, n)) < Add(cnt, e - n) <=>
                /\ (e = 1 /\ i = ip) \/ Dist(i, cp) < cnt
                /\ ~(n >= 1 /\ i = cp) /\ ~(n = 2 /\ i = Add(cp, 1))
<1> USE EntriesAssumption
<1>1. CASE n = 0
  BY <1>1 DEF Add, Dist, Slots
<1>2. CASE n = 1
  BY <1>2 DEF Add, Dist, Slots
<1>3. CASE n = 2
  BY <1>3 DEF Add, Dist, Slots
<1> QED BY <1>1, <1>2, <1>3

\* One clock edge under the contract preserves the invariant.
LEMMA CycleInv ==
  ASSUME Inv,
         NEW decoded \in SUBSET Decoded,
         NEW flush_unissued_instr_i \in BOOLEAN, NEW flush_i \in BOOLEAN,
         NEW issue_ack_i \in BOOLEAN, NEW ack \in [Ports -> BOOLEAN],
         NEW wb \in SUBSET WriteBack,
         Contract(decoded, issue_ack_i, wb, ack),
         Cycle(flush_unissued_instr_i, flush_i, decoded, issue_ack_i, wb, ack)
  PROVE  Inv'
<1> USE EntriesAssumption
<1> DEFINE issue_en == /\ decoded # {} /\ issue_ack_i /\ ~issue_full
                       /\ ~flush_unissued_instr_i
           issued == {d \in decoded : issue_en}
           n == One(ack[0]) + One(ack[1])
           e == One(issue_en)
           cp == commit_pointer[0]
           ip == issue_pointer
           cnt == issue_cnt
           commits(i) == \E p \in Ports : ack[p] /\ commit_pointer[p] = i
<1>1. /\ cp \in Slots /\ commit_pointer[1] \in Slots /\ cnt \in Slots /\ ip \in Slots
      /\ mem \in [Slots -> Entry]
      /\ cnt = Dist(ip, cp)
  BY DEF Inv, TypeOK, RingInv, Ports
<1>2. /\ n \in 0 .. 2 /\ n <= cnt
      /\ ack[1] => commit_pointer[1] = Add(cp, 1)
      /\ ack[1] => ack[0]
      /\ ack[0] \in BOOLEAN /\ ack[1] \in BOOLEAN
  BY AcksInFlight DEF Contract, Ports
<1>3. /\ issue_en \in BOOLEAN /\ e \in 0 .. 1 /\ (e = 1 <=> issue_en)
      /\ issue_en => cnt < NR_ENTRIES - 1
  BY <1>1 DEF One, issue_full, Slots
<1>4. /\ issue_cnt' = IF flush_i THEN 0 ELSE Add(cnt, e - n)
      /\ issue_pointer' = IF flush_i THEN 0 ELSE Add(ip, e)
      /\ commit_pointer' = IF flush_i THEN [p \in Ports |-> 0]
                           ELSE [p \in Ports |-> Add(Add(cp, n), p)]
      /\ issue_fifo(flush_i, issued, wb, ack)
  BY DEF Cycle
<1>5. /\ commit_pointer'[0] = IF flush_i THEN 0 ELSE Add(Add(cp, n), 0)
      /\ commit_pointer'[1] = IF flush_i THEN 0 ELSE Add(Add(cp, n), 1)
  BY <1>4 DEF Ports
<1> HIDE DEF issue_en, n, e
<1>6. issue_cnt' \in Slots /\ issue_pointer' \in Slots
  BY <1>1, <1>2, <1>3, <1>4 DEF Add, Slots
<1>7. commit_pointer' \in [Ports -> Slots]
  <2>1. Add(cp, n) \in Slots
    BY <1>1, <1>2 DEF Add, Slots
  <2>2. \A p \in Ports : Add(Add(cp, n), p) \in Slots
    BY <2>1 DEF Add, Slots, Ports
  <2> QED BY <1>4, <2>2 DEF Slots
<1>8. PortsApart'
  <2>1. CASE flush_i
    BY <1>4, <1>5, <2>1 DEF PortsApart
  <2>2. CASE ~flush_i
    <3>1. Add(cp, n) \in Slots
      BY <1>1, <1>2 DEF Add, Slots
    <3>2. Add(Add(cp, n), 0) = Add(cp, n)
      BY <3>1 DEF Add, Slots
    <3>3. commit_pointer'[1] = Add(commit_pointer'[0], 1)
      BY <1>5, <2>2, <3>2
    <3> QED BY <3>3 DEF PortsApart
  <2> QED BY <2>1, <2>2
<1>9. issue_cnt' = Dist(issue_pointer', commit_pointer'[0])
  <2>1. CASE flush_i
    BY <1>4, <1>5, <2>1 DEF Dist
  <2>2. CASE ~flush_i
    BY <1>1, <1>2, <1>3, <1>4, <1>5, <2>2, RingArith
  <2> QED BY <2>1, <2>2
<1>10. ASSUME NEW i \in Slots
       PROVE  /\ mem'[i].issued <=> /\ ~flush_i /\ ~commits(i)
                                    /\ (issue_en /\ i = ip) \/ mem[i].issued
              /\ mem'[i].valid => mem'[i].issued
              /\ mem'[i] \in Entry
  <2> DEFINE new == {d \in issued : i = issue_pointer}
             none == mem[i].issued /\ mem[i].instr.fu = "NONE"
             writes == {w \in wb : w.id = i /\ mem[i].issued}
             sel == IF new = {} THEN mem[i].instr ELSE (CHOOSE d \in new : TRUE).instr
  <2>1. mem'[i] =
          [issued |-> (new # {} \/ mem[i].issued) /\ ~commits(i) /\ ~flush_i,
           valid  |-> /\ \/ \E d \in new : d.ex
                         \/ new = {} /\ mem[i].valid
                         \/ none
                         \/ writes # {}
                      /\ ~commits(i) /\ ~flush_i,
           ex     |-> /\ \/ \E d \in new : d.ex
                         \/ new = {} /\ mem[i].ex
                         \/ \E w \in writes : w.ex
                      /\ ~flush_i,
           instr  |-> sel]
    BY <1>4 DEF issue_fifo, Clears
  <2>2. new # {} <=> issue_en /\ i = ip
    BY <1>3 DEF issue_en
  <2>3. /\ mem[i] \in Entry /\ mem[i].issued \in BOOLEAN /\ mem[i].instr \in Instr
        /\ mem[i].valid => mem[i].issued
    BY <1>1 DEF Inv, RingInv, Entry
  <2>4. sel \in Instr
    <3>1. CASE new = {}
      BY <2>3, <3>1
    <3>2. CASE new # {}
      <4>1. (CHOOSE d \in new : TRUE) \in new
        BY <3>2
      <4>2. (CHOOSE d \in new : TRUE) \in Decoded
        BY <4>1
      <4>3. (CHOOSE d \in new : TRUE).instr \in Instr
        BY <4>2 DEF Decoded
      <4> QED BY <3>2, <4>3
    <3> QED BY <3>1, <3>2
  <2>5. writes # {} => mem[i].issued
    OBVIOUS
  <2>6. mem'[i].issued <=> /\ ~flush_i /\ ~commits(i)
                           /\ (issue_en /\ i = ip) \/ mem[i].issued
    <3> HIDE DEF issued
    <3> QED BY <1>4, <2>2, <2>3 DEF issue_fifo, Clears
  <2>7. mem'[i].valid => mem'[i].issued
    <3> HIDE DEF issued
    <3> QED BY <1>4, <2>3 DEF issue_fifo, Clears
  <2>8. mem'[i] \in Entry
    BY <2>1, <2>4 DEF Entry
  <2> QED BY <2>6, <2>7, <2>8
<1>11. mem' \in [Slots -> Entry]
  BY <1>4, <1>10 DEF issue_fifo, Clears
<1>12. ASSUME NEW i \in Slots
       PROVE  mem'[i].issued <=> Dist(i, commit_pointer'[0]) < issue_cnt'
  <2>1. mem[i].issued <=> Dist(i, cp) < cnt
    BY DEF Inv, RingInv
  <2>2. commits(i) <=> (ack[0] /\ i = cp) \/ (ack[1] /\ i = Add(cp, 1))
    BY <1>2 DEF Ports
  <2>3. n = IF ack[0] THEN (IF ack[1] THEN 2 ELSE 1) ELSE 0
    BY <1>2 DEF n, One
  <2> HIDE DEF commits
  <2>4. CASE flush_i
    <3>1. Dist(i, commit_pointer'[0]) >= 0 /\ ~(Dist(i, commit_pointer'[0]) < 0)
      BY <1>5, <2>4 DEF Dist, Slots
    <3> QED BY <1>4, <1>10, <2>4, <3>1
  <2>5. CASE ~flush_i
    <3>1. mem'[i].issued <=> ~commits(i) /\ ((issue_en /\ i = ip) \/ mem[i].issued)
      BY <1>10, <2>5
    <3>2. /\ issue_cnt' = Add(cnt, e - n)
          /\ commit_pointer'[0] = Add(Add(cp, n), 0)
      BY <1>4, <1>5, <2>5
    <3>3. Dist(i, Add(cp, n)) < Add(cnt, e - n) <=>
            /\ (e = 1 /\ i = ip) \/ Dist(i, cp) < cnt
            /\ ~(n >= 1 /\ i = cp) /\ ~(n = 2 /\ i = Add(cp, 1))
      BY <1>1, <1>2, <1>3, RingArith
    <3>4. (n >= 1 <=> ack[0]) /\ (n = 2 <=> ack[1])
      BY <1>2, <2>3
    <3>5. Add(Add(cp, n), 0) = Add(cp, n)
      BY <1>1, <1>2, <1>3, RingArith
    <3> QED BY <1>3, <2>1, <2>2, <3>1, <3>2, <3>3, <3>4, <3>5
  <2> QED BY <2>4, <2>5
<1>13. RingInv'
  BY <1>9, <1>10, <1>12 DEF RingInv
<1>14. TypeOK'
  BY <1>6, <1>7, <1>11 DEF TypeOK
<1> QED
  BY <1>8, <1>13, <1>14 DEF Inv

\* Every step preserves the invariant.
LEMMA NextInv == Inv /\ [Next]_vars => Inv'
<1> SUFFICES ASSUME Inv, [Next]_vars PROVE Inv'
  OBVIOUS
<1>1. CASE Next
  <2>1. PICK decoded \in {{}} \cup {{d} : d \in Decoded},
             flush_unissued_instr_i \in BOOLEAN, flush_i \in BOOLEAN,
             issue_ack_i \in BOOLEAN, ack \in [Ports -> BOOLEAN], wb \in WriteBacks :
               /\ Contract(decoded, issue_ack_i, wb, ack)
               /\ Cycle(flush_unissued_instr_i, flush_i, decoded, issue_ack_i, wb, ack)
    BY <1>1 DEF Next
  <2>2. decoded \in SUBSET Decoded /\ wb \in SUBSET WriteBack
    BY <2>1 DEF WriteBacks
  <2> QED BY <2>1, <2>2, CycleInv
<1>2. CASE UNCHANGED vars
  BY <1>2 DEF vars, Inv, TypeOK, RingInv, PortsApart
<1> QED BY <1>1, <1>2

\* Every reachable state has well-typed registers.
THEOREM TypeCorrect == Spec => []TypeOK
<1>1. Inv => TypeOK
  BY DEF Inv
<1> QED BY <1>1, InitInv, NextInv, PTL DEF Spec

\* Counter, pointers and issued bits always describe one contiguous queue,
\* and only instructions in flight are ever complete.
THEOREM RingCorrect == Spec => []RingInv
<1>1. Inv => RingInv
  BY DEF Inv
<1> QED BY <1>1, InitInv, NextInv, PTL DEF Spec

\* No instruction is ever offered for retirement on both commit ports, and
\* port 1 never overtakes port 0.
THEOREM PortsCorrect == Spec => []PortsInOrder
  BY InitInv, NextInv, InvPorts, PTL DEF Spec

-----------------------------------------------------------------------------
(* Refinement of the reorder queue.                                        *)

RobEntry == [instr : Instr, done : BOOLEAN, ex : BOOLEAN]

\* What the refinement mapping makes of the registers m, cp and cnt.
RobOf(m, cp, cnt) ==
    [k \in 1 .. cnt |-> LET e == m[Add(cp, k - 1)]
                        IN [instr |-> e.instr, done |-> e.valid, ex |-> e.ex]]

\* The refinement mapping is a sequence of as many entries as the counter says.
LEMMA RobType ==
  ASSUME NEW m \in [Slots -> Entry], NEW cp \in Slots, NEW cnt \in Slots
  PROVE  /\ RobOf(m, cp, cnt) \in Seq(RobEntry)
         /\ Len(RobOf(m, cp, cnt)) = cnt
         /\ \A k \in 1 .. cnt :
              /\ RobOf(m, cp, cnt)[k].instr = m[Add(cp, k - 1)].instr
              /\ RobOf(m, cp, cnt)[k].done = m[Add(cp, k - 1)].valid
              /\ RobOf(m, cp, cnt)[k].ex = m[Add(cp, k - 1)].ex
              /\ RobOf(m, cp, cnt)[k] \in RobEntry
<1> USE EntriesAssumption
<1>1. \A k \in 1 .. cnt : Add(cp, k - 1) \in Slots
  BY DEF Add, Slots
<1>2. \A k \in 1 .. cnt :
        LET e == m[Add(cp, k - 1)]
        IN [instr |-> e.instr, done |-> e.valid, ex |-> e.ex] \in RobEntry
  BY <1>1 DEF Entry, RobEntry
<1>3. RobOf(m, cp, cnt) \in [1 .. cnt -> RobEntry]
  BY <1>2 DEF RobOf
<1>4. cnt \in Nat
  BY DEF Slots
<1>5. RobOf(m, cp, cnt) \in Seq(RobEntry) /\ Len(RobOf(m, cp, cnt)) = cnt
  BY <1>3, <1>4
<1> QED BY <1>3, <1>5 DEF RobOf

\* A slot that is neither issued to, retired nor flushed in a cycle keeps its
\* instruction, stays complete and keeps its exception.
LEMMA SlotKept ==
  ASSUME TypeOK, NEW i \in Slots, NEW issued, NEW wb, NEW ack,
         issue_fifo(FALSE, issued, wb, ack),
         issued = {} \/ i # issue_pointer,
         \A p \in Ports : ~(ack[p] /\ commit_pointer[p] = i)
  PROVE  /\ mem'[i].instr = mem[i].instr
         /\ mem[i].valid => mem'[i].valid
         /\ mem[i].ex => mem'[i].ex
<1>1. {d \in issued : i = issue_pointer} = {}
  OBVIOUS
<1>2. mem[i].valid \in BOOLEAN /\ mem[i].ex \in BOOLEAN
  BY DEF TypeOK, Entry
<1> QED BY <1>1, <1>2 DEF issue_fifo, Clears

\* The slot of place k after n instructions have retired.
LEMMA PlaceShift ==
  ASSUME NEW cp \in Slots, NEW cnt \in Slots, NEW n \in 0 .. 2, n <= cnt,
         NEW k \in 1 .. cnt - n
  PROVE  /\ Add(Add(cp, n), k - 1) = Add(cp, k + n - 1)
         /\ Add(cp, k + n - 1) \in Slots
         /\ Dist(Add(cp, k + n - 1), cp) = k + n - 1
<1> QED BY EntriesAssumption DEF Add, Dist, Slots

(***************************************************************************)
(* One clock edge retires the n oldest instructions, all complete, issues  *)
(* at most one at the tail and leaves the others in their order.           *)
(***************************************************************************)
LEMMA CycleRefines ==
  ASSUME Inv, Inv',
         NEW decoded \in {{}} \cup {{d} : d \in Decoded},
         NEW flush_unissued_instr_i \in BOOLEAN, NEW flush_i \in BOOLEAN,
         NEW issue_ack_i \in BOOLEAN, NEW ack \in [Ports -> BOOLEAN], NEW wb,
         Contract(decoded, issue_ack_i, wb, ack),
         Cycle(flush_unissued_instr_i, flush_i, decoded, issue_ack_i, wb, ack)
  PROVE  Queue!RNext
<1> USE EntriesAssumption
<1> DEFINE issue_en == /\ decoded # {} /\ issue_ack_i /\ ~issue_full
                       /\ ~flush_unissued_instr_i
           issued == {d \in decoded : issue_en}
           n == One(ack[0]) + One(ack[1])
           e == One(issue_en)
           cp == commit_pointer[0]
           ip == issue_pointer
           cnt == issue_cnt
<1>1. /\ cp \in Slots /\ commit_pointer[1] \in Slots /\ cnt \in Slots /\ ip \in Slots
      /\ mem \in [Slots -> Entry] /\ TypeOK /\ TypeOK' /\ issue_cnt' \in Slots
      /\ cnt = Dist(ip, cp)
  BY DEF Inv, TypeOK, RingInv, Ports
<1>2. /\ n \in 0 .. 2 /\ n <= cnt
      /\ ack[1] => commit_pointer[1] = Add(cp, 1)
      /\ ack[1] => ack[0]
      /\ ack[0] \in BOOLEAN /\ ack[1] \in BOOLEAN
      /\ \A p \in Ports : ack[p] => commit_instr_o(p).valid
  BY AcksInFlight DEF Contract, Ports
<1>3. /\ issue_en \in BOOLEAN /\ e \in 0 .. 1 /\ (e = 1 <=> issue_en)
      /\ issue_en => cnt < NR_ENTRIES - 1
  BY <1>1 DEF One, issue_full, Slots
<1>4. n = IF ack[0] THEN (IF ack[1] THEN 2 ELSE 1) ELSE 0
  BY <1>2 DEF One
<1>5. /\ issue_cnt' = IF flush_i THEN 0 ELSE Add(cnt, e - n)
      /\ commit_pointer' = IF flush_i THEN [p \in Ports |-> 0]
                           ELSE [p \in Ports |-> Add(Add(cp, n), p)]
      /\ issue_fifo(flush_i, issued, wb, ack)
  BY DEF Cycle
<1>6. /\ Rob = RobOf(mem, cp, cnt)
      /\ Rob' = RobOf(mem', commit_pointer'[0], issue_cnt')
  BY DEF Rob, RobOf
<1>7. /\ Len(Rob) = cnt
      /\ \A k \in 1 .. cnt : /\ Rob[k].instr = mem[Add(cp, k - 1)].instr
                             /\ Rob[k].done = mem[Add(cp, k - 1)].valid
                             /\ Rob[k].ex = mem[Add(cp, k - 1)].ex
  BY <1>1, <1>6, RobType
<1>8. /\ Len(Rob') = issue_cnt'
      /\ \A k \in 1 .. issue_cnt' :
           /\ Rob'[k].instr = mem'[Add(commit_pointer'[0], k - 1)].instr
           /\ Rob'[k].done = mem'[Add(commit_pointer'[0], k - 1)].valid
           /\ Rob'[k].ex = mem'[Add(commit_pointer'[0], k - 1)].ex
           /\ Rob'[k].instr \in Instr
  <2>1. mem' \in [Slots -> Entry] /\ commit_pointer'[0] \in Slots
    BY <1>1 DEF TypeOK, Ports
  <2>2. \A k \in 1 .. issue_cnt' : Rob'[k] \in RobEntry
    BY <1>1, <1>6, <2>1, RobType
  <2>3. \A k \in 1 .. issue_cnt' : Rob'[k].instr \in Instr
    BY <2>2 DEF RobEntry
  <2> DEFINE r == RobOf(mem', commit_pointer'[0], issue_cnt')
  <2>4. issue_cnt' \in Slots
    BY <1>1
  <2>5. /\ Len(r) = issue_cnt'
        /\ \A k \in 1 .. issue_cnt' :
             /\ r[k].instr = mem'[Add(commit_pointer'[0], k - 1)].instr
             /\ r[k].done = mem'[Add(commit_pointer'[0], k - 1)].valid
             /\ r[k].ex = mem'[Add(commit_pointer'[0], k - 1)].ex
    BY <2>1, <2>4, RobType
  <2> HIDE DEF r
  <2>6. Rob' = r
    BY <1>6 DEF r
  <2> QED BY <2>3, <2>5, <2>6
<1>9. CASE flush_i
  <2>1. Rob' = <<>>
    BY <1>5, <1>6, <1>9 DEF RobOf
  <2> QED BY <2>1 DEF Queue!RNext
<1>10. CASE ~flush_i
  <2>1. /\ issue_cnt' = cnt - n + e
        /\ commit_pointer'[0] = Add(cp, n)
    <3> HIDE DEF n, e
    <3>1. Add(cp, n) \in Slots /\ Add(Add(cp, n), 0) = Add(cp, n)
      BY <1>1, <1>2 DEF Add, Slots
    <3>2. Add(cnt, e - n) = cnt - n + e
      <4> HIDE DEF issue_en
      <4> QED BY <1>1, <1>2, <1>3 DEF Add, Slots
    <3> QED BY <1>5, <1>10, <3>1, <3>2 DEF Ports
  <2>2. ASSUME NEW k \in 1 .. n PROVE Rob[k].done
    <3>1. n >= 1 => ack[0]
      BY <1>2, <1>4
    <3>2. n = 2 => ack[1]
      BY <1>2, <1>4
    <3>3. Add(cp, 0) = cp
      BY <1>1 DEF Add, Slots
    <3> HIDE DEF n
    <3>4. CASE k = 1
      BY <1>2, <1>7, <3>1, <3>3, <3>4, <1>1 DEF Ports, commit_instr_o, Slots
    <3>5. CASE k = 2
      BY <1>2, <1>7, <3>2, <3>5, <1>1 DEF Ports, commit_instr_o, Slots
    <3> QED BY <1>2, <3>4, <3>5
  <2>3. ASSUME NEW k \in 1 .. cnt - n
        PROVE  Queue!Progress(Rob[k + n], Rob'[k])
    <3> DEFINE i == Add(cp, k + n - 1)
    <3>1. /\ Add(Add(cp, n), k - 1) = i /\ i \in Slots /\ Dist(i, cp) = k + n - 1
      <4> HIDE DEF n
      <4> QED BY <1>1, <1>2, PlaceShift
    <3>2. k \in 1 .. issue_cnt' /\ k + n \in 1 .. cnt
      <4> HIDE DEF n, e
      <4> QED BY <1>1, <1>2, <1>3, <2>1 DEF Slots
    <3>3. issued = {} \/ i # ip
      <4>1. Dist(i, cp) # Dist(ip, cp)
        <5> HIDE DEF n, i
        <5> QED BY <1>1, <1>2, <3>1 DEF Slots
      <4> QED BY <4>1
    <3>4. \A p \in Ports : ~(ack[p] /\ commit_pointer[p] = i)
      <4>1. Dist(cp, cp) = 0 /\ Dist(Add(cp, 1), cp) = 1
        BY <1>1 DEF Dist, Add, Slots
      <4>2. ack[0] => i # cp
        <5>1. ack[0] => n >= 1
          BY <1>2 DEF One
        <5> HIDE DEF n, i
        <5> QED BY <1>1, <1>2, <3>1, <4>1, <5>1
      <4>3. ack[1] => i # commit_pointer[1]
        <5>1. ack[1] => n = 2
          BY <1>2 DEF One
        <5> HIDE DEF n, i
        <5> QED BY <1>1, <1>2, <3>1, <4>1, <5>1
      <4> QED BY <4>2, <4>3 DEF Ports
    <3>5. /\ mem'[i].instr = mem[i].instr
          /\ mem[i].valid => mem'[i].valid
          /\ mem[i].ex => mem'[i].ex
      <4>1. issue_fifo(FALSE, issued, wb, ack)
        BY <1>5, <1>10
      <4> HIDE DEF issued, i
      <4> QED BY <1>1, <3>1, <3>3, <3>4, <4>1, SlotKept
    <3>6. /\ Rob'[k].instr = mem'[i].instr /\ Rob'[k].done = mem'[i].valid
          /\ Rob'[k].ex = mem'[i].ex
      <4> HIDE DEF n, i
      <4> QED BY <1>8, <2>1, <3>1, <3>2
    <3>7. /\ Rob[k + n].instr = mem[i].instr /\ Rob[k + n].done = mem[i].valid
          /\ Rob[k + n].ex = mem[i].ex
      <4> HIDE DEF n
      <4>1. PICK j \in 1 .. cnt : j = k + n
        BY <3>2
      <4>2. j - 1 = k + n - 1
        BY <1>2, <4>1
      <4>3. Add(cp, j - 1) = i
        BY <4>2
      <4> HIDE DEF i
      <4> QED BY <1>7, <4>1, <4>3
    <3> QED BY <3>5, <3>6, <3>7 DEF Queue!Progress
  <2>4. /\ Len(Rob) = cnt /\ Len(Rob') = cnt - n + e
    BY <1>7, <1>8, <2>1
  <2>5. e = 1 => Rob'[Len(Rob')].instr \in Instr
    <3> HIDE DEF n, e
    <3>1. e = 1 => Len(Rob') \in 1 .. Len(Rob')
      BY <1>1, <1>2, <2>4 DEF Slots
    <3> QED BY <1>8, <2>1, <2>4, <3>1
  <2>6. cnt - n + e <= NR_ENTRIES - 1
    <3> HIDE DEF n, e
    <3> QED BY <1>1, <2>1 DEF Slots
  <2>7. Queue!Retired(n)
    BY <1>2, <2>2, <2>4 DEF Queue!Retired
  <2> HIDE DEF n, e
  <2> QED BY <1>2, <1>3, <2>3, <2>4, <2>5, <2>6, <2>7 DEF Queue!RNext
<1> QED BY <1>9, <1>10

(***************************************************************************)
(* The ring of scoreboard.sv, with write-backs in any order, two commit    *)
(* ports and flushes, implements the in-order reorder queue.               *)
(***************************************************************************)
THEOREM Refinement == Spec => ImplementsQueue
<1>1. Init => Queue!RInit
  BY DEF Init, Queue!RInit, Rob
<1>2. Inv /\ Inv' /\ [Next]_vars => [Queue!RNext]_Rob
  <2> SUFFICES ASSUME Inv, Inv', [Next]_vars PROVE [Queue!RNext]_Rob
    OBVIOUS
  <2>1. CASE UNCHANGED vars
    BY <2>1 DEF vars, Rob
  <2>2. CASE Next
    BY <2>2, CycleRefines DEF Next
  <2> QED BY <2>1, <2>2
<1> QED
  BY <1>1, <1>2, InitInv, NextInv, PTL DEF Spec, ImplementsQueue, Queue!RSpec

-----------------------------------------------------------------------------
(* Issue: one writer per register, operands from the youngest.             *)

\* Only what traps was issued without a unit.
NoneTraps == \A i \in Slots : mem[i].issued /\ mem[i].instr.fu = "NONE" => mem[i].ex

IssueInv == Inv /\ NoneTraps /\ OneWriter

\* With the issue decision computed, a step is one that Scoreboard allows.
LEMMA IssueIsStep == INext => Next
<1> SUFFICES ASSUME INext PROVE Next
  OBVIOUS
<1>1. PICK flush_i \in BOOLEAN, ack \in [Ports -> BOOLEAN], we_gpr_i \in [Ports -> BOOLEAN],
           wb \in WriteBacks, decoded \in {{}} \cup {{d} : d \in Decodes},
           flush_unissued_instr_i \in BOOLEAN, mult_held \in BOOLEAN, fu_busy \in BOOLEAN :
             /\ Contract(decoded, issue_ack_o(decoded, mult_held, fu_busy, wb, we_gpr_i), wb, ack)
             /\ Cycle(flush_unissued_instr_i, flush_i, decoded,
                      issue_ack_o(decoded, mult_held, fu_busy, wb, we_gpr_i), wb, ack)
  BY DEF INext
<1>2. issue_ack_o(decoded, mult_held, fu_busy, wb, we_gpr_i) \in BOOLEAN
  BY DEF issue_ack_o
<1>3. decoded \in {{}} \cup {{d} : d \in Decoded}
  BY DEF Decodes
<1> QED BY <1>1, <1>2, <1>3 DEF Next

\* Ages after n instructions have retired.
LEMMA DistShift ==
  ASSUME NEW cp \in Slots, NEW n \in 0 .. 2, NEW i \in Slots, Dist(i, cp) >= n
  PROVE  Dist(i, Add(cp, n)) = Dist(i, cp) - n /\ Dist(i, cp) \in Nat
<1> USE EntriesAssumption
<1>1. CASE n = 0
  BY <1>1 DEF Add, Dist, Slots
<1>2. CASE n = 1
  BY <1>2 DEF Add, Dist, Slots
<1>3. CASE n = 2
  BY <1>3 DEF Add, Dist, Slots
<1> QED BY <1>1, <1>2, <1>3

\* What is in flight after a cycle without flush: the instruction just issued
\* and those that have not retired, unchanged but for their completion.
LEMMA SlotNext ==
  ASSUME Inv, NEW i \in Slots, NEW issued \in SUBSET Decoded, NEW wb, NEW ack,
         issue_fifo(FALSE, issued, wb, ack)
  PROVE  /\ mem'[i].issued <=> /\ \A p \in Ports : ~(ack[p] /\ commit_pointer[p] = i)
                               /\ mem[i].issued \/ (issued # {} /\ i = issue_pointer)
         /\ issued # {} /\ i = issue_pointer =>
              \E d \in issued : mem'[i].instr = d.instr
         /\ issued # {} /\ i = issue_pointer =>
              \A d \in issued : d.ex => mem'[i].ex
<1> DEFINE new == {d \in issued : i = issue_pointer}
<1>1. mem[i].issued \in BOOLEAN /\ mem[i] \in Entry
  BY DEF Inv, TypeOK, Entry
<1>2. new # {} <=> issued # {} /\ i = issue_pointer
  OBVIOUS
<1>3. mem'[i].issued <=> /\ new # {} \/ mem[i].issued
                         /\ ~\E p \in Ports : ack[p] /\ commit_pointer[p] = i
  BY <1>1 DEF issue_fifo, Clears
<1>4. mem'[i].instr = IF new = {} THEN mem[i].instr ELSE (CHOOSE d \in new : TRUE).instr
  BY DEF issue_fifo
<1>5. (\E d \in new : d.ex) => mem'[i].ex
  BY DEF issue_fifo
<1>6. new # {} => (CHOOSE d \in new : TRUE) \in new
  OBVIOUS
<1> QED BY <1>2, <1>3, <1>4, <1>5, <1>6

\* With nothing in flight that flushes, every instruction in flight counts, so
\* a register has at most one writer.
LEMMA Unique ==
  ASSUME IssueInv, \A i \in Slots : mem[i].issued => ~Flushes(mem[i]),
         NEW r, r # 0, NEW j \in Writers(r)
  PROVE  /\ Writers(r) = {j}
         /\ First(Writers(r)) = j
         /\ rd_clobber_gpr_o(r) = mem[j].instr.fu
         /\ rd_clobber_gpr_o(r) # "NONE"
<1>1. \A i \in Slots : mem[i].issued => ~mem[i].ex /\ Certain(i)
  BY DEF Certain, Flushes
<1>2. Writers(r) = {j}
  BY <1>1 DEF Writers, IssueInv, OneWriter
<1>3. First(Writers(r)) = j
  <2>1. j <= j
    BY EntriesAssumption DEF Writers, Slots
  <2> QED BY <1>2, <2>1 DEF First
<1>4. mem[j].instr.fu # "NONE"
  BY <1>1 DEF Writers, IssueInv, NoneTraps
<1> QED BY <1>2, <1>3, <1>4 DEF rd_clobber_gpr_o

\* The operands of an instruction that is not held back.
LEMMA Fresh == IssueInv => OperandsFresh
<1> SUFFICES ASSUME IssueInv, \A i \in Slots : mem[i].issued => ~Flushes(mem[i]),
                    NEW instr \in Instr, NEW wb \in WriteBacks,
                    WriteBackOwned(wb), ~stall(instr, wb),
                    NEW rs \in Sources(instr) \ {0}
             PROVE  /\ operand_n(instr, rs, wb) = Youngest(rs)
                    /\ \A i \in Youngest(rs) :
                         /\ mem[i].valid \/ \E w \in wb : w.id = i /\ ~w.ex
                         /\ mem[i].instr.fu = "CSR" => instr.op = "SFENCE_VMA"
  BY DEF OperandsFresh
<1>1. CASE Writers(rs) = {}
  <2>1. rd_clobber_gpr_o(rs) = "NONE"
    BY <1>1 DEF rd_clobber_gpr_o
  <2>2. operand_n(instr, rs, wb) = {}
    BY <2>1 DEF operand_n, forward
  <2>3. Youngest(rs) = {}
    BY <1>1 DEF Youngest
  <2> QED BY <2>2, <2>3
<1>2. CASE Writers(rs) # {}
  <2>1. PICK j \in Writers(rs) : TRUE
    BY <1>2
  <2>2. /\ Writers(rs) = {j} /\ First(Writers(rs)) = j
        /\ rd_clobber_gpr_o(rs) = mem[j].instr.fu
        /\ rd_clobber_gpr_o(rs) # "NONE"
    BY <2>1, Unique
  <2>3. j \in Slots /\ mem[j].issued
    BY <2>1 DEF Writers
  <2>4. forward(instr, rs, wb)
    BY <2>2 DEF stall
  <2>5. /\ rs_valid_o(rs, wb)
        /\ mem[j].instr.fu # "CSR" \/ instr.op = "SFENCE_VMA"
    BY <2>2, <2>4 DEF forward
  <2>6. Behind(j) \in Nat /\ issue_cnt # 0
    <3>1. commit_pointer[0] \in Slots /\ issue_cnt \in Slots
      BY DEF IssueInv, Inv, TypeOK, Ports
    <3>2. Dist(j, commit_pointer[0]) < issue_cnt
      BY <2>3 DEF IssueInv, Inv, RingInv
    <3> QED BY <2>3, <3>1, <3>2, EntriesAssumption DEF Behind, Dist, Slots
  <2>7. rs_fwd_wb(rs, wb) \subseteq {j}
    <3> SUFFICES ASSUME NEW i \in rs_fwd_wb(rs, wb) PROVE i \in Writers(rs)
      BY <2>2
    <3>1. PICK w \in wb : w.id = i
      BY DEF rs_fwd_wb
    <3>2. mem[i].issued
      BY <2>6, <3>1 DEF WriteBackOwned
    <3> QED BY <3>2 DEF rs_fwd_wb, Writers
  <2>8. rs_fwd_entries(rs) \subseteq {j}
    BY <2>2 DEF rs_fwd_entries
  <2>9. rs_fwd_wb(rs, wb) # {} \/ rs_fwd_entries(rs) # {}
    BY <2>5 DEF rs_valid_o
  <2>10. rs_o(rs, wb) = {j}
    <3>1. CASE rs_fwd_wb(rs, wb) # {}
      BY <2>7, <3>1 DEF rs_o
    <3>2. CASE rs_fwd_wb(rs, wb) = {}
      <4>1. rs_fwd_entries(rs) = Writers(rs)
        BY <2>2, <2>8, <2>9, <3>2
      <4> QED BY <2>2, <3>2, <4>1 DEF rs_o
    <3> QED BY <3>1, <3>2
  <2>11. Youngest(rs) = {j}
    BY <2>2, <2>6 DEF Youngest
  <2>12. mem[j].valid \/ \E w \in wb : w.id = j /\ ~w.ex
    BY <2>7, <2>8, <2>9 DEF rs_fwd_wb, rs_fwd_entries
  <2> QED BY <2>4, <2>5, <2>10, <2>11, <2>12 DEF operand_n
<1> QED BY <1>1, <1>2

\* One clock edge preserves that a register has one writer.
LEMMA IssueStep ==
  ASSUME IssueInv, INext
  PROVE  NoneTraps' /\ OneWriter'
<1> USE EntriesAssumption
<1>1. PICK flush_i \in BOOLEAN, ack \in [Ports -> BOOLEAN], we_gpr_i \in [Ports -> BOOLEAN],
           wb \in WriteBacks, decoded \in {{}} \cup {{d} : d \in Decodes},
           flush_unissued_instr_i \in BOOLEAN, mult_held \in BOOLEAN, fu_busy \in BOOLEAN :
             /\ Commits(flush_i, ack, we_gpr_i)
             /\ Contract(decoded, issue_ack_o(decoded, mult_held, fu_busy, wb, we_gpr_i), wb, ack)
             /\ Cycle(flush_unissued_instr_i, flush_i, decoded,
                      issue_ack_o(decoded, mult_held, fu_busy, wb, we_gpr_i), wb, ack)
  BY DEF INext
<1> DEFINE ia == issue_ack_o(decoded, mult_held, fu_busy, wb, we_gpr_i)
           issue_en == decoded # {} /\ ia /\ ~issue_full /\ ~flush_unissued_instr_i
           issued == {d \in decoded : issue_en}
           n == One(ack[0]) + One(ack[1])
           cp == commit_pointer[0]
           gone(i) == \E p \in Ports : ack[p] /\ commit_pointer[p] = i
<1> HIDE DEF ia
<1>2. Inv /\ Inv'
  <2>1. Next
    BY IssueIsStep
  <2> QED BY <2>1, NextInv DEF IssueInv
<1>3. /\ cp \in Slots /\ commit_pointer[1] \in Slots /\ issue_cnt \in Slots
      /\ issue_pointer \in Slots /\ mem \in [Slots -> Entry]
      /\ issue_cnt = Dist(issue_pointer, cp)
      /\ \A i \in Slots : mem[i].issued <=> Dist(i, cp) < issue_cnt
      /\ \A i \in Slots : mem[i].valid => mem[i].issued
  BY <1>2 DEF Inv, TypeOK, RingInv, Ports
<1>4. /\ n \in 0 .. 2 /\ n <= issue_cnt
      /\ ack[1] => commit_pointer[1] = Add(cp, 1)
      /\ ack[1] => ack[0]
      /\ ack[0] \in BOOLEAN /\ ack[1] \in BOOLEAN
  BY <1>1, <1>2, AcksInFlight DEF Contract, Ports
<1>5. /\ issue_fifo(flush_i, issued, wb, ack)
      /\ ~flush_i => commit_pointer'[0] = Add(Add(cp, n), 0)
  BY <1>1 DEF Cycle, ia, Ports
<1>6. issued \in SUBSET Decoded /\ \A d \in issued : d \in Decodes /\ decoded = {d} /\ ia
  BY DEF Decodes
<1>7. CASE flush_i
  <2>1. \A i \in Slots : ~mem'[i].issued
    BY <1>5, <1>7 DEF issue_fifo, Clears
  <2> QED BY <2>1 DEF NoneTraps, OneWriter
<1>8. CASE ~flush_i
  <2>1. flush_i = FALSE /\ issue_fifo(FALSE, issued, wb, ack)
    BY <1>5, <1>8
  <2> HIDE DEF issued
  <2>2. \A i \in Slots :
          /\ mem'[i].issued <=> ~gone(i) /\ (mem[i].issued \/ (issued # {} /\ i = issue_pointer))
          /\ issued # {} /\ i = issue_pointer => \E d \in issued : mem'[i].instr = d.instr
          /\ issued # {} /\ i = issue_pointer => \A d \in issued : d.ex => mem'[i].ex
    <3> SUFFICES ASSUME NEW i \in Slots
        PROVE /\ mem'[i].issued <=> /\ ~gone(i)
                                    /\ mem[i].issued \/ (issued # {} /\ i = issue_pointer)
              /\ issued # {} /\ i = issue_pointer => \E d \in issued : mem'[i].instr = d.instr
              /\ issued # {} /\ i = issue_pointer => \A d \in issued : d.ex => mem'[i].ex
      OBVIOUS
    <3>1. issued \in SUBSET Decoded
      BY <1>6
    <3>2. /\ mem'[i].issued <=> /\ \A p \in Ports : ~(ack[p] /\ commit_pointer[p] = i)
                                /\ mem[i].issued \/ (issued # {} /\ i = issue_pointer)
          /\ issued # {} /\ i = issue_pointer => \E d \in issued : mem'[i].instr = d.instr
          /\ issued # {} /\ i = issue_pointer => \A d \in issued : d.ex => mem'[i].ex
      BY <1>2, <2>1, <3>1, SlotNext
    <3> QED BY <3>2
  <2>3. \A i \in Slots : mem[i].issued => i # issue_pointer
    BY <1>3 DEF Slots
  <2>4. ASSUME NEW i \in Slots, mem[i].issued, ~gone(i)
        PROVE  /\ mem'[i].instr = mem[i].instr
               /\ mem[i].ex => mem'[i].ex
               /\ Flushes(mem[i]) => Flushes(mem'[i])
               /\ mem'[i].issued
    <3>1. issued = {} \/ i # issue_pointer
      BY <2>3, <2>4
    <3>2. TypeOK
      BY <1>2 DEF Inv
    <3>3. \A p \in Ports : ~(ack[p] /\ commit_pointer[p] = i)
      BY <2>4
    <3>4. mem'[i].instr = mem[i].instr /\ (mem[i].ex => mem'[i].ex)
      BY <2>1, <3>1, <3>2, <3>3, SlotKept
    <3> QED BY <2>2, <2>4, <3>4 DEF Flushes
  <2>5. \A i \in Slots : mem[i].issued /\ gone(i) => ~Flushes(mem[i])
    BY <1>1, <2>1 DEF Commits, commit_instr_o
  <2>6. \A i \in Slots : gone(i) <=> (ack[0] /\ i = cp) \/ (ack[1] /\ i = Add(cp, 1))
    BY <1>4 DEF Ports
  <2>7. n = IF ack[0] THEN (IF ack[1] THEN 2 ELSE 1) ELSE 0
    BY <1>4 DEF One
  <2>8. commit_pointer'[0] = Add(cp, n)
    <3>1. Add(cp, n) \in Slots
      BY <1>3, <1>4 DEF Add, Slots
    <3> HIDE DEF n
    <3>2. Add(Add(cp, n), 0) = Add(cp, n)
      BY <3>1 DEF Add, Slots
    <3> QED BY <1>5, <1>8, <3>2
  <2> HIDE DEF n, gone
  <2>9. ASSUME NEW i \in Slots, ~gone(i), Dist(i, cp) <= issue_cnt
        PROVE  Behind(i)' = Dist(i, cp) - n /\ Dist(i, cp) \in Nat
    <3>1. Dist(i, cp) \in Nat
      BY <1>3 DEF Dist, Slots
    <3>2. Dist(i, cp) >= n
      <4>1. CASE ~ack[0]
        BY <1>4, <2>7, <3>1, <4>1
      <4>2. CASE ack[0] /\ ~ack[1]
        BY <1>3, <2>6, <2>7, <2>9, <4>2 DEF Dist, Slots
      <4>3. CASE ack[0] /\ ack[1]
        BY <1>3, <2>6, <2>7, <2>9, <4>3 DEF Dist, Slots, Add
      <4> QED BY <1>4, <4>1, <4>2, <4>3
    <3>3. Dist(i, Add(cp, n)) = Dist(i, cp) - n
      BY <1>3, <1>4, <3>2, DistShift
    <3>4. Behind(i)' = Dist(i, commit_pointer'[0])
      BY DEF Behind, Dist
    <3> QED BY <2>8, <3>1, <3>3, <3>4
  \* Whatever was in flight before an instruction in flight now and flushes
  \* is still there.
  <2>10. ASSUME NEW i \in Slots, mem'[i].issued, Certain(i)', Dist(i, cp) <= issue_cnt,
                NEW j \in Slots, mem[j].issued, Dist(j, cp) < Dist(i, cp)
         PROVE  ~Flushes(mem[j])
    <3>1. CASE gone(j)
      BY <2>5, <2>10, <3>1
    <3>2. CASE ~gone(j)
      <4>1. ~gone(i)
        BY <2>2, <2>10
      <4>2. Dist(j, cp) <= issue_cnt
        <5>1. issue_cnt \in Int
          BY <1>3 DEF Slots
        <5>2. Dist(i, cp) \in Int /\ Dist(j, cp) \in Int
          BY <1>3, <2>10 DEF Dist, Slots
        <5> HIDE DEF Dist
        <5> QED BY <2>10, <5>1, <5>2
      <4>3. /\ Behind(i)' = Dist(i, cp) - n /\ Dist(i, cp) \in Nat
            /\ Behind(j)' = Dist(j, cp) - n /\ Dist(j, cp) \in Nat
        BY <2>9, <2>10, <3>2, <4>1, <4>2
      <4>4. Behind(j)' < Behind(i)'
        BY <1>4, <2>10, <4>3
      <4>5. mem'[j].issued /\ (Flushes(mem[j]) => Flushes(mem'[j]))
        BY <2>4, <2>10, <3>2
      <4>6. \A k \in Slots : mem'[k].issued /\ Behind(k)' < Behind(i)' => ~Flushes(mem'[k])
        BY <2>10 DEF Certain, Flushes, Slots
      <4> QED BY <4>4, <4>5, <4>6
    <3> QED BY <3>1, <3>2
  <2>11. NoneTraps'
    <3> SUFFICES ASSUME NEW i \in Slots, mem'[i].issued, mem'[i].instr.fu = "NONE"
                 PROVE  mem'[i].ex
      BY DEF NoneTraps, Slots
    <3>1. CASE mem[i].issued
      <4>1. mem'[i].instr = mem[i].instr /\ (mem[i].ex => mem'[i].ex)
        BY <2>2, <2>4, <3>1
      <4> QED BY <3>1, <4>1 DEF IssueInv, NoneTraps
    <3>2. CASE ~mem[i].issued
      <4>1. issued # {} /\ i = issue_pointer
        BY <2>2, <3>2
      <4>2. PICK d \in issued : mem'[i].instr = d.instr
        BY <2>2, <4>1
      <4>3. d.ex
        BY <1>6, <4>2 DEF Decodes
      <4> QED BY <2>2, <4>1, <4>3
    <3> QED BY <3>1, <3>2
  <2>12. ASSUME NEW i \in Slots, mem[i].issued, mem'[i].issued, ~mem'[i].ex, Certain(i)'
         PROVE  ~mem[i].ex /\ Certain(i) /\ mem'[i].instr = mem[i].instr
    <3>1. ~gone(i)
      BY <2>2, <2>12
    <3>2. mem'[i].instr = mem[i].instr /\ ~mem[i].ex
      BY <2>4, <2>12, <3>1
    <3>3. Dist(i, cp) <= issue_cnt
      BY <1>3, <2>12 DEF Dist, Slots
    <3>4. Certain(i)
      BY <2>10, <2>12, <3>3 DEF Certain, Behind
    <3> QED BY <3>2, <3>4
  \* The instruction just issued is the only one that writes its register.
  <2>13. ASSUME NEW i \in Slots, i = issue_pointer, issued # {}, mem'[i].issued, ~mem'[i].ex,
                Certain(i)', mem'[i].instr.rd # 0,
                NEW j \in Slots, mem[j].issued, ~gone(j),
                mem'[j].instr.rd = mem'[i].instr.rd
         PROVE  FALSE
    <3>1. PICK d \in issued : mem'[i].instr = d.instr
      BY <1>3, <2>2, <2>13
    <3>2. ~d.ex /\ d.instr.fu # "NONE"
      BY <1>3, <1>6, <2>2, <2>13, <3>1 DEF Decodes
    <3>3. \A k \in Slots : mem[k].issued => ~Flushes(mem[k])
      <4>1. Dist(i, cp) <= issue_cnt
        BY <1>3, <2>13 DEF Slots
      <4>2. \A k \in Slots : mem[k].issued => Dist(k, cp) < Dist(i, cp)
        BY <1>3, <2>13
      <4> QED BY <2>10, <2>13, <4>1, <4>2
    <3> DEFINE r == d.instr.rd
    <3>4. r # 0 /\ j \in Writers(r)
      BY <2>4, <2>13, <3>1 DEF Writers
    <3>5. Writers(r) = {j} /\ rd_clobber_gpr_o(r) # "NONE"
      BY <3>3, <3>4, Unique
    <3>6. issue_ack_o({d}, mult_held, fu_busy, wb, we_gpr_i)
      BY <1>6 DEF ia
    <3>7. written_now(r, we_gpr_i)
      BY <3>2, <3>5, <3>6 DEF issue_ack_o
    <3>8. PICK p \in Ports : we_gpr_i[p] /\ commit_instr_o(p).instr.rd = r
      BY <3>7 DEF written_now
    <3>9. /\ commit_instr_o(p).valid
          /\ \/ ack[p] \/ commit_instr_o(p).instr.rd = 0
             \/ commit_instr_o(p).instr.op = "SFENCE_VMA"
      BY <1>1, <3>8 DEF Commits
    <3>10. commit_pointer[p] \in Slots
      BY <1>3 DEF Ports
    <3>11. commit_pointer[p] \in Writers(r)
      BY <1>3, <3>8, <3>9, <3>10 DEF Writers, commit_instr_o
    <3>12. ~Flushes(commit_instr_o(p))
      BY <3>3, <3>10, <3>11 DEF Writers, commit_instr_o
    <3>13. ack[p]
      BY <3>4, <3>8, <3>9, <3>12 DEF Flushes
    <3>14. commit_pointer[p] = j
      BY <3>5, <3>11
    <3> QED BY <2>13, <3>13, <3>14 DEF gone
  <2>14. OneWriter'
    <3> SUFFICES ASSUME NEW i \in Slots, NEW j \in Slots,
                        mem'[i].issued, ~mem'[i].ex, Certain(i)',
                        mem'[j].issued, ~mem'[j].ex, Certain(j)',
                        mem'[i].instr.rd = mem'[j].instr.rd, mem'[i].instr.rd # 0
                 PROVE  i = j
      BY DEF OneWriter, Slots
    <3>1. CASE mem[i].issued /\ mem[j].issued
      BY <2>12, <3>1 DEF IssueInv, OneWriter
    <3>2. CASE mem[i].issued /\ ~mem[j].issued
      <4>1. issued # {} /\ j = issue_pointer /\ ~gone(i)
        BY <2>2, <3>2
      <4> QED BY <2>13, <3>2, <4>1
    <3>3. CASE ~mem[i].issued /\ mem[j].issued
      <4>1. issued # {} /\ i = issue_pointer /\ ~gone(j)
        BY <2>2, <3>3
      <4> QED BY <2>13, <3>3, <4>1
    <3>4. CASE ~mem[i].issued /\ ~mem[j].issued
      BY <2>2, <3>4
    <3> QED BY <3>1, <3>2, <3>3, <3>4
  <2> QED BY <2>11, <2>14
<1> QED BY <1>7, <1>8

\* The inductive invariant of issue.
LEMMA IssueInductive == ISpec => []IssueInv
<1>1. Init => IssueInv
  <2> SUFFICES ASSUME Init PROVE IssueInv
    OBVIOUS
  <2>1. \A i \in Slots : ~mem[i].issued
    BY DEF Init
  <2> QED BY <2>1, InitInv DEF IssueInv, NoneTraps, OneWriter
<1>2. IssueInv /\ [INext]_vars => IssueInv'
  <2> SUFFICES ASSUME IssueInv, [INext]_vars PROVE IssueInv'
    OBVIOUS
  <2>1. CASE INext
    BY <2>1, IssueStep, IssueIsStep, NextInv DEF IssueInv
  <2>2. CASE UNCHANGED vars
    <3>1. Inv'
      BY <2>2, NextInv DEF IssueInv
    <3>2. mem' = mem /\ commit_pointer' = commit_pointer
      BY <2>2 DEF vars
    <3>3. NoneTraps'
      BY <3>2 DEF IssueInv, NoneTraps
    <3>4. OneWriter'
      BY <3>2 DEF IssueInv, OneWriter, Certain, Behind, Dist, Flushes
    <3> QED BY <3>1, <3>3, <3>4 DEF IssueInv
  <2> QED BY <2>1, <2>2
<1> QED BY <1>1, <1>2, PTL DEF ISpec

\* A register is written by at most one instruction in flight that can retire
\* (issue_scoreboard), for every size of the scoreboard and instruction set.
THEOREM WritersUnique == ISpec => []OneWriter
<1>1. IssueInv => OneWriter
  BY DEF IssueInv
<1> QED BY <1>1, IssueInductive, PTL

\* An instruction that is issued reads its operands from the youngest writers
\* in flight, whose results are there (operands_available).
THEOREM OperandsAreFresh == ISpec => []OperandsFresh
  BY IssueInductive, Fresh, PTL
=============================================================================
