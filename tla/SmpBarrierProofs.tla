-------------------------- MODULE SmpBarrierProofs --------------------------
(***************************************************************************)
(* The boot barrier for every number of harts, every width of the CLINT's  *)
(* select, every MAX_HARTS, and a main that returns, jumps or spins.       *)
(***************************************************************************)
EXTENDS SmpBarrier, TLAPS

\* What the CLINT does with a register of the walk: below NrCores it is the
\* hart's own; the word after the last one is hart 0's or nobody's.
LEMMA SelectFacts ==
    ASSUME NEW w \in Nat
    PROVE  /\ w < NrCores => Decoded(w) /\ Select(w) = w
           /\ Decoded(w) /\ Select(w) \in Harts => Select(w) = w \/ Select(w) = 0
           /\ w < NrCores => w \in Harts
           /\ Select(w) \in Nat
<1>1. ASSUME w < SelSize PROVE w % SelSize = w
  BY <1>1, SmpAssumption
<1>2. ASSUME w = SelSize PROVE w % SelSize = 0
  BY <1>2, SmpAssumption
<1>3. w <= NrCores => w < SelSize \/ w = SelSize
  BY SmpAssumption
<1>4. w % SelSize \in Nat
  BY SmpAssumption
<1> QED BY <1>1, <1>2, <1>3, <1>4, SmpAssumption DEF Decoded, Select, Harts

\* A write raises or clears one bit: that of the register's hart, or hart 0's.
LEMMA WriteFacts ==
    ASSUME TypeOK, NEW w \in Nat, NEW b \in BOOLEAN
    PROVE  /\ WriteMsip(w, b) \in [Harts -> BOOLEAN]
           /\ \A g \in Harts : g # w /\ g # 0 => WriteMsip(w, b)[g] = msip[g]
           /\ w \in Harts => WriteMsip(w, b)[w] = b
           /\ WriteMsip(w, b)[0] \in {msip[0], b}
           /\ w \in Harts /\ w # 0 => WriteMsip(w, b)[0] = msip[0]
<1>1. 0 \in Harts
  BY SmpAssumption DEF Harts
<1>2. w \in Harts <=> w < NrCores
  BY SmpAssumption DEF Harts
<1> QED BY <1>1, <1>2, SelectFacts DEF WriteMsip, TypeOK

\* Initially and after every step the state has its types.
LEMMA TypeInit == Init => TypeOK
<1> SUFFICES ASSUME Init PROVE TypeOK
  OBVIOUS
<1>1. 0 \in 0..MaxHarts
  BY SmpAssumption
<1>2. msip \in [Harts -> BOOLEAN]
  BY Zenon DEF Init
<1>3. pc \in [Harts -> {"main", "wake", "wait", "clear", "scan", "run", "jump", "spin"}]
  BY DEF Init
<1>4. idx \in [Harts -> 0..MaxHarts]
  BY <1>1 DEF Init
<1> QED BY <1>2, <1>3, <1>4 DEF TypeOK

LEMMA TypeStep == TypeOK /\ [Next]_vars => TypeOK'
<1> SUFFICES ASSUME TypeOK, [Next]_vars PROVE TypeOK'
  OBVIOUS
<1>0. 0 \in Harts
  BY SmpAssumption DEF Harts
<1>1. CASE main
  BY <1>0, <1>1, SmpAssumption DEF main, TypeOK
<1>2. CASE wake
  <2>1. idx[0] \in Nat /\ idx[0] \in 0..MaxHarts
    BY <1>0, SmpAssumption DEF TypeOK
  <2>2. WriteMsip(idx[0], TRUE) \in [Harts -> BOOLEAN]
    BY <2>1, WriteFacts
  <2>3. idx[0] < MaxHarts => idx[0] + 1 \in 0..MaxHarts
    BY <2>1, SmpAssumption
  <2> QED BY <1>0, <1>2, <2>2, <2>3 DEF wake, TypeOK
<1>3. ASSUME NEW h \in Harts, Hart(h) PROVE TypeOK'
  <2>1. CASE wait(h)
    BY <2>1 DEF wait, TypeOK
  <2>2. CASE clear(h)
    BY <2>2, SmpAssumption DEF clear, TypeOK
  <2>3. CASE scan(h)
    <3>1. idx[h] < MaxHarts => idx[h] + 1 \in 0..MaxHarts
      BY SmpAssumption DEF TypeOK
    <3> QED BY <2>3, <3>1 DEF scan, TypeOK
  <2> QED BY <1>3, <2>1, <2>2, <2>3 DEF Hart
<1>4. CASE UNCHANGED vars
  BY <1>4 DEF vars, TypeOK
<1> QED BY <1>1, <1>2, <1>3, <1>4 DEF Next, Rest

\* The state of the barrier keeps its types for every number of harts and
\* registers (the walk of wake and scan stops at MAX_HARTS).
THEOREM TypeCorrect == Spec => []TypeOK
<1> QED BY TypeInit, TypeStep, PTL DEF Spec

\* The strengthening holds initially.
LEMMA BarrierInit == Init => BarrierInv
<1> SUFFICES ASSUME Init PROVE BarrierInv
  OBVIOUS
<1>1. 0 \in Harts
  BY SmpAssumption DEF Harts
<1>2. pc[0] = "main" /\ idx[0] = 0
  BY <1>1 DEF Init
<1>3. \A g \in Harts : ~msip[g]
  BY DEF Init
<1>4. \A g \in Harts : g \in Nat /\ pc[g] = IF g = 0 THEN "main" ELSE "wait"
  BY SmpAssumption DEF Init, Harts
<1>5. \A g \in Harts : ~Woken(g)
  BY <1>2, <1>4 DEF Woken
<1> QED BY <1>1, <1>2, <1>3, <1>4, <1>5 DEF BarrierInv

\* Every step keeps it: one case per action of a hart.
LEMMA BarrierStep == TypeOK /\ BarrierInv /\ [Next]_vars => BarrierInv'
<1> SUFFICES ASSUME TypeOK, BarrierInv, [Next]_vars PROVE BarrierInv'
  OBVIOUS
<1>0. 0 \in Harts /\ (\A g \in Harts : g \in Nat /\ idx[g] \in Nat)
  BY SmpAssumption DEF Harts, TypeOK
<1>1. CASE main
  <2>1. PICK to \in {"wake", "jump", "spin"} :
          /\ pc[0] = "main" /\ pc' = [pc EXCEPT ![0] = to]
          /\ idx' = idx /\ msip' = msip
    BY <1>1, SmpAssumption DEF main
  <2>2. \A g \in Harts : pc'[g] = IF g = 0 THEN to ELSE pc[g]
    BY <1>0, <2>1 DEF TypeOK
  <2> QED BY <1>0, <2>1, <2>2 DEF BarrierInv, Woken
<1>2. CASE wake
  <2>1. CASE idx[0] < MaxHarts
    <3> DEFINE w == idx[0]
    <3>1. /\ pc[0] = "wake" /\ pc' = pc
          /\ msip' = WriteMsip(w, TRUE)
          /\ \A g \in Harts : idx'[g] = IF g = 0 THEN w + 1 ELSE idx[g]
      BY <1>0, <1>2, <2>1 DEF wake, TypeOK
    <3>2. /\ \A g \in Harts : g # w /\ g # 0 => msip'[g] = msip[g]
          /\ w \in Harts => msip'[w]
          /\ msip'[0] = msip[0] \/ msip'[0]
          /\ w \in Harts /\ w # 0 => msip'[0] = msip[0]
      BY <1>0, <3>1, WriteFacts
    <3>3. w # 0 => msip[0]
      BY <1>0, <3>1 DEF BarrierInv, Woken
    <3>6. \A g \in Harts : Woken(g)' <=> g <= w
      BY <1>0, <3>1 DEF Woken
    <3>7. \A g \in Harts : Woken(g) <=> g < w
      BY <1>0, <3>1 DEF Woken
    <3> HIDE DEF w
    <3>8. w \in Nat
      BY <1>0 DEF w
    <3>9. \A g \in Harts : g # w => (msip'[g] <=> msip[g])
      <4> SUFFICES ASSUME NEW g \in Harts, g # w PROVE msip'[g] <=> msip[g]
        OBVIOUS
      <4>1. CASE g # 0
        BY <3>2, <4>1
      <4>2. CASE g = 0
        BY <3>2, <3>3, <4>2
      <4> QED BY <4>1, <4>2
    <3>4. \A g \in Harts : ~Woken(g)' => ~msip'[g] /\ pc'[g] \notin {"clear", "scan", "run"}
      <4> SUFFICES ASSUME NEW g \in Harts, ~(g <= w)
                   PROVE  ~msip'[g] /\ pc[g] \notin {"clear", "scan", "run"}
        BY <3>1, <3>6
      <4>1. ~Woken(g) /\ g # w
        BY <1>0, <3>7, <3>8
      <4> QED BY <4>1, <3>9 DEF BarrierInv
    <3>5. \A g \in Harts : Woken(g)' => (msip'[g] <=> pc'[g] \in {"wake", "wait", "clear"})
      <4> SUFFICES ASSUME NEW g \in Harts, g <= w
                   PROVE  msip'[g] <=> pc[g] \in {"wake", "wait", "clear"}
        BY <3>1, <3>6
      <4>1. CASE g = w
        <5>1. ~Woken(g)
          BY <1>0, <3>7, <3>8, <4>1
        <5>2. pc[g] \in {"wake", "wait"}
          BY <5>1, <3>1, <1>0 DEF BarrierInv, TypeOK
        <5> QED BY <3>2, <4>1, <5>2
      <4>2. CASE g # w
        BY <1>0, <3>7, <3>8, <3>9, <4>2 DEF BarrierInv
      <4> QED BY <4>1, <4>2
    <3> QED BY <1>0, <3>1, <3>4, <3>5 DEF BarrierInv
  <2>2. CASE ~(idx[0] < MaxHarts)
    <3>1. /\ pc[0] = "wake" /\ msip' = msip /\ idx' = idx
          /\ \A g \in Harts : pc'[g] = IF g = 0 THEN "wait" ELSE pc[g]
      BY <1>0, <1>2, <2>2 DEF wake, TypeOK
    <3>2. \A g \in Harts : g < idx[0]
      BY <1>0, <2>2, SmpAssumption DEF Harts
    <3> QED BY <1>0, <3>1, <3>2 DEF BarrierInv, Woken
  <2> QED BY <2>1, <2>2
<1>3. ASSUME NEW h \in Harts, Hart(h) PROVE BarrierInv'
  <2>1. CASE wait(h)
    <3>1. /\ pc[h] = "wait" /\ msip[h] /\ msip' = msip /\ idx' = idx
          /\ \A g \in Harts : pc'[g] = IF g = h THEN "clear" ELSE pc[g]
      BY <2>1 DEF wait, TypeOK
    <3> QED BY <1>0, <3>1 DEF BarrierInv, Woken
  <2>2. CASE clear(h)
    <3>1. /\ pc[h] = "clear"
          /\ \A g \in Harts : pc'[g] = IF g = h THEN "scan" ELSE pc[g]
          /\ \A g \in Harts : idx'[g] = IF g = h THEN 0 ELSE idx[g]
      BY <2>2 DEF clear, TypeOK
    <3>2. ~msip'[h] /\ \A g \in Harts : g # h => msip'[g] = msip[g]
      BY <2>2 DEF clear, TypeOK
    <3> QED BY <1>0, <3>1, <3>2 DEF BarrierInv, Woken
  <2>3. CASE scan(h)
    <3>1. CASE idx[h] < MaxHarts
      <4>1. /\ pc[h] = "scan" /\ msip' = msip /\ pc' = pc
            /\ \A g \in Harts : idx'[g] = IF g = h THEN idx[h] + 1 ELSE idx[g]
        BY <2>3, <3>1 DEF scan, TypeOK
      <4>2. FALSE \in ReadMsip(idx[h])
        BY <2>3, <3>1 DEF scan
      <4>3. idx[h] \in Harts /\ LowHalf(idx[h]) => ~msip[idx[h]]
        <5>1. idx[h] \in Harts /\ LowHalf(idx[h]) => ReadMsip(idx[h]) = {msip[idx[h]]}
          <6>1. idx[h] \in Harts => idx[h] < NrCores
            BY SmpAssumption DEF Harts
          <6>2. idx[h] \in Harts => Decoded(idx[h]) /\ Select(idx[h]) = idx[h]
            BY <1>0, <6>1, SelectFacts
          <6> QED BY <6>2 DEF ReadMsip
        <5> QED BY <4>2, <5>1 DEF TypeOK
      <4>4. h # 0 \/ pc[0] = "scan"
        BY <4>1
      <4>5. idx[h] \in Harts =>
              pc[0] \in {"scan", "run"} /\ (LowHalf(idx[h]) => pc[idx[h]] \in {"scan", "run"})
        <5>1. idx[h] = 0 \/ (idx[h] \in Harts => 0 < idx[h])
          BY <1>0
        <5>2. Woken(h)
          BY <4>1 DEF BarrierInv
        <5>3. Woken(0)
          BY <1>0, <5>2 DEF Woken
        <5>4. CASE idx[h] = 0
          <6>1. LowHalf(0)
            BY DEF LowHalf
          <6>2. ~msip[0] /\ pc[0] \notin {"wake", "wait", "clear"}
            BY <1>0, <4>3, <5>3, <5>4, <6>1 DEF BarrierInv
          <6>3. pc[0] \notin {"main", "jump", "spin"}
            BY <1>0, <5>3 DEF BarrierInv, Woken
          <6> QED BY <1>0, <5>4, <6>2, <6>3 DEF TypeOK
        <5>5. CASE idx[h] \in Harts /\ 0 < idx[h]
          <6>1. pc[0] \in {"scan", "run"}
            BY <1>0, <4>1, <5>5 DEF BarrierInv
          <6>2. Woken(idx[h])
            BY <6>1 DEF Woken
          <6>3. LowHalf(idx[h]) => pc[idx[h]] \notin {"wake", "wait", "clear"}
            BY <4>3, <5>5, <6>2 DEF BarrierInv
          <6>4. pc[idx[h]] \notin {"main", "jump", "spin"}
            BY <1>0, <5>5 DEF BarrierInv
          <6> QED BY <5>5, <6>1, <6>3, <6>4 DEF TypeOK
        <5> QED BY <5>1, <5>4, <5>5
      <4>6. \A f, g \in Harts : pc'[f] = "scan" /\ g < idx'[f] =>
              pc'[0] \in {"scan", "run"} /\ (LowHalf(g) => pc'[g] \in {"scan", "run"})
        <5> SUFFICES ASSUME NEW f \in Harts, NEW g \in Harts, pc[f] = "scan", g < idx'[f]
                     PROVE  pc[0] \in {"scan", "run"} /\ (LowHalf(g) => pc[g] \in {"scan", "run"})
          BY <4>1
        <5>1. g < idx[f] \/ (f = h /\ g = idx[h])
          BY <1>0, <4>1
        <5> QED BY <4>5, <5>1 DEF BarrierInv
      <4>7. \A g \in Harts : Woken(g)' <=> Woken(g)
        BY <1>0, <4>1, <4>4 DEF Woken
      <4> QED BY <1>0, <4>1, <4>6, <4>7 DEF BarrierInv
    <3>2. CASE ~(idx[h] < MaxHarts)
      <4>1. /\ pc[h] = "scan" /\ msip' = msip /\ idx' = idx
            /\ \A g \in Harts : pc'[g] = IF g = h THEN "run" ELSE pc[g]
        BY <2>3, <3>2 DEF scan, TypeOK
      <4>2. \A g \in Harts : g < idx[h]
        BY <1>0, <3>2, SmpAssumption DEF Harts
      <4>3. pc[0] \in {"scan", "run"} /\ \A g \in Harts : LowHalf(g) => pc[g] \in {"scan", "run"}
        BY <1>0, <4>1, <4>2 DEF BarrierInv
      <4> QED BY <1>0, <4>1, <4>3 DEF BarrierInv, Woken
    <3> QED BY <3>1, <3>2
  <2> QED BY <1>3, <2>1, <2>2, <2>3 DEF Hart
<1>4. CASE UNCHANGED vars
  BY <1>4 DEF vars, BarrierInv, Woken
<1> QED BY <1>1, <1>2, <1>3, <1>4 DEF Next, Rest

\* The inductive invariant of the barrier, for every number of harts.
THEOREM BarrierInvCorrect == Spec => []BarrierInv
<1>1. Init => BarrierInv
  BY BarrierInit
<1>2. TypeOK /\ BarrierInv /\ [Next]_vars => BarrierInv'
  BY BarrierStep
<1> QED BY <1>1, <1>2, TypeCorrect, PTL DEF Spec

\* Whatever main does and whatever the number of harts: none leaves
\* smp_resume before hart 0 has raised every interrupt, so that none sleeps on
\* without one, and before those whose register can be read have cleared it.
THEOREM BarrierCorrect == Spec => []Barrier
<1>1. TypeOK /\ BarrierInv => Barrier
  <2> SUFFICES ASSUME TypeOK, BarrierInv, NEW h \in Harts, pc[h] = "run", NEW g \in Harts
               PROVE  /\ pc[g] = "wait" => msip[g]
                      /\ LowHalf(g) => pc[g] \in {"scan", "run"} /\ ~msip[g]
    BY DEF Barrier
  <2>1. pc[0] \in {"scan", "run"} /\ (LowHalf(g) => pc[g] \in {"scan", "run"})
    BY DEF BarrierInv
  <2>2. Woken(g)
    BY <2>1 DEF Woken
  <2> QED BY <2>1, <2>2 DEF BarrierInv
<1> QED BY <1>1, TypeCorrect, BarrierInvCorrect, PTL
=============================================================================
