-------------------------- MODULE BootLoaderProofs --------------------------
(***************************************************************************)
(* The boot loader for every image size, every retry budget, every place   *)
(* of the table and the image on the card, and a card with or without      *)
(* faults.                                                                 *)
(***************************************************************************)
EXTENDS BootLoader, TLAPS

\* The types and the inductive invariant are kept together: the destination
\* index stays in range only because it counts the blocks left.  A read that
\* is still open when the next one begins is one whose CMD12 was missed.
Inv == TypeOK /\ CopyInv /\ StreamClosed

CardType == [mode : {"off", "idle", "busy", "ready", "reading"}, lba : Nat,
             faulty : BOOLEAN, missed : BOOLEAN]
CopyType == [dst : Dests, lba : Nat, i : 0..ImageBlocks, p : 0..ImageBlocks, rc : {0, -1, -2}]

\* TypeOK in terms of the two record types.
LEMMA Types == TypeOK => card \in CardType /\ copy \in CopyType
  BY DEF TypeOK, CardType, CopyType

LEMMA BlocksFacts == /\ \A d \in Dests : Blocks(d) \in Nat /\ Blocks(d) >= 1 /\ Blocks(d) <= ImageBlocks
                     /\ \A d \in Dests : Lba(d) \in Nat
                     /\ Blocks("lba1_buf") = 1 /\ Blocks("lba2_buf") = 1
                     /\ Blocks("dest") = ImageBlocks
  BY BootAssumption DEF Blocks, Dests, Lba

LEMMA InvInit == Init => Inv
<1> SUFFICES ASSUME Init PROVE Inv
  OBVIOUS
<1>1. tries \in 0..Cmd0Tries /\ pc = "cmd0"
  BY BootAssumption DEF Init
<1>2. copy \in CopyType
  BY BootAssumption DEF Init, NoCopy, Dests, CopyType
<1>3. card \in CardType /\ ~card.missed /\ card.mode = "off"
  BY DEF Init, CardType
<1>4. DOMAIN mem = Dests /\ \A d \in Dests : mem[d] \in [0..(Blocks(d) - 1) -> Int]
  BY DEF Init, Junk
<1>5. tries > 0
  BY BootAssumption DEF Init
<1> QED BY <1>1, <1>2, <1>3, <1>4, <1>5 DEF Inv, TypeOK, CopyInv, Copying, StreamClosed, CardType, CopyType

\* A call of sd_copy starts with nothing copied.
LEMMA CallFacts ==
    ASSUME Inv, NEW d \in Dests, NEW l \in Nat, Call(d, l, Blocks(d)),
           l = Lba(d) \/ card.missed,
           d = "lba1_buf" => ~card.missed /\ l = 1,
           card.mode = "reading" => card.missed,
           d # "lba1_buf" => mem["lba1_buf"][0] = 1,
           d = "dest" => mem["lba2_buf"][0] = TableLba \/ card.missed
    PROVE  Inv'
<1>1. /\ pc' = "cmd18" /\ tries' = tries /\ mem' = mem /\ card' = card
      /\ copy' = [dst |-> d, lba |-> l, i |-> Blocks(d), p |-> 0, rc |-> 0]
  BY DEF Call
<1>2. copy' \in CopyType
  BY <1>1, BlocksFacts, BootAssumption DEF CopyType
<1>3. TypeOK'
  BY <1>1, <1>2 DEF Inv, TypeOK, CopyType
<1>4. CopyInv' /\ StreamClosed'
  BY <1>1, BlocksFacts DEF CopyInv, Copying, StreamClosed
<1> QED BY <1>3, <1>4 DEF Inv

LEMMA InvBlock ==
    ASSUME Inv, sd_copy_block
    PROVE  Inv'
<1>0. /\ pc = "block" /\ tries' = tries
      /\ card' = [card EXCEPT !.lba = @ + 1]
      /\ copy \in CopyType /\ card \in CardType
      /\ copy.rc = 0 /\ copy.i = Blocks(copy.dst) - copy.p /\ copy.i > 0
      /\ card.mode = "reading"
      /\ copy.p > 0 \/ ~card.missed => card.lba = Start + copy.p
  BY Types DEF sd_copy_block, Inv, CopyInv
<1>1. PICK b \in {card.lba, Junk} :
         /\ mem' = [mem EXCEPT ![copy.dst][copy.p] = b]
         /\ IF b = Junk
            THEN copy' = [copy EXCEPT !.p = @ + 1, !.rc = -2] /\ pc' = "cmd12"
            ELSE /\ copy' = [copy EXCEPT !.p = @ + 1, !.i = @ - 1]
                 /\ pc' = IF copy.i - 1 > 0 THEN "block" ELSE "cmd12"
  BY DEF sd_copy_block
<1>2. b \in Int /\ card.lba \in Nat /\ card.lba # Junk
  BY <1>0 DEF Junk, CardType
<1>3. copy.dst \in Dests /\ copy.p \in 0..(Blocks(copy.dst) - 1) /\ copy.p + 1 \in 0..ImageBlocks
      /\ copy.i - 1 \in 0..ImageBlocks /\ copy.lba \in Nat
  <2>1. copy.dst \in Dests /\ copy.p \in Nat /\ copy.i \in Nat /\ copy.i <= ImageBlocks /\ copy.lba \in Nat
    BY <1>0, BootAssumption DEF CopyType
  <2>2. Blocks(copy.dst) \in Nat /\ Blocks(copy.dst) <= ImageBlocks
    BY <2>1, BlocksFacts
  <2> QED BY <1>0, <2>1, <2>2, BootAssumption
<1>4. /\ DOMAIN mem' = Dests
      /\ \A d \in Dests : mem'[d] \in [0..(Blocks(d) - 1) -> Int]
  BY <1>1, <1>2, <1>3 DEF Inv, TypeOK
<1>5. /\ mem'[copy.dst][copy.p] = b
      /\ \A k \in 0..(Blocks(copy.dst) - 1) : k # copy.p => mem'[copy.dst][k] = mem[copy.dst][k]
      /\ \A d \in Dests : d # copy.dst => mem'[d] = mem[d]
  BY <1>1, <1>2, <1>3 DEF Inv, TypeOK
<1>6. /\ copy'.dst = copy.dst /\ copy'.lba = copy.lba /\ copy'.p = copy.p + 1
      /\ b = Junk => copy'.rc = -2 /\ copy'.i = copy.i /\ pc' = "cmd12"
      /\ b # Junk => /\ copy'.rc = 0 /\ copy'.i = copy.i - 1
                     /\ pc' = IF copy.i - 1 > 0 THEN "block" ELSE "cmd12"
  BY <1>0, <1>1 DEF CopyType
<1>7. copy' \in CopyType
  BY <1>0, <1>1, <1>3 DEF CopyType
<1>8. /\ card'.mode = "reading" /\ card'.lba = card.lba + 1 /\ card'.missed = card.missed
      /\ card' \in CardType
  BY <1>0 DEF CardType
<1>9. TypeOK'
  BY <1>0, <1>4, <1>6, <1>7, <1>8 DEF Inv, TypeOK, CardType, CopyType
<1>10. \A k \in 0..(copy.p - 1) : mem[copy.dst][k] = Start + k /\ mem[copy.dst][k] # Junk
  BY <1>0 DEF Inv, CopyInv, Copying
\* The start of the copy is a number, and is settled with the first block.
<1>11. /\ Start \in Int
       /\ copy.p > 0 \/ ~card.missed => Start' = Start
       /\ copy.p = 0 /\ card.missed => Start' = b
  <2>1. 0 \in 0..(Blocks(copy.dst) - 1) /\ mem[copy.dst] \in [0..(Blocks(copy.dst) - 1) -> Int]
    BY <1>3, BlocksFacts DEF Inv, TypeOK
  <2>2. Start \in Int
    <3>1. mem[copy.dst][0] \in Int
      BY <2>1
    <3> QED BY <1>3, <3>1 DEF Start
  <2>3. copy.p # 0 => mem'[copy.dst][0] = mem[copy.dst][0]
    BY <1>5, <2>1
  <2> QED BY <1>3, <1>5, <1>6, <1>8, <2>2, <2>3 DEF Start
<1>12. b # Junk => b = Start' + copy.p
  BY <1>0, <1>1, <1>2, <1>3, <1>11
<1>13. \A k \in 0..copy.p : \/ mem'[copy.dst][k] = Start' + k /\ mem'[copy.dst][k] # Junk
                            \/ b = Junk /\ k = copy.p
  <2> SUFFICES ASSUME NEW k \in 0..copy.p
               PROVE  \/ mem'[copy.dst][k] = Start' + k /\ mem'[copy.dst][k] # Junk
                      \/ b = Junk /\ k = copy.p
    OBVIOUS
  <2>1. CASE k = copy.p
    BY <1>5, <1>12, <2>1
  <2>2. CASE k # copy.p
    <3>1. k \in 0..(copy.p - 1) /\ k \in 0..(Blocks(copy.dst) - 1) /\ copy.p > 0
      BY <1>3, <2>2, BlocksFacts
    <3> QED BY <1>5, <1>10, <1>11, <2>2, <3>1
  <2> QED BY <2>1, <2>2
<1>14. copy'.p - 1 = copy.p
  BY <1>3, <1>6
<1>15. CopyInv'
  <2>1. \A k \in 0..(copy'.p - 1) :
          \/ mem'[copy'.dst][k] = Start' + k /\ mem'[copy'.dst][k] # Junk
          \/ copy'.rc = -2 /\ k = copy'.p - 1
    BY <1>6, <1>13, <1>14
  <2>2. /\ copy'.dst # "lba1_buf" => mem'["lba1_buf"][0] = 1
        /\ copy'.dst = "dest" => mem'["lba2_buf"][0] = TableLba \/ card'.missed
    BY <1>0, <1>5, <1>6, <1>8 DEF Inv, CopyInv, Copying, Dests
  <2>3. /\ copy'.lba = Lba(copy'.dst) \/ card'.missed
        /\ copy'.dst = "lba1_buf" => ~card'.missed /\ copy'.lba = 1
    BY <1>0, <1>6, <1>8 DEF Inv, CopyInv, Copying
  <2>4. pc' = "block" => copy'.rc = 0 /\ copy'.i = Blocks(copy'.dst) - copy'.p /\ copy'.i > 0
    BY <1>0, <1>3, <1>6, BlocksFacts
  <2>5. pc' = "cmd12" /\ copy'.rc = 0 => copy'.p = Blocks(copy'.dst)
    BY <1>0, <1>3, <1>6, BlocksFacts
  <2>6. pc' = "block" => card'.lba = Start' + copy'.p
    <3>1. pc' = "block" => b = card.lba /\ b = Start' + copy.p
      BY <1>1, <1>6, <1>12
    <3>2. Start' \in Int
      BY <1>2, <1>3, <1>11
    <3> QED BY <1>2, <1>3, <1>6, <1>8, <3>1, <3>2
  <2>7. pc' \in {"block", "cmd12"} /\ copy'.rc \in {0, -2}
    BY <1>6
  <2> QED BY <1>8, <2>1, <2>2, <2>3, <2>4, <2>5, <2>6, <2>7 DEF CopyInv, Copying
<1>16. StreamClosed'
  BY <1>6 DEF StreamClosed
<1> QED BY <1>9, <1>15, <1>16 DEF Inv

\* CMD12: a card that misses it turns the start of the copy, from then on,
\* into what its first block says.
LEMMA InvStop ==
    ASSUME Inv, sd_cmd12
    PROVE  Inv'
<1>0. /\ pc = "cmd12" /\ pc' = "return" /\ tries' = tries /\ copy' = copy /\ mem' = mem
      /\ copy \in CopyType /\ card \in CardType
  BY Types DEF sd_cmd12, Inv
<1>1. /\ card' \in CardType
      /\ (card'.mode = "ready" /\ card'.missed = card.missed) \/ card'.missed
      /\ card.missed => card'.missed
  BY <1>0 DEF sd_cmd12, CardType
<1>2. TypeOK' /\ StreamClosed'
  BY <1>0, <1>1 DEF Inv, TypeOK, StreamClosed, CardType, CopyType
<1>3. \A k \in 0..(copy.p - 1) :
        \/ mem[copy.dst][k] = Start + k /\ mem[copy.dst][k] # Junk
        \/ copy.rc = -2 /\ k = copy.p - 1
  BY <1>0 DEF Inv, CopyInv, Copying
<1>4. copy.p \in Nat /\ copy.lba \in Nat
  BY <1>0, BootAssumption DEF CopyType
<1>5. \A k \in 0..(copy.p - 1) :
        \/ mem[copy.dst][k] = Start' + k /\ mem[copy.dst][k] # Junk
        \/ copy.rc = -2 /\ k = copy.p - 1
  <2> SUFFICES ASSUME NEW k \in 0..(copy.p - 1), ~(copy.rc = -2 /\ k = copy.p - 1)
               PROVE  mem[copy.dst][k] = Start' + k
    BY <1>3
  <2>1. CASE card'.missed = card.missed
    <3>1. Start' = Start
      BY <1>0, <2>1 DEF Start
    <3> QED BY <1>3, <3>1
  <2>2. CASE card'.missed /\ ~card.missed
    <3>1. Start' = mem[copy.dst][0] /\ Start = copy.lba
      BY <1>0, <2>2 DEF Start
    <3>2. 0 \in 0..(copy.p - 1) /\ ~(copy.rc = -2 /\ 0 = copy.p - 1)
      BY <1>4
    <3>3. mem[copy.dst][0] = copy.lba + 0 /\ mem[copy.dst][k] = copy.lba + k
      BY <1>3, <3>1, <3>2
    <3> QED BY <1>4, <3>1, <3>3
  <2> QED BY <1>0, <1>1, <2>1, <2>2 DEF CardType
<1>6. copy.dst = "lba1_buf" /\ copy.rc = 0 => mem["lba1_buf"][0] = 1
  <2> SUFFICES ASSUME copy.dst = "lba1_buf", copy.rc = 0 PROVE mem["lba1_buf"][0] = 1
    OBVIOUS
  <2>1. ~card.missed /\ copy.lba = 1 /\ copy.p = 1
    BY <1>0, BlocksFacts DEF Inv, CopyInv, Copying
  <2>2. mem[copy.dst][0] = Start + 0 /\ Start = 1
    BY <1>3, <2>1 DEF Start
  <2> QED BY <2>2
<1>7. CopyInv'
  BY <1>0, <1>1, <1>5, <1>6 DEF Inv, CopyInv, Copying
<1> QED BY <1>2, <1>7 DEF Inv

\* CMD18: a read that begins elsewhere than asked is one on a card that has
\* missed a CMD12.
LEMMA InvRead ==
    ASSUME Inv, sd_cmd18
    PROVE  Inv'
<1>0. copy \in CopyType /\ card \in CardType /\ copy.p = 0 /\ pc = "cmd18"
  BY Types DEF Inv, CopyInv, sd_cmd18
<1>1. PICK b \in Begins :
        /\ tries' = tries /\ mem' = mem
        /\ \/ /\ pc' = "block" /\ copy' = copy
              /\ card' = [card EXCEPT !.mode = "reading", !.lba = b]
           \/ /\ pc' = "return" /\ card' = card
              /\ copy' = [copy EXCEPT !.rc = -1]
  BY DEF sd_cmd18
<1>2. b \in Nat /\ (b = copy.lba \/ card.missed)
  BY <1>0 DEF Begins, Inv, StreamClosed, CardType, CopyType
<1>3. CASE pc' = "block"
  <2>1. /\ copy' = copy /\ card' \in CardType /\ card'.mode = "reading"
        /\ card'.lba = b /\ card'.missed = card.missed
    BY <1>0, <1>1, <1>2, <1>3 DEF CardType
  <2>2. ~card'.missed => Start' = copy.lba /\ card'.lba = Start' + copy'.p
    BY <1>0, <1>2, <2>1 DEF Start, CopyType
  <2>3. TypeOK' /\ StreamClosed'
    BY <1>1, <1>3, <2>1 DEF Inv, TypeOK, StreamClosed, CardType
  <2>4. CopyInv'
    BY <1>0, <1>1, <1>3, <2>1, <2>2 DEF Inv, CopyInv, Copying
  <2> QED BY <2>3, <2>4 DEF Inv
<1>4. CASE pc' = "return"
  <2>1. /\ card' = card /\ copy' \in CopyType
        /\ copy'.dst = copy.dst /\ copy'.lba = copy.lba /\ copy'.p = 0 /\ copy'.rc = -1
    BY <1>0, <1>1, <1>4 DEF CopyType
  <2>2. TypeOK' /\ StreamClosed'
    BY <1>0, <1>1, <1>4, <2>1 DEF Inv, TypeOK, StreamClosed, CopyType
  <2>3. CopyInv'
    BY <1>0, <1>1, <1>4, <2>1 DEF Inv, CopyInv, Copying
  <2> QED BY <2>2, <2>3 DEF Inv
<1> QED BY <1>1, <1>3, <1>4

LEMMA InvStep == Inv /\ [Next]_vars => Inv'
<1> SUFFICES ASSUME Inv, [Next]_vars PROVE Inv'
  OBVIOUS
<1>0. card \in CardType /\ copy \in CopyType /\ tries \in 0..Cmd0Tries
  BY Types DEF Inv, TypeOK
\* A step outside sd_copy keeps the copy and the memory, and no read is open.
<1>1. ASSUME UNCHANGED <<copy, mem>>, card' \in CardType, tries' \in 0..Cmd0Tries,
             ~card'.missed, card'.mode # "reading",
             pc' \in {"cmd8", "acmd41", "gpt_header", "halt"}
      PROVE  Inv'
  BY <1>1 DEF Inv, TypeOK, CopyInv, Copying, StreamClosed, CardType
<1>2. CASE sd_cmd0
  <2>1. /\ UNCHANGED <<copy, mem>> /\ card' \in CardType
        /\ card'.mode # "reading" /\ ~card'.missed
        /\ pc = "cmd0" /\ tries' = tries - 1
        /\ \/ tries' <= 0 /\ pc' = "halt"
           \/ tries' > 0 /\ pc' \in {"cmd0", "cmd8"}
    BY <1>0, <1>2 DEF sd_cmd0, Fail, Inv, CopyInv, Copying, StreamClosed, CardType
  <2>2. tries > 0 /\ tries' \in 0..Cmd0Tries
    BY <1>0, <2>1, BootAssumption DEF Inv, CopyInv
  <2> QED BY <2>1, <2>2 DEF Inv, TypeOK, CopyInv, Copying, StreamClosed, CardType
<1>3. CASE sd_cmd8
  BY <1>0, <1>1, <1>3 DEF sd_cmd8, Fail, Inv, CopyInv, Copying, StreamClosed
<1>4. CASE sd_acmd41
  <2>1. /\ UNCHANGED <<copy, mem, tries>> /\ pc' \in {"acmd41", "gpt_header", "halt"}
        /\ card' = [card EXCEPT !.mode = "busy"] \/ card' = card
    <3>1. PICK r \in Cmd41Replies :
            CASE r = "idle" -> pc' = "acmd41" /\ card' = [card EXCEPT !.mode = "busy"]
              [] r = "ok"   -> pc' = "gpt_header" /\ UNCHANGED card
              [] OTHER      -> Fail /\ UNCHANGED card
      BY <1>4 DEF sd_acmd41
    <3>2. CASE r = "idle"
      BY <1>4, <3>1, <3>2 DEF sd_acmd41
    <3>3. CASE r = "ok"
      BY <1>4, <3>1, <3>3 DEF sd_acmd41
    <3>4. CASE r # "idle" /\ r # "ok"
      BY <1>4, <3>1, <3>4 DEF sd_acmd41, Fail
    <3> QED BY <3>2, <3>3, <3>4
  <2>2. ~card.missed /\ card.mode # "reading"
    BY <1>4 DEF sd_acmd41, Inv, CopyInv, Copying, StreamClosed
  <2>3. card' \in CardType /\ ~card'.missed /\ card'.mode # "reading"
    BY <1>0, <2>1, <2>2 DEF CardType
  <2> QED BY <1>0, <1>1, <2>1, <2>3
<1>5. CASE PowerUp
  <2>1. /\ card' \in CardType /\ card'.lba = card.lba /\ card.mode # "reading"
        /\ card'.mode # "reading" /\ card'.missed = card.missed
        /\ UNCHANGED <<pc, tries, copy, mem>>
    BY <1>0, <1>5 DEF PowerUp, CardType
  <2>2. TypeOK' /\ StreamClosed'
    BY <2>1 DEF Inv, TypeOK, StreamClosed, CardType
  <2>3. CopyInv'
    BY <2>1 DEF Inv, CopyInv, Copying, Start
  <2> QED BY <2>2, <2>3 DEF Inv
<1>6. CASE gpt_header
  <2>1. Call("lba1_buf", 1, Blocks("lba1_buf")) /\ Lba("lba1_buf") = 1
    BY <1>6, BlocksFacts DEF gpt_header, Lba
  <2>2. ~card.missed /\ card.mode # "reading"
    BY <1>6 DEF gpt_header, Inv, CopyInv, Copying, StreamClosed
  <2> QED BY <2>1, <2>2, CallFacts DEF Dests
<1>7. CASE gpt_entries
  <2>1. Call("lba2_buf", TableLba, Blocks("lba2_buf")) /\ Lba("lba2_buf") = TableLba
    BY <1>7, BlocksFacts DEF gpt_entries, Lba
  <2>2. mem["lba1_buf"][0] = 1 /\ (card.mode = "reading" => card.missed)
    BY <1>7 DEF gpt_entries, Inv, CopyInv, Copying, StreamClosed
  <2> QED BY <2>1, <2>2, CallFacts, BootAssumption DEF Dests
<1>8. CASE gpt_image
  <2>1. PICK l \in IF mem["lba2_buf"][0] = TableLba THEN {BootLba} ELSE StrayLbas :
          Call("dest", l, Blocks("dest"))
    BY <1>8, BlocksFacts DEF gpt_image
  <2>2. mem["lba1_buf"][0] = 1 /\ (card.mode = "reading" => card.missed)
    BY <1>8 DEF gpt_image, Inv, CopyInv, Copying, StreamClosed
  <2>3. mem["lba2_buf"][0] = TableLba \/ card.missed
    <3> SUFFICES ASSUME ~card.missed PROVE mem["lba2_buf"][0] = TableLba
      OBVIOUS
    <3>1. copy.dst = "lba2_buf" /\ copy.rc = 0 /\ copy.p = 1 /\ copy.lba = TableLba
      BY <1>8, BlocksFacts DEF gpt_image, Inv, CopyInv, Copying, Lba
    <3>2. mem[copy.dst][0] = copy.lba + 0
      BY <1>8, <3>1 DEF gpt_image, Inv, CopyInv, Copying, Start
    <3> QED BY <3>1, <3>2, BootAssumption
  <2>4. l \in Nat /\ (l = Lba("dest") \/ card.missed)
    BY <2>3, BootAssumption DEF Lba
  <2> QED BY <2>1, <2>2, <2>3, <2>4, CallFacts DEF Dests
<1>9. CASE gpt_done
  BY <1>9 DEF gpt_done, Inv, TypeOK, CopyInv, Copying, StreamClosed, Start
<1>10. CASE sd_cmd18
  BY <1>10, InvRead
<1>11. CASE sd_copy_block
  BY <1>11, InvBlock
<1>12. CASE sd_cmd12
  BY <1>12, InvStop
<1>13. CASE UNCHANGED vars
  BY <1>13 DEF vars, Inv, TypeOK, CopyInv, Copying, StreamClosed, Start
<1> QED BY <1>2, <1>3, <1>4, <1>5, <1>6, <1>7, <1>8, <1>9, <1>10, <1>11, <1>12, <1>13
        DEF Next, Loader, init_sd, sd_copy, End

\* The types and the state of every copy, whatever the card does.
THEOREM InvCorrect == Spec => []Inv
<1> QED BY InvInit, InvStep, PTL DEF Spec

\* The type invariant: no attempt is made beyond the budget of sd_cmd0 and
\* no block is stored outside its buffer.
THEOREM TypeCorrect == Spec => []TypeOK
<1>1. Inv => TypeOK
  BY DEF Inv
<1> QED BY <1>1, InvCorrect, PTL

\* What has been copied is what the card holds, for every image size.
THEOREM CopyCorrect == Spec => []CopyInv
<1>1. Inv => CopyInv
  BY DEF Inv
<1> QED BY <1>1, InvCorrect, PTL

\* main jumps only into an image of consecutive blocks that arrived intact,
\* and unless the card missed a CMD12 they are the boot partition's.
THEOREM JumpCorrect == Spec => []JumpOnlyLoaded
<1>1. Inv => JumpOnlyLoaded
  <2> SUFFICES ASSUME Inv, pc = "jump"
               PROVE  /\ mem["lba1_buf"][0] = 1 /\ mem["dest"][0] # Junk
                      /\ \A k \in 0..(ImageBlocks - 1) : mem["dest"][k] = mem["dest"][0] + k
                      /\ ~card.missed => mem["lba2_buf"][0] = TableLba /\ mem["dest"][0] = BootLba
    BY DEF JumpOnlyLoaded
  <2>1. copy.dst = "dest" /\ copy.rc = 0 /\ copy.p = ImageBlocks /\ copy.lba \in Nat
    BY BlocksFacts, Types DEF Inv, CopyInv, CopyType
  <2>2. \A k \in 0..(ImageBlocks - 1) : mem["dest"][k] = Start + k /\ mem["dest"][k] # Junk
    BY <2>1 DEF Inv, CopyInv, Copying
  <2>3. 0 \in 0..(ImageBlocks - 1)
    BY BootAssumption
  <2>4. ~card.missed => Start = BootLba
    BY <2>1 DEF Inv, CopyInv, Copying, Lba, Start
  <2>5. Start = mem["dest"][0]
    <3>1. card.missed => Start = mem["dest"][0]
      BY <2>1 DEF Start
    <3>2. ~card.missed => mem["dest"][0] = BootLba + 0
      BY <2>2, <2>3, <2>4
    <3> QED BY <2>4, <3>1, <3>2, BootAssumption
  <2>6. mem["lba1_buf"][0] = 1 /\ (~card.missed => mem["lba2_buf"][0] = TableLba)
    BY <2>1 DEF Inv, CopyInv, Copying
  <2> QED BY <2>2, <2>3, <2>4, <2>5, <2>6
<1> QED BY <1>1, InvCorrect, PTL

\* Whatever the card does, a read is left open after sd_copy only by a card
\* that missed a CMD12.
THEOREM StreamCorrect == Spec => []StreamClosed
<1>1. Inv => StreamClosed
  BY DEF Inv
<1> QED BY <1>1, InvCorrect, PTL
=============================================================================
