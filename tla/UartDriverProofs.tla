-------------------------- MODULE UartDriverProofs --------------------------
(***************************************************************************)
(* Proofs about UartDriver, for every FIFO depth, every list of buffers,   *)
(* every number of arriving bytes and every application the assumptions    *)
(* allow.                                                                  *)
(*                                                                         *)
(* The invariant has three parts.  Typed: types, with the indices in the   *)
(* buffers and a byte in the receive FIFO wherever one is about to be read.*)
(* Kept: where an overrun can be found as long as no interrupt is enabled. *)
(* Sending, for patient applications only: the interrupt discipline        *)
(* (Interrupts), the agreement of the transfer's descriptor with the       *)
(* application (Transfers), room in the FIFO for every byte about to be    *)
(* pushed (Room), and from these the order of the bytes: what was handed   *)
(* to the driver is what is on the line, in the shift register and in the  *)
(* FIFO, followed by what is left of the transfer in progress (Order).     *)
(*                                                                         *)
(* Every action has one case in each of the six preservation lemmas; what  *)
(* a longer action does is stated once, as its Effect lemma.               *)
(***************************************************************************)
EXTENDS UartDriver, SequenceTheorems, TLAPS

Sources == {"RDA", "THRE", "LS"}
Flags == Sources \cup {"DR", "OE", "TEMT", "en", "clr_rx", "clr_tx"}
AppStates == {"idle", "tx_size", "tx_idx", "ier_get", "ier_put", "poll", "poll_thr", "fill_lsr",
              "fill_status", "fill_thr", "complete_status", "complete_size", "fcr_put", "rx_lsr",
              "rx_status", "rx_rbr", "sticky_put", "sticky_get", "sticky_clear"}
IsrStates == {"off", "iir", "tx", "tx_fill", "rx", "rx_rbr", "no_irq_handler"}
Device == [ier : SUBSET Sources, thi : BOOLEAN, fifoEn : BOOLEAN, txq : Seq(Byte), tsr : Seq(Byte),
           out : Seq(Byte), rxq : Seq(Nat), trig : Nat, cti : BOOLEAN, oe : BOOLEAN]
Driver == [tx_buffer : 0..Len(BufSize), tx_buff_size : Nat, tx_idx : Nat, rx_handler : BOOLEAN,
           status : BOOLEAN, g_stdio_uart_init_done : BOOLEAN, plic : BOOLEAN]
Thread == [ops : Programs, pc : AppStates, b : 0..Len(BufSize), i : Nat, s : SUBSET Flags,
           t : BOOLEAN, busy : BOOLEAN, res : {"none", "complete", "pending"}]
Routine == [pc : IsrStates, cnt : 0..FifoSize]
Line == [arrived : 0..RxMax, got : Seq(Nat), lost : BOOLEAN, told : BOOLEAN]

\* Types.  A byte about to be sent lies in its buffer; a byte about to be read
\* is in the receive FIFO.
Typed ==
    /\ dev \in Device /\ drv \in Driver /\ app \in Thread /\ isr \in Routine /\ rx \in Line
    /\ goal \in Seq(Byte)
    /\ Len(dev.tsr) <= 1 /\ Len(dev.txq) <= FifoSize /\ Len(dev.rxq) <= FifoSize
    /\ app.pc \in {"tx_size", "tx_idx", "poll", "poll_thr", "fill_lsr", "fill_status", "fill_thr"} => app.b # 0
    /\ app.pc \in {"poll", "poll_thr", "fill_lsr", "fill_status", "fill_thr"} => app.i \in 1..BufSize[app.b]
    /\ app.pc \in {"ier_get", "ier_put"} => app.s \subseteq Sources
    /\ isr.pc = "tx_fill" => drv.tx_buffer # 0
    /\ drv.rx_handler => "set_rx_handler" \in app.ops
    /\ app.pc \in {"rx_lsr", "rx_status", "rx_rbr"} => "get_rx" \in app.ops
    /\ app.pc = "rx_status" /\ "DR" \in app.s => dev.rxq # <<>>
    /\ app.pc = "rx_rbr" => dev.rxq # <<>>
    /\ isr.pc \in {"rx", "rx_rbr"} => drv.rx_handler
    /\ isr.pc = "rx_rbr" => dev.rxq # <<>>

\* Without interrupts a lost byte is on record: in the device, in the sticky
\* status, in the copy a call is about to add to it, or reported.
Kept ==
    /\ ~drv.plic => isr.pc = "off"
    /\ app.pc \in {"poll", "poll_thr"} => app.ops \cap {"polled_tx", "write"} # {}
    /\ ~drv.plic /\ drv.status /\ app.pc \in {"sticky_put", "sticky_clear"} => app.t
    /\ rx.lost /\ ~drv.plic /\ app.ops \cap {"polled_tx", "write"} = {} =>
         \/ dev.oe \/ drv.status \/ rx.told
         \/ app.pc \in {"sticky_put", "sticky_clear"} /\ app.t
         \/ app.pc \in {"complete_status", "fill_status", "rx_status"} /\ "OE" \in app.s

\* Buffer b without its first n bytes.
Rest(b, n) == [j \in 1..(BufSize[b] - n) |-> <<b, n + j>>]

\* FIFO mode stays on.  The transmit interrupt is latched only with an empty
\* FIFO and enabled only during a transfer; the other sources only with a
\* handler.  What the service routine is about to push fits in the FIFO and
\* in the transfer.
Interrupts ==
    /\ dev.fifoEn
    /\ dev.thi => dev.txq = <<>>
    /\ "THRE" \in dev.ier => drv.tx_buff_size # 0 /\ app.pc \notin {"tx_size", "tx_idx", "ier_get", "ier_put"}
    /\ ~drv.rx_handler => dev.ier \subseteq {"THRE"}
    /\ ~drv.rx_handler /\ app.pc \in {"ier_get", "ier_put"} => app.s \subseteq {"THRE"}
    /\ app.pc = "fcr_put" => app.s = {"en"} /\ drv.rx_handler
    /\ isr.pc = "tx" => "THRE" \in dev.ier /\ dev.txq = <<>>
    /\ isr.pc = "tx_fill" => /\ "THRE" \in dev.ier /\ Len(dev.txq) + isr.cnt <= FifoSize
                             /\ drv.tx_idx + isr.cnt <= drv.tx_buff_size

\* A transfer in progress is that of the buffer the application sent last, and
\* the application has not seen it complete.
Transfers ==
    /\ drv.tx_buff_size # 0 =>
         /\ app.busy /\ app.b # 0 /\ drv.tx_buffer = app.b /\ drv.tx_buff_size = BufSize[app.b]
         /\ "irq_tx" \in app.ops /\ app.pc # "tx_size"
         /\ app.pc # "tx_idx" => drv.tx_idx <= drv.tx_buff_size
    /\ app.pc = "tx_size" => app.busy /\ drv.tx_buffer = app.b /\ "irq_tx" \in app.ops
    /\ app.pc = "tx_idx" => drv.tx_buff_size # 0
    /\ app.pc \in {"ier_get", "ier_put"} /\ "THRE" \in app.s => drv.tx_buff_size # 0
    /\ app.pc \in {"poll", "poll_thr", "fcr_put"} => ~app.busy
    /\ app.res = "complete" => app.pc = "idle" /\ drv.tx_buff_size = 0

\* The FIFO has room for the byte the application is about to push.
Room ==
    /\ app.pc = "poll_thr" => Len(dev.txq) < FifoSize
    /\ app.pc \in {"fill_lsr", "fill_status", "fill_thr"} => "fill" \in app.ops /\ app.busy
    /\ app.pc \in {"fill_lsr", "fill_status"} => app.i = 1
    /\ "fill" \in app.ops =>
         /\ ~app.busy \/ app.pc \in {"fill_lsr", "fill_status"} => dev.txq = <<>>
         /\ app.pc \in {"complete_status", "complete_size"} /\ "TEMT" \in app.s => dev.txq = <<>>
         /\ app.pc = "fill_thr" => Len(dev.txq) < app.i /\ app.i <= FifoSize
    /\ "write" \in app.ops /\ ~drv.g_stdio_uart_init_done =>
         dev.txq = <<>> /\ app.pc \notin {"poll", "poll_thr"}

\* What the driver has still to push.
Left == IF app.pc \in {"poll", "poll_thr"} THEN Rest(app.b, app.i - 1)
        ELSE IF app.pc \in {"tx_size", "tx_idx"} THEN Rest(app.b, 0)
        ELSE IF drv.tx_buff_size # 0 THEN Rest(drv.tx_buffer, drv.tx_idx)
        ELSE <<>>
Order == goal = OnTheWay \o Left

\* The discipline of a patient application.
Sending == Interrupts /\ Transfers /\ Room /\ Order

\* The inductive invariant.
IInv == Typed /\ Kept /\ (Patient => Sending)

-----------------------------------------------------------------------------
(* Queues.                                                                 *)
\* What the FIFO operations return: an element of a non-empty queue, a queue
\* shorter or longer by one.
LEMMA QueueLemma ==
    ASSUME NEW S, NEW q \in Seq(S)
    PROVE  /\ Len(q) \in Nat /\ (q = <<>> <=> Len(q) = 0)
           /\ q # <<>> => /\ Head(q) \in S /\ Tail(q) \in Seq(S) /\ Len(Tail(q)) = Len(q) - 1
                          /\ (Len(q) = 1 => Tail(q) = <<>>)
           /\ \A x \in S : /\ Append(q, x) \in Seq(S) /\ Len(Append(q, x)) = Len(q) + 1
                          /\ Append(q, x) # <<>>
                          /\ <<x>> \in Seq(S) /\ Len(<<x>>) = 1 /\ <<x>> # <<>>
<1>1. Len(q) \in Nat /\ (q = <<>> <=> Len(q) = 0)
  BY EmptySeq
<1>2. ASSUME q # <<>>
      PROVE  Head(q) \in S /\ Tail(q) \in Seq(S) /\ Len(Tail(q)) = Len(q) - 1
  BY <1>2, HeadTailProperties
<1>3. ASSUME q # <<>>, Len(q) = 1  PROVE Tail(q) = <<>>
  <2>1. Tail(q) \in Seq(S) /\ Len(Tail(q)) = 0
    BY <1>2, <1>3
  <2>. QED  BY <2>1, EmptySeq
<1>4. ASSUME NEW x \in S
      PROVE  Append(q, x) \in Seq(S) /\ Len(Append(q, x)) = Len(q) + 1 /\ Append(q, x) # <<>>
  BY AppendProperties
<1>5. ASSUME NEW x \in S  PROVE <<x>> \in Seq(S) /\ Len(<<x>>) = 1 /\ <<x>> # <<>>
  OBVIOUS
<1>. QED  BY <1>1, <1>2, <1>3, <1>4, <1>5

-----------------------------------------------------------------------------
(* The registers: what an access leaves in each part of the device.        *)
\* Reading the line status clears the overrun flag and nothing else.
LEMMA ReadLSRLemma ==
    ASSUME NEW d \in Device
    PROVE  LET r == ReadLSR(d)
           IN /\ r \in Device /\ r.oe = FALSE /\ r.ier = d.ier /\ r.thi = d.thi /\ r.fifoEn = d.fifoEn
              /\ r.txq = d.txq /\ r.tsr = d.tsr /\ r.out = d.out /\ r.rxq = d.rxq
BY DEF ReadLSR, Device

\* Reading the interrupt identification acknowledges the transmit interrupt
\* it reports and changes nothing else.
LEMMA ReadIIRLemma ==
    ASSUME NEW d \in Device
    PROVE  LET r == ReadIIR(d)
           IN /\ r \in Device /\ r.oe = d.oe /\ r.ier = d.ier /\ r.thi = (d.thi /\ IIR(d) # 2)
              /\ r.fifoEn = d.fifoEn /\ r.txq = d.txq /\ r.tsr = d.tsr /\ r.out = d.out /\ r.rxq = d.rxq
BY DEF ReadIIR, Device

\* Writing the interrupt enables may raise the transmit interrupt; the FIFOs
\* stay as they are.
LEMMA WriteIERLemma ==
    ASSUME NEW d \in Device, NEW e \in SUBSET Sources
    PROVE  LET r == WriteIER(d, e)
           IN /\ r \in Device /\ r.oe = d.oe /\ r.ier = e /\ r.fifoEn = d.fifoEn
              /\ r.thi = (d.thi \/ ("THRE" \in e /\ d.txq = <<>>))
              /\ r.txq = d.txq /\ r.tsr = d.tsr /\ r.out = d.out /\ r.rxq = d.rxq
BY DEF WriteIER, Device

\* A byte written to the holding register joins the transmit FIFO if there
\* is room, and never overfills it.
LEMMA WriteTHRLemma ==
    ASSUME NEW d \in Device, NEW x \in Byte
    PROVE  LET r == WriteTHR(d, x)
           IN /\ r \in Device /\ r.oe = d.oe /\ r.ier = d.ier /\ r.fifoEn = d.fifoEn /\ r.thi = FALSE
              /\ r.txq = (IF THRNF(d) THEN Append(d.txq, x) ELSE d.txq)
              /\ Len(d.txq) <= FifoSize => Len(r.txq) <= FifoSize
              /\ r.tsr = d.tsr /\ r.out = d.out /\ r.rxq = d.rxq
<1>1. Append(d.txq, x) \in Seq(Byte) /\ Len(Append(d.txq, x)) = Len(d.txq) + 1 /\ Len(d.txq) \in Nat
  BY DEF Device
<1>2. THRNF(d) => Len(d.txq) + 1 <= FifoSize
  BY <1>1, FifoSizeAssumption DEF THRNF
<1>3. LET r == WriteTHR(d, x)
      IN /\ r \in Device /\ r.oe = d.oe /\ r.ier = d.ier /\ r.fifoEn = d.fifoEn /\ r.thi = FALSE
         /\ r.txq = (IF THRNF(d) THEN Append(d.txq, x) ELSE d.txq)
         /\ r.tsr = d.tsr /\ r.out = d.out /\ r.rxq = d.rxq
  BY <1>1 DEF WriteTHR, Device
<1>. QED  BY <1>1, <1>2, <1>3

\* The FIFO control register: the FIFOs are kept or emptied, and kept when
\* FIFO mode stays on and no clear bit is written.
LEMMA WriteFCRLemma ==
    ASSUME NEW d \in Device, NEW bits, NEW level \in Nat
    PROVE  LET r == WriteFCR(d, bits, level)
           IN /\ r \in Device /\ r.oe = d.oe /\ r.ier = d.ier /\ r.fifoEn = ("en" \in bits)
              /\ r.txq \in {<<>>, d.txq} /\ r.rxq \in {<<>>, d.rxq}
              /\ "clr_tx" \in bits => r.txq = <<>>
              /\ bits = {"en"} /\ d.fifoEn => r.txq = d.txq /\ r.rxq = d.rxq /\ r.thi = d.thi
              /\ r.thi => d.thi \/ r.txq = <<>>
              /\ r.tsr = d.tsr /\ r.out = d.out
<1>. DEFINE toggled == d.fifoEn # ("en" \in bits)
            rxReset == "clr_rx" \in bits \/ toggled
            txReset == "clr_tx" \in bits \/ toggled
            r == WriteFCR(d, bits, level)
<1>1. r = [d EXCEPT !.fifoEn = "en" \in bits, !.trig = level,
                    !.rxq = IF rxReset THEN <<>> ELSE @,
                    !.cti = @ /\ "en" \in bits,
                    !.txq = IF txReset THEN <<>> ELSE @,
                    !.thi = @ \/ txReset]
  BY DEF WriteFCR
<1>2. <<>> \in Seq(Byte) /\ <<>> \in Seq(Nat)
  OBVIOUS
<1>3. bits = {"en"} /\ d.fifoEn => ~txReset /\ ~rxReset
  BY DEF Device
<1>4. ("clr_tx" \in bits => txReset) /\ rxReset \in BOOLEAN /\ txReset \in BOOLEAN
  OBVIOUS
<1>. HIDE DEF r, txReset, rxReset
<1>5. /\ r \in Device /\ r.oe = d.oe /\ r.ier = d.ier /\ r.fifoEn = ("en" \in bits)
      /\ r.txq = (IF txReset THEN <<>> ELSE d.txq) /\ r.rxq = (IF rxReset THEN <<>> ELSE d.rxq)
      /\ r.thi = (d.thi \/ txReset) /\ r.tsr = d.tsr /\ r.out = d.out
  <2>. DEFINE rq == IF rxReset THEN <<>> ELSE d.rxq
              tq == IF txReset THEN <<>> ELSE d.txq
              th == d.thi \/ txReset
              ct == d.cti /\ "en" \in bits
              fe == "en" \in bits
  <2>1. rq \in Seq(Nat) /\ tq \in Seq(Byte)
    BY <1>2 DEF Device
  <2>2. th \in BOOLEAN /\ ct \in BOOLEAN /\ fe \in BOOLEAN
    OBVIOUS
  <2>3. r = [d EXCEPT !.fifoEn = fe, !.trig = level, !.rxq = rq, !.cti = ct, !.txq = tq, !.thi = th]
    BY <1>1
  <2>4. /\ r \in Device /\ r.oe = d.oe /\ r.ier = d.ier /\ r.fifoEn = fe /\ r.txq = tq /\ r.rxq = rq
        /\ r.thi = th /\ r.tsr = d.tsr /\ r.out = d.out
    <3>. HIDE DEF fe, rq, ct, tq, th
    <3>. QED  BY <2>1, <2>2, <2>3 DEF Device
  <2>. QED  BY <2>4
<1>6. /\ r.txq \in {<<>>, d.txq} /\ r.rxq \in {<<>>, d.rxq}
      /\ "clr_tx" \in bits => r.txq = <<>>
      /\ bits = {"en"} /\ d.fifoEn => r.txq = d.txq /\ r.rxq = d.rxq /\ r.thi = d.thi
      /\ r.thi => d.thi \/ r.txq = <<>>
  BY <1>3, <1>4, <1>5 DEF Device
<1>. QED  BY <1>5, <1>6 DEF r

\* Reading a received byte takes it from the receive FIFO.
LEMMA ReadRBRLemma ==
    ASSUME NEW d \in Device, d.rxq # <<>>
    PROVE  LET r == ReadRBR(d)
           IN /\ r \in Device /\ r.oe = d.oe /\ r.ier = d.ier /\ r.thi = d.thi /\ r.fifoEn = d.fifoEn
              /\ r.txq = d.txq /\ r.tsr = d.tsr /\ r.out = d.out
              /\ Len(d.rxq) <= FifoSize => Len(r.rxq) <= FifoSize
              /\ RBR(d) \in Nat
<1>1. /\ Tail(d.rxq) \in Seq(Nat) /\ Len(Tail(d.rxq)) = Len(d.rxq) - 1 /\ Len(d.rxq) \in Nat
      /\ Head(d.rxq) \in Nat
  <2>1. d.rxq \in Seq(Nat)
    BY DEF Device
  <2>. QED  BY <2>1, QueueLemma
<1>2. LET r == ReadRBR(d)
      IN /\ r \in Device /\ r.oe = d.oe /\ r.ier = d.ier /\ r.thi = d.thi /\ r.fifoEn = d.fifoEn
         /\ r.txq = d.txq /\ r.tsr = d.tsr /\ r.out = d.out /\ r.rxq = Tail(d.rxq)
  BY <1>1 DEF ReadRBR, Device
<1>3. Len(d.rxq) <= FifoSize => Len(Tail(d.rxq)) <= FifoSize
  BY <1>1, FifoSizeAssumption
<1>. QED  BY <1>1, <1>2, <1>3 DEF RBR

\* The transmitter moves the first byte of the FIFO to the shift register.
LEMMA TxStartLemma ==
    ASSUME NEW d \in Device, CanTxStart(d)
    PROVE  LET r == TxStart(d)
           IN /\ r \in Device /\ r.oe = d.oe /\ r.ier = d.ier /\ r.fifoEn = d.fifoEn /\ r.rxq = d.rxq
              /\ d.txq # <<>> /\ d.tsr = <<>>
              /\ r.txq = Tail(d.txq) /\ r.tsr = <<Head(d.txq)>> /\ r.out = d.out
              /\ Len(r.tsr) = 1 /\ Len(r.txq) = Len(d.txq) - 1
              /\ r.thi => d.thi \/ r.txq = <<>>
<1>1. /\ d.txq # <<>> /\ d.tsr = <<>> /\ Tail(d.txq) \in Seq(Byte) /\ Len(Tail(d.txq)) = Len(d.txq) - 1
      /\ Head(d.txq) \in Byte /\ <<Head(d.txq)>> \in Seq(Byte) /\ Len(<<Head(d.txq)>>) = 1
      /\ Len(d.txq) = 1 => Tail(d.txq) = <<>>
  <2>1. d.txq \in Seq(Byte) /\ d.txq # <<>> /\ d.tsr = <<>>
    BY DEF CanTxStart, Device
  <2>2. /\ Tail(d.txq) \in Seq(Byte) /\ Len(Tail(d.txq)) = Len(d.txq) - 1 /\ Head(d.txq) \in Byte
        /\ Len(d.txq) = 1 => Tail(d.txq) = <<>>
    BY <2>1, QueueLemma
  <2>. QED  BY <2>1, <2>2
<1>2. LET r == TxStart(d)
      IN /\ r \in Device /\ r.oe = d.oe /\ r.ier = d.ier /\ r.fifoEn = d.fifoEn /\ r.rxq = d.rxq
         /\ r.txq = Tail(d.txq) /\ r.tsr = <<Head(d.txq)>> /\ r.out = d.out
         /\ r.thi = (d.thi \/ Len(d.txq) = 1)
  BY <1>1 DEF TxStart, Device
<1>. QED  BY <1>1, <1>2

\* The shift register's byte leaves on the line.
LEMMA TxEndLemma ==
    ASSUME NEW d \in Device, CanTxEnd(d), Len(d.tsr) <= 1
    PROVE  LET r == TxEnd(d)
           IN /\ r \in Device /\ r.oe = d.oe /\ r.ier = d.ier /\ r.thi = d.thi /\ r.fifoEn = d.fifoEn
              /\ r.rxq = d.rxq /\ r.txq = d.txq /\ r.tsr = <<>> /\ Len(r.tsr) = 0
              /\ d.tsr = <<d.tsr[1]>> /\ d.tsr[1] \in Byte /\ r.out = Append(d.out, d.tsr[1])
<1>1. d.tsr = <<d.tsr[1]>> /\ d.tsr[1] \in Byte
  BY DEF CanTxEnd, Device
<1>2. Append(d.out, d.tsr[1]) \in Seq(Byte) /\ <<>> \in Seq(Byte) /\ Len(<<>>) = 0
  BY <1>1 DEF Device
<1>. QED  BY <1>1, <1>2 DEF TxEnd, Device

\* A byte arrives (it is stored or the overrun is flagged), or the character
\* timeout runs out.
LEMMA RxLemma ==
    ASSUME NEW d \in Device, NEW x \in Nat
    PROVE  /\ LET r == RxByte(d, x)
              IN /\ r \in Device /\ r.ier = d.ier /\ r.thi = d.thi /\ r.fifoEn = d.fifoEn
                 /\ r.txq = d.txq /\ r.tsr = d.tsr /\ r.out = d.out
                 /\ r.oe = (d.oe \/ RxFull(d)) /\ r.rxq # <<>>
                 /\ Len(d.rxq) <= FifoSize => Len(r.rxq) <= FifoSize
           /\ LET r == CharTimeout(d)
              IN /\ r \in Device /\ r.ier = d.ier /\ r.thi = d.thi /\ r.fifoEn = d.fifoEn /\ r.oe = d.oe
                 /\ r.txq = d.txq /\ r.tsr = d.tsr /\ r.out = d.out /\ r.rxq = d.rxq
<1>1. /\ Append(d.rxq, x) \in Seq(Nat) /\ Len(Append(d.rxq, x)) = Len(d.rxq) + 1 /\ Len(d.rxq) \in Nat
      /\ <<x>> \in Seq(Nat) /\ Len(<<x>>) = 1 /\ <<x>> # <<>> /\ Append(d.rxq, x) # <<>>
      /\ Len(d.rxq) >= FifoSize => d.rxq # <<>>
  <2>1. d.rxq \in Seq(Nat)
    BY DEF Device
  <2>. QED  BY <2>1, QueueLemma, FifoSizeAssumption
<1>. DEFINE q == IF ~d.fifoEn THEN <<x>> ELSE IF RxFull(d) THEN d.rxq ELSE Append(d.rxq, x)
<1>2. /\ q \in Seq(Nat) /\ q # <<>> /\ (Len(d.rxq) <= FifoSize => Len(q) <= FifoSize)
      /\ RxFull(d) \in BOOLEAN
  <2>0. d.rxq \in Seq(Nat) /\ RxFull(d) \in BOOLEAN
    <3>1. d.rxq \in Seq(Nat) /\ (Len(d.rxq) >= FifoSize) \in BOOLEAN /\ (d.rxq # <<>>) \in BOOLEAN
      BY DEF Device
    <3>2. CASE d.fifoEn
      BY <3>1, <3>2 DEF RxFull
    <3>3. CASE ~d.fifoEn
      BY <3>1, <3>3 DEF RxFull
    <3>. QED  BY <3>1, <3>2, <3>3
  <2>1. CASE ~d.fifoEn
    BY <1>1, <2>0, <2>1, FifoSizeAssumption
  <2>2. CASE d.fifoEn /\ RxFull(d)
    BY <1>1, <2>0, <2>2 DEF RxFull
  <2>3. CASE d.fifoEn /\ ~RxFull(d)
    <3>1. q = Append(d.rxq, x) /\ ~(Len(d.rxq) >= FifoSize)
      BY <2>3 DEF RxFull
    <3>2. Len(Append(d.rxq, x)) <= FifoSize
      BY <1>1, <3>1, FifoSizeAssumption
    <3>. QED  BY <1>1, <2>0, <3>1, <3>2
  <2>. QED  BY <2>1, <2>2, <2>3
<1>3. LET r == RxByte(d, x)
      IN /\ r \in Device /\ r.ier = d.ier /\ r.thi = d.thi /\ r.fifoEn = d.fifoEn
         /\ r.txq = d.txq /\ r.tsr = d.tsr /\ r.out = d.out
         /\ r.oe = (d.oe \/ RxFull(d)) /\ r.rxq = q
  <2>1. RxByte(d, x) = [d EXCEPT !.oe = @ \/ RxFull(d), !.rxq = q]
    BY DEF RxByte
  <2>. HIDE DEF q
  <2>. QED  BY <1>2, <2>1 DEF Device
<1>4. LET r == CharTimeout(d)
      IN /\ r \in Device /\ r.ier = d.ier /\ r.thi = d.thi /\ r.fifoEn = d.fifoEn /\ r.oe = d.oe
         /\ r.txq = d.txq /\ r.tsr = d.tsr /\ r.out = d.out /\ r.rxq = d.rxq
  BY DEF CharTimeout, Device
<1>. HIDE DEF q
<1>. QED  BY <1>2, <1>3, <1>4

\* UART_init leaves an idle device in FIFO mode with both FIFOs empty.
LEMMA InitDevLemma ==
    ASSUME NEW d \in Device
    PROVE  LET r == UART_init_dev(d)
           IN /\ r \in Device /\ r.oe = d.oe /\ r.ier = {} /\ r.fifoEn = TRUE
              /\ r.txq = <<>> /\ r.rxq \in {<<>>, d.rxq} /\ r.tsr = d.tsr /\ r.out = d.out
<1>. DEFINE d1 == WriteIER(d, {})
            d2 == WriteFCR(d1, {}, 1)
            d3 == WriteFCR(d2, {"en", "clr_rx", "clr_tx"}, FifoSize)
<1>0. UART_init_dev(d) = d3
  BY DEF UART_init_dev
<1>1. d1 \in Device /\ d1.oe = d.oe /\ d1.ier = {} /\ d1.rxq = d.rxq /\ d1.tsr = d.tsr /\ d1.out = d.out
  BY WriteIERLemma
<1>. HIDE DEF d1
<1>2. /\ d2 \in Device /\ d2.oe = d1.oe /\ d2.ier = d1.ier /\ d2.rxq \in {<<>>, d1.rxq} /\ d2.tsr = d1.tsr
      /\ d2.out = d1.out
  BY <1>1, WriteFCRLemma
<1>. HIDE DEF d2
<1>3. /\ d3 \in Device /\ d3.oe = d2.oe /\ d3.ier = d2.ier /\ d3.rxq \in {<<>>, d2.rxq} /\ d3.tsr = d2.tsr
      /\ d3.out = d2.out /\ d3.fifoEn = TRUE /\ d3.txq = <<>>
  <2>1. /\ d3 \in Device /\ d3.oe = d2.oe /\ d3.ier = d2.ier /\ d3.rxq \in {<<>>, d2.rxq} /\ d3.tsr = d2.tsr
        /\ d3.out = d2.out /\ d3.fifoEn = ("en" \in {"en", "clr_rx", "clr_tx"})
        /\ "clr_tx" \in {"en", "clr_rx", "clr_tx"} => d3.txq = <<>>
    <3>1. FifoSize \in Nat
      BY FifoSizeAssumption
    <3>. QED  BY <1>2, <3>1, WriteFCRLemma
  <2>. HIDE DEF d3
  <2>. QED  BY <2>1
<1>. HIDE DEF d3
<1>. QED  BY <1>0, <1>1, <1>2, <1>3

-----------------------------------------------------------------------------
(* The application's buffers.                                              *)
\* A buffer of the application has at least one byte.
LEMMA SizeLemma ==
    ASSUME NEW b \in 0..Len(BufSize), b # 0
    PROVE  BufSize[b] \in Nat \ {0} /\ 1 \in 1..BufSize[b]
BY UartAssumption

\* Byte i of buffer b is a byte.
LEMMA ByteLemma ==
    ASSUME NEW b \in 0..Len(BufSize), b # 0, NEW i \in Nat
    PROVE  <<b, i>> \in Byte
BY UartAssumption DEF Byte

\* The bytes handed to the driver stay a sequence of bytes.
LEMMA BufferLemma ==
    ASSUME NEW b \in 0..Len(BufSize), b < Len(BufSize), NEW g \in Seq(Byte)
    PROVE  g \o Buffer(b + 1) \in Seq(Byte)
<1>1. b + 1 \in 0..Len(BufSize) /\ b + 1 # 0
  BY UartAssumption
<1>2. BufSize[b + 1] \in Nat
  BY <1>1, SizeLemma
<1>3. \A i \in 1..BufSize[b + 1] : <<b + 1, i>> \in Byte
  BY <1>1, <1>2, ByteLemma
<1>4. Buffer(b + 1) \in Seq(Byte)
  BY <1>2, <1>3 DEF Buffer
<1>. QED  BY <1>4, ConcatProperties

\* A call that returns.
LEMMA ReturnLemma ==
    ASSUME app \in Thread, NEW res \in {"none", "complete", "pending"}, Return(res)
    PROVE  /\ app' \in Thread /\ app'.pc = "idle" /\ app'.b = app.b /\ app'.ops = app.ops
           /\ app'.busy = app.busy /\ app'.s = {} /\ app'.t = FALSE /\ app'.res = res
BY DEF Return, Thread, AppStates

\* A call that sends the next buffer.
LEMMA NextBufferLemma ==
    ASSUME Typed, NEW pc \in AppStates, NextBuffer(pc)
    PROVE  /\ app' \in Thread /\ app'.pc = pc /\ app'.b = app.b + 1 /\ app'.b # 0 /\ app'.ops = app.ops
           /\ app'.busy = app.busy /\ app'.i = 1 /\ app'.i \in 1..BufSize[app'.b] /\ app'.res = "none"
           /\ MaySend /\ app'.s = app.s /\ app'.t = app.t
<1>1. app \in Thread /\ app.b < Len(BufSize) /\ MaySend
  BY DEF Typed, NextBuffer
<1>2. app.b + 1 \in 0..Len(BufSize) /\ app.b + 1 # 0
  BY <1>1, UartAssumption DEF Thread
<1>3. 1 \in 1..BufSize[app.b + 1]
  BY <1>2, SizeLemma
<1>4. /\ app' \in Thread /\ app'.pc = pc /\ app'.b = app.b + 1 /\ app'.ops = app.ops
      /\ app'.busy = app.busy /\ app'.i = 1 /\ app'.res = "none" /\ app'.s = app.s /\ app'.t = app.t
  BY <1>1, <1>2 DEF NextBuffer, Thread
<1>. QED  BY <1>1, <1>2, <1>3, <1>4

\* Every step keeps the types and the facts about indices and queues that
\* the types rest on: one case per access of the driver.
LEMMA TypedNext ==
    ASSUME Typed, Next
    PROVE  Typed'
<1>1. CASE irq_tx_call
  <2>1. app \in Thread /\ app.b < Len(BufSize) /\ app.pc = "idle"
    BY <1>1 DEF irq_tx_call, Typed, Calls, Running
  <2>2. app.b + 1 \in 0..Len(BufSize) /\ app.b + 1 # 0
    BY <2>1, UartAssumption DEF Thread
  <2>3. goal' \in Seq(Byte)
    <3>1. app.b \in 0..Len(BufSize) /\ goal \in Seq(Byte) /\ goal' = goal \o Buffer(app.b + 1)
      BY <1>1, <2>1 DEF irq_tx_call, Typed, Thread
    <3>. QED  BY <2>1, <3>1, BufferLemma
  <2>4. /\ app' \in Thread /\ app'.pc = "tx_size" /\ app'.b = app.b + 1 /\ app'.ops = app.ops
        /\ drv' \in Driver /\ drv'.rx_handler = drv.rx_handler /\ drv'.tx_buffer = app.b + 1
    BY <1>1, <2>1, <2>2 DEF irq_tx_call, Typed, Thread, AppStates, Driver
  <2>. QED  BY <1>1, <2>2, <2>3, <2>4 DEF irq_tx_call, Typed
<1>2. CASE irq_tx_size
  BY <1>2, SizeLemma DEF irq_tx_size, Typed, Running, Thread, AppStates, Driver
<1>3. CASE irq_tx_idx
  BY <1>3 DEF irq_tx_idx, Typed, Running, Thread, AppStates, Driver, Flags, Sources
<1>4. CASE ier_get
  BY <1>4 DEF ier_get, Typed, Running, Thread, AppStates, Device, Flags, Sources
<1>5. CASE ier_put
  BY <1>5, WriteIERLemma DEF ier_put, Typed, Running, Return, Thread, AppStates, Driver
<1>6. CASE polled_tx_call
  <2>1. NextBuffer("poll") /\ app.pc = "idle" /\ goal' = goal \o Buffer(app.b + 1) /\ UNCHANGED <<dev, drv, isr, rx>>
    BY <1>6 DEF polled_tx_call, Calls, Running
  <2>2. /\ app' \in Thread /\ app'.pc = "poll" /\ app'.b # 0 /\ app'.ops = app.ops
        /\ app'.i \in 1..BufSize[app'.b]
    BY <2>1, NextBufferLemma DEF AppStates
  <2>3. goal' \in Seq(Byte)
    <3>1. app.b \in 0..Len(BufSize) /\ app.b < Len(BufSize) /\ goal \in Seq(Byte)
      BY <2>1 DEF NextBuffer, Typed, Thread
    <3>. QED  BY <2>1, <3>1, BufferLemma
  <2>. QED  BY <2>1, <2>2, <2>3 DEF Typed
<1>7. CASE polled_tx_lsr
  BY <1>7, ReadLSRLemma DEF polled_tx_lsr, Typed, Running, Thread, AppStates
<1>8. CASE polled_tx_thr
  <2>1. /\ app.pc = "poll_thr" /\ app \in Thread /\ app.b # 0 /\ app.i \in 1..BufSize[app.b] /\ isr.pc = "off"
        /\ dev \in Device /\ dev' = WriteTHR(dev, <<app.b, app.i>>) /\ UNCHANGED <<drv, isr, goal, rx>>
    BY <1>8 DEF polled_tx_thr, Typed, Running
  <2>2. <<app.b, app.i>> \in Byte /\ BufSize[app.b] \in Nat
    BY <2>1, ByteLemma, SizeLemma DEF Thread
  <2>3. /\ dev' \in Device /\ dev'.rxq = dev.rxq /\ dev'.tsr = dev.tsr
        /\ Len(dev.txq) <= FifoSize => Len(dev'.txq) <= FifoSize
    BY <2>1, <2>2, WriteTHRLemma
  <2>4. CASE app.i < BufSize[app.b]
    <3>1. /\ app' \in Thread /\ app'.pc = "poll" /\ app'.b = app.b /\ app'.ops = app.ops /\ app'.i = app.i + 1
      <4>1. app' = [app EXCEPT !.pc = "poll", !.i = @ + 1]
        BY <1>8, <2>4 DEF polled_tx_thr
      <4>2. app.i + 1 \in Nat /\ "poll" \in AppStates
        BY <2>1 DEF Thread, AppStates
      <4>. QED  BY <2>1, <4>1, <4>2 DEF Thread
    <3>2. app'.i \in 1..BufSize[app'.b]
      BY <2>1, <2>2, <2>4, <3>1
    <3>. QED  BY <2>1, <2>3, <3>1, <3>2 DEF Typed
  <2>5. CASE ~(app.i < BufSize[app.b])
    <3>1. app' \in Thread /\ app'.pc = "idle" /\ app'.ops = app.ops
      BY <1>8, <2>1, <2>5, ReturnLemma DEF polled_tx_thr
    <3>. QED  BY <2>1, <2>3, <3>1 DEF Typed
  <2>. QED  BY <2>4, <2>5
<1>9. CASE write
  <2>1. /\ NextBuffer("poll") /\ app.pc = "idle" /\ goal' = goal \o Buffer(app.b + 1) /\ UNCHANGED <<isr, rx>>
        /\ dev \in Device /\ drv \in Driver /\ isr.pc = "off"
    BY <1>9 DEF write, Calls, Running, Typed
  <2>2. /\ app' \in Thread /\ app'.pc = "poll" /\ app'.b # 0 /\ app'.ops = app.ops
        /\ app'.i \in 1..BufSize[app'.b]
    BY <2>1, NextBufferLemma DEF AppStates
  <2>3. goal' \in Seq(Byte)
    <3>1. app.b \in 0..Len(BufSize) /\ app.b < Len(BufSize) /\ goal \in Seq(Byte)
      BY <2>1 DEF NextBuffer, Typed, Thread
    <3>. QED  BY <2>1, <3>1, BufferLemma
  <2>4. CASE drv.g_stdio_uart_init_done
    <3>1. UNCHANGED <<dev, drv>>
      BY <1>9, <2>4 DEF write
    <3>. QED  BY <2>1, <2>2, <2>3, <3>1 DEF Typed
  <2>5. CASE ~drv.g_stdio_uart_init_done
    <3>1. dev' = UART_init_dev(dev) /\ drv' = [UART_init_drv(drv) EXCEPT !.g_stdio_uart_init_done = TRUE]
      BY <1>9, <2>5 DEF write
    <3>2. dev' \in Device /\ dev'.txq = <<>> /\ dev'.rxq \in {<<>>, dev.rxq} /\ dev'.tsr = dev.tsr
      BY <2>1, <3>1, InitDevLemma
    <3>3. Len(dev'.txq) <= FifoSize /\ Len(dev'.rxq) <= FifoSize /\ Len(dev'.tsr) <= 1
      <4>1. Len(<<>>) = 0 /\ FifoSize \in Nat
        BY FifoSizeAssumption
      <4>. QED  BY <3>2, <4>1 DEF Typed
    <3>4. drv' \in Driver /\ drv'.rx_handler = FALSE
      <4>. DEFINE v == UART_init_drv(drv)
      <4>1. 0 \in 0..Len(BufSize)
        BY UartAssumption
      <4>2. v \in Driver /\ v.rx_handler = FALSE
        BY <2>1, <4>1 DEF UART_init_drv, Driver
      <4>3. drv' = [v EXCEPT !.g_stdio_uart_init_done = TRUE]
        BY <3>1
      <4>. HIDE DEF v
      <4>. QED  BY <4>2, <4>3 DEF Driver
    <3>. QED  BY <2>1, <2>2, <2>3, <3>2, <3>3, <3>4 DEF Typed
  <2>. QED  BY <2>4, <2>5
<1>10. CASE fill_call
  <2>1. app \in Thread /\ app.b < Len(BufSize) /\ app.pc = "idle" /\ UNCHANGED <<dev, drv, isr, goal, rx>>
    BY <1>10 DEF fill_call, Typed, Calls, Running
  <2>2. app.b + 1 \in 0..Len(BufSize) /\ app.b + 1 # 0
    BY <2>1, UartAssumption DEF Thread
  <2>3. 1 \in 1..BufSize[app.b + 1]
    BY <2>2, SizeLemma
  <2>4. app' \in Thread /\ app'.pc = "fill_lsr" /\ app'.b = app.b + 1 /\ app'.ops = app.ops /\ app'.i = 1
    BY <1>10, <2>1, <2>2 DEF fill_call, Thread, AppStates
  <2>. QED  BY <2>1, <2>2, <2>3, <2>4 DEF Typed
<1>11. CASE fill_lsr
  BY <1>11, ReadLSRLemma DEF fill_lsr, Typed, Running, Thread, AppStates, LSR, Flags, Sources
<1>12. CASE fill_status
  <2>1. app \in Thread /\ app.pc = "fill_status" /\ isr.pc = "off" /\ UNCHANGED <<dev, isr, goal, rx>>
    BY <1>12 DEF fill_status, Typed, Running
  <2>2. drv' \in Driver /\ drv'.rx_handler = drv.rx_handler
    BY <1>12 DEF fill_status, Typed, Driver
  <2>3. CASE "THRE" \in app.s
    <3>1. app' \in Thread /\ app'.pc = "fill_thr" /\ app'.b = app.b /\ app'.i = app.i /\ app'.ops = app.ops
      BY <1>12, <2>1, <2>3 DEF fill_status, Thread, AppStates
    <3>. QED  BY <2>1, <2>2, <3>1 DEF Typed
  <2>4. CASE "THRE" \notin app.s
    <3>1. app' \in Thread /\ app'.pc = "idle" /\ app'.ops = app.ops
      BY <1>12, <2>1, <2>4, ReturnLemma DEF fill_status
    <3>. QED  BY <2>1, <2>2, <3>1 DEF Typed
  <2>. QED  BY <2>3, <2>4
<1>13. CASE fill_thr
  <2>1. /\ app.pc = "fill_thr" /\ app \in Thread /\ app.b # 0 /\ app.i \in 1..BufSize[app.b] /\ isr.pc = "off"
        /\ dev \in Device /\ dev' = WriteTHR(dev, <<app.b, app.i>>) /\ UNCHANGED <<drv, isr, rx>>
        /\ goal' = Append(goal, <<app.b, app.i>>) /\ goal \in Seq(Byte)
    BY <1>13 DEF fill_thr, Typed, Running
  <2>2. <<app.b, app.i>> \in Byte /\ BufSize[app.b] \in Nat
    BY <2>1, ByteLemma, SizeLemma DEF Thread
  <2>3. /\ dev' \in Device /\ dev'.rxq = dev.rxq /\ dev'.tsr = dev.tsr
        /\ Len(dev.txq) <= FifoSize => Len(dev'.txq) <= FifoSize
    BY <2>1, <2>2, WriteTHRLemma
  <2>g. goal' \in Seq(Byte)
    BY <2>1, <2>2
  <2>4. CASE app.i < MinOf(FifoSize, BufSize[app.b])
    <3>1. /\ app' \in Thread /\ app'.pc = "fill_thr" /\ app'.b = app.b /\ app'.ops = app.ops /\ app'.i = app.i + 1
      BY <1>13, <2>1, <2>4 DEF fill_thr, Thread, AppStates
    <3>2. app'.i \in 1..BufSize[app'.b]
      BY <2>1, <2>2, <2>4, <3>1, FifoSizeAssumption DEF MinOf
    <3>. QED  BY <2>1, <2>3, <2>g, <3>1, <3>2 DEF Typed
  <2>5. CASE ~(app.i < MinOf(FifoSize, BufSize[app.b]))
    <3>1. app' \in Thread /\ app'.pc = "idle" /\ app'.ops = app.ops
      BY <1>13, <2>1, <2>5, ReturnLemma DEF fill_thr
    <3>. QED  BY <2>1, <2>3, <2>g, <3>1 DEF Typed
  <2>. QED  BY <2>4, <2>5
<1>14. CASE complete_call
  BY <1>14, ReadLSRLemma DEF complete_call, Typed, Calls, Running, Thread, AppStates, LSR, Flags, Sources
<1>15. CASE complete_status
  BY <1>15 DEF complete_status, Typed, Running, Thread, AppStates, Driver
<1>16. CASE complete_size
  BY <1>16 DEF complete_size, Typed, Running, Thread, AppStates
<1>17. CASE set_rx_call
  BY <1>17, ReadIIRLemma DEF set_rx_call, Typed, Calls, Running, MaySend, Thread, AppStates, Driver,
       IIRBits, Flags, Sources
<1>18. CASE set_rx_fcr
  <2>1. app \in Thread /\ app.pc = "fcr_put" /\ isr.pc = "off" /\ UNCHANGED <<drv, isr, goal, rx>> /\ dev \in Device
    BY <1>18 DEF set_rx_fcr, Typed, Running
  <2>2. PICK level \in {1, FifoSize} : dev' = WriteFCR(dev, app.s, level)
    BY <1>18 DEF set_rx_fcr
  <2>3. level \in Nat
    BY FifoSizeAssumption
  <2>4. dev' \in Device /\ dev'.txq \in {<<>>, dev.txq} /\ dev'.rxq \in {<<>>, dev.rxq} /\ dev'.tsr = dev.tsr
    BY <2>1, <2>2, <2>3, WriteFCRLemma
  <2>5. Len(dev'.txq) <= FifoSize /\ Len(dev'.rxq) <= FifoSize
    <3>1. Len(<<>>) = 0 /\ FifoSize \in Nat
      BY FifoSizeAssumption
    <3>. QED  BY <2>4, <3>1 DEF Typed
  <2>6. app' \in Thread /\ app'.pc = "ier_get" /\ app'.s = {"RDA"} /\ app'.ops = app.ops
    BY <1>18, <2>1 DEF set_rx_fcr, Thread, AppStates, Flags, Sources
  <2>. QED  BY <2>1, <2>4, <2>5, <2>6 DEF Typed, Sources
<1>19. CASE UART_enable_irq
  <2>1. app \in Thread /\ isr.pc = "off" /\ UNCHANGED <<dev, isr, goal, rx>>
    BY <1>19 DEF UART_enable_irq, Typed, Calls, Running
  <2>2. drv' \in Driver /\ drv'.rx_handler = drv.rx_handler
    BY <1>19 DEF UART_enable_irq, Typed, Driver
  <2>3. PICK m \in Masks : app' = [app EXCEPT !.pc = "ier_get", !.s = m, !.res = "none"]
    BY <1>19 DEF UART_enable_irq
  <2>4. m \in SUBSET Sources
    BY UartAssumption DEF Sources
  <2>5. app' \in Thread /\ app'.pc = "ier_get" /\ app'.s = m /\ app'.ops = app.ops
    BY <2>1, <2>3, <2>4 DEF Thread, AppStates, Flags
  <2>. QED  BY <2>1, <2>2, <2>4, <2>5 DEF Typed
<1>20. CASE get_rx_call
  BY <1>20 DEF get_rx_call, Typed, Calls, Running, Thread, AppStates
<1>21. CASE get_rx_lsr
  BY <1>21, ReadLSRLemma DEF get_rx_lsr, Typed, Running, Thread, AppStates, LSR, Flags, Sources
<1>22. CASE get_rx_status
  <2>1. app \in Thread /\ app.pc = "rx_status" /\ isr.pc = "off" /\ UNCHANGED <<dev, isr, goal, rx>>
    BY <1>22 DEF get_rx_status, Typed, Running
  <2>2. drv' \in Driver /\ drv'.rx_handler = drv.rx_handler
    BY <1>22 DEF get_rx_status, Typed, Driver
  <2>3. CASE "DR" \in app.s
    <3>1. app' \in Thread /\ app'.pc = "rx_rbr" /\ app'.ops = app.ops
      BY <1>22, <2>1, <2>3 DEF get_rx_status, Thread, AppStates
    <3>. QED  BY <2>1, <2>2, <2>3, <3>1 DEF Typed
  <2>4. CASE "DR" \notin app.s
    <3>1. app' \in Thread /\ app'.pc = "idle" /\ app'.ops = app.ops
      BY <1>22, <2>1, <2>4, ReturnLemma DEF get_rx_status
    <3>. QED  BY <2>1, <2>2, <3>1 DEF Typed
  <2>. QED  BY <2>3, <2>4
<1>23. CASE get_rx_rbr
  <2>1. /\ app \in Thread /\ app.pc = "rx_rbr" /\ isr.pc = "off" /\ UNCHANGED <<drv, isr, goal>>
        /\ dev \in Device /\ dev.rxq # <<>> /\ dev' = ReadRBR(dev) /\ rx \in Line
        /\ rx' = [rx EXCEPT !.got = Append(@, RBR(dev))]
    BY <1>23 DEF get_rx_rbr, Typed, Running
  <2>2. /\ dev' \in Device /\ dev'.txq = dev.txq /\ dev'.tsr = dev.tsr /\ RBR(dev) \in Nat
        /\ Len(dev.rxq) <= FifoSize => Len(dev'.rxq) <= FifoSize
    BY <2>1, ReadRBRLemma
  <2>3. rx' \in Line
    <3>1. Append(rx.got, RBR(dev)) \in Seq(Nat)
      BY <2>1, <2>2 DEF Line
    <3>. QED  BY <2>1, <3>1 DEF Line
  <2>4. app' \in Thread /\ app'.pc = "rx_lsr" /\ app'.ops = app.ops
    BY <1>23, <2>1 DEF get_rx_rbr, Thread, AppStates
  <2>. QED  BY <2>1, <2>2, <2>3, <2>4 DEF Typed
<1>24. CASE rx_status_call
  BY <1>24, ReadLSRLemma DEF rx_status_call, Typed, Calls, Running, Thread, AppStates, Driver, Device
<1>25. CASE rx_status_put
  BY <1>25 DEF rx_status_put, Typed, Running, Thread, AppStates, Driver
<1>26. CASE rx_status_get
  BY <1>26 DEF rx_status_get, Typed, Running, Thread, AppStates, Driver
<1>27. CASE rx_status_clear
  BY <1>27 DEF rx_status_clear, Typed, Running, Return, Thread, AppStates, Driver, Line
<1>28. CASE interrupt
  BY <1>28 DEF interrupt, Typed, Routine, IsrStates
<1>29. CASE uart_isr
  BY <1>29, ReadIIRLemma DEF uart_isr, Typed, Routine, IsrStates
<1>30. CASE default_tx_handler
  <2>1. isr.pc = "tx" /\ isr \in Routine /\ dev \in Device /\ drv \in Driver /\ UNCHANGED <<app, goal, rx>>
    BY <1>30 DEF default_tx_handler, Typed
  <2>2. CASE drv.tx_buffer # 0 /\ drv.tx_buff_size > 0
    <3>1. /\ dev' = ReadLSR(dev) /\ drv' = [drv EXCEPT !.status = @ \/ dev.oe]
          /\ isr' = [pc |-> "tx_fill", cnt |-> IF "THRE" \in LSR(dev) THEN fill_size ELSE 0]
      BY <1>30, <2>2 DEF default_tx_handler
    <3>2. dev' \in Device /\ dev'.txq = dev.txq /\ dev'.tsr = dev.tsr /\ dev'.rxq = dev.rxq
      BY <2>1, <3>1, ReadLSRLemma
    <3>3. drv' \in Driver /\ drv'.rx_handler = drv.rx_handler /\ drv'.tx_buffer = drv.tx_buffer
      BY <2>1, <3>1 DEF Driver
    <3>4. fill_size \in 0..FifoSize /\ 0 \in 0..FifoSize
      BY <2>1, FifoSizeAssumption DEF fill_size, MinOf, Driver
    <3>5. isr' \in Routine /\ isr'.pc = "tx_fill"
      BY <3>1, <3>4 DEF Routine, IsrStates
    <3>. QED  BY <2>1, <2>2, <3>2, <3>3, <3>5 DEF Typed
  <2>3. CASE ~(drv.tx_buffer # 0 /\ drv.tx_buff_size > 0)
    <3>1. isr' = [isr EXCEPT !.pc = "off"] /\ UNCHANGED <<dev, drv>>
      BY <1>30, <2>3 DEF default_tx_handler
    <3>2. isr' \in Routine /\ isr'.pc = "off"
      BY <2>1, <3>1 DEF Routine, IsrStates
    <3>. QED  BY <2>1, <3>1, <3>2 DEF Typed
  <2>. QED  BY <2>2, <2>3
<1>31. CASE default_tx_fill
  <2>1. /\ isr.pc = "tx_fill" /\ isr.cnt > 0 /\ isr \in Routine /\ dev \in Device /\ drv \in Driver
        /\ drv.tx_buffer # 0 /\ UNCHANGED <<app, goal, rx>>
    BY <1>31 DEF default_tx_fill, Typed
  <2>2. <<drv.tx_buffer, drv.tx_idx + 1>> \in Byte
    BY <2>1, ByteLemma DEF Driver
  <2>3. /\ dev' \in Device /\ dev'.rxq = dev.rxq /\ dev'.tsr = dev.tsr
        /\ Len(dev.txq) <= FifoSize => Len(dev'.txq) <= FifoSize
    BY <1>31, <2>1, <2>2, WriteTHRLemma DEF default_tx_fill
  <2>4. drv' \in Driver /\ drv'.rx_handler = drv.rx_handler /\ drv'.tx_buffer = drv.tx_buffer
    BY <1>31, <2>1 DEF default_tx_fill, Driver
  <2>5. isr' \in Routine /\ isr'.pc = "tx_fill"
    <3>1. isr.cnt - 1 \in 0..FifoSize
      BY <2>1, FifoSizeAssumption DEF Routine
    <3>. QED  BY <1>31, <2>1, <3>1 DEF default_tx_fill, Routine
  <2>. QED  BY <2>1, <2>3, <2>4, <2>5 DEF Typed
<1>32. CASE default_tx_end
  <2>1. /\ isr.pc = "tx_fill" /\ isr \in Routine /\ dev \in Device /\ drv \in Driver /\ UNCHANGED <<app, goal, rx>>
        /\ isr' = [isr EXCEPT !.pc = "off"]
    BY <1>32 DEF default_tx_end, Typed
  <2>2. isr' \in Routine /\ isr'.pc = "off"
    BY <2>1 DEF Routine, IsrStates
  <2>3. CASE drv.tx_idx = drv.tx_buff_size
    <3>1. drv' = [drv EXCEPT !.tx_buff_size = 0] /\ dev' = WriteIER(dev, dev.ier \ {"THRE"})
      BY <1>32, <2>3 DEF default_tx_end
    <3>2. dev.ier \ {"THRE"} \in SUBSET Sources
      BY <2>1 DEF Device
    <3>3. dev' \in Device /\ dev'.txq = dev.txq /\ dev'.tsr = dev.tsr /\ dev'.rxq = dev.rxq
      BY <2>1, <3>1, <3>2, WriteIERLemma
    <3>4. drv' \in Driver /\ drv'.rx_handler = drv.rx_handler
      BY <2>1, <3>1 DEF Driver
    <3>. QED  BY <2>1, <2>2, <3>3, <3>4 DEF Typed
  <2>4. CASE drv.tx_idx # drv.tx_buff_size
    <3>1. UNCHANGED <<dev, drv>>
      BY <1>32, <2>4 DEF default_tx_end
    <3>. QED  BY <2>1, <2>2, <3>1 DEF Typed
  <2>. QED  BY <2>3, <2>4
<1>33. CASE rx_handler_lsr
  BY <1>33, ReadLSRLemma DEF rx_handler_lsr, Typed, Routine, IsrStates, Driver, Device
<1>34. CASE rx_handler_rbr
  <2>1. /\ isr.pc = "rx_rbr" /\ isr \in Routine /\ UNCHANGED <<drv, app, goal>>
        /\ dev \in Device /\ dev.rxq # <<>> /\ dev' = ReadRBR(dev) /\ rx \in Line
        /\ rx' = [rx EXCEPT !.got = Append(@, RBR(dev))]
    BY <1>34 DEF rx_handler_rbr, Typed
  <2>2. /\ dev' \in Device /\ dev'.txq = dev.txq /\ dev'.tsr = dev.tsr /\ RBR(dev) \in Nat
        /\ Len(dev.rxq) <= FifoSize => Len(dev'.rxq) <= FifoSize
    BY <2>1, ReadRBRLemma
  <2>3. rx' \in Line
    <3>1. Append(rx.got, RBR(dev)) \in Seq(Nat)
      BY <2>1, <2>2 DEF Line
    <3>. QED  BY <2>1, <3>1 DEF Line
  <2>4. isr' \in Routine /\ isr'.pc = "rx"
    BY <1>34, <2>1 DEF rx_handler_rbr, Routine, IsrStates
  <2>5. "get_rx" \notin app.ops
    BY <2>1, ApplicationAssumption DEF Typed, Thread
  <2>. QED  BY <2>1, <2>2, <2>3, <2>4, <2>5 DEF Typed
<1>35. CASE Transmitter
  <2>0. dev \in Device /\ Len(dev.tsr) <= 1 /\ Len(dev.txq) <= FifoSize /\ UNCHANGED <<drv, app, isr, goal, rx>>
    BY <1>35 DEF Transmitter, Typed
  <2>1. CASE CanTxStart(dev) /\ dev' = TxStart(dev)
    <3>1. /\ dev' \in Device /\ dev'.rxq = dev.rxq /\ Len(dev'.tsr) = 1 /\ Len(dev'.txq) = Len(dev.txq) - 1
      BY <2>0, <2>1, TxStartLemma
    <3>2. Len(dev'.txq) <= FifoSize
      BY <2>0, <3>1, FifoSizeAssumption DEF Device
    <3>. QED  BY <2>0, <3>1, <3>2 DEF Typed
  <2>2. CASE CanTxEnd(dev) /\ dev' = TxEnd(dev)
    <3>1. dev' \in Device /\ dev'.rxq = dev.rxq /\ Len(dev'.tsr) = 0 /\ dev'.txq = dev.txq
      BY <2>0, <2>2, TxEndLemma
    <3>. QED  BY <2>0, <3>1 DEF Typed
  <2>. QED  BY <1>35, <2>1, <2>2 DEF Transmitter
<1>36. CASE Receiver
  <2>0. dev \in Device /\ rx \in Line /\ UNCHANGED <<drv, app, isr, goal>>
    BY <1>36 DEF Receiver, Typed
  <2>1. CASE /\ rx.arrived < RxMax /\ dev' = RxByte(dev, rx.arrived + 1)
             /\ rx' = [rx EXCEPT !.arrived = @ + 1, !.lost = @ \/ RxFull(dev)]
    <3>1. rx.arrived + 1 \in Nat /\ rx.arrived + 1 \in 0..RxMax
      BY <2>0, <2>1, UartAssumption DEF Line
    <3>2. /\ dev' \in Device /\ dev'.txq = dev.txq /\ dev'.tsr = dev.tsr /\ dev'.rxq # <<>>
          /\ Len(dev.rxq) <= FifoSize => Len(dev'.rxq) <= FifoSize
      BY <2>0, <2>1, <3>1, RxLemma
    <3>3. rx' \in Line
      BY <2>0, <2>1, <3>1 DEF Line
    <3>. QED  BY <2>0, <3>2, <3>3 DEF Typed
  <2>2. CASE CanTimeout(dev) /\ dev' = CharTimeout(dev) /\ UNCHANGED rx
    <3>1. dev' \in Device /\ dev'.txq = dev.txq /\ dev'.tsr = dev.tsr /\ dev'.rxq = dev.rxq
      BY <2>0, <2>2, RxLemma
    <3>. QED  BY <2>0, <2>2, <3>1 DEF Typed
  <2>. QED  BY <1>36, <2>1, <2>2 DEF Receiver
<1>. QED  BY <1>1, <1>2, <1>3, <1>4, <1>5, <1>6, <1>7, <1>8, <1>9, <1>10, <1>11, <1>12, <1>13, <1>14,
           <1>15, <1>16, <1>17, <1>18, <1>19, <1>20, <1>21, <1>22, <1>23, <1>24, <1>25, <1>26, <1>27,
           <1>28, <1>29, <1>30, <1>31, <1>32, <1>33, <1>34, <1>35, <1>36
         DEF Next, Service, Application, UART_irq_tx, UART_polled_tx, UART_fill_tx_fifo, UART_tx_complete,
             UART_set_rx_handler, UART_get_rx, UART_get_rx_status

-----------------------------------------------------------------------------
(* What the longer actions leave behind, field by field.                   *)
\* UART_polled_tx and _write push one byte.
LEMMA PolledEffect ==
    ASSUME Typed, polled_tx_thr
    PROVE  /\ app.pc = "poll_thr" /\ isr.pc = "off" /\ UNCHANGED <<drv, isr, goal, rx>>
           /\ app.b \in 0..Len(BufSize) /\ app.b # 0 /\ app.i \in 1..BufSize[app.b] /\ BufSize[app.b] \in Nat
           /\ <<app.b, app.i>> \in Byte /\ dev' = WriteTHR(dev, <<app.b, app.i>>)
           /\ dev' \in Device /\ dev'.oe = dev.oe /\ dev'.ier = dev.ier /\ dev'.fifoEn = dev.fifoEn
           /\ dev'.thi = FALSE /\ dev'.tsr = dev.tsr /\ dev'.out = dev.out
           /\ dev'.txq = (IF THRNF(dev) THEN Append(dev.txq, <<app.b, app.i>>) ELSE dev.txq)
           /\ app'.ops = app.ops /\ app'.busy = app.busy /\ app'.b = app.b
           /\ IF app.i < BufSize[app.b]
              THEN app'.pc = "poll" /\ app'.i = app.i + 1 /\ app'.res = app.res
              ELSE app'.pc = "idle" /\ app'.res = "none"
<1>1. /\ app.pc = "poll_thr" /\ app \in Thread /\ app.b # 0 /\ app.i \in 1..BufSize[app.b] /\ isr.pc = "off"
      /\ dev \in Device /\ dev' = WriteTHR(dev, <<app.b, app.i>>) /\ UNCHANGED <<drv, isr, goal, rx>>
  BY DEF polled_tx_thr, Typed, Running
<1>2. <<app.b, app.i>> \in Byte /\ BufSize[app.b] \in Nat /\ app.b \in 0..Len(BufSize)
  BY <1>1, ByteLemma, SizeLemma DEF Thread
<1>3. /\ dev' \in Device /\ dev'.oe = dev.oe /\ dev'.ier = dev.ier /\ dev'.fifoEn = dev.fifoEn
      /\ dev'.thi = FALSE /\ dev'.tsr = dev.tsr /\ dev'.out = dev.out
      /\ dev'.txq = (IF THRNF(dev) THEN Append(dev.txq, <<app.b, app.i>>) ELSE dev.txq)
  BY <1>1, <1>2, WriteTHRLemma
<1>4. CASE app.i < BufSize[app.b]
  <2>1. app' = [app EXCEPT !.pc = "poll", !.i = @ + 1]
    BY <1>4 DEF polled_tx_thr
  <2>2. /\ app'.ops = app.ops /\ app'.busy = app.busy /\ app'.b = app.b /\ app'.pc = "poll"
        /\ app'.i = app.i + 1 /\ app'.res = app.res
    BY <1>1, <2>1 DEF Thread
  <2>. QED  BY <1>1, <1>2, <1>3, <1>4, <2>2
<1>5. CASE ~(app.i < BufSize[app.b])
  <2>1. app'.ops = app.ops /\ app'.busy = app.busy /\ app'.b = app.b /\ app'.pc = "idle" /\ app'.res = "none"
    BY <1>1, <1>5, ReturnLemma DEF polled_tx_thr
  <2>. QED  BY <1>1, <1>2, <1>3, <1>5, <2>1
<1>. QED  BY <1>4, <1>5

\* UART_fill_tx_fifo pushes one byte.
LEMMA FillEffect ==
    ASSUME Typed, fill_thr
    PROVE  /\ app.pc = "fill_thr" /\ isr.pc = "off" /\ UNCHANGED <<drv, isr, rx>>
           /\ app.b \in 0..Len(BufSize) /\ app.b # 0 /\ app.i \in 1..BufSize[app.b] /\ BufSize[app.b] \in Nat
           /\ <<app.b, app.i>> \in Byte /\ goal' = Append(goal, <<app.b, app.i>>)
           /\ dev' \in Device /\ dev'.oe = dev.oe /\ dev'.ier = dev.ier /\ dev'.fifoEn = dev.fifoEn
           /\ dev'.thi = FALSE /\ dev'.tsr = dev.tsr /\ dev'.out = dev.out
           /\ dev'.txq = (IF THRNF(dev) THEN Append(dev.txq, <<app.b, app.i>>) ELSE dev.txq)
           /\ app'.ops = app.ops /\ app'.busy = app.busy /\ app'.b = app.b
           /\ IF app.i < MinOf(FifoSize, BufSize[app.b])
              THEN app'.pc = "fill_thr" /\ app'.i = app.i + 1 /\ app'.res = app.res /\ app'.s = app.s
              ELSE app'.pc = "idle" /\ app'.res = "none"
<1>1. /\ app.pc = "fill_thr" /\ app \in Thread /\ app.b # 0 /\ app.i \in 1..BufSize[app.b] /\ isr.pc = "off"
      /\ dev \in Device /\ dev' = WriteTHR(dev, <<app.b, app.i>>) /\ UNCHANGED <<drv, isr, rx>>
      /\ goal' = Append(goal, <<app.b, app.i>>)
  BY DEF fill_thr, Typed, Running
<1>2. <<app.b, app.i>> \in Byte /\ BufSize[app.b] \in Nat /\ app.b \in 0..Len(BufSize)
  BY <1>1, ByteLemma, SizeLemma DEF Thread
<1>3. /\ dev' \in Device /\ dev'.oe = dev.oe /\ dev'.ier = dev.ier /\ dev'.fifoEn = dev.fifoEn
      /\ dev'.thi = FALSE /\ dev'.tsr = dev.tsr /\ dev'.out = dev.out
      /\ dev'.txq = (IF THRNF(dev) THEN Append(dev.txq, <<app.b, app.i>>) ELSE dev.txq)
  BY <1>1, <1>2, WriteTHRLemma
<1>4. CASE app.i < MinOf(FifoSize, BufSize[app.b])
  <2>1. app' = [app EXCEPT !.i = @ + 1]
    BY <1>4 DEF fill_thr
  <2>2. /\ app'.ops = app.ops /\ app'.busy = app.busy /\ app'.b = app.b /\ app'.pc = "fill_thr"
        /\ app'.i = app.i + 1 /\ app'.res = app.res /\ app'.s = app.s
    BY <1>1, <2>1 DEF Thread
  <2>. QED  BY <1>1, <1>2, <1>3, <1>4, <2>2
<1>5. CASE ~(app.i < MinOf(FifoSize, BufSize[app.b]))
  <2>1. app'.ops = app.ops /\ app'.busy = app.busy /\ app'.b = app.b /\ app'.pc = "idle" /\ app'.res = "none"
    BY <1>1, <1>5, ReturnLemma DEF fill_thr
  <2>. QED  BY <1>1, <1>2, <1>3, <1>5, <2>1
<1>. QED  BY <1>4, <1>5

\* UART_set_rx_handler writes back what it read as the control register.
LEMMA FcrEffect ==
    ASSUME Typed, set_rx_fcr
    PROVE  /\ app.pc = "fcr_put" /\ isr.pc = "off" /\ UNCHANGED <<drv, isr, goal, rx>>
           /\ dev' \in Device /\ dev'.oe = dev.oe /\ dev'.ier = dev.ier
           /\ app.s = {"en"} /\ dev.fifoEn => /\ dev'.txq = dev.txq /\ dev'.thi = dev.thi
                                             /\ dev'.rxq = dev.rxq /\ dev'.fifoEn = TRUE
           /\ dev'.tsr = dev.tsr /\ dev'.out = dev.out
           /\ app' \in Thread /\ app'.pc = "ier_get" /\ app'.s = {"RDA"} /\ app'.ops = app.ops /\ app'.t = app.t
           /\ app'.busy = app.busy /\ app'.b = app.b /\ app'.res = app.res
<1>1. app \in Thread /\ app.pc = "fcr_put" /\ isr.pc = "off" /\ UNCHANGED <<drv, isr, goal, rx>> /\ dev \in Device
  BY DEF set_rx_fcr, Typed, Running
<1>2. PICK level \in {1, FifoSize} : dev' = WriteFCR(dev, app.s, level)
  BY DEF set_rx_fcr
<1>3. level \in Nat
  BY FifoSizeAssumption
<1>4. /\ dev' \in Device /\ dev'.oe = dev.oe /\ dev'.ier = dev.ier /\ dev'.fifoEn = ("en" \in app.s)
      /\ app.s = {"en"} /\ dev.fifoEn => dev'.txq = dev.txq /\ dev'.rxq = dev.rxq /\ dev'.thi = dev.thi
      /\ dev'.tsr = dev.tsr /\ dev'.out = dev.out
  BY <1>1, <1>2, <1>3, WriteFCRLemma
<1>5. /\ app' \in Thread /\ app'.pc = "ier_get" /\ app'.s = {"RDA"} /\ app'.ops = app.ops /\ app'.t = app.t
      /\ app'.busy = app.busy /\ app'.b = app.b /\ app'.res = app.res
  BY <1>1 DEF set_rx_fcr, Thread, AppStates, Flags, Sources
<1>. QED  BY <1>1, <1>4, <1>5

\* A received byte is read by the application or by the receive handler.
LEMMA ByteReadEffect ==
    ASSUME Typed, get_rx_rbr \/ rx_handler_rbr
    PROVE  /\ UNCHANGED <<drv, goal>> /\ rx'.lost = rx.lost /\ rx'.told = rx.told
           /\ dev' \in Device /\ dev'.oe = dev.oe /\ dev'.ier = dev.ier /\ dev'.fifoEn = dev.fifoEn
           /\ dev'.thi = dev.thi /\ dev'.txq = dev.txq /\ dev'.tsr = dev.tsr /\ dev'.out = dev.out
           /\ \/ /\ app.pc = "rx_rbr" /\ isr.pc = "off" /\ UNCHANGED isr
                 /\ app'.pc = "rx_lsr" /\ app'.s = {} /\ app'.ops = app.ops /\ app'.t = app.t
                 /\ app'.busy = app.busy /\ app'.b = app.b /\ app'.res = app.res
              \/ isr.pc = "rx_rbr" /\ isr'.pc = "rx" /\ isr'.cnt = isr.cnt /\ UNCHANGED app
<1>1. /\ UNCHANGED <<drv, goal>> /\ dev \in Device /\ dev.rxq # <<>> /\ dev' = ReadRBR(dev) /\ rx \in Line
      /\ rx' = [rx EXCEPT !.got = Append(@, RBR(dev))] /\ app \in Thread /\ isr \in Routine
  BY DEF get_rx_rbr, rx_handler_rbr, Typed, Running
<1>2. /\ dev' \in Device /\ dev'.oe = dev.oe /\ dev'.ier = dev.ier /\ dev'.fifoEn = dev.fifoEn
      /\ dev'.thi = dev.thi /\ dev'.txq = dev.txq /\ dev'.tsr = dev.tsr /\ dev'.out = dev.out
  BY <1>1, ReadRBRLemma
<1>3. rx'.lost = rx.lost /\ rx'.told = rx.told
  BY <1>1 DEF Line
<1>4. CASE get_rx_rbr
  <2>1. /\ app.pc = "rx_rbr" /\ isr.pc = "off" /\ UNCHANGED isr
        /\ app'.pc = "rx_lsr" /\ app'.s = {} /\ app'.ops = app.ops /\ app'.t = app.t
        /\ app'.busy = app.busy /\ app'.b = app.b /\ app'.res = app.res
    BY <1>1, <1>4 DEF get_rx_rbr, Running, Thread
  <2>. QED  BY <1>1, <1>2, <1>3, <2>1
<1>5. CASE rx_handler_rbr
  <2>1. isr.pc = "rx_rbr" /\ isr'.pc = "rx" /\ isr'.cnt = isr.cnt /\ UNCHANGED app
    BY <1>1, <1>5 DEF rx_handler_rbr, Routine
  <2>. QED  BY <1>1, <1>2, <1>3, <2>1
<1>. QED  BY <1>4, <1>5

\* The transmitter takes a step.
LEMMA TransmitterEffect ==
    ASSUME Typed, Transmitter
    PROVE  /\ UNCHANGED <<drv, app, isr, goal, rx>>
           /\ dev' \in Device /\ dev'.oe = dev.oe /\ dev'.ier = dev.ier /\ dev'.fifoEn = dev.fifoEn
           /\ dev'.thi => dev.thi \/ dev'.txq = <<>>
           /\ dev.txq = <<>> => dev'.txq = <<>>
           /\ Len(dev'.txq) <= Len(dev.txq)
           /\ \/ /\ dev.txq # <<>> /\ dev.tsr = <<>> /\ dev'.out = dev.out
                 /\ dev'.txq = Tail(dev.txq) /\ dev'.tsr = <<Head(dev.txq)>>
              \/ /\ dev.tsr = <<dev.tsr[1]>> /\ dev.tsr[1] \in Byte /\ dev'.txq = dev.txq
                 /\ dev'.tsr = <<>> /\ dev'.out = Append(dev.out, dev.tsr[1])
<1>0. dev \in Device /\ Len(dev.tsr) <= 1 /\ Len(dev.txq) \in Nat /\ UNCHANGED <<drv, app, isr, goal, rx>>
  BY DEF Transmitter, Typed, Device
<1>1. CASE CanTxStart(dev) /\ dev' = TxStart(dev)
  <2>1. /\ dev' \in Device /\ dev'.oe = dev.oe /\ dev'.ier = dev.ier /\ dev'.fifoEn = dev.fifoEn
        /\ dev'.thi => dev.thi \/ dev'.txq = <<>>
        /\ dev.txq # <<>> /\ dev.tsr = <<>> /\ dev'.out = dev.out /\ Len(dev'.txq) = Len(dev.txq) - 1
        /\ dev'.txq = Tail(dev.txq) /\ dev'.tsr = <<Head(dev.txq)>>
    BY <1>0, <1>1, TxStartLemma
  <2>2. Len(dev'.txq) <= Len(dev.txq)
    BY <1>0, <2>1
  <2>. QED  BY <1>0, <2>1, <2>2
<1>2. CASE CanTxEnd(dev) /\ dev' = TxEnd(dev)
  <2>1. /\ dev' \in Device /\ dev'.oe = dev.oe /\ dev'.ier = dev.ier /\ dev'.fifoEn = dev.fifoEn
        /\ dev'.thi = dev.thi /\ dev.tsr = <<dev.tsr[1]>> /\ dev.tsr[1] \in Byte /\ dev'.txq = dev.txq
        /\ dev'.tsr = <<>> /\ dev'.out = Append(dev.out, dev.tsr[1])
    BY <1>0, <1>2, TxEndLemma
  <2>2. Len(dev'.txq) <= Len(dev.txq)
    BY <1>0, <2>1
  <2>. QED  BY <1>0, <2>1, <2>2
<1>. QED  BY <1>1, <1>2 DEF Transmitter

\* The receiver takes a step: an overrun is flagged when a byte is lost.
LEMMA ReceiverEffect ==
    ASSUME Typed, Receiver
    PROVE  /\ UNCHANGED <<drv, app, isr, goal>>
           /\ dev' \in Device /\ dev'.ier = dev.ier /\ dev'.fifoEn = dev.fifoEn /\ dev'.thi = dev.thi
           /\ dev'.txq = dev.txq /\ dev'.tsr = dev.tsr /\ dev'.out = dev.out
           /\ rx'.told = rx.told /\ (dev.oe => dev'.oe) /\ (rx'.lost => rx.lost \/ dev'.oe)
<1>0. dev \in Device /\ rx \in Line /\ UNCHANGED <<drv, app, isr, goal>>
  BY DEF Receiver, Typed
<1>1. CASE /\ rx.arrived < RxMax /\ dev' = RxByte(dev, rx.arrived + 1)
           /\ rx' = [rx EXCEPT !.arrived = @ + 1, !.lost = @ \/ RxFull(dev)]
  <2>1. rx.arrived + 1 \in Nat
    BY <1>0 DEF Line
  <2>2. /\ dev' \in Device /\ dev'.ier = dev.ier /\ dev'.fifoEn = dev.fifoEn /\ dev'.thi = dev.thi
        /\ dev'.txq = dev.txq /\ dev'.tsr = dev.tsr /\ dev'.out = dev.out
        /\ dev'.oe = (dev.oe \/ RxFull(dev))
    BY <1>0, <1>1, <2>1, RxLemma
  <2>3. rx'.told = rx.told /\ rx'.lost = (rx.lost \/ RxFull(dev))
    BY <1>0, <1>1 DEF Line
  <2>. QED  BY <1>0, <2>2, <2>3
<1>2. CASE CanTimeout(dev) /\ dev' = CharTimeout(dev) /\ UNCHANGED rx
  <2>1. /\ dev' \in Device /\ dev'.ier = dev.ier /\ dev'.fifoEn = dev.fifoEn /\ dev'.thi = dev.thi
        /\ dev'.txq = dev.txq /\ dev'.tsr = dev.tsr /\ dev'.out = dev.out /\ dev'.oe = dev.oe
    BY <1>0, <1>2, RxLemma
  <2>. QED  BY <1>0, <1>2, <2>1
<1>. QED  BY <1>1, <1>2 DEF Receiver

\* _write starts, with the initialisation on its first call.
LEMMA WriteEffect ==
    ASSUME Typed, write
    PROVE  /\ app.pc = "idle" /\ isr.pc = "off" /\ "write" \in app.ops /\ MaySend /\ UNCHANGED <<isr, rx>>
           /\ goal' = goal \o Buffer(app.b + 1) /\ app.b \in 0..Len(BufSize) /\ app.b < Len(BufSize)
           /\ app'.pc = "poll" /\ app'.b = app.b + 1 /\ app'.i = 1 /\ app'.res = "none" /\ app'.ops = app.ops
           /\ app'.busy = app.busy
           /\ IF drv.g_stdio_uart_init_done THEN UNCHANGED <<dev, drv>>
              ELSE /\ dev' \in Device /\ dev'.ier = {} /\ dev'.fifoEn = TRUE /\ dev'.txq = <<>>
                   /\ dev'.tsr = dev.tsr /\ dev'.out = dev.out
                   /\ drv'.tx_buff_size = 0 /\ drv'.g_stdio_uart_init_done = TRUE
<1>1. /\ NextBuffer("poll") /\ app.pc = "idle" /\ isr.pc = "off" /\ "write" \in app.ops /\ UNCHANGED <<isr, rx>>
      /\ goal' = goal \o Buffer(app.b + 1) /\ app.b < Len(BufSize) /\ app.b \in 0..Len(BufSize)
      /\ dev \in Device /\ drv \in Driver
  BY DEF write, Calls, Running, NextBuffer, Typed, Thread
<1>2. /\ app'.pc = "poll" /\ app'.b = app.b + 1 /\ app'.i = 1 /\ app'.res = "none" /\ app'.ops = app.ops
      /\ app'.busy = app.busy /\ MaySend
  BY <1>1, NextBufferLemma DEF AppStates
<1>3. CASE drv.g_stdio_uart_init_done
  BY <1>1, <1>2, <1>3 DEF write
<1>4. CASE ~drv.g_stdio_uart_init_done
  <2>1. dev' = UART_init_dev(dev) /\ drv' = [UART_init_drv(drv) EXCEPT !.g_stdio_uart_init_done = TRUE]
    BY <1>4 DEF write
  <2>2. /\ dev' \in Device /\ dev'.ier = {} /\ dev'.fifoEn = TRUE /\ dev'.txq = <<>>
        /\ dev'.tsr = dev.tsr /\ dev'.out = dev.out
    BY <1>1, <2>1, InitDevLemma
  <2>3. drv'.tx_buff_size = 0 /\ drv'.g_stdio_uart_init_done = TRUE
    <3>. DEFINE v == UART_init_drv(drv)
    <3>1. 0 \in 0..Len(BufSize)
      BY UartAssumption
    <3>2. v \in Driver /\ v.tx_buff_size = 0
      BY <1>1, <3>1 DEF UART_init_drv, Driver
    <3>3. drv' = [v EXCEPT !.g_stdio_uart_init_done = TRUE]
      BY <2>1
    <3>. HIDE DEF v
    <3>. QED  BY <3>2, <3>3 DEF Driver
  <2>. QED  BY <1>1, <1>2, <1>4, <2>2, <2>3
<1>. QED  BY <1>3, <1>4

\* default_tx_handler decides how many bytes to push: never more than are
\* left of the transfer.
LEMMA HandlerEffect ==
    ASSUME Typed, default_tx_handler
    PROVE  /\ isr.pc = "tx" /\ UNCHANGED <<app, goal, rx>>
           /\ dev' \in Device /\ dev'.ier = dev.ier /\ dev'.fifoEn = dev.fifoEn /\ dev'.thi = dev.thi
           /\ dev'.txq = dev.txq /\ dev'.tsr = dev.tsr /\ dev'.out = dev.out
           /\ drv'.tx_buffer = drv.tx_buffer /\ drv'.tx_buff_size = drv.tx_buff_size
           /\ drv'.tx_idx = drv.tx_idx /\ drv'.rx_handler = drv.rx_handler /\ drv'.plic = drv.plic
           /\ drv'.g_stdio_uart_init_done = drv.g_stdio_uart_init_done
           /\ \/ isr'.pc = "off"
              \/ /\ isr'.pc = "tx_fill" /\ isr'.cnt \in 0..FifoSize
                 /\ drv.tx_idx <= drv.tx_buff_size => drv.tx_idx + isr'.cnt <= drv.tx_buff_size
<1>1. isr.pc = "tx" /\ isr \in Routine /\ dev \in Device /\ drv \in Driver /\ UNCHANGED <<app, goal, rx>>
  BY DEF default_tx_handler, Typed
<1>2. CASE drv.tx_buffer # 0 /\ drv.tx_buff_size > 0
  <2>1. /\ dev' = ReadLSR(dev) /\ drv' = [drv EXCEPT !.status = @ \/ dev.oe]
        /\ isr' = [pc |-> "tx_fill", cnt |-> IF "THRE" \in LSR(dev) THEN fill_size ELSE 0]
    BY <1>2 DEF default_tx_handler
  <2>2. /\ dev' \in Device /\ dev'.ier = dev.ier /\ dev'.fifoEn = dev.fifoEn /\ dev'.thi = dev.thi
        /\ dev'.txq = dev.txq /\ dev'.tsr = dev.tsr /\ dev'.out = dev.out
    BY <1>1, <2>1, ReadLSRLemma
  <2>3. /\ drv'.tx_buffer = drv.tx_buffer /\ drv'.tx_buff_size = drv.tx_buff_size
        /\ drv'.tx_idx = drv.tx_idx /\ drv'.rx_handler = drv.rx_handler /\ drv'.plic = drv.plic
        /\ drv'.g_stdio_uart_init_done = drv.g_stdio_uart_init_done
    BY <1>1, <2>1 DEF Driver
  <2>4. /\ fill_size \in 0..FifoSize /\ 0 \in 0..FifoSize /\ drv.tx_idx \in Nat
        /\ drv.tx_idx <= drv.tx_buff_size => drv.tx_idx + fill_size <= drv.tx_buff_size
    BY <1>1, FifoSizeAssumption DEF fill_size, MinOf, Driver
  <2>5. isr'.pc = "tx_fill" /\ isr'.cnt \in {fill_size, 0}
    BY <2>1
  <2>6. /\ isr'.cnt \in 0..FifoSize
        /\ drv.tx_idx <= drv.tx_buff_size => drv.tx_idx + isr'.cnt <= drv.tx_buff_size
    BY <2>4, <2>5
  <2>. QED  BY <1>1, <2>2, <2>3, <2>5, <2>6
<1>3. CASE ~(drv.tx_buffer # 0 /\ drv.tx_buff_size > 0)
  <2>1. isr' = [isr EXCEPT !.pc = "off"] /\ UNCHANGED <<dev, drv>>
    BY <1>3 DEF default_tx_handler
  <2>2. isr'.pc = "off"
    BY <1>1, <2>1 DEF Routine
  <2>. QED  BY <1>1, <2>1, <2>2
<1>. QED  BY <1>2, <1>3

\* default_tx_handler pushes one byte.
LEMMA PushEffect ==
    ASSUME Typed, default_tx_fill
    PROVE  /\ isr.pc = "tx_fill" /\ isr.cnt \in 0..FifoSize /\ isr.cnt > 0 /\ UNCHANGED <<app, goal, rx>>
           /\ <<drv.tx_buffer, drv.tx_idx + 1>> \in Byte
           /\ dev' \in Device /\ dev'.ier = dev.ier /\ dev'.fifoEn = dev.fifoEn /\ dev'.thi = FALSE
           /\ dev'.tsr = dev.tsr /\ dev'.out = dev.out
           /\ dev'.txq = (IF THRNF(dev) THEN Append(dev.txq, <<drv.tx_buffer, drv.tx_idx + 1>>) ELSE dev.txq)
           /\ drv'.tx_buffer = drv.tx_buffer /\ drv'.tx_buff_size = drv.tx_buff_size
           /\ drv'.tx_idx = drv.tx_idx + 1 /\ drv'.rx_handler = drv.rx_handler /\ drv'.plic = drv.plic
           /\ drv'.g_stdio_uart_init_done = drv.g_stdio_uart_init_done
           /\ isr'.pc = "tx_fill" /\ isr'.cnt = isr.cnt - 1
<1>1. /\ isr.pc = "tx_fill" /\ isr.cnt > 0 /\ isr \in Routine /\ dev \in Device /\ drv \in Driver
      /\ drv.tx_buffer # 0 /\ UNCHANGED <<app, goal, rx>>
  BY DEF default_tx_fill, Typed
<1>2. <<drv.tx_buffer, drv.tx_idx + 1>> \in Byte
  BY <1>1, ByteLemma DEF Driver
<1>3. /\ dev' \in Device /\ dev'.ier = dev.ier /\ dev'.fifoEn = dev.fifoEn /\ dev'.thi = FALSE
      /\ dev'.tsr = dev.tsr /\ dev'.out = dev.out
      /\ dev'.txq = (IF THRNF(dev) THEN Append(dev.txq, <<drv.tx_buffer, drv.tx_idx + 1>>) ELSE dev.txq)
  BY <1>1, <1>2, WriteTHRLemma DEF default_tx_fill
<1>4. /\ drv'.tx_buffer = drv.tx_buffer /\ drv'.tx_buff_size = drv.tx_buff_size
      /\ drv'.tx_idx = drv.tx_idx + 1 /\ drv'.rx_handler = drv.rx_handler /\ drv'.plic = drv.plic
      /\ drv'.g_stdio_uart_init_done = drv.g_stdio_uart_init_done
  BY <1>1 DEF default_tx_fill, Driver
<1>5. isr'.pc = "tx_fill" /\ isr'.cnt = isr.cnt - 1 /\ isr.cnt \in 0..FifoSize
  BY <1>1 DEF default_tx_fill, Routine
<1>. QED  BY <1>1, <1>2, <1>3, <1>4, <1>5

\* default_tx_handler ends, and ends the transfer if all was pushed.
LEMMA EndEffect ==
    ASSUME Typed, default_tx_end
    PROVE  /\ isr.pc = "tx_fill" /\ isr'.pc = "off" /\ UNCHANGED <<app, goal, rx>>
           /\ dev' \in Device /\ dev'.fifoEn = dev.fifoEn /\ dev'.thi = dev.thi
           /\ dev'.txq = dev.txq /\ dev'.tsr = dev.tsr /\ dev'.out = dev.out
           /\ IF drv.tx_idx = drv.tx_buff_size
              THEN /\ drv'.tx_buff_size = 0 /\ dev'.ier = dev.ier \ {"THRE"}
                   /\ drv'.tx_buffer = drv.tx_buffer
                   /\ drv'.tx_idx = drv.tx_idx /\ drv'.rx_handler = drv.rx_handler /\ drv'.plic = drv.plic
                   /\ drv'.g_stdio_uart_init_done = drv.g_stdio_uart_init_done
              ELSE UNCHANGED <<dev, drv>>
<1>1. /\ isr.pc = "tx_fill" /\ isr \in Routine /\ dev \in Device /\ drv \in Driver /\ UNCHANGED <<app, goal, rx>>
      /\ isr' = [isr EXCEPT !.pc = "off"]
  BY DEF default_tx_end, Typed
<1>2. isr'.pc = "off"
  BY <1>1 DEF Routine
<1>3. CASE drv.tx_idx = drv.tx_buff_size
  <2>1. drv' = [drv EXCEPT !.tx_buff_size = 0] /\ dev' = WriteIER(dev, dev.ier \ {"THRE"})
    BY <1>3 DEF default_tx_end
  <2>2. dev.ier \ {"THRE"} \in SUBSET Sources /\ "THRE" \notin dev.ier \ {"THRE"}
    BY <1>1 DEF Device
  <2>3. /\ dev' \in Device /\ dev'.fifoEn = dev.fifoEn /\ dev'.ier = dev.ier \ {"THRE"}
        /\ dev'.thi = (dev.thi \/ ("THRE" \in dev.ier \ {"THRE"} /\ dev.txq = <<>>))
        /\ dev'.txq = dev.txq /\ dev'.tsr = dev.tsr /\ dev'.out = dev.out
    BY <1>1, <2>1, <2>2, WriteIERLemma
  <2>4. dev'.thi = dev.thi
    BY <1>1, <2>2, <2>3 DEF Device
  <2>5. /\ drv'.tx_buff_size = 0 /\ drv'.tx_buffer = drv.tx_buffer
        /\ drv'.tx_idx = drv.tx_idx /\ drv'.rx_handler = drv.rx_handler /\ drv'.plic = drv.plic
        /\ drv'.g_stdio_uart_init_done = drv.g_stdio_uart_init_done
    BY <1>1, <2>1 DEF Driver
  <2>. QED  BY <1>1, <1>2, <1>3, <2>3, <2>4, <2>5
<1>4. CASE drv.tx_idx # drv.tx_buff_size
  <2>1. UNCHANGED <<dev, drv>>
    BY <1>4 DEF default_tx_end
  <2>. QED  BY <1>1, <1>2, <1>4, <2>1
<1>. QED  BY <1>3, <1>4

\* A line status that was read is added to the sticky status.
LEMMA StatusEffect ==
    ASSUME Typed, fill_status \/ get_rx_status
    PROVE  /\ isr.pc = "off" /\ UNCHANGED <<dev, isr, goal, rx>>
           /\ drv'.tx_buffer = drv.tx_buffer /\ drv'.tx_buff_size = drv.tx_buff_size
           /\ drv'.tx_idx = drv.tx_idx /\ drv'.rx_handler = drv.rx_handler /\ drv'.plic = drv.plic
           /\ drv'.g_stdio_uart_init_done = drv.g_stdio_uart_init_done
           /\ drv'.status = (drv.status \/ "OE" \in app.s)
           /\ app'.ops = app.ops /\ app'.busy = app.busy /\ app'.b = app.b
           /\ app'.res = app.res \/ app'.res = "none"
           /\ \/ /\ app.pc = "fill_status" /\ app'.pc = "fill_thr" /\ "THRE" \in app.s /\ app'.i = app.i
              \/ app.pc = "rx_status" /\ app'.pc = "rx_rbr" /\ app'.res = app.res
              \/ app.pc \in {"fill_status", "rx_status"} /\ app'.pc = "idle"
<1>1. isr.pc = "off" /\ UNCHANGED <<dev, isr, goal, rx>> /\ app \in Thread /\ drv \in Driver
  BY DEF fill_status, get_rx_status, Running, Typed
<1>2. /\ drv'.tx_buffer = drv.tx_buffer /\ drv'.tx_buff_size = drv.tx_buff_size
      /\ drv'.tx_idx = drv.tx_idx /\ drv'.rx_handler = drv.rx_handler /\ drv'.plic = drv.plic
      /\ drv'.g_stdio_uart_init_done = drv.g_stdio_uart_init_done
      /\ drv'.status = (drv.status \/ "OE" \in app.s)
  BY <1>1 DEF fill_status, get_rx_status, Driver
<1>3. CASE fill_status /\ "THRE" \in app.s
  <2>1. app.pc = "fill_status" /\ app' = [app EXCEPT !.pc = "fill_thr"]
    BY <1>3 DEF fill_status, Running
  <2>2. /\ app'.pc = "fill_thr" /\ app'.i = app.i /\ app'.ops = app.ops /\ app'.busy = app.busy
        /\ app'.b = app.b /\ app'.res = app.res
    BY <1>1, <2>1 DEF Thread
  <2>. QED  BY <1>1, <1>2, <1>3, <2>1, <2>2
<1>4. CASE get_rx_status /\ "DR" \in app.s
  <2>1. app.pc = "rx_status" /\ app' = [app EXCEPT !.pc = "rx_rbr"]
    BY <1>4 DEF get_rx_status, Running
  <2>2. /\ app'.pc = "rx_rbr" /\ app'.ops = app.ops /\ app'.busy = app.busy
        /\ app'.b = app.b /\ app'.res = app.res
    BY <1>1, <2>1 DEF Thread
  <2>. QED  BY <1>1, <1>2, <2>1, <2>2
<1>5. CASE (fill_status /\ "THRE" \notin app.s) \/ (get_rx_status /\ "DR" \notin app.s)
  <2>1. Return("none") /\ app.pc \in {"fill_status", "rx_status"}
    BY <1>5 DEF fill_status, get_rx_status, Running
  <2>2. app'.pc = "idle" /\ app'.ops = app.ops /\ app'.busy = app.busy /\ app'.b = app.b /\ app'.res = "none"
    BY <1>1, <2>1, ReturnLemma
  <2>. QED  BY <1>1, <1>2, <2>1, <2>2
<1>. QED  BY <1>3, <1>4, <1>5

\* The second half of IER |= mask.
LEMMA IerPutEffect ==
    ASSUME Typed, ier_put
    PROVE  /\ app.pc = "ier_put" /\ isr.pc = "off" /\ UNCHANGED <<isr, goal, rx>> /\ app.s \subseteq Sources
           /\ dev' \in Device /\ dev'.ier = app.s /\ dev'.fifoEn = dev.fifoEn
           /\ dev'.thi = (dev.thi \/ ("THRE" \in app.s /\ dev.txq = <<>>))
           /\ dev'.txq = dev.txq /\ dev'.tsr = dev.tsr /\ dev'.out = dev.out
           /\ drv'.tx_buffer = drv.tx_buffer /\ drv'.tx_buff_size = drv.tx_buff_size
           /\ drv'.tx_idx = drv.tx_idx /\ drv'.rx_handler = drv.rx_handler
           /\ drv'.g_stdio_uart_init_done = drv.g_stdio_uart_init_done
           /\ app'.pc = "idle" /\ app'.ops = app.ops /\ app'.busy = app.busy /\ app'.b = app.b
           /\ app'.res = app.res
<1>1. /\ app.pc = "ier_put" /\ isr.pc = "off" /\ UNCHANGED <<isr, goal, rx>> /\ dev \in Device /\ drv \in Driver
      /\ app \in Thread /\ app.s \in SUBSET Sources /\ dev' = WriteIER(dev, app.s)
  BY DEF ier_put, Typed, Running
<1>2. /\ dev' \in Device /\ dev'.ier = app.s /\ dev'.fifoEn = dev.fifoEn
      /\ dev'.thi = (dev.thi \/ ("THRE" \in app.s /\ dev.txq = <<>>))
      /\ dev'.txq = dev.txq /\ dev'.tsr = dev.tsr /\ dev'.out = dev.out
  BY <1>1, WriteIERLemma
<1>3. /\ drv'.tx_buffer = drv.tx_buffer /\ drv'.tx_buff_size = drv.tx_buff_size
      /\ drv'.tx_idx = drv.tx_idx /\ drv'.rx_handler = drv.rx_handler
      /\ drv'.g_stdio_uart_init_done = drv.g_stdio_uart_init_done
  BY <1>1 DEF ier_put, Driver
<1>4. /\ app'.pc = "idle" /\ app'.ops = app.ops /\ app'.busy = app.busy /\ app'.b = app.b
      /\ app'.res = app.res
  BY <1>1 DEF ier_put, Return, Thread
<1>. QED  BY <1>1, <1>2, <1>3, <1>4

\* In a patient application no interrupt is enabled when the handler is set,
\* so that the register read for FCR says "none pending".
LEMMA SetRxEffect ==
    ASSUME Typed, Interrupts, Transfers, Patient, set_rx_call
    PROVE  /\ app.pc = "idle" /\ isr.pc = "off" /\ UNCHANGED <<isr, goal, rx>> /\ ~app.busy
           /\ dev' \in Device /\ dev'.ier = dev.ier /\ dev'.fifoEn = dev.fifoEn /\ dev'.thi = dev.thi
           /\ dev'.txq = dev.txq /\ dev'.tsr = dev.tsr /\ dev'.out = dev.out
           /\ drv'.tx_buffer = drv.tx_buffer /\ drv'.tx_buff_size = drv.tx_buff_size
           /\ drv'.tx_idx = drv.tx_idx /\ drv'.rx_handler = TRUE
           /\ drv'.g_stdio_uart_init_done = drv.g_stdio_uart_init_done
           /\ app'.pc = "fcr_put" /\ app'.ops = app.ops /\ app'.busy = app.busy /\ app'.b = app.b
           /\ app'.res = "none" /\ app'.s = {"en"}
<1>1. /\ app.pc = "idle" /\ isr.pc = "off" /\ UNCHANGED <<isr, goal, rx>> /\ ~app.busy /\ ~drv.rx_handler
      /\ dev \in Device /\ drv \in Driver /\ app \in Thread /\ dev' = ReadIIR(dev)
      /\ drv' = [drv EXCEPT !.rx_handler = TRUE]
      /\ app' = [app EXCEPT !.pc = "fcr_put", !.s = IIRBits(dev), !.res = "none"]
  BY DEF set_rx_call, Typed, Calls, Running, MaySend
<1>2. "THRE" \notin dev.ier /\ "LS" \notin dev.ier /\ "RDA" \notin dev.ier
  BY <1>1 DEF Interrupts, Transfers
<1>3. IIR(dev) = 1
  BY <1>2 DEF IIR
<1>4. IIRBits(dev) = {"en"}
  <2>1. (1 \div 1) % 2 = 1 /\ (1 \div 2) % 2 = 0 /\ (1 \div 4) % 2 = 0
    OBVIOUS
  <2>. QED  BY <1>3, <2>1 DEF IIRBits
<1>5. /\ dev' \in Device /\ dev'.ier = dev.ier /\ dev'.fifoEn = dev.fifoEn /\ dev'.thi = (dev.thi /\ IIR(dev) # 2)
      /\ dev'.txq = dev.txq /\ dev'.tsr = dev.tsr /\ dev'.out = dev.out
  BY <1>1, ReadIIRLemma
<1>6. dev'.thi = dev.thi
  BY <1>1, <1>3, <1>5 DEF Device
<1>7. /\ drv'.tx_buffer = drv.tx_buffer /\ drv'.tx_buff_size = drv.tx_buff_size
      /\ drv'.tx_idx = drv.tx_idx /\ drv'.rx_handler = TRUE
      /\ drv'.g_stdio_uart_init_done = drv.g_stdio_uart_init_done
  BY <1>1 DEF Driver
<1>8. /\ app'.pc = "fcr_put" /\ app'.ops = app.ops /\ app'.busy = app.busy /\ app'.b = app.b
      /\ app'.res = "none" /\ app'.s = {"en"}
  BY <1>1, <1>4 DEF Thread
<1>. QED  BY <1>1, <1>5, <1>6, <1>7, <1>8

\* Every step keeps an overrun that was flagged where it can be found.
LEMMA KeptNext ==
    ASSUME Typed, Kept, Next
    PROVE  Kept'
<1>0. dev \in Device /\ drv \in Driver /\ app \in Thread /\ isr \in Routine /\ rx \in Line
  BY DEF Typed
<1>1. CASE irq_tx_call
  BY <1>0, <1>1 DEF irq_tx_call, Kept, Running, Calls, Device, Driver, Thread, Routine, Line
<1>2. CASE irq_tx_size
  BY <1>0, <1>2 DEF irq_tx_size, Kept, Running, Device, Driver, Thread, Routine, Line
<1>3. CASE irq_tx_idx
  BY <1>0, <1>3 DEF irq_tx_idx, Kept, Running, Device, Driver, Thread, Routine, Line
<1>4. CASE ier_get
  BY <1>0, <1>4 DEF ier_get, Kept, Running, Device, Driver, Thread, Routine, Line
<1>5. CASE ier_put
  BY <1>0, <1>5, WriteIERLemma DEF ier_put, Kept, Running, Return, Device, Driver, Thread, Routine, Line
<1>6. CASE polled_tx_call
  BY <1>0, <1>6 DEF polled_tx_call, Kept, Running, Calls, NextBuffer, Device, Driver, Thread, Routine, Line
<1>7. CASE polled_tx_lsr
  BY <1>0, <1>7, ReadLSRLemma DEF polled_tx_lsr, Kept, Running, LSR, Device, Driver, Thread, Routine, Line
<1>8. CASE polled_tx_thr
  BY <1>0, <1>8, PolledEffect DEF Kept
<1>9. CASE write
  BY <1>0, <1>9, InitDevLemma DEF write, Kept, Running, Calls, NextBuffer, Device, Driver, Thread,
       Routine, Line
<1>10. CASE fill_call
  BY <1>0, <1>10 DEF fill_call, Kept, Running, Calls, Device, Driver, Thread, Routine, Line
<1>11. CASE fill_lsr
  BY <1>0, <1>11, ReadLSRLemma DEF fill_lsr, Kept, Running, LSR, Device, Driver, Thread, Routine, Line
<1>12. CASE fill_status
  <2>1. app.pc = "fill_status" /\ isr.pc = "off" /\ UNCHANGED <<dev, isr, goal, rx>>
    BY <1>12 DEF fill_status, Running
  <2>2. drv'.status = (drv.status \/ "OE" \in app.s) /\ drv'.plic = drv.plic
    BY <1>0, <1>12 DEF fill_status, Driver
  <2>3. app'.ops = app.ops /\ app'.pc \in {"fill_thr", "idle"}
    <3>1. CASE "THRE" \in app.s
      BY <1>0, <1>12, <3>1 DEF fill_status, Thread
    <3>2. CASE "THRE" \notin app.s
      BY <1>0, <1>12, <3>2, ReturnLemma DEF fill_status
    <3>. QED  BY <3>1, <3>2
  <2>. QED  BY <2>1, <2>2, <2>3 DEF Kept
<1>13. CASE fill_thr
  BY <1>0, <1>13, FillEffect DEF Kept, Driver, Thread, Device
<1>14. CASE complete_call
  BY <1>0, <1>14, ReadLSRLemma DEF complete_call, Kept, Running, Calls, LSR, Device, Driver, Thread,
       Routine, Line
<1>15. CASE complete_status
  BY <1>0, <1>15 DEF complete_status, Kept, Running, Device, Driver, Thread, Routine, Line
<1>16. CASE complete_size
  BY <1>0, <1>16 DEF complete_size, Kept, Running, Device, Driver, Thread, Routine, Line
<1>17. CASE set_rx_call
  BY <1>0, <1>17, ReadIIRLemma DEF set_rx_call, Kept, Running, Calls, Device, Driver, Thread, Routine, Line
<1>18. CASE set_rx_fcr
  BY <1>0, <1>18, FcrEffect DEF Kept, Driver, Thread, Device
<1>19. CASE UART_enable_irq
  BY <1>0, <1>19 DEF UART_enable_irq, Kept, Running, Calls, Device, Driver, Thread, Routine, Line
<1>20. CASE get_rx_call
  BY <1>0, <1>20 DEF get_rx_call, Kept, Running, Calls, Device, Driver, Thread, Routine, Line
<1>21. CASE get_rx_lsr
  BY <1>0, <1>21, ReadLSRLemma DEF get_rx_lsr, Kept, Running, LSR, Device, Driver, Thread, Routine, Line
<1>22. CASE get_rx_status
  <2>1. app.pc = "rx_status" /\ isr.pc = "off" /\ UNCHANGED <<dev, isr, goal, rx>>
    BY <1>22 DEF get_rx_status, Running
  <2>2. drv'.status = (drv.status \/ "OE" \in app.s) /\ drv'.plic = drv.plic
    BY <1>0, <1>22 DEF get_rx_status, Driver
  <2>3. app'.ops = app.ops /\ app'.pc \in {"rx_rbr", "idle"}
    <3>1. CASE "DR" \in app.s
      BY <1>0, <1>22, <3>1 DEF get_rx_status, Thread
    <3>2. CASE "DR" \notin app.s
      BY <1>0, <1>22, <3>2, ReturnLemma DEF get_rx_status
    <3>. QED  BY <3>1, <3>2
  <2>. QED  BY <2>1, <2>2, <2>3 DEF Kept
<1>23. CASE get_rx_rbr
  BY <1>0, <1>23, ByteReadEffect DEF Kept
<1>24. CASE rx_status_call
  BY <1>0, <1>24, ReadLSRLemma DEF rx_status_call, Kept, Running, Calls, LSR, Device, Driver, Thread,
       Routine, Line
<1>25. CASE rx_status_put
  BY <1>0, <1>25 DEF rx_status_put, Kept, Running, Device, Driver, Thread, Routine, Line
<1>26. CASE rx_status_get
  BY <1>0, <1>26 DEF rx_status_get, Kept, Running, Device, Driver, Thread, Routine, Line
<1>27. CASE rx_status_clear
  BY <1>0, <1>27 DEF rx_status_clear, Kept, Running, Return, Device, Driver, Thread, Routine, Line
<1>28. CASE interrupt
  BY <1>0, <1>28 DEF interrupt, Kept, Device, Driver, Thread, Routine, Line
<1>29. CASE uart_isr
  BY <1>0, <1>29, ReadIIRLemma DEF uart_isr, Kept, Device, Driver, Thread, Routine, Line
<1>30. CASE default_tx_handler
  BY <1>0, <1>30, ReadLSRLemma DEF default_tx_handler, Kept, LSR, Device, Driver, Thread, Routine, Line
<1>31. CASE default_tx_fill
  BY <1>0, <1>31 DEF default_tx_fill, Kept, Device, Driver, Thread, Routine, Line
<1>32. CASE default_tx_end
  BY <1>0, <1>32 DEF default_tx_end, Kept, Device, Driver, Thread, Routine, Line
<1>33. CASE rx_handler_lsr
  BY <1>0, <1>33, ReadLSRLemma DEF rx_handler_lsr, Kept, LSR, Device, Driver, Thread, Routine, Line
<1>34. CASE rx_handler_rbr
  BY <1>0, <1>34, ByteReadEffect DEF Kept
<1>35. CASE Transmitter
  BY <1>0, <1>35, TransmitterEffect DEF Kept
<1>36. CASE Receiver
  BY <1>0, <1>36, ReceiverEffect DEF Kept
<1>. QED  BY <1>1, <1>2, <1>3, <1>4, <1>5, <1>6, <1>7, <1>8, <1>9, <1>10, <1>11, <1>12, <1>13, <1>14,
           <1>15, <1>16, <1>17, <1>18, <1>19, <1>20, <1>21, <1>22, <1>23, <1>24, <1>25, <1>26, <1>27,
           <1>28, <1>29, <1>30, <1>31, <1>32, <1>33, <1>34, <1>35, <1>36
         DEF Next, Service, Application, UART_irq_tx, UART_polled_tx, UART_fill_tx_fifo, UART_tx_complete,
             UART_set_rx_handler, UART_get_rx, UART_get_rx_status

\* Every step of a patient application and its device keeps the interrupt
\* discipline.
LEMMA InterruptsNext ==
    ASSUME Typed, Kept, Sending, Patient, Next
    PROVE  Interrupts'
<1>0. /\ dev \in Device /\ drv \in Driver /\ app \in Thread /\ isr \in Routine /\ rx \in Line
      /\ FifoSize \in Nat \ {0}
  BY FifoSizeAssumption DEF Typed
<1>s. Interrupts /\ Transfers /\ Room
  BY DEF Sending
<1>1. CASE irq_tx_call
  BY <1>0, <1>s, <1>1 DEF irq_tx_call, Interrupts, Transfers, Room, Calls, Running, MaySend, Device,
       Driver, Thread, Routine
<1>2. CASE irq_tx_size
  BY <1>0, <1>s, <1>2 DEF irq_tx_size, Interrupts, Transfers, Room, Running, Device, Driver, Thread, Routine
<1>3. CASE irq_tx_idx
  BY <1>0, <1>s, <1>3 DEF irq_tx_idx, Interrupts, Transfers, Room, Running, Device, Driver, Thread, Routine
<1>4. CASE ier_get
  BY <1>0, <1>s, <1>4 DEF ier_get, Interrupts, Transfers, Room, Running, Device, Driver, Thread, Routine
<1>5. CASE ier_put
  BY <1>0, <1>s, <1>5, IerPutEffect DEF Interrupts, Transfers, Room, Typed
<1>6. CASE polled_tx_call
  BY <1>0, <1>s, <1>6 DEF polled_tx_call, Interrupts, Transfers, Room, Calls, Running, NextBuffer,
       MaySend, Device, Driver, Thread, Routine
<1>7. CASE polled_tx_lsr
  BY <1>0, <1>s, <1>7, ReadLSRLemma DEF polled_tx_lsr, Interrupts, Transfers, Room, Running, LSR,
       Device, Driver, Thread, Routine
<1>8. CASE polled_tx_thr
  BY <1>0, <1>s, <1>8, PolledEffect DEF Interrupts, Transfers, Room, Typed
<1>9. CASE write
  BY <1>0, <1>s, <1>9, WriteEffect DEF Interrupts, Transfers, Room, Typed
<1>10. CASE fill_call
  BY <1>0, <1>s, <1>10 DEF fill_call, Interrupts, Transfers, Room, Calls, Running, MaySend, Device,
       Driver, Thread, Routine
<1>11. CASE fill_lsr
  BY <1>0, <1>s, <1>11, ReadLSRLemma DEF fill_lsr, Interrupts, Transfers, Room, Running, LSR, Device,
       Driver, Thread, Routine
<1>12. CASE fill_status
  BY <1>0, <1>s, <1>12, StatusEffect DEF Interrupts, Transfers, Room, Typed
<1>13. CASE fill_thr
  BY <1>0, <1>s, <1>13, FillEffect DEF Interrupts, Transfers, Room, Typed
<1>14. CASE complete_call
  BY <1>0, <1>s, <1>14, ReadLSRLemma DEF complete_call, Interrupts, Transfers, Room, Calls, Running,
       LSR, Device, Driver, Thread, Routine
<1>15. CASE complete_status
  BY <1>0, <1>s, <1>15 DEF complete_status, Interrupts, Transfers, Room, Running, Device, Driver,
       Thread, Routine
<1>16. CASE complete_size
  BY <1>0, <1>s, <1>16 DEF complete_size, Interrupts, Transfers, Room, Running, Device, Driver, Thread,
       Routine
<1>17. CASE set_rx_call
  BY <1>0, <1>s, <1>17, SetRxEffect DEF Interrupts, Transfers, Room, Typed
<1>18. CASE set_rx_fcr
  BY <1>0, <1>s, <1>18, FcrEffect DEF Interrupts, Transfers, Room, Typed
<1>19. CASE UART_enable_irq
  BY <1>0, <1>s, <1>19 DEF UART_enable_irq, Interrupts, Transfers, Room, Calls, Running, MaySend,
       Device, Driver, Thread, Routine
<1>20. CASE get_rx_call
  BY <1>0, <1>s, <1>20 DEF get_rx_call, Interrupts, Transfers, Room, Calls, Running, Device, Driver,
       Thread, Routine
<1>21. CASE get_rx_lsr
  BY <1>0, <1>s, <1>21, ReadLSRLemma DEF get_rx_lsr, Interrupts, Transfers, Room, Running, LSR, Device,
       Driver, Thread, Routine
<1>22. CASE get_rx_status
  BY <1>0, <1>s, <1>22, StatusEffect DEF Interrupts, Transfers, Room, Typed
<1>23. CASE get_rx_rbr
  BY <1>0, <1>s, <1>23, ByteReadEffect DEF Interrupts, Transfers, Room, Typed
<1>24. CASE rx_status_call
  BY <1>0, <1>s, <1>24, ReadLSRLemma DEF rx_status_call, Interrupts, Transfers, Room, Calls, Running,
       LSR, Device, Driver, Thread, Routine
<1>25. CASE rx_status_put
  BY <1>0, <1>s, <1>25 DEF rx_status_put, Interrupts, Transfers, Room, Running, Device, Driver, Thread,
       Routine
<1>26. CASE rx_status_get
  BY <1>0, <1>s, <1>26 DEF rx_status_get, Interrupts, Transfers, Room, Running, Device, Driver, Thread,
       Routine
<1>27. CASE rx_status_clear
  BY <1>0, <1>s, <1>27 DEF rx_status_clear, Interrupts, Transfers, Room, Running, Return, Device,
       Driver, Thread, Routine
<1>28. CASE interrupt
  BY <1>0, <1>s, <1>28 DEF interrupt, Interrupts, Transfers, Room, Device, Driver, Thread, Routine
<1>29. CASE uart_isr
  <2>1. /\ isr.pc = "iir" /\ dev' = ReadIIR(dev) /\ UNCHANGED <<drv, app, goal, rx>>
        /\ isr' = [isr EXCEPT !.pc = CASE IIR(dev) = 2                           -> "tx"
                                       [] IIR(dev) \in {4, 12} /\ drv.rx_handler -> "rx"
                                       [] OTHER                                  -> "off"]
    BY <1>29 DEF uart_isr
  <2>2. /\ dev'.ier = dev.ier /\ dev'.thi = (dev.thi /\ IIR(dev) # 2)
        /\ dev'.fifoEn = dev.fifoEn /\ dev'.txq = dev.txq
    BY <1>0, <2>1, ReadIIRLemma
  <2>3. IIR(dev) = 2 => "THRE" \in dev.ier /\ dev.thi
    BY DEF IIR
  <2>4. isr'.pc \in {"tx", "rx", "off"} /\ (isr'.pc = "tx" => IIR(dev) = 2)
    BY <1>0, <2>1 DEF Routine
  <2>. QED  BY <1>s, <2>1, <2>2, <2>3, <2>4 DEF Interrupts
<1>30. CASE default_tx_handler
  <2>1. dev.txq = <<>> => Len(dev.txq) = 0
    OBVIOUS
  <2>2. dev.fifoEn /\ dev.txq = <<>> /\ "THRE" \in dev.ier /\ drv.tx_buff_size # 0
    BY <1>s, <1>30, HandlerEffect DEF Interrupts
  <2>3. app.pc \notin {"tx_size", "tx_idx"} /\ drv.tx_idx <= drv.tx_buff_size
    BY <1>s, <2>2 DEF Interrupts, Transfers
  <2>4. isr'.pc = "tx_fill" => /\ "THRE" \in dev'.ier /\ Len(dev'.txq) + isr'.cnt <= FifoSize
                               /\ drv'.tx_idx + isr'.cnt <= drv'.tx_buff_size
    BY <1>0, <1>30, <2>1, <2>2, <2>3, HandlerEffect
  <2>. QED  BY <1>s, <1>30, <2>4, HandlerEffect DEF Interrupts
<1>31. CASE default_tx_fill
  <2>1. /\ dev.fifoEn /\ "THRE" \in dev.ier /\ Len(dev.txq) + isr.cnt <= FifoSize
        /\ drv.tx_idx + isr.cnt <= drv.tx_buff_size
    BY <1>s, <1>31, PushEffect DEF Interrupts
  <2>2. Len(dev'.txq) <= Len(dev.txq) + 1 /\ Len(dev.txq) \in Nat /\ Len(dev'.txq) \in Nat
    <3>1. /\ Len(dev.txq) \in Nat
          /\ Len(Append(dev.txq, <<drv.tx_buffer, drv.tx_idx + 1>>)) = Len(dev.txq) + 1
      BY <1>0, <1>31, PushEffect, QueueLemma DEF Device
    <3>2. dev'.txq \in {dev.txq, Append(dev.txq, <<drv.tx_buffer, drv.tx_idx + 1>>)}
      BY <1>31, PushEffect
    <3>. QED  BY <3>1, <3>2
  <2>3. Len(dev'.txq) + isr'.cnt <= FifoSize /\ drv'.tx_idx + isr'.cnt <= drv'.tx_buff_size
    <3>1. isr.cnt \in Nat /\ isr.cnt > 0 /\ isr'.cnt = isr.cnt - 1 /\ drv.tx_idx \in Nat /\ drv.tx_buff_size \in Nat
          /\ drv'.tx_idx = drv.tx_idx + 1 /\ drv'.tx_buff_size = drv.tx_buff_size
      BY <1>0, <1>31, PushEffect DEF Driver
    <3>2. FifoSize \in Nat
      BY <1>0
    <3>3. Len(dev'.txq) + isr'.cnt <= FifoSize
      BY ONLY <2>1, <2>2, <3>1, <3>2
    <3>4. drv'.tx_idx + isr'.cnt <= drv'.tx_buff_size
      BY ONLY <2>1, <3>1
    <3>. QED  BY <3>3, <3>4
  <2>. QED  BY <1>s, <1>31, <2>1, <2>3, PushEffect DEF Interrupts
<1>32. CASE default_tx_end
  BY <1>0, <1>s, <1>32, EndEffect DEF Interrupts, Transfers, Room, Typed
<1>33. CASE rx_handler_lsr
  BY <1>0, <1>s, <1>33, ReadLSRLemma DEF rx_handler_lsr, Interrupts, Transfers, Room, LSR, Device,
       Driver, Thread, Routine
<1>34. CASE rx_handler_rbr
  BY <1>0, <1>s, <1>34, ByteReadEffect DEF Interrupts, Transfers, Room, Typed
<1>35. CASE Transmitter
  <2>1. Len(dev'.txq) \in Nat /\ Len(dev.txq) \in Nat /\ Len(dev'.txq) <= Len(dev.txq)
    BY <1>0, <1>35, TransmitterEffect DEF Device
  <2>2. isr.pc = "tx_fill" => Len(dev'.txq) + isr.cnt <= FifoSize
    BY <1>0, <1>s, <2>1 DEF Interrupts, Routine
  <2>. QED  BY <1>s, <1>35, <2>2, TransmitterEffect DEF Interrupts
<1>36. CASE Receiver
  BY <1>0, <1>s, <1>36, ReceiverEffect DEF Interrupts, Transfers, Room, Typed
<1>. QED  BY <1>1, <1>2, <1>3, <1>4, <1>5, <1>6, <1>7, <1>8, <1>9, <1>10, <1>11, <1>12, <1>13, <1>14,
           <1>15, <1>16, <1>17, <1>18, <1>19, <1>20, <1>21, <1>22, <1>23, <1>24, <1>25, <1>26, <1>27,
           <1>28, <1>29, <1>30, <1>31, <1>32, <1>33, <1>34, <1>35, <1>36
         DEF Next, Service, Application, UART_irq_tx, UART_polled_tx, UART_fill_tx_fifo, UART_tx_complete,
             UART_set_rx_handler, UART_get_rx, UART_get_rx_status

\* ... and the transfer's descriptor in agreement with the application.
LEMMA TransfersNext ==
    ASSUME Typed, Kept, Sending, Patient, Next
    PROVE  Transfers'
<1>0. /\ dev \in Device /\ drv \in Driver /\ app \in Thread /\ isr \in Routine /\ rx \in Line
      /\ FifoSize \in Nat \ {0}
  BY FifoSizeAssumption DEF Typed
<1>s. Interrupts /\ Transfers /\ Room
  BY DEF Sending
<1>1. CASE irq_tx_call
  BY <1>0, <1>s, <1>1 DEF irq_tx_call, Interrupts, Transfers, Room, Calls, Running, MaySend, Device,
       Driver, Thread, Routine
<1>2. CASE irq_tx_size
  <2>1. BufSize[app.b] # 0 /\ app.b # 0
    BY <1>0, <1>2, SizeLemma DEF irq_tx_size, Running, Typed, Thread
  <2>. QED  BY <1>0, <1>s, <1>2, <2>1 DEF irq_tx_size, Interrupts, Transfers, Running, Driver, Thread
<1>3. CASE irq_tx_idx
  BY <1>0, <1>s, <1>3 DEF irq_tx_idx, Interrupts, Transfers, Room, Running, Device, Driver, Thread, Routine
<1>4. CASE ier_get
  BY <1>0, <1>s, <1>4 DEF ier_get, Interrupts, Transfers, Room, Running, Device, Driver, Thread, Routine
<1>5. CASE ier_put
  BY <1>0, <1>s, <1>5, IerPutEffect DEF Interrupts, Transfers, Room, Typed
<1>6. CASE polled_tx_call
  BY <1>0, <1>s, <1>6 DEF polled_tx_call, Interrupts, Transfers, Room, Calls, Running, NextBuffer,
       MaySend, Device, Driver, Thread, Routine
<1>7. CASE polled_tx_lsr
  BY <1>0, <1>s, <1>7, ReadLSRLemma DEF polled_tx_lsr, Interrupts, Transfers, Room, Running, LSR,
       Device, Driver, Thread, Routine
<1>8. CASE polled_tx_thr
  BY <1>0, <1>s, <1>8, PolledEffect DEF Interrupts, Transfers, Room, Typed
<1>9. CASE write
  BY <1>s, <1>9, WriteEffect DEF Transfers, MaySend
<1>10. CASE fill_call
  BY <1>0, <1>s, <1>10 DEF fill_call, Interrupts, Transfers, Room, Calls, Running, MaySend, Device,
       Driver, Thread, Routine
<1>11. CASE fill_lsr
  BY <1>0, <1>s, <1>11, ReadLSRLemma DEF fill_lsr, Interrupts, Transfers, Room, Running, LSR, Device,
       Driver, Thread, Routine
<1>12. CASE fill_status
  BY <1>0, <1>s, <1>12, StatusEffect DEF Interrupts, Transfers, Room, Typed
<1>13. CASE fill_thr
  BY <1>0, <1>s, <1>13, FillEffect DEF Interrupts, Transfers, Room, Typed
<1>14. CASE complete_call
  BY <1>0, <1>s, <1>14, ReadLSRLemma DEF complete_call, Interrupts, Transfers, Room, Calls, Running,
       LSR, Device, Driver, Thread, Routine
<1>15. CASE complete_status
  BY <1>0, <1>s, <1>15 DEF complete_status, Interrupts, Transfers, Room, Running, Device, Driver,
       Thread, Routine
<1>16. CASE complete_size
  BY <1>0, <1>s, <1>16 DEF complete_size, Interrupts, Transfers, Room, Running, Device, Driver, Thread,
       Routine
<1>17. CASE set_rx_call
  BY <1>0, <1>s, <1>17, SetRxEffect DEF Interrupts, Transfers, Room, Typed
<1>18. CASE set_rx_fcr
  BY <1>0, <1>s, <1>18, FcrEffect DEF Interrupts, Transfers, Room, Typed
<1>19. CASE UART_enable_irq
  <2>1. PICK m \in Masks : app' = [app EXCEPT !.pc = "ier_get", !.s = m, !.res = "none"]
    BY <1>19 DEF UART_enable_irq
  <2>2. "THRE" \notin m
    BY ApplicationAssumption
  <2>. QED  BY <1>0, <1>s, <1>19, <2>1, <2>2 DEF UART_enable_irq, Transfers, Calls, Running, Driver, Thread
<1>20. CASE get_rx_call
  BY <1>0, <1>s, <1>20 DEF get_rx_call, Interrupts, Transfers, Room, Calls, Running, Device, Driver,
       Thread, Routine
<1>21. CASE get_rx_lsr
  BY <1>0, <1>s, <1>21, ReadLSRLemma DEF get_rx_lsr, Interrupts, Transfers, Room, Running, LSR, Device,
       Driver, Thread, Routine
<1>22. CASE get_rx_status
  BY <1>0, <1>s, <1>22, StatusEffect DEF Interrupts, Transfers, Room, Typed
<1>23. CASE get_rx_rbr
  BY <1>0, <1>s, <1>23, ByteReadEffect DEF Interrupts, Transfers, Room, Typed
<1>24. CASE rx_status_call
  BY <1>0, <1>s, <1>24, ReadLSRLemma DEF rx_status_call, Interrupts, Transfers, Room, Calls, Running,
       LSR, Device, Driver, Thread, Routine
<1>25. CASE rx_status_put
  BY <1>0, <1>s, <1>25 DEF rx_status_put, Interrupts, Transfers, Room, Running, Device, Driver, Thread,
       Routine
<1>26. CASE rx_status_get
  BY <1>0, <1>s, <1>26 DEF rx_status_get, Interrupts, Transfers, Room, Running, Device, Driver, Thread,
       Routine
<1>27. CASE rx_status_clear
  BY <1>0, <1>s, <1>27 DEF rx_status_clear, Interrupts, Transfers, Room, Running, Return, Device,
       Driver, Thread, Routine
<1>28. CASE interrupt
  BY <1>0, <1>s, <1>28 DEF interrupt, Interrupts, Transfers, Room, Device, Driver, Thread, Routine
<1>29. CASE uart_isr
  BY <1>0, <1>s, <1>29, ReadIIRLemma DEF uart_isr, Interrupts, Transfers, Room, Device, Driver, Thread,
       Routine
<1>30. CASE default_tx_handler
  BY <1>0, <1>s, <1>30, HandlerEffect DEF Interrupts, Transfers, Room, Typed
<1>31. CASE default_tx_fill
  <2>1. drv.tx_idx + isr.cnt <= drv.tx_buff_size
    BY <1>s, <1>31, PushEffect DEF Interrupts
  <2>2. drv.tx_idx + 1 <= drv.tx_buff_size
    <3>1. isr.cnt \in Nat /\ isr.cnt > 0 /\ drv.tx_idx \in Nat /\ drv.tx_buff_size \in Nat
      BY <1>0, <1>31, PushEffect DEF Driver
    <3>. QED  BY <2>1, <3>1
  <2>. QED  BY <1>s, <1>31, <2>2, PushEffect DEF Transfers
<1>32. CASE default_tx_end
  BY <1>0, <1>s, <1>32, EndEffect DEF Interrupts, Transfers, Room, Typed
<1>33. CASE rx_handler_lsr
  BY <1>0, <1>s, <1>33, ReadLSRLemma DEF rx_handler_lsr, Interrupts, Transfers, Room, LSR, Device,
       Driver, Thread, Routine
<1>34. CASE rx_handler_rbr
  BY <1>0, <1>s, <1>34, ByteReadEffect DEF Interrupts, Transfers, Room, Typed
<1>35. CASE Transmitter
  BY <1>0, <1>s, <1>35, TransmitterEffect DEF Interrupts, Transfers, Room, Typed
<1>36. CASE Receiver
  BY <1>0, <1>s, <1>36, ReceiverEffect DEF Interrupts, Transfers, Room, Typed
<1>. QED  BY <1>1, <1>2, <1>3, <1>4, <1>5, <1>6, <1>7, <1>8, <1>9, <1>10, <1>11, <1>12, <1>13, <1>14,
           <1>15, <1>16, <1>17, <1>18, <1>19, <1>20, <1>21, <1>22, <1>23, <1>24, <1>25, <1>26, <1>27,
           <1>28, <1>29, <1>30, <1>31, <1>32, <1>33, <1>34, <1>35, <1>36
         DEF Next, Service, Application, UART_irq_tx, UART_polled_tx, UART_fill_tx_fifo, UART_tx_complete,
             UART_set_rx_handler, UART_get_rx, UART_get_rx_status

\* ... and room in the transmit FIFO for every byte about to be pushed.
LEMMA RoomNext ==
    ASSUME Typed, Kept, Sending, Patient, Next
    PROVE  Room'
<1>0. /\ dev \in Device /\ drv \in Driver /\ app \in Thread /\ isr \in Routine /\ rx \in Line
      /\ FifoSize \in Nat \ {0}
  BY FifoSizeAssumption DEF Typed
<1>s. Interrupts /\ Transfers /\ Room
  BY DEF Sending
<1>1. CASE irq_tx_call
  BY <1>0, <1>s, <1>1 DEF irq_tx_call, Interrupts, Transfers, Room, Calls, Running, MaySend, Device,
       Driver, Thread, Routine
<1>2. CASE irq_tx_size
  BY <1>0, <1>s, <1>2 DEF irq_tx_size, Interrupts, Transfers, Room, Running, Device, Driver, Thread, Routine
<1>3. CASE irq_tx_idx
  BY <1>0, <1>s, <1>3 DEF irq_tx_idx, Interrupts, Transfers, Room, Running, Device, Driver, Thread, Routine
<1>4. CASE ier_get
  BY <1>0, <1>s, <1>4 DEF ier_get, Interrupts, Transfers, Room, Running, Device, Driver, Thread, Routine
<1>5. CASE ier_put
  BY <1>0, <1>s, <1>5, IerPutEffect DEF Interrupts, Transfers, Room, Typed
<1>6. CASE polled_tx_call
  <2>1. "polled_tx" \in app.ops /\ NextBuffer("poll") /\ app.pc = "idle" /\ UNCHANGED <<dev, drv>>
    BY <1>6 DEF polled_tx_call, Calls, Running
  <2>2. "fill" \notin app.ops /\ "write" \notin app.ops
    BY <1>0, <2>1, ApplicationAssumption DEF Thread
  <2>3. app'.pc = "poll" /\ app'.ops = app.ops
    BY <2>1, NextBufferLemma DEF AppStates
  <2>. QED  BY <2>2, <2>3 DEF Room
<1>7. CASE polled_tx_lsr
  <2>1. app.pc = "poll" /\ dev' = ReadLSR(dev) /\ UNCHANGED drv
        /\ app' = [app EXCEPT !.pc = IF "THRE" \in LSR(dev) THEN "poll_thr" ELSE "poll"]
    BY <1>7 DEF polled_tx_lsr, Running
  <2>2. dev'.txq = dev.txq
    BY <1>0, <2>1, ReadLSRLemma
  <2>3. /\ app'.ops = app.ops /\ app'.busy = app.busy /\ app'.pc \in {"poll", "poll_thr"}
        /\ app'.pc = "poll_thr" => "THRE" \in LSR(dev)
    BY <1>0, <2>1 DEF Thread
  <2>4. "THRE" \in LSR(dev) => Len(dev.txq) < FifoSize
    BY <1>s DEF LSR, THRNF, Interrupts
  <2>. QED  BY <1>s, <2>1, <2>2, <2>3, <2>4 DEF Room
<1>8. CASE polled_tx_thr
  <2>1. app.pc = "poll_thr" /\ app'.pc \in {"poll", "idle"} /\ app'.ops = app.ops /\ UNCHANGED drv
    BY <1>8, PolledEffect
  <2>2. "fill" \notin app.ops
    BY <1>0, <2>1, ApplicationAssumption DEF Kept, Thread
  <2>3. ~("write" \in app.ops /\ ~drv.g_stdio_uart_init_done)
    BY <1>s, <2>1 DEF Room
  <2>. QED  BY <2>1, <2>2, <2>3 DEF Room
<1>9. CASE write
  <2>1. /\ "write" \in app.ops /\ app'.ops = app.ops /\ app'.pc = "poll"
        /\ drv'.g_stdio_uart_init_done = TRUE
    BY <1>0, <1>9, WriteEffect DEF Driver
  <2>2. "fill" \notin app.ops
    BY <1>0, <2>1, ApplicationAssumption DEF Thread
  <2>. QED  BY <2>1, <2>2 DEF Room
<1>10. CASE fill_call
  BY <1>0, <1>s, <1>10 DEF fill_call, Interrupts, Transfers, Room, Calls, Running, MaySend, Device,
       Driver, Thread, Routine
<1>11. CASE fill_lsr
  BY <1>0, <1>s, <1>11, ReadLSRLemma DEF fill_lsr, Interrupts, Transfers, Room, Running, LSR, Device,
       Driver, Thread, Routine
<1>12. CASE fill_status
  <2>1. app.pc = "fill_status" /\ "fill" \in app.ops /\ app.busy /\ app.i = 1 /\ dev.txq = <<>>
    BY <1>s, <1>12 DEF fill_status, Running, Room
  <2>2. /\ app'.ops = app.ops /\ app'.busy = app.busy /\ UNCHANGED dev
        /\ (app'.pc = "fill_thr" /\ app'.i = app.i) \/ app'.pc = "idle"
    BY <1>12, <2>1, StatusEffect
  <2>3. "write" \notin app.ops
    BY <1>0, <2>1, ApplicationAssumption DEF Thread
  <2>4. Len(dev.txq) < 1 /\ 1 <= FifoSize
    BY <1>0, <2>1
  <2>. QED  BY <2>1, <2>2, <2>3, <2>4 DEF Room
<1>13. CASE fill_thr
  <2>1. /\ app.pc = "fill_thr" /\ "fill" \in app.ops /\ app.busy /\ Len(dev.txq) < app.i /\ app.i <= FifoSize
        /\ app'.ops = app.ops /\ app'.busy = app.busy
    BY <1>s, <1>13, FillEffect DEF Room
  <2>2. "write" \notin app.ops
    BY <1>0, <2>1, ApplicationAssumption DEF Thread
  <2>3. /\ Len(dev.txq) \in Nat /\ Len(Append(dev.txq, <<app.b, app.i>>)) = Len(dev.txq) + 1
    BY <1>0, <1>13, FillEffect, QueueLemma DEF Device
  <2>4. dev'.txq \in {dev.txq, Append(dev.txq, <<app.b, app.i>>)}
    BY <1>13, FillEffect
  <2>5. Len(dev'.txq) \in Nat /\ Len(dev'.txq) <= Len(dev.txq) + 1
    BY <2>3, <2>4
  <2>6. CASE app.i < MinOf(FifoSize, BufSize[app.b])
    <3>1. app'.pc = "fill_thr" /\ app'.i = app.i + 1 /\ app.i \in Nat /\ BufSize[app.b] \in Nat
      BY <1>0, <1>13, <2>6, FillEffect DEF Thread
    <3>2. app.i < FifoSize
      BY <1>0, <2>6, <3>1 DEF MinOf
    <3>3. Len(dev'.txq) < app'.i /\ app'.i <= FifoSize
      BY <1>0, <2>1, <2>3, <2>5, <3>1, <3>2
    <3>. QED  BY <2>1, <2>2, <3>1, <3>3 DEF Room
  <2>7. CASE ~(app.i < MinOf(FifoSize, BufSize[app.b]))
    <3>1. app'.pc = "idle"
      BY <1>13, <2>7, FillEffect
    <3>. QED  BY <2>1, <2>2, <3>1 DEF Room
  <2>. QED  BY <2>6, <2>7
<1>14. CASE complete_call
  BY <1>0, <1>s, <1>14, ReadLSRLemma DEF complete_call, Interrupts, Transfers, Room, Calls, Running,
       LSR, Device, Driver, Thread, Routine
<1>15. CASE complete_status
  BY <1>0, <1>s, <1>15 DEF complete_status, Interrupts, Transfers, Room, Running, Device, Driver,
       Thread, Routine
<1>16. CASE complete_size
  BY <1>0, <1>s, <1>16 DEF complete_size, Interrupts, Transfers, Room, Running, Device, Driver, Thread,
       Routine
<1>17. CASE set_rx_call
  BY <1>0, <1>s, <1>17, SetRxEffect DEF Interrupts, Transfers, Room, Typed
<1>18. CASE set_rx_fcr
  BY <1>0, <1>s, <1>18, FcrEffect DEF Interrupts, Transfers, Room, Typed
<1>19. CASE UART_enable_irq
  BY <1>0, <1>s, <1>19 DEF UART_enable_irq, Interrupts, Transfers, Room, Calls, Running, MaySend,
       Device, Driver, Thread, Routine
<1>20. CASE get_rx_call
  BY <1>0, <1>s, <1>20 DEF get_rx_call, Interrupts, Transfers, Room, Calls, Running, Device, Driver,
       Thread, Routine
<1>21. CASE get_rx_lsr
  BY <1>0, <1>s, <1>21, ReadLSRLemma DEF get_rx_lsr, Interrupts, Transfers, Room, Running, LSR, Device,
       Driver, Thread, Routine
<1>22. CASE get_rx_status
  <2>1. app.pc = "rx_status"
    BY <1>22 DEF get_rx_status, Running
  <2>2. /\ app'.ops = app.ops /\ app'.busy = app.busy /\ UNCHANGED dev /\ app'.pc \in {"rx_rbr", "idle"}
        /\ drv'.g_stdio_uart_init_done = drv.g_stdio_uart_init_done
    BY <1>22, <2>1, StatusEffect
  <2>. QED  BY <1>s, <2>1, <2>2 DEF Room
<1>23. CASE get_rx_rbr
  BY <1>0, <1>s, <1>23, ByteReadEffect DEF Interrupts, Transfers, Room, Typed
<1>24. CASE rx_status_call
  BY <1>0, <1>s, <1>24, ReadLSRLemma DEF rx_status_call, Interrupts, Transfers, Room, Calls, Running,
       LSR, Device, Driver, Thread, Routine
<1>25. CASE rx_status_put
  BY <1>0, <1>s, <1>25 DEF rx_status_put, Interrupts, Transfers, Room, Running, Device, Driver, Thread,
       Routine
<1>26. CASE rx_status_get
  BY <1>0, <1>s, <1>26 DEF rx_status_get, Interrupts, Transfers, Room, Running, Device, Driver, Thread,
       Routine
<1>27. CASE rx_status_clear
  BY <1>0, <1>s, <1>27 DEF rx_status_clear, Interrupts, Transfers, Room, Running, Return, Device,
       Driver, Thread, Routine
<1>28. CASE interrupt
  BY <1>0, <1>s, <1>28 DEF interrupt, Interrupts, Transfers, Room, Device, Driver, Thread, Routine
<1>29. CASE uart_isr
  BY <1>0, <1>s, <1>29, ReadIIRLemma DEF uart_isr, Interrupts, Transfers, Room, Device, Driver, Thread,
       Routine
<1>30. CASE default_tx_handler
  BY <1>0, <1>s, <1>30, HandlerEffect DEF Interrupts, Transfers, Room, Typed
<1>31. CASE default_tx_fill
  <2>1. drv.tx_buff_size # 0
    BY <1>s, <1>31, PushEffect DEF Interrupts
  <2>2. "irq_tx" \in app.ops /\ app.busy
    BY <1>s, <2>1 DEF Transfers
  <2>3. "fill" \notin app.ops /\ "write" \notin app.ops
    BY <1>0, <2>2, ApplicationAssumption DEF Thread
  <2>4. app.pc \notin {"poll_thr", "fill_lsr", "fill_status", "fill_thr"} /\ UNCHANGED app
    BY <1>s, <1>31, <2>2, <2>3, PushEffect DEF Transfers, Room
  <2>. QED  BY <2>3, <2>4 DEF Room
<1>32. CASE default_tx_end
  BY <1>0, <1>s, <1>32, EndEffect DEF Interrupts, Transfers, Room, Typed
<1>33. CASE rx_handler_lsr
  BY <1>0, <1>s, <1>33, ReadLSRLemma DEF rx_handler_lsr, Interrupts, Transfers, Room, LSR, Device,
       Driver, Thread, Routine
<1>34. CASE rx_handler_rbr
  BY <1>0, <1>s, <1>34, ByteReadEffect DEF Interrupts, Transfers, Room, Typed
<1>35. CASE Transmitter
  <2>1. /\ Len(dev'.txq) \in Nat /\ Len(dev.txq) \in Nat /\ Len(dev'.txq) <= Len(dev.txq)
        /\ UNCHANGED <<drv, app, isr>> /\ (dev.txq = <<>> => dev'.txq = <<>>)
    BY <1>0, <1>35, TransmitterEffect DEF Device
  <2>2. app.pc = "poll_thr" => Len(dev'.txq) < FifoSize
    BY <1>0, <1>s, <2>1 DEF Room
  <2>3. "fill" \in app.ops /\ app.pc = "fill_thr" => Len(dev'.txq) < app.i /\ app.i <= FifoSize
    BY <1>0, <1>s, <2>1 DEF Room, Thread
  <2>. QED  BY <1>s, <2>1, <2>2, <2>3 DEF Room
<1>36. CASE Receiver
  BY <1>0, <1>s, <1>36, ReceiverEffect DEF Interrupts, Transfers, Room, Typed
<1>. QED  BY <1>1, <1>2, <1>3, <1>4, <1>5, <1>6, <1>7, <1>8, <1>9, <1>10, <1>11, <1>12, <1>13, <1>14,
           <1>15, <1>16, <1>17, <1>18, <1>19, <1>20, <1>21, <1>22, <1>23, <1>24, <1>25, <1>26, <1>27,
           <1>28, <1>29, <1>30, <1>31, <1>32, <1>33, <1>34, <1>35, <1>36
         DEF Next, Service, Application, UART_irq_tx, UART_polled_tx, UART_fill_tx_fifo, UART_tx_complete,
             UART_set_rx_handler, UART_get_rx, UART_get_rx_status

-----------------------------------------------------------------------------
(* Sequences.                                                              *)
\* What is still to be sent of a buffer.
LEMMA RestLemma ==
    ASSUME NEW b \in 0..Len(BufSize), b # 0
    PROVE  /\ \A n \in 0..BufSize[b] : Rest(b, n) \in Seq(Byte)
           /\ Rest(b, 0) = Buffer(b) /\ Rest(b, BufSize[b]) = <<>>
           /\ \A n \in 0..(BufSize[b] - 1) : Rest(b, n) = <<<<b, n + 1>>>> \o Rest(b, n + 1)
<1>0. BufSize[b] \in Nat \ {0}
  BY SizeLemma
<1>. DEFINE N == BufSize[b]
<1>n. N \in Nat \ {0}
  BY <1>0
<1>1. ASSUME NEW n \in 0..N  PROVE Rest(b, n) \in Seq(Byte) /\ Len(Rest(b, n)) = N - n
  <2>1. N - n \in Nat
    BY <1>0, <1>1
  <2>2. \A j \in 1..(N - n) : <<b, n + j>> \in Byte
    BY <1>0, <1>1, ByteLemma
  <2>. QED  BY <2>1, <2>2 DEF Rest
<1>2. Rest(b, 0) = Buffer(b)
  <2>1. N - 0 = N /\ \A j \in 1..N : 0 + j = j
    BY <1>0
  <2>. QED  BY <2>1 DEF Rest, Buffer
<1>3. Rest(b, N) = <<>>
  <2>0. N \in 0..N /\ N - N = 0
    BY <1>0
  <2>1. Rest(b, N) \in Seq(Byte) /\ Len(Rest(b, N)) = 0
    BY ONLY <2>0, <1>1
  <2>. QED  BY <2>1, EmptySeq
<1>4. ASSUME NEW n \in 0..(N - 1)
      PROVE  Rest(b, n) = <<<<b, n + 1>>>> \o Rest(b, n + 1)
  <2>. DEFINE l == Rest(b, n)
              h == <<<<b, n + 1>>>>
              t == Rest(b, n + 1)
  <2>0. n \in 0..N /\ n + 1 \in 0..N /\ <<b, n + 1>> \in Byte
    BY <1>0, <1>4, ByteLemma
  <2>1. l \in Seq(Byte) /\ Len(l) = N - n
    BY <1>1, <2>0
  <2>2. t \in Seq(Byte) /\ Len(t) = N - (n + 1)
    BY <1>1, <2>0
  <2>3. h \in Seq(Byte) /\ Len(h) = 1 /\ h[1] = <<b, n + 1>>
    BY <2>0
  <2>4. \A j \in 1..(N - n) : l[j] = <<b, n + j>>
    BY DEF Rest
  <2>5. \A j \in 1..(N - (n + 1)) : t[j] = <<b, (n + 1) + j>>
    BY DEF Rest
  <2>. HIDE DEF l, h, t
  <2>5a. /\ h \o t \in Seq(Byte) /\ Len(h \o t) = Len(h) + Len(t)
         /\ \A j \in 1..Len(h) + Len(t) : (h \o t)[j] = IF j <= Len(h) THEN h[j] ELSE t[j - Len(h)]
    BY ONLY <2>2, <2>3, ConcatProperties
  <2>6. /\ h \o t \in Seq(Byte) /\ Len(h \o t) = N - n
        /\ \A j \in 1..(N - n) : (h \o t)[j] = IF j <= 1 THEN h[j] ELSE t[j - 1]
    <3>1. 1 + (N - (n + 1)) = N - n
      BY <1>0, <2>0
    <3>. QED  BY ONLY <2>2, <2>3, <2>5a, <3>1
  <2>7. ASSUME NEW j \in 1..Len(l)  PROVE l[j] = (h \o t)[j]
    <3>0. j \in 1..(N - n)
      BY ONLY <2>1, j \in 1..Len(l)
    <3>1. CASE j = 1
      <4>1. (h \o t)[j] = h[1]
        BY ONLY <3>0, <3>1, <2>6
      <4>2. l[j] = <<b, n + 1>>
        BY ONLY <3>0, <3>1, <2>4
      <4>. QED  BY ONLY <4>1, <4>2, <2>3
    <3>2. CASE j # 1
      <4>1. j - 1 \in 1..(N - (n + 1)) /\ ~(j <= 1) /\ (n + 1) + (j - 1) = n + j
        BY ONLY <1>n, <2>0, <3>0, <3>2
      <4>2. (h \o t)[j] = t[j - 1]
        BY ONLY <2>6, <3>0, <4>1
      <4>3. t[j - 1] = <<b, (n + 1) + (j - 1)>>
        BY ONLY <2>5, <4>1
      <4>4. l[j] = <<b, n + j>>
        BY ONLY <3>0, <2>4
      <4>. QED  BY ONLY <4>1, <4>2, <4>3, <4>4
    <3>. QED  BY <3>1, <3>2
  <2>. QED  BY ONLY <2>1, <2>6, <2>7, SeqEqual DEF l, h, t
<1>. QED  BY <1>1, <1>2, <1>3, <1>4

\* Concatenation of bytes as an algebra: the laws the order of the bytes
\* rests on, stated with an operator of their own so that they are applied
\* as they stand.
Bytes == Seq(Byte)
Cat(s, t) == s \o t

\* Concatenation of bytes associates.
LEMMA CatAssociates ==
    ASSUME NEW a \in Seq(Byte), NEW b \in Seq(Byte), NEW c \in Seq(Byte)
    PROVE  (a \o b) \o c = a \o (b \o c)
BY ConcatAssociative

\* Bytes under concatenation are a monoid.
LEMMA CatLaws ==
    /\ <<>> \in Bytes
    /\ \A a, b \in Bytes : Cat(a, b) \in Bytes
    /\ \A a, b, c \in Bytes : Cat(Cat(a, b), c) = Cat(a, Cat(b, c))
    /\ \A a \in Bytes : Cat(a, <<>>) = a /\ Cat(<<>>, a) = a
<1>1. <<>> \in Bytes
  BY DEF Bytes
<1>2. ASSUME NEW a \in Bytes, NEW b \in Bytes  PROVE Cat(a, b) \in Bytes
  BY <1>2, ConcatProperties DEF Bytes, Cat
<1>3. ASSUME NEW a \in Bytes, NEW b \in Bytes, NEW c \in Bytes
      PROVE  Cat(Cat(a, b), c) = Cat(a, Cat(b, c))
  BY <1>3, CatAssociates DEF Bytes, Cat
<1>4. ASSUME NEW a \in Bytes  PROVE Cat(a, <<>>) = a /\ Cat(<<>>, a) = a
  BY <1>4, ConcatEmptySeq DEF Bytes, Cat
<1>. QED  BY <1>1, <1>2, <1>3, <1>4

\* Appending a byte, and taking the first one off, as concatenations.
LEMMA CatElements ==
    /\ \A q \in Bytes, x \in Byte : Append(q, x) = Cat(q, <<x>>) /\ <<x>> \in Bytes /\ Append(q, x) \in Bytes
    /\ \A q \in Bytes : q # <<>> => /\ Head(q) \in Byte /\ <<Head(q)>> \in Bytes /\ Tail(q) \in Bytes
                                   /\ Cat(<<Head(q)>>, Tail(q)) = q
<1>1. ASSUME NEW q \in Bytes, NEW x \in Byte
      PROVE  Append(q, x) = Cat(q, <<x>>) /\ <<x>> \in Bytes /\ Append(q, x) \in Bytes
  BY <1>1, AppendIsConcat DEF Bytes, Cat
<1>2. ASSUME NEW q \in Seq(Byte), q # <<>>
      PROVE  Head(q) \in Byte /\ <<Head(q)>> \in Seq(Byte) /\ Tail(q) \in Seq(Byte) /\ <<Head(q)>> \o Tail(q) = q
  <2>. DEFINE h == <<Head(q)>>
  <2>1. /\ Head(q) \in Byte /\ Tail(q) \in Seq(Byte) /\ Len(Tail(q)) = Len(q) - 1 /\ Len(q) \in Nat \ {0}
        /\ \A i \in 1..Len(q) - 1 : Tail(q)[i] = q[i + 1]
    BY <1>2, HeadTailProperties, EmptySeq
  <2>2. h \in Seq(Byte) /\ Len(h) = 1 /\ h[1] = q[1]
    BY <1>2, <2>1
  <2>. HIDE DEF h
  <2>3. /\ h \o Tail(q) \in Seq(Byte) /\ Len(h \o Tail(q)) = Len(h) + Len(Tail(q))
        /\ \A j \in 1..Len(h) + Len(Tail(q)) :
             (h \o Tail(q))[j] = IF j <= Len(h) THEN h[j] ELSE Tail(q)[j - Len(h)]
    BY ONLY <2>1, <2>2, ConcatProperties
  <2>4. Len(h \o Tail(q)) = Len(q)
    BY ONLY <2>1, <2>2, <2>3
  <2>5. ASSUME NEW j \in 1..Len(q)  PROVE (h \o Tail(q))[j] = q[j]
    <3>0. j \in 1..Len(h) + Len(Tail(q))
      BY ONLY <2>1, <2>2, j \in 1..Len(q)
    <3>1. CASE j = 1
      BY ONLY <2>2, <2>3, <3>0, <3>1
    <3>2. CASE j # 1
      <4>1. ~(j <= Len(h)) /\ j - Len(h) \in 1..Len(q) - 1 /\ (j - Len(h)) + 1 = j
        BY ONLY <2>1, <2>2, <3>0, <3>2
      <4>2. (h \o Tail(q))[j] = Tail(q)[j - Len(h)]
        BY ONLY <2>3, <3>0, <4>1
      <4>. QED  BY ONLY <2>1, <4>1, <4>2
    <3>. QED  BY <3>1, <3>2
  <2>6. h \o Tail(q) = q
    BY ONLY <2>3, <2>4, <2>5, q \in Seq(Byte), SeqEqual
  <2>. QED  BY ONLY <2>1, <2>2, <2>6 DEF h
<1>. QED  BY <1>1, <1>2 DEF Bytes, Cat

\* A byte written to the transmit FIFO is the first of those that were left.
LEMMA PushLemma ==
    ASSUME NEW w \in Bytes, NEW f \in Bytes, NEW q \in Bytes, NEW l \in Bytes, NEW x \in Byte
    PROVE  Cat(Cat(Cat(w, f), Append(q, x)), l) = Cat(Cat(Cat(w, f), q), Cat(<<x>>, l))
<1>1. Append(q, x) = Cat(q, <<x>>) /\ <<x>> \in Bytes /\ Cat(w, f) \in Bytes /\ Cat(Cat(w, f), q) \in Bytes
  BY CatLaws, CatElements
<1>2. Cat(Cat(w, f), Cat(q, <<x>>)) = Cat(Cat(Cat(w, f), q), <<x>>)
  BY <1>1, CatLaws
<1>3. Cat(Cat(Cat(Cat(w, f), q), <<x>>), l) = Cat(Cat(Cat(w, f), q), Cat(<<x>>, l))
  BY <1>1, CatLaws
<1>. QED  BY <1>1, <1>2, <1>3

\* Bytes move from the FIFO to the shift register and from there to the line
\* without change of order.
LEMMA ShiftLemma ==
    ASSUME NEW w \in Bytes, NEW q \in Bytes
    PROVE  /\ q # <<>> => Cat(Cat(w, <<Head(q)>>), Tail(q)) = Cat(Cat(w, <<>>), q)
           /\ \A x \in Byte : Cat(Cat(Append(w, x), <<>>), q) = Cat(Cat(w, <<x>>), q)
<1>1. ASSUME q # <<>>  PROVE Cat(Cat(w, <<Head(q)>>), Tail(q)) = Cat(Cat(w, <<>>), q)
  <2>1. <<Head(q)>> \in Bytes /\ Tail(q) \in Bytes /\ Cat(<<Head(q)>>, Tail(q)) = q
    BY <1>1, CatElements
  <2>2. Cat(Cat(w, <<Head(q)>>), Tail(q)) = Cat(w, Cat(<<Head(q)>>, Tail(q))) /\ Cat(w, <<>>) = w
    BY <2>1, CatLaws
  <2>. QED  BY <2>1, <2>2
<1>2. ASSUME NEW x \in Byte  PROVE Cat(Cat(Append(w, x), <<>>), q) = Cat(Cat(w, <<x>>), q)
  BY <1>2, CatLaws, CatElements
<1>. QED  BY <1>1, <1>2

\* A sequence is a prefix of what it is extended to.
LEMMA PrefixLemma ==
    ASSUME NEW S, NEW s \in Seq(S), NEW t \in Seq(S)
    PROVE  IsPrefix(s, s \o t)
<1>1. s \o t \in Seq(S) /\ Len(s \o t) = Len(s) + Len(t) /\ Len(s) \in Nat /\ Len(t) \in Nat
  BY ConcatProperties
<1>2. SubSeq(s, 1, Len(s)) = s
  BY SubSeqFull
<1>3. SubSeq(s \o t, 1, Len(s)) = s
  BY ONLY s \in Seq(S), t \in Seq(S), SubSeqOfConcat1
<1>. QED  BY ONLY <1>1, <1>2, <1>3 DEF IsPrefix

-----------------------------------------------------------------------------
(* The order of the bytes.                                                 *)
\* Where the application is inside a transmit call.
Midway == {"poll", "poll_thr", "tx_size", "tx_idx"}
Wire == Cat(Cat(dev.out, dev.tsr), dev.txq)

\* The order of the bytes, in terms of Cat.
LEMMA OrderForm == /\ Order <=> goal = Cat(Wire, Left)
                   /\ Order' <=> goal' = Cat(Wire', Left')
BY DEF Order, OnTheWay, Wire, Cat

\* The three places a byte can be in, and the request, hold bytes.
LEMMA WireLemma ==
    ASSUME Typed
    PROVE  /\ dev.out \in Bytes /\ dev.tsr \in Bytes /\ dev.txq \in Bytes /\ goal \in Bytes
           /\ Wire \in Bytes
<1>1. dev.out \in Bytes /\ dev.tsr \in Bytes /\ dev.txq \in Bytes /\ goal \in Bytes
  BY DEF Typed, Device, Bytes
<1>. QED  BY <1>1, CatLaws DEF Wire

\* A step that touches neither the bytes in the device nor what is left of
\* the transfer.
LEMMA QuietLemma ==
    ASSUME Order, UNCHANGED goal,
           dev'.out = dev.out, dev'.tsr = dev.tsr, dev'.txq = dev.txq,
           drv'.tx_buffer = drv.tx_buffer, drv'.tx_buff_size = drv.tx_buff_size, drv'.tx_idx = drv.tx_idx,
           \/ app.pc \notin Midway /\ app'.pc \notin Midway
           \/ app'.pc = app.pc /\ app'.b = app.b /\ app'.i = app.i
    PROVE  Order'
<1>1. Wire' = Wire
  BY DEF Wire
<1>2. Left' = Left
  BY DEF Left, Midway
<1>. QED  BY <1>1, <1>2, OrderForm

\* A call that hands the next buffer to the driver.
LEMMA RequestLemma ==
    ASSUME Typed, Order, app.pc = "idle", drv.tx_buff_size = 0, app.b < Len(BufSize),
           goal' = goal \o Buffer(app.b + 1), Wire' = Wire,
           app'.b = app.b + 1,
           \/ app'.pc = "poll" /\ app'.i = 1
           \/ app'.pc = "tx_size"
    PROVE  Order'
<1>1. app.b + 1 \in 0..Len(BufSize) /\ app.b + 1 # 0
  BY UartAssumption DEF Typed, Thread
<1>2. Rest(app.b + 1, 0) = Buffer(app.b + 1)
  BY <1>1, RestLemma
<1>3. Left = <<>>
  BY DEF Left
<1>4. Left' = Rest(app.b + 1, 0)
  <2>1. CASE app'.pc = "poll" /\ app'.i = 1
    <3>1. app'.i - 1 = 0
      BY <2>1
    <3>. QED  BY <2>1, <3>1 DEF Left
  <2>2. CASE app'.pc = "tx_size"
    BY <2>2 DEF Left
  <2>. QED  BY <2>1, <2>2
<1>5. goal = Wire
  BY <1>3, OrderForm, WireLemma, CatLaws
<1>6. goal' = Cat(goal, Buffer(app.b + 1))
  BY DEF Cat
<1>. QED  BY <1>2, <1>4, <1>5, <1>6, OrderForm

\* Every step keeps the bytes in order: a byte moves from what is left to the
\* FIFO, to the shift register, to the line, and is never lost or repeated.
LEMMA OrderNext ==
    ASSUME Typed, Kept, Sending, Patient, Next
    PROVE  Order'
<1>0. /\ dev \in Device /\ drv \in Driver /\ app \in Thread /\ isr \in Routine /\ rx \in Line
      /\ FifoSize \in Nat \ {0}
  BY FifoSizeAssumption DEF Typed
<1>s. Interrupts /\ Transfers /\ Room /\ Order
  BY DEF Sending
<1>1. CASE irq_tx_call
  <2>1. /\ app.pc = "idle" /\ ~app.busy /\ app.b < Len(BufSize) /\ goal' = goal \o Buffer(app.b + 1)
        /\ UNCHANGED dev
    BY <1>1 DEF irq_tx_call, Calls, Running, MaySend
  <2>2. app'.pc = "tx_size" /\ app'.b = app.b + 1
    BY <1>0, <1>1 DEF irq_tx_call, Thread
  <2>3. drv.tx_buff_size = 0
    BY <1>s, <2>1 DEF Transfers
  <2>4. Wire' = Wire
    BY <2>1 DEF Wire
  <2>. QED  BY <1>s, <2>1, <2>2, <2>3, <2>4, RequestLemma
<1>2. CASE irq_tx_size
  <2>1. app.pc = "tx_size" /\ UNCHANGED <<dev, goal>> /\ app'.pc = "tx_idx" /\ app'.b = app.b
    BY <1>0, <1>2 DEF irq_tx_size, Running, Thread
  <2>2. Wire' = Wire /\ Left' = Left
    BY <2>1 DEF Wire, Left
  <2>. QED  BY <1>s, <2>1, <2>2, OrderForm
<1>3. CASE irq_tx_idx
  <2>1. app.pc = "tx_idx" /\ UNCHANGED <<dev, goal>> /\ app'.pc = "ier_get"
    BY <1>0, <1>3 DEF irq_tx_idx, Running, Thread
  <2>2. drv'.tx_idx = 0 /\ drv'.tx_buffer = drv.tx_buffer /\ drv'.tx_buff_size = drv.tx_buff_size
    BY <1>0, <1>3 DEF irq_tx_idx, Driver
  <2>3. drv.tx_buff_size # 0 /\ drv.tx_buffer = app.b
    BY <1>s, <2>1 DEF Transfers
  <2>4. Wire' = Wire /\ Left' = Left
    BY <2>1, <2>2, <2>3 DEF Wire, Left
  <2>. QED  BY <1>s, <2>1, <2>4, OrderForm
<1>4. CASE ier_get
  <2>1. /\ UNCHANGED goal /\ dev'.out = dev.out /\ dev'.tsr = dev.tsr /\ dev'.txq = dev.txq
        /\ drv'.tx_buffer = drv.tx_buffer /\ drv'.tx_buff_size = drv.tx_buff_size /\ drv'.tx_idx = drv.tx_idx
        /\ \/ app.pc \notin Midway /\ app'.pc \notin Midway
           \/ app'.pc = app.pc /\ app'.b = app.b /\ app'.i = app.i
    BY <1>0, <1>4 DEF ier_get, Running, Thread, Midway
  <2>. QED  BY <1>s, <2>1, QuietLemma
<1>5. CASE ier_put
  <2>1. /\ UNCHANGED goal /\ dev'.out = dev.out /\ dev'.tsr = dev.tsr /\ dev'.txq = dev.txq
        /\ drv'.tx_buffer = drv.tx_buffer /\ drv'.tx_buff_size = drv.tx_buff_size /\ drv'.tx_idx = drv.tx_idx
        /\ \/ app.pc \notin Midway /\ app'.pc \notin Midway
           \/ app'.pc = app.pc /\ app'.b = app.b /\ app'.i = app.i
    BY <1>0, <1>s, <1>5, IerPutEffect DEF Midway
  <2>. QED  BY <1>s, <2>1, QuietLemma
<1>6. CASE polled_tx_call
  <2>1. /\ app.pc = "idle" /\ NextBuffer("poll") /\ app.b < Len(BufSize) /\ goal' = goal \o Buffer(app.b + 1)
        /\ UNCHANGED dev
    BY <1>6 DEF polled_tx_call, Calls, Running, NextBuffer
  <2>2. app'.pc = "poll" /\ app'.b = app.b + 1 /\ app'.i = 1 /\ MaySend
    BY <2>1, NextBufferLemma DEF AppStates
  <2>3. drv.tx_buff_size = 0
    BY <1>s, <2>2 DEF Transfers, MaySend
  <2>4. Wire' = Wire
    BY <2>1 DEF Wire
  <2>. QED  BY <1>s, <2>1, <2>2, <2>3, <2>4, RequestLemma
<1>7. CASE polled_tx_lsr
  <2>1. app.pc = "poll" /\ app'.pc \in {"poll", "poll_thr"} /\ app'.b = app.b /\ app'.i = app.i /\ UNCHANGED <<drv, goal>>
    BY <1>0, <1>7 DEF polled_tx_lsr, Running, Thread
  <2>2. dev'.out = dev.out /\ dev'.tsr = dev.tsr /\ dev'.txq = dev.txq
    BY <1>0, <1>7, ReadLSRLemma DEF polled_tx_lsr
  <2>3. Wire' = Wire /\ Left' = Left
    BY <2>1, <2>2 DEF Wire, Left
  <2>. QED  BY <1>s, <2>1, <2>3, OrderForm
<1>8. CASE polled_tx_thr
  <2>1. /\ app.pc = "poll_thr" /\ app.b \in 0..Len(BufSize) /\ app.b # 0 /\ app.i \in 1..BufSize[app.b]
        /\ BufSize[app.b] \in Nat /\ <<app.b, app.i>> \in Byte /\ UNCHANGED <<drv, goal>>
        /\ dev'.out = dev.out /\ dev'.tsr = dev.tsr
    BY <1>8, PolledEffect
  <2>2. dev'.txq = Append(dev.txq, <<app.b, app.i>>)
    BY <1>s, <1>8, <2>1, PolledEffect DEF THRNF, Interrupts, Room
  <2>3. app.i - 1 \in 0..(BufSize[app.b] - 1) /\ (app.i - 1) + 1 = app.i /\ app.i \in 0..BufSize[app.b]
    BY <2>1
  <2>4. Rest(app.b, app.i - 1) = <<<<app.b, app.i>>>> \o Rest(app.b, app.i)
    <3>1. PICK n : n = app.i - 1
      OBVIOUS
    <3>2. Rest(app.b, n) = <<<<app.b, n + 1>>>> \o Rest(app.b, n + 1)
      BY <2>1, <2>3, <3>1, RestLemma
    <3>. QED  BY <2>3, <3>1, <3>2
  <2>5. Rest(app.b, app.i) \in Bytes /\ Rest(app.b, BufSize[app.b]) = <<>>
    BY <2>1, <2>3, RestLemma DEF Bytes
  <2>6. Left = Cat(<<<<app.b, app.i>>>>, Rest(app.b, app.i))
    BY <2>1, <2>4 DEF Left, Cat
  <2>7. Left' = Rest(app.b, app.i)
    <3>1. CASE app.i < BufSize[app.b]
      <4>1. app'.pc = "poll" /\ app'.b = app.b /\ app'.i = app.i + 1 /\ app'.i - 1 = app.i
        BY <1>8, <2>1, <3>1, PolledEffect
      <4>. QED  BY <4>1 DEF Left
    <3>2. CASE ~(app.i < BufSize[app.b])
      <4>1. app'.pc = "idle" /\ app.i = BufSize[app.b]
        BY <1>8, <2>1, <3>2, PolledEffect
      <4>2. drv'.tx_buff_size = 0
        BY <1>s, <2>1 DEF Transfers
      <4>. QED  BY <2>5, <4>1, <4>2 DEF Left
    <3>. QED  BY <3>1, <3>2
  <2>8. Cat(Wire', Left') = Cat(Wire, Left)
    <3>1. PICK x \in Byte : x = <<app.b, app.i>>
      BY <2>1
    <3>2. PICK l \in Bytes : l = Rest(app.b, app.i)
      BY <2>5
    <3>3. Left = Cat(<<x>>, l) /\ Left' = l /\ dev'.txq = Append(dev.txq, x)
      BY <2>2, <2>6, <2>7, <3>1, <3>2
    <3>4. Cat(Cat(Cat(dev.out, dev.tsr), Append(dev.txq, x)), l)
            = Cat(Cat(Cat(dev.out, dev.tsr), dev.txq), Cat(<<x>>, l))
      BY WireLemma, PushLemma
    <3>. QED  BY <2>1, <3>3, <3>4 DEF Wire
  <2>. QED  BY <1>s, <2>1, <2>8, OrderForm
<1>9. CASE write
  <2>1. drv.tx_buff_size = 0
    BY <1>s, <1>9, WriteEffect DEF Transfers, MaySend
  <2>2. dev'.out = dev.out /\ dev'.tsr = dev.tsr /\ dev'.txq = dev.txq
    BY <1>s, <1>9, WriteEffect DEF Room
  <2>3. Wire' = Wire
    BY <2>2 DEF Wire
  <2>. QED  BY <1>s, <1>9, <2>1, <2>3, WriteEffect, RequestLemma
<1>10. CASE fill_call
  <2>1. /\ UNCHANGED goal /\ dev'.out = dev.out /\ dev'.tsr = dev.tsr /\ dev'.txq = dev.txq
        /\ drv'.tx_buffer = drv.tx_buffer /\ drv'.tx_buff_size = drv.tx_buff_size /\ drv'.tx_idx = drv.tx_idx
        /\ \/ app.pc \notin Midway /\ app'.pc \notin Midway
           \/ app'.pc = app.pc /\ app'.b = app.b /\ app'.i = app.i
    BY <1>0, <1>10 DEF fill_call, Calls, Running, Thread, Midway
  <2>. QED  BY <1>s, <2>1, QuietLemma
<1>11. CASE fill_lsr
  <2>1. /\ UNCHANGED goal /\ dev'.out = dev.out /\ dev'.tsr = dev.tsr /\ dev'.txq = dev.txq
        /\ drv'.tx_buffer = drv.tx_buffer /\ drv'.tx_buff_size = drv.tx_buff_size /\ drv'.tx_idx = drv.tx_idx
        /\ \/ app.pc \notin Midway /\ app'.pc \notin Midway
           \/ app'.pc = app.pc /\ app'.b = app.b /\ app'.i = app.i
    BY <1>0, <1>11, ReadLSRLemma DEF fill_lsr, Running, Thread, Midway
  <2>. QED  BY <1>s, <2>1, QuietLemma
<1>12. CASE fill_status
  <2>1. /\ UNCHANGED goal /\ dev'.out = dev.out /\ dev'.tsr = dev.tsr /\ dev'.txq = dev.txq
        /\ drv'.tx_buffer = drv.tx_buffer /\ drv'.tx_buff_size = drv.tx_buff_size /\ drv'.tx_idx = drv.tx_idx
        /\ \/ app.pc \notin Midway /\ app'.pc \notin Midway
           \/ app'.pc = app.pc /\ app'.b = app.b /\ app'.i = app.i
    BY <1>0, <1>s, <1>12, StatusEffect DEF Midway
  <2>. QED  BY <1>s, <2>1, QuietLemma
<1>13. CASE fill_thr
  <2>1. /\ app.pc = "fill_thr" /\ <<app.b, app.i>> \in Byte /\ UNCHANGED drv /\ goal' = Append(goal, <<app.b, app.i>>)
        /\ dev'.out = dev.out /\ dev'.tsr = dev.tsr /\ app'.pc \in {"fill_thr", "idle"}
    BY <1>13, FillEffect
  <2>2. "fill" \in app.ops /\ Len(dev.txq) < app.i /\ app.i <= FifoSize
    BY <1>s, <2>1 DEF Room
  <2>3. Len(dev.txq) < FifoSize
    BY <1>0, <2>2 DEF Thread, Device
  <2>4. dev'.txq = Append(dev.txq, <<app.b, app.i>>)
    BY <1>s, <1>13, <2>3, FillEffect DEF THRNF, Interrupts
  <2>5. drv.tx_buff_size = 0
    BY <1>0, <1>s, <2>2, ApplicationAssumption DEF Transfers, Thread
  <2>6. Left = <<>> /\ Left' = <<>>
    BY <2>1, <2>5 DEF Left
  <2>7. goal = Wire
    BY <1>s, <2>6, OrderForm, WireLemma, CatLaws
  <2>8. Append(goal, <<app.b, app.i>>) = Cat(Wire, <<<<app.b, app.i>>>>) /\ <<<<app.b, app.i>>>> \in Bytes
    BY <2>1, <2>7, WireLemma, CatElements
  <2>9. Cat(Wire', Left') = Cat(Wire, Cat(<<<<app.b, app.i>>>>, <<>>))
    <3>1. PICK x \in Byte : x = <<app.b, app.i>>
      BY <2>1
    <3>2. PICK l \in Bytes : l = <<>>
      BY CatLaws
    <3>3. Cat(Cat(Cat(dev.out, dev.tsr), Append(dev.txq, x)), l)
            = Cat(Cat(Cat(dev.out, dev.tsr), dev.txq), Cat(<<x>>, l))
      BY WireLemma, PushLemma
    <3>. QED  BY <2>1, <2>4, <2>6, <3>1, <3>2, <3>3 DEF Wire
  <2>10. Cat(<<<<app.b, app.i>>>>, <<>>) = <<<<app.b, app.i>>>>
    BY <2>8, CatLaws
  <2>. QED  BY <2>1, <2>8, <2>9, <2>10, OrderForm
<1>14. CASE complete_call
  <2>1. /\ UNCHANGED goal /\ dev'.out = dev.out /\ dev'.tsr = dev.tsr /\ dev'.txq = dev.txq
        /\ drv'.tx_buffer = drv.tx_buffer /\ drv'.tx_buff_size = drv.tx_buff_size /\ drv'.tx_idx = drv.tx_idx
        /\ \/ app.pc \notin Midway /\ app'.pc \notin Midway
           \/ app'.pc = app.pc /\ app'.b = app.b /\ app'.i = app.i
    BY <1>0, <1>14, ReadLSRLemma DEF complete_call, Calls, Running, Thread, Midway
  <2>. QED  BY <1>s, <2>1, QuietLemma
<1>15. CASE complete_status
  <2>1. /\ UNCHANGED goal /\ dev'.out = dev.out /\ dev'.tsr = dev.tsr /\ dev'.txq = dev.txq
        /\ drv'.tx_buffer = drv.tx_buffer /\ drv'.tx_buff_size = drv.tx_buff_size /\ drv'.tx_idx = drv.tx_idx
        /\ \/ app.pc \notin Midway /\ app'.pc \notin Midway
           \/ app'.pc = app.pc /\ app'.b = app.b /\ app'.i = app.i
    BY <1>0, <1>15 DEF complete_status, Running, Thread, Driver, Midway
  <2>. QED  BY <1>s, <2>1, QuietLemma
<1>16. CASE complete_size
  <2>1. /\ UNCHANGED goal /\ dev'.out = dev.out /\ dev'.tsr = dev.tsr /\ dev'.txq = dev.txq
        /\ drv'.tx_buffer = drv.tx_buffer /\ drv'.tx_buff_size = drv.tx_buff_size /\ drv'.tx_idx = drv.tx_idx
        /\ \/ app.pc \notin Midway /\ app'.pc \notin Midway
           \/ app'.pc = app.pc /\ app'.b = app.b /\ app'.i = app.i
    BY <1>0, <1>16 DEF complete_size, Running, Thread, Midway
  <2>. QED  BY <1>s, <2>1, QuietLemma
<1>17. CASE set_rx_call
  <2>1. /\ UNCHANGED goal /\ dev'.out = dev.out /\ dev'.tsr = dev.tsr /\ dev'.txq = dev.txq
        /\ drv'.tx_buffer = drv.tx_buffer /\ drv'.tx_buff_size = drv.tx_buff_size /\ drv'.tx_idx = drv.tx_idx
        /\ \/ app.pc \notin Midway /\ app'.pc \notin Midway
           \/ app'.pc = app.pc /\ app'.b = app.b /\ app'.i = app.i
    BY <1>0, <1>s, <1>17, SetRxEffect DEF Midway
  <2>. QED  BY <1>s, <2>1, QuietLemma
<1>18. CASE set_rx_fcr
  <2>1. /\ UNCHANGED goal /\ dev'.out = dev.out /\ dev'.tsr = dev.tsr /\ dev'.txq = dev.txq
        /\ drv'.tx_buffer = drv.tx_buffer /\ drv'.tx_buff_size = drv.tx_buff_size /\ drv'.tx_idx = drv.tx_idx
        /\ \/ app.pc \notin Midway /\ app'.pc \notin Midway
           \/ app'.pc = app.pc /\ app'.b = app.b /\ app'.i = app.i
    BY <1>0, <1>s, <1>18, FcrEffect DEF Midway, Interrupts
  <2>. QED  BY <1>s, <2>1, QuietLemma
<1>19. CASE UART_enable_irq
  <2>1. /\ UNCHANGED goal /\ dev'.out = dev.out /\ dev'.tsr = dev.tsr /\ dev'.txq = dev.txq
        /\ drv'.tx_buffer = drv.tx_buffer /\ drv'.tx_buff_size = drv.tx_buff_size /\ drv'.tx_idx = drv.tx_idx
        /\ \/ app.pc \notin Midway /\ app'.pc \notin Midway
           \/ app'.pc = app.pc /\ app'.b = app.b /\ app'.i = app.i
    BY <1>0, <1>19 DEF UART_enable_irq, Calls, Running, Thread, Driver, Midway
  <2>. QED  BY <1>s, <2>1, QuietLemma
<1>20. CASE get_rx_call
  <2>1. /\ UNCHANGED goal /\ dev'.out = dev.out /\ dev'.tsr = dev.tsr /\ dev'.txq = dev.txq
        /\ drv'.tx_buffer = drv.tx_buffer /\ drv'.tx_buff_size = drv.tx_buff_size /\ drv'.tx_idx = drv.tx_idx
        /\ \/ app.pc \notin Midway /\ app'.pc \notin Midway
           \/ app'.pc = app.pc /\ app'.b = app.b /\ app'.i = app.i
    BY <1>0, <1>20 DEF get_rx_call, Calls, Running, Thread, Midway
  <2>. QED  BY <1>s, <2>1, QuietLemma
<1>21. CASE get_rx_lsr
  <2>1. /\ UNCHANGED goal /\ dev'.out = dev.out /\ dev'.tsr = dev.tsr /\ dev'.txq = dev.txq
        /\ drv'.tx_buffer = drv.tx_buffer /\ drv'.tx_buff_size = drv.tx_buff_size /\ drv'.tx_idx = drv.tx_idx
        /\ \/ app.pc \notin Midway /\ app'.pc \notin Midway
           \/ app'.pc = app.pc /\ app'.b = app.b /\ app'.i = app.i
    BY <1>0, <1>21, ReadLSRLemma DEF get_rx_lsr, Running, Thread, Midway
  <2>. QED  BY <1>s, <2>1, QuietLemma
<1>22. CASE get_rx_status
  <2>1. /\ UNCHANGED goal /\ dev'.out = dev.out /\ dev'.tsr = dev.tsr /\ dev'.txq = dev.txq
        /\ drv'.tx_buffer = drv.tx_buffer /\ drv'.tx_buff_size = drv.tx_buff_size /\ drv'.tx_idx = drv.tx_idx
        /\ \/ app.pc \notin Midway /\ app'.pc \notin Midway
           \/ app'.pc = app.pc /\ app'.b = app.b /\ app'.i = app.i
    BY <1>0, <1>s, <1>22, StatusEffect DEF Midway
  <2>. QED  BY <1>s, <2>1, QuietLemma
<1>23. CASE get_rx_rbr
  <2>1. /\ UNCHANGED goal /\ dev'.out = dev.out /\ dev'.tsr = dev.tsr /\ dev'.txq = dev.txq
        /\ drv'.tx_buffer = drv.tx_buffer /\ drv'.tx_buff_size = drv.tx_buff_size /\ drv'.tx_idx = drv.tx_idx
        /\ \/ app.pc \notin Midway /\ app'.pc \notin Midway
           \/ app'.pc = app.pc /\ app'.b = app.b /\ app'.i = app.i
    BY <1>0, <1>s, <1>23, ByteReadEffect DEF Midway
  <2>. QED  BY <1>s, <2>1, QuietLemma
<1>24. CASE rx_status_call
  <2>1. /\ UNCHANGED goal /\ dev'.out = dev.out /\ dev'.tsr = dev.tsr /\ dev'.txq = dev.txq
        /\ drv'.tx_buffer = drv.tx_buffer /\ drv'.tx_buff_size = drv.tx_buff_size /\ drv'.tx_idx = drv.tx_idx
        /\ \/ app.pc \notin Midway /\ app'.pc \notin Midway
           \/ app'.pc = app.pc /\ app'.b = app.b /\ app'.i = app.i
    BY <1>0, <1>24, ReadLSRLemma DEF rx_status_call, Calls, Running, Thread, Midway
  <2>. QED  BY <1>s, <2>1, QuietLemma
<1>25. CASE rx_status_put
  <2>1. /\ UNCHANGED goal /\ dev'.out = dev.out /\ dev'.tsr = dev.tsr /\ dev'.txq = dev.txq
        /\ drv'.tx_buffer = drv.tx_buffer /\ drv'.tx_buff_size = drv.tx_buff_size /\ drv'.tx_idx = drv.tx_idx
        /\ \/ app.pc \notin Midway /\ app'.pc \notin Midway
           \/ app'.pc = app.pc /\ app'.b = app.b /\ app'.i = app.i
    BY <1>0, <1>25 DEF rx_status_put, Running, Thread, Driver, Midway
  <2>. QED  BY <1>s, <2>1, QuietLemma
<1>26. CASE rx_status_get
  <2>1. /\ UNCHANGED goal /\ dev'.out = dev.out /\ dev'.tsr = dev.tsr /\ dev'.txq = dev.txq
        /\ drv'.tx_buffer = drv.tx_buffer /\ drv'.tx_buff_size = drv.tx_buff_size /\ drv'.tx_idx = drv.tx_idx
        /\ \/ app.pc \notin Midway /\ app'.pc \notin Midway
           \/ app'.pc = app.pc /\ app'.b = app.b /\ app'.i = app.i
    BY <1>0, <1>26 DEF rx_status_get, Running, Thread, Midway
  <2>. QED  BY <1>s, <2>1, QuietLemma
<1>27. CASE rx_status_clear
  <2>1. /\ UNCHANGED goal /\ dev'.out = dev.out /\ dev'.tsr = dev.tsr /\ dev'.txq = dev.txq
        /\ drv'.tx_buffer = drv.tx_buffer /\ drv'.tx_buff_size = drv.tx_buff_size /\ drv'.tx_idx = drv.tx_idx
        /\ \/ app.pc \notin Midway /\ app'.pc \notin Midway
           \/ app'.pc = app.pc /\ app'.b = app.b /\ app'.i = app.i
    BY <1>0, <1>27 DEF rx_status_clear, Running, Return, Thread, Driver, Midway
  <2>. QED  BY <1>s, <2>1, QuietLemma
<1>28. CASE interrupt
  <2>1. /\ UNCHANGED goal /\ dev'.out = dev.out /\ dev'.tsr = dev.tsr /\ dev'.txq = dev.txq
        /\ drv'.tx_buffer = drv.tx_buffer /\ drv'.tx_buff_size = drv.tx_buff_size /\ drv'.tx_idx = drv.tx_idx
        /\ \/ app.pc \notin Midway /\ app'.pc \notin Midway
           \/ app'.pc = app.pc /\ app'.b = app.b /\ app'.i = app.i
    BY <1>0, <1>28 DEF interrupt, Midway
  <2>. QED  BY <1>s, <2>1, QuietLemma
<1>29. CASE uart_isr
  <2>1. /\ UNCHANGED goal /\ dev'.out = dev.out /\ dev'.tsr = dev.tsr /\ dev'.txq = dev.txq
        /\ drv'.tx_buffer = drv.tx_buffer /\ drv'.tx_buff_size = drv.tx_buff_size /\ drv'.tx_idx = drv.tx_idx
        /\ \/ app.pc \notin Midway /\ app'.pc \notin Midway
           \/ app'.pc = app.pc /\ app'.b = app.b /\ app'.i = app.i
    BY <1>0, <1>29, ReadIIRLemma DEF uart_isr, Midway
  <2>. QED  BY <1>s, <2>1, QuietLemma
<1>30. CASE default_tx_handler
  <2>1. /\ UNCHANGED goal /\ dev'.out = dev.out /\ dev'.tsr = dev.tsr /\ dev'.txq = dev.txq
        /\ drv'.tx_buffer = drv.tx_buffer /\ drv'.tx_buff_size = drv.tx_buff_size /\ drv'.tx_idx = drv.tx_idx
        /\ \/ app.pc \notin Midway /\ app'.pc \notin Midway
           \/ app'.pc = app.pc /\ app'.b = app.b /\ app'.i = app.i
    BY <1>0, <1>s, <1>30, HandlerEffect DEF Midway
  <2>. QED  BY <1>s, <2>1, QuietLemma
<1>31. CASE default_tx_fill
  <2>1. /\ <<drv.tx_buffer, drv.tx_idx + 1>> \in Byte /\ UNCHANGED <<app, goal>>
        /\ dev'.out = dev.out /\ dev'.tsr = dev.tsr /\ isr.pc = "tx_fill" /\ isr.cnt \in Nat /\ isr.cnt > 0
        /\ drv'.tx_buffer = drv.tx_buffer /\ drv'.tx_buff_size = drv.tx_buff_size /\ drv'.tx_idx = drv.tx_idx + 1
    BY <1>0, <1>31, PushEffect
  <2>2. /\ dev.fifoEn /\ Len(dev.txq) + isr.cnt <= FifoSize /\ drv.tx_idx + isr.cnt <= drv.tx_buff_size
        /\ drv.tx_buff_size # 0 /\ app.pc \notin {"tx_size", "tx_idx"}
    BY <1>s, <2>1 DEF Interrupts
  <2>3. /\ app.b # 0 /\ drv.tx_buffer = app.b /\ drv.tx_buff_size = BufSize[app.b] /\ app.b \in 0..Len(BufSize)
        /\ app.pc \notin {"poll", "poll_thr"}
    BY <1>0, <1>s, <2>2 DEF Transfers, Thread
  <2>4. dev'.txq = Append(dev.txq, <<drv.tx_buffer, drv.tx_idx + 1>>)
    <3>1. Len(dev.txq) < FifoSize
      BY <1>0, <2>1, <2>2 DEF Device
    <3>. QED  BY <1>31, <2>2, <3>1, PushEffect DEF THRNF
  <2>5. drv.tx_idx \in 0..(BufSize[app.b] - 1) /\ drv.tx_idx + 1 \in 0..BufSize[app.b]
    BY <1>0, <2>1, <2>2, <2>3 DEF Driver
  <2>6. /\ Rest(app.b, drv.tx_idx) = <<<<app.b, drv.tx_idx + 1>>>> \o Rest(app.b, drv.tx_idx + 1)
        /\ Rest(app.b, drv.tx_idx + 1) \in Bytes
    BY <2>3, <2>5, RestLemma DEF Bytes
  <2>7. Left = Cat(<<<<app.b, drv.tx_idx + 1>>>>, Rest(app.b, drv.tx_idx + 1))
    BY <2>2, <2>3, <2>6 DEF Left, Cat
  <2>8. Left' = Rest(app.b, drv.tx_idx + 1)
    BY <2>1, <2>2, <2>3 DEF Left
  <2>9. Cat(Wire', Left') = Cat(Wire, Left)
    BY <2>1, <2>3, <2>4, <2>6, <2>7, <2>8, WireLemma, PushLemma DEF Wire
  <2>. QED  BY <1>s, <2>1, <2>9, OrderForm
<1>32. CASE default_tx_end
  <2>1. CASE drv.tx_idx # drv.tx_buff_size
    <3>1. UNCHANGED <<dev, drv, app, goal>>
      BY <1>32, <2>1, EndEffect
    <3>. QED  BY <1>s, <3>1, QuietLemma
  <2>2. CASE drv.tx_idx = drv.tx_buff_size
    <3>1. /\ isr.pc = "tx_fill" /\ UNCHANGED <<app, goal>> /\ dev'.out = dev.out /\ dev'.tsr = dev.tsr
          /\ dev'.txq = dev.txq /\ drv'.tx_buff_size = 0
      BY <1>32, <2>2, EndEffect
    <3>2. drv.tx_buff_size # 0 /\ app.pc \notin {"tx_size", "tx_idx"}
      BY <1>s, <3>1 DEF Interrupts
    <3>3. /\ app.b # 0 /\ drv.tx_buffer = app.b /\ drv.tx_buff_size = BufSize[app.b] /\ app.b \in 0..Len(BufSize)
          /\ app.pc \notin {"poll", "poll_thr"}
      BY <1>0, <1>s, <3>2 DEF Transfers, Thread
    <3>4. Rest(app.b, BufSize[app.b]) = <<>>
      BY <3>3, RestLemma
    <3>5. Left = <<>> /\ Left' = <<>>
      BY <2>2, <3>1, <3>2, <3>3, <3>4 DEF Left
    <3>6. Wire' = Wire
      BY <3>1 DEF Wire
    <3>. QED  BY <1>s, <3>1, <3>5, <3>6, OrderForm
  <2>. QED  BY <2>1, <2>2
<1>33. CASE rx_handler_lsr
  <2>1. /\ UNCHANGED goal /\ dev'.out = dev.out /\ dev'.tsr = dev.tsr /\ dev'.txq = dev.txq
        /\ drv'.tx_buffer = drv.tx_buffer /\ drv'.tx_buff_size = drv.tx_buff_size /\ drv'.tx_idx = drv.tx_idx
        /\ \/ app.pc \notin Midway /\ app'.pc \notin Midway
           \/ app'.pc = app.pc /\ app'.b = app.b /\ app'.i = app.i
    BY <1>0, <1>33, ReadLSRLemma DEF rx_handler_lsr, Driver, Midway
  <2>. QED  BY <1>s, <2>1, QuietLemma
<1>34. CASE rx_handler_rbr
  <2>1. /\ UNCHANGED goal /\ dev'.out = dev.out /\ dev'.tsr = dev.tsr /\ dev'.txq = dev.txq
        /\ drv'.tx_buffer = drv.tx_buffer /\ drv'.tx_buff_size = drv.tx_buff_size /\ drv'.tx_idx = drv.tx_idx
        /\ \/ app.pc \notin Midway /\ app'.pc \notin Midway
           \/ app'.pc = app.pc /\ app'.b = app.b /\ app'.i = app.i
    BY <1>0, <1>s, <1>34, ByteReadEffect DEF Midway
  <2>. QED  BY <1>s, <2>1, QuietLemma
<1>35. CASE Transmitter
  <2>1. UNCHANGED <<drv, app, goal>>
    BY <1>35, TransmitterEffect
  <2>2. Left' = Left
    BY <2>1 DEF Left
  <2>3. Wire' = Wire
    <3>1. CASE /\ dev.txq # <<>> /\ dev.tsr = <<>> /\ dev'.out = dev.out
               /\ dev'.txq = Tail(dev.txq) /\ dev'.tsr = <<Head(dev.txq)>>
      BY <3>1, WireLemma, ShiftLemma DEF Wire
    <3>2. CASE /\ dev.tsr = <<dev.tsr[1]>> /\ dev.tsr[1] \in Byte /\ dev'.txq = dev.txq
               /\ dev'.tsr = <<>> /\ dev'.out = Append(dev.out, dev.tsr[1])
      <4>1. PICK x \in Byte : x = dev.tsr[1]
        BY <3>2
      <4>2. Cat(Cat(Append(dev.out, x), <<>>), dev.txq) = Cat(Cat(dev.out, <<x>>), dev.txq)
        BY WireLemma, ShiftLemma
      <4>3. dev.tsr = <<x>> /\ dev'.txq = dev.txq /\ dev'.tsr = <<>> /\ dev'.out = Append(dev.out, x)
        BY <3>2, <4>1
      <4>. QED  BY <4>2, <4>3 DEF Wire
    <3>. QED  BY <1>35, <3>1, <3>2, TransmitterEffect
  <2>. QED  BY <1>s, <2>1, <2>2, <2>3, OrderForm
<1>36. CASE Receiver
  <2>1. /\ UNCHANGED goal /\ dev'.out = dev.out /\ dev'.tsr = dev.tsr /\ dev'.txq = dev.txq
        /\ drv'.tx_buffer = drv.tx_buffer /\ drv'.tx_buff_size = drv.tx_buff_size /\ drv'.tx_idx = drv.tx_idx
        /\ \/ app.pc \notin Midway /\ app'.pc \notin Midway
           \/ app'.pc = app.pc /\ app'.b = app.b /\ app'.i = app.i
    BY <1>0, <1>s, <1>36, ReceiverEffect DEF Midway
  <2>. QED  BY <1>s, <2>1, QuietLemma
<1>. QED  BY <1>1, <1>2, <1>3, <1>4, <1>5, <1>6, <1>7, <1>8, <1>9, <1>10, <1>11, <1>12, <1>13, <1>14,
           <1>15, <1>16, <1>17, <1>18, <1>19, <1>20, <1>21, <1>22, <1>23, <1>24, <1>25, <1>26, <1>27,
           <1>28, <1>29, <1>30, <1>31, <1>32, <1>33, <1>34, <1>35, <1>36
         DEF Next, Service, Application, UART_irq_tx, UART_polled_tx, UART_fill_tx_fifo, UART_tx_complete,
             UART_set_rx_handler, UART_get_rx, UART_get_rx_status

-----------------------------------------------------------------------------
(* The theorems.                                                           *)
\* What is left of a transfer is a sequence of bytes.
LEMMA LeftLemma ==
    ASSUME Typed, Transfers
    PROVE  Left \in Bytes
<1>0. /\ app.b \in 0..Len(BufSize) /\ drv.tx_buffer \in 0..Len(BufSize) /\ drv.tx_idx \in Nat
      /\ drv.tx_buff_size \in Nat
  BY DEF Typed, Thread, Driver
<1>1. CASE app.pc \in {"poll", "poll_thr"}
  <2>1. app.b # 0 /\ app.i \in 1..BufSize[app.b]
    BY <1>1 DEF Typed
  <2>2. BufSize[app.b] \in Nat
    BY <1>0, <2>1, SizeLemma
  <2>3. app.i - 1 \in 0..BufSize[app.b]
    BY <2>1, <2>2
  <2>4. Rest(app.b, app.i - 1) \in Seq(Byte)
    BY <1>0, <2>1, <2>3, RestLemma
  <2>. QED  BY <1>1, <2>4 DEF Left, Bytes
<1>2. CASE app.pc \in {"tx_size", "tx_idx"}
  <2>1. app.b # 0
    BY <1>2 DEF Typed
  <2>2. 0 \in 0..BufSize[app.b]
    BY <1>0, <2>1, SizeLemma
  <2>3. Rest(app.b, 0) \in Seq(Byte)
    BY <1>0, <2>1, <2>2, RestLemma
  <2>. QED  BY <1>2, <2>3 DEF Left, Bytes
<1>3. CASE app.pc \notin {"poll", "poll_thr", "tx_size", "tx_idx"} /\ drv.tx_buff_size # 0
  <2>1. app.b # 0 /\ drv.tx_buffer = app.b /\ drv.tx_buff_size = BufSize[app.b] /\ drv.tx_idx <= drv.tx_buff_size
    BY <1>3 DEF Transfers
  <2>2. drv.tx_idx \in 0..BufSize[app.b]
    BY <1>0, <2>1
  <2>3. Rest(app.b, drv.tx_idx) \in Seq(Byte)
    BY <1>0, <2>1, <2>2, RestLemma
  <2>. QED  BY <1>3, <2>1, <2>3 DEF Left, Bytes
<1>4. CASE app.pc \notin {"poll", "poll_thr", "tx_size", "tx_idx"} /\ drv.tx_buff_size = 0
  BY <1>4, CatLaws DEF Left
<1>. QED  BY <1>1, <1>2, <1>3, <1>4

\* The invariant holds after UART_init.
LEMMA InitInv == ASSUME Init  PROVE IInv
<1>1. uart_reset \in Device /\ uart_reset.tsr = <<>> /\ uart_reset.out = <<>> /\ uart_reset.rxq = <<>>
  BY DEF uart_reset, Device
<1>2. /\ dev \in Device /\ dev.ier = {} /\ dev.fifoEn = TRUE /\ dev.txq = <<>> /\ dev.tsr = <<>>
      /\ dev.out = <<>> /\ dev.rxq = <<>>
  <2>1. dev = UART_init_dev(uart_reset)
    BY DEF Init
  <2>. QED  BY <1>1, <2>1, InitDevLemma
<1>3. /\ drv \in Driver /\ drv.tx_buff_size = 0 /\ drv.rx_handler = FALSE /\ drv.plic = FALSE
      /\ drv.g_stdio_uart_init_done = FALSE /\ drv.status = FALSE
  <2>1. 0 \in 0..Len(BufSize)
    BY UartAssumption
  <2>. QED  BY <2>1 DEF Init, Driver
<1>4. /\ app \in Thread /\ app.pc = "idle" /\ app.res = "none" /\ app.busy = FALSE
  <2>1. 0 \in 0..Len(BufSize)
    BY UartAssumption
  <2>. QED  BY <2>1 DEF Init, Thread, AppStates
<1>5. isr \in Routine /\ isr.pc = "off"
  BY FifoSizeAssumption DEF Init, Routine, IsrStates
<1>6. rx \in Line /\ rx.lost = FALSE
  <2>1. 0 \in 0..RxMax /\ <<>> \in Seq(Nat)
    BY UartAssumption
  <2>. QED  BY <2>1 DEF Init, Line
<1>7. goal = <<>> /\ goal \in Seq(Byte)
  BY DEF Init
<1>8. Typed
  <2>1. Len(<<>>) = 0 /\ FifoSize \in Nat
    BY FifoSizeAssumption
  <2>. QED  BY <1>2, <1>3, <1>4, <1>5, <1>6, <1>7, <2>1 DEF Typed
<1>9. Kept
  BY <1>3, <1>4, <1>5, <1>6 DEF Kept
<1>10. Interrupts /\ Transfers /\ Room
  BY <1>2, <1>3, <1>4, <1>5 DEF Interrupts, Transfers, Room
<1>11. Order
  <2>1. Left = <<>> /\ Wire = Cat(Cat(<<>>, <<>>), <<>>)
    BY <1>2, <1>3, <1>4 DEF Left, Wire
  <2>2. Cat(<<>>, <<>>) = <<>>
    BY CatLaws
  <2>. QED  BY <1>7, <2>1, <2>2, OrderForm
<1>. QED  BY <1>8, <1>9, <1>10, <1>11 DEF IInv, Sending

\* A step that changes no variable keeps the invariant.
LEMMA StutterInv == ASSUME IInv, UNCHANGED vars  PROVE IInv'
<1>1. UNCHANGED <<dev, drv, app, isr, goal, rx>>
  BY DEF vars
<1>2. Typed' <=> Typed
  BY <1>1 DEF Typed
<1>3. Kept' <=> Kept
  BY <1>1 DEF Kept
<1>4. Sending' <=> Sending
  <2>1. (Interrupts' <=> Interrupts) /\ (Transfers' <=> Transfers) /\ (Room' <=> Room)
    BY <1>1 DEF Interrupts, Transfers, Room
  <2>2. Wire' = Wire /\ Left' = Left
    BY <1>1 DEF Wire, Left
  <2>3. Order' <=> Order
    BY <1>1, <2>2, OrderForm
  <2>. QED  BY <2>1, <2>3 DEF Sending
<1>. QED  BY <1>2, <1>3, <1>4 DEF IInv

\* The invariant holds in every reachable state, the part about sending for
\* applications that wait for a transfer to complete before the next one.
THEOREM Inductive == Spec => []IInv
<1>1. Init => IInv
  BY InitInv
<1>2. IInv /\ [Next]_vars => IInv'
  <2>1. ASSUME IInv, Next  PROVE IInv'
    <3>1. Typed /\ Kept /\ (Patient => Sending)
      BY <2>1 DEF IInv
    <3>2. Typed' /\ Kept'
      BY <2>1, <3>1, TypedNext, KeptNext
    <3>3. ASSUME Patient  PROVE Sending'
      <4>1. Interrupts' /\ Transfers' /\ Room' /\ Order'
        BY <2>1, <3>1, <3>3, InterruptsNext, TransfersNext, RoomNext, OrderNext
      <4>. QED  BY <4>1 DEF Sending
    <3>. QED  BY <3>2, <3>3 DEF IInv
  <2>2. ASSUME IInv, UNCHANGED vars  PROVE IInv'
    BY <2>2, StutterInv
  <2>. QED  BY <2>1, <2>2
<1>. QED  BY <1>1, <1>2, PTL DEF Spec

\* The state has its types whatever the application does: FIFOs never hold
\* more than FifoSize bytes, the service routine never means to push more.
THEOREM TypeCorrect == Spec => []TypeOK
<1>1. IInv => TypeOK
  BY DEF IInv, Typed, TypeOK, Device, Driver, Routine, Line, Sources
<1>. QED  BY <1>1, Inductive, PTL

\* Without interrupts no overrun is forgotten before UART_get_rx_status has
\* reported it, whatever the application calls (uart.c's sticky status).
THEOREM OverrunsKept == Spec => []ErrorsKept
<1>1. IInv => ErrorsKept
  BY DEF IInv, Kept, ErrorsKept
<1>. QED  BY <1>1, Inductive, PTL

\* Every byte handed to UART_irq_tx, UART_polled_tx, UART_fill_tx_fifo or
\* _write goes out once and in order, for every FIFO depth and every list of
\* buffers, if the application waits for UART_tx_complete.
THEOREM BytesInOrder == ASSUME Patient  PROVE Spec => []WireOrder
<1>1. IInv => WireOrder
  <2>. SUFFICES ASSUME IInv  PROVE WireOrder
    OBVIOUS
  <2>1. Typed /\ Transfers /\ Order
    BY DEF IInv, Sending
  <2>2. Left \in Bytes
    BY <2>1, LeftLemma
  <2>3. OnTheWay = Wire
    BY DEF OnTheWay, Wire, Cat
  <2>4. goal = Wire \o Left
    BY <2>1, <2>3 DEF Order
  <2>5. PICK w \in Seq(Byte), l \in Seq(Byte) : w = Wire /\ l = Left
    BY <2>1, <2>2, WireLemma DEF Bytes
  <2>6. IsPrefix(w, w \o l)
    BY PrefixLemma
  <2>. QED  BY <2>3, <2>4, <2>5, <2>6 DEF WireOrder
<1>. QED  BY <1>1, Inductive, PTL

\* When UART_tx_complete reports completion every byte has left the
\* application's buffer, so that the buffer may be reused.
THEOREM CompleteIsCopied == ASSUME Patient  PROVE Spec => []CompleteMeansCopied
<1>1. IInv => CompleteMeansCopied
  <2>. SUFFICES ASSUME IInv, app.res = "complete"  PROVE OnTheWay = goal
    BY DEF CompleteMeansCopied
  <2>1. Typed /\ Transfers /\ Order
    BY DEF IInv, Sending
  <2>2. Left = <<>>
    BY <2>1 DEF Transfers, Left
  <2>3. goal = Wire
    BY <2>1, <2>2, OrderForm, WireLemma, CatLaws
  <2>. QED  BY <2>3 DEF OnTheWay, Wire, Cat
<1>. QED  BY <1>1, Inductive, PTL
=============================================================================
