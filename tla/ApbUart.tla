------------------------------ MODULE ApbUart ------------------------------
(***************************************************************************)
(* The serial device apb_uart.vhd as its registers show it to a driver.    *)
(* The device is a record:                                                 *)
(*   ier      enabled interrupt sources                                    *)
(*   thi      the latched "transmitter empty" interrupt                    *)
(*   fifoEn   FIFO mode                                                    *)
(*   txq, tsr the transmit FIFO and the shift register (at most one byte)  *)
(*   out      the bytes that have left on the line                         *)
(*   rxq, trig, cti, oe   receive FIFO, its trigger level, the character   *)
(*            timeout and the overrun flag                                 *)
(* Every operator maps a device to the device after one register access or *)
(* one step of the transmitter or receiver.  A byte is any value.  Modem   *)
(* lines, parity and framing errors are left out.                          *)
(***************************************************************************)
EXTENDS Naturals, Sequences, SequencesExt

CONSTANT FifoSize   \* 16 in the hardware

ASSUME FifoSizeAssumption == FifoSize \in Nat \ {0}

uart_reset ==
    [ier |-> {}, thi |-> FALSE, fifoEn |-> FALSE, txq |-> <<>>, tsr |-> <<>>, out |-> <<>>,
     rxq |-> <<>>, trig |-> 1, cti |-> FALSE, oe |-> FALSE]

\* Room for a byte: FIFO not full in FIFO mode, FIFO empty otherwise.
THRNF(d) == Len(d.txq) < (IF d.fifoEn THEN FifoSize ELSE 1)

\* Line status: bit 5 is "not full", not "empty" (iLSR(5) <= iLSR_THRNF).
LSR(d) == {b \in {"DR", "OE", "THRE", "TEMT"} :
             \/ b = "DR"   /\ d.rxq # <<>>
             \/ b = "OE"   /\ d.oe
             \/ b = "THRE" /\ THRNF(d)
             \/ b = "TEMT" /\ d.txq = <<>> /\ d.tsr = <<>>}
ReadLSR(d) == [d EXCEPT !.oe = FALSE]

\* Interrupt identification, in order of priority; 1 is "none pending".
RDA(d) == d.rxq # <<>> /\ (d.fifoEn => Len(d.rxq) >= d.trig)
IIR(d) ==
    IF "LS" \in d.ier /\ d.oe THEN 6
    ELSE IF "RDA" \in d.ier /\ d.cti THEN 12
    ELSE IF "RDA" \in d.ier /\ RDA(d) THEN 4
    ELSE IF "THRE" \in d.ier /\ d.thi THEN 2 ELSE 1
INT(d) == IIR(d) # 1
\* The three low bits of the identification, as FCR would read them.
IIRBits(d) == LET bit(weight) == (IIR(d) \div weight) % 2 = 1
              IN {b \in {"en", "clr_rx", "clr_tx"} :
                    \/ b = "en" /\ bit(1)
                    \/ b = "clr_rx" /\ bit(2)
                    \/ b = "clr_tx" /\ bit(4)}
\* Reading the register acknowledges the transmit interrupt it reports.
ReadIIR(d) == [d EXCEPT !.thi = @ /\ IIR(d) # 2]

\* Enabling the transmit interrupt with an empty FIFO raises it at once.
WriteIER(d, e) == [d EXCEPT !.ier = e,
                            !.thi = @ \/ ("THRE" \in e /\ d.txq = <<>>)]

\* A byte written to a full FIFO is dropped without a trace.
WriteTHR(d, b) == [d EXCEPT !.txq = IF THRNF(d) THEN Append(@, b) ELSE @, !.thi = FALSE]

\* bits: which of bits 0 (en), 1 (clr_rx) and 2 (clr_tx) are set.
\* Switching FIFO mode on or off clears both FIFOs.
WriteFCR(d, bits, level) ==
    LET toggled == d.fifoEn # ("en" \in bits)
        rxReset == "clr_rx" \in bits \/ toggled
        txReset == "clr_tx" \in bits \/ toggled
    IN [d EXCEPT !.fifoEn = "en" \in bits, !.trig = level,
                 !.rxq = IF rxReset THEN <<>> ELSE @,
                 !.cti = @ /\ "en" \in bits,
                 !.txq = IF txReset THEN <<>> ELSE @,
                 !.thi = @ \/ txReset]

RBR(d) == Head(d.rxq)
ReadRBR(d) == [d EXCEPT !.rxq = Tail(@), !.cti = FALSE]

\* The transmitter takes a byte; an emptied FIFO raises the interrupt.
TxStart(d) == [d EXCEPT !.tsr = <<Head(d.txq)>>, !.txq = Tail(@),
                        !.thi = @ \/ Len(d.txq) = 1]
CanTxStart(d) == d.txq # <<>> /\ d.tsr = <<>>

TxEnd(d) == [d EXCEPT !.out = Append(@, d.tsr[1]), !.tsr = <<>>]
CanTxEnd(d) == d.tsr # <<>>

\* A received byte is stored; a full FIFO keeps its contents and flags the
\* overrun; without FIFO mode the byte replaces the one that was not read.
RxFull(d) == IF d.fifoEn THEN Len(d.rxq) >= FifoSize ELSE d.rxq # <<>>
RxByte(d, b) == [d EXCEPT !.oe  = @ \/ RxFull(d),
                          !.rxq = IF ~d.fifoEn THEN <<b>>
                                  ELSE IF RxFull(d) THEN @ ELSE Append(@, b)]

CanTimeout(d) == d.fifoEn /\ d.rxq # <<>> /\ ~d.cti
CharTimeout(d) == [d EXCEPT !.cti = TRUE]
=============================================================================
