----------------------------- MODULE UartDriver -----------------------------
(***************************************************************************)
(* The BSP's UART driver (uart.c), the retargeted _write of syscalls.c and *)
(* the serial device they drive.  One application thread calls the driver; *)
(* between any two of its memory accesses the transmitter, the receiver or *)
(* the interrupt service routine may run.  The service routine preempts    *)
(* the application and runs to its end before the application goes on.     *)
(*                                                                         *)
(*   dev   the device (module ApbUart)                                     *)
(*   drv   uart_instance_t, g_stdio_uart_init_done, the PLIC enable bit    *)
(*   app   the application thread: the functions it calls (ops), the next  *)
(*         access of the call it is in (pc), the call's locals (b buffer,  *)
(*         i index, s register value, t copy of the sticky status), busy:  *)
(*         an interrupt-driven or block transmit was started and not yet   *)
(*         seen complete, res: what the last call returned                 *)
(*   isr   the service routine: pc, cnt bytes still to push                *)
(*   goal  the bytes handed to the driver, in order                        *)
(*   rx    bytes that arrived, the bytes delivered, whether an overrun was *)
(*         reported by UART_get_rx_status                                  *)
(*                                                                         *)
(* Byte i of buffer b is <<b, i>>.  The sticky status is abstracted to its *)
(* overrun bit.  Modem status and user transmit handlers are left out.     *)
(***************************************************************************)
EXTENDS ApbUart, FiniteSets

CONSTANTS
    BufSize,      \* sizes of the buffers the application sends, in order
    RxMax,        \* bytes that arrive on the line
    Programs,     \* applications: each a set of driver functions it calls
    Masks,        \* arguments of UART_enable_irq
    Patient,      \* the application waits for UART_tx_complete before it sends
                  \* again, and enables interrupts it installed a handler for
    Dispatch      \* the platform routes the UART interrupt to uart_isr

ASSUME UartAssumption ==
    /\ BufSize \in Seq(Nat \ {0})
    /\ RxMax \in Nat
    /\ Programs \subseteq SUBSET {"irq_tx", "polled_tx", "write", "fill", "tx_complete",
                                  "set_rx_handler", "enable_irq", "get_rx", "get_rx_status"}
    /\ Masks \subseteq SUBSET {"RDA", "THRE", "LS"}
    /\ Patient \in BOOLEAN /\ Dispatch \in BOOLEAN

\* An application receives either by polling or by a handler.  A patient one
\* sends by one group of functions only and leaves the transmit interrupt to
\* UART_irq_tx.
ASSUME ApplicationAssumption ==
    /\ \A P \in Programs : "get_rx" \in P => "set_rx_handler" \notin P
    /\ Patient => \A P \in Programs :
         /\ "fill" \in P => P \cap {"irq_tx", "polled_tx", "write"} = {}
         /\ "write" \in P => P \cap {"irq_tx", "polled_tx"} = {}
    /\ Patient => Masks \subseteq SUBSET {"RDA", "LS"}

VARIABLES dev, drv, app, isr, goal, rx

vars == <<dev, drv, app, isr, goal, rx>>

Byte == (1..Len(BufSize)) \X Nat
Buffer(b) == [i \in 1..BufSize[b] |-> <<b, i>>]
MinOf(a, b) == IF a < b THEN a ELSE b

-----------------------------------------------------------------------------
\* UART_init: interrupts off, both FIFOs cleared and on, instance reset.
UART_init_dev(d) == WriteFCR(WriteFCR(WriteIER(d, {}), {}, 1), {"en", "clr_rx", "clr_tx"}, FifoSize)
UART_init_drv(v) == [v EXCEPT !.tx_buffer = 0, !.tx_buff_size = 0, !.tx_idx = 0,
                              !.rx_handler = FALSE, !.status = FALSE]

Init ==
    /\ dev = UART_init_dev(uart_reset)
    /\ drv = [tx_buffer |-> 0, tx_buff_size |-> 0, tx_idx |-> 0, rx_handler |-> FALSE,
              status |-> FALSE, g_stdio_uart_init_done |-> FALSE, plic |-> FALSE]
    /\ \E ops \in Programs :
          app = [ops |-> ops, pc |-> "idle", b |-> 0, i |-> 0, s |-> {}, t |-> FALSE,
                 busy |-> FALSE, res |-> "none"]
    /\ isr = [pc |-> "off", cnt |-> 0]
    /\ goal = <<>>
    /\ rx = [arrived |-> 0, got |-> <<>>, lost |-> FALSE, told |-> FALSE]

-----------------------------------------------------------------------------
(* The application thread runs only while the service routine does not.    *)
Running(pc) == app.pc = pc /\ isr.pc = "off"
Return(res) == app' = [app EXCEPT !.pc = "idle", !.s = {}, !.t = FALSE, !.i = 0, !.res = res]

\* The next call: the application may wait for completion first.
Calls(op) == Running("idle") /\ op \in app.ops
MaySend   == Patient => ~app.busy
NextBuffer(pc) ==
    /\ MaySend /\ app.b < Len(BufSize)
    /\ app' = [app EXCEPT !.pc = pc, !.b = @ + 1, !.i = 1, !.res = "none"]

\* UART_irq_tx: four plain stores, then IER |= ETBEI and the PLIC enable.
irq_tx_call ==
    /\ Calls("irq_tx") /\ MaySend /\ app.b < Len(BufSize)
    /\ app' = [app EXCEPT !.pc = "tx_size", !.b = @ + 1, !.busy = TRUE, !.res = "none"]
    /\ goal' = goal \o Buffer(app.b + 1)
    /\ drv' = [drv EXCEPT !.tx_buffer = app.b + 1]
    /\ UNCHANGED <<dev, isr, rx>>
irq_tx_size ==
    /\ Running("tx_size")
    /\ drv' = [drv EXCEPT !.tx_buff_size = BufSize[app.b]]
    /\ app' = [app EXCEPT !.pc = "tx_idx"]
    /\ UNCHANGED <<dev, isr, goal, rx>>
\* Mutant: the index of the previous transfer is kept.
irq_tx_idx_kept ==
    /\ Running("tx_idx")
    /\ app' = [app EXCEPT !.pc = "ier_get", !.s = {"THRE"}]
    /\ UNCHANGED <<dev, drv, isr, goal, rx>>
irq_tx_idx ==
    /\ Running("tx_idx")
    /\ drv' = [drv EXCEPT !.tx_idx = 0]
    /\ app' = [app EXCEPT !.pc = "ier_get", !.s = {"THRE"}]
    /\ UNCHANGED <<dev, isr, goal, rx>>

\* hw_reg->IER |= mask: a read, then a write; then enable_irq.
ier_get ==
    /\ Running("ier_get")
    /\ app' = [app EXCEPT !.pc = "ier_put", !.s = @ \cup dev.ier]
    /\ UNCHANGED <<dev, drv, isr, goal, rx>>
\* Mutant: the PLIC is not told.
ier_put_no_plic ==
    /\ Running("ier_put")
    /\ dev' = WriteIER(dev, app.s)
    /\ Return(app.res)
    /\ UNCHANGED <<drv, isr, goal, rx>>
ier_put ==
    /\ Running("ier_put")
    /\ dev' = WriteIER(dev, app.s)
    /\ drv' = [drv EXCEPT !.plic = TRUE]
    /\ Return(app.res)
    /\ UNCHANGED <<isr, goal, rx>>

UART_irq_tx == irq_tx_call \/ irq_tx_size \/ irq_tx_idx

\* UART_polled_tx: one byte whenever the status says there is room.  The
\* status is not recorded, so an overrun it shows is dropped.
polled_tx_call ==
    /\ Calls("polled_tx") /\ NextBuffer("poll")
    /\ goal' = goal \o Buffer(app.b + 1)
    /\ UNCHANGED <<dev, drv, isr, rx>>
polled_tx_lsr ==
    /\ Running("poll")
    /\ dev' = ReadLSR(dev)
    /\ app' = [app EXCEPT !.pc = IF "THRE" \in LSR(dev) THEN "poll_thr" ELSE "poll"]
    /\ UNCHANGED <<drv, isr, goal, rx>>
polled_tx_thr ==
    /\ Running("poll_thr")
    /\ dev' = WriteTHR(dev, <<app.b, app.i>>)
    /\ IF app.i < BufSize[app.b] THEN app' = [app EXCEPT !.pc = "poll", !.i = @ + 1]
                                 ELSE Return("none")
    /\ UNCHANGED <<drv, isr, goal, rx>>
UART_polled_tx == polled_tx_call \/ polled_tx_lsr \/ polled_tx_thr

\* _write initialises the UART on its first call only, then polls.
write ==
    /\ Calls("write") /\ NextBuffer("poll")
    /\ goal' = goal \o Buffer(app.b + 1)
    /\ IF drv.g_stdio_uart_init_done THEN UNCHANGED <<dev, drv>>
       ELSE /\ dev' = UART_init_dev(dev)
            /\ drv' = [UART_init_drv(drv) EXCEPT !.g_stdio_uart_init_done = TRUE]
    /\ UNCHANGED <<isr, rx>>

\* UART_fill_tx_fifo: if the status shows THRE, up to a FIFO full of bytes;
\* every byte it writes counts as sent.
fill_call ==
    /\ Calls("fill") /\ MaySend /\ app.b < Len(BufSize)
    /\ app' = [app EXCEPT !.pc = "fill_lsr", !.b = @ + 1, !.i = 1, !.busy = TRUE, !.res = "none"]
    /\ UNCHANGED <<dev, drv, isr, goal, rx>>
fill_lsr ==
    /\ Running("fill_lsr")
    /\ dev' = ReadLSR(dev)
    /\ app' = [app EXCEPT !.pc = "fill_status", !.s = LSR(dev)]
    /\ UNCHANGED <<drv, isr, goal, rx>>
fill_status ==
    /\ Running("fill_status")
    /\ drv' = [drv EXCEPT !.status = @ \/ "OE" \in app.s]
    /\ IF "THRE" \in app.s THEN app' = [app EXCEPT !.pc = "fill_thr"] ELSE Return("none")
    /\ UNCHANGED <<dev, isr, goal, rx>>
fill_thr ==
    /\ Running("fill_thr")
    /\ dev' = WriteTHR(dev, <<app.b, app.i>>)
    /\ goal' = Append(goal, <<app.b, app.i>>)
    /\ IF app.i < MinOf(FifoSize, BufSize[app.b]) THEN app' = [app EXCEPT !.i = @ + 1]
                                                  ELSE Return("none")
    /\ UNCHANGED <<drv, isr, rx>>
UART_fill_tx_fifo == fill_call \/ fill_lsr \/ fill_status \/ fill_thr

\* UART_tx_complete: LSR is read first, the transfer's size afterwards.
complete_call ==
    /\ Calls("tx_complete")
    /\ dev' = ReadLSR(dev)
    /\ app' = [app EXCEPT !.pc = "complete_status", !.s = LSR(dev), !.res = "none"]
    /\ UNCHANGED <<drv, isr, goal, rx>>
complete_status ==
    /\ Running("complete_status")
    /\ drv' = [drv EXCEPT !.status = @ \/ "OE" \in app.s]
    /\ app' = [app EXCEPT !.pc = "complete_size"]
    /\ UNCHANGED <<dev, isr, goal, rx>>
\* Mutant: only the transmitter is asked.
complete_size_ignored ==
    /\ Running("complete_size")
    /\ LET done == "TEMT" \in app.s
       IN app' = [app EXCEPT !.pc = "idle", !.s = {}, !.busy = @ /\ ~done,
                             !.res = IF done THEN "complete" ELSE "pending"]
    /\ UNCHANGED <<dev, drv, isr, goal, rx>>
complete_size ==
    /\ Running("complete_size")
    /\ LET done == drv.tx_buff_size = 0 /\ "TEMT" \in app.s
       IN app' = [app EXCEPT !.pc = "idle", !.s = {}, !.busy = @ /\ ~done,
                             !.res = IF done THEN "complete" ELSE "pending"]
    /\ UNCHANGED <<dev, drv, isr, goal, rx>>
UART_tx_complete == complete_call \/ complete_status \/ complete_size

\* UART_set_rx_handler: FCR and IIR share an address, so the value masked
\* and written back is the interrupt identification.
set_rx_call ==
    /\ Calls("set_rx_handler") /\ ~drv.rx_handler /\ MaySend
    /\ drv' = [drv EXCEPT !.rx_handler = TRUE]
    /\ app' = [app EXCEPT !.pc = "fcr_put", !.s = IIRBits(dev), !.res = "none"]
    /\ dev' = ReadIIR(dev)
    /\ UNCHANGED <<isr, goal, rx>>
set_rx_fcr ==
    /\ Running("fcr_put")
    /\ \E level \in {1, FifoSize} : dev' = WriteFCR(dev, app.s, level)
    /\ app' = [app EXCEPT !.pc = "ier_get", !.s = {"RDA"}]
    /\ UNCHANGED <<drv, isr, goal, rx>>
UART_set_rx_handler == set_rx_call \/ set_rx_fcr

\* UART_enable_irq: the PLIC first, then the RMW of IER.
UART_enable_irq ==
    /\ Calls("enable_irq") /\ MaySend /\ (Patient => drv.rx_handler)
    /\ drv' = [drv EXCEPT !.plic = TRUE]
    /\ \E m \in Masks : app' = [app EXCEPT !.pc = "ier_get", !.s = m, !.res = "none"]
    /\ UNCHANGED <<dev, isr, goal, rx>>

\* UART_get_rx in polled mode: status, byte, status, byte ...
get_rx_call ==
    /\ Calls("get_rx")
    /\ app' = [app EXCEPT !.pc = "rx_lsr", !.res = "none"]
    /\ UNCHANGED <<dev, drv, isr, goal, rx>>
get_rx_lsr ==
    /\ Running("rx_lsr")
    /\ dev' = ReadLSR(dev)
    /\ app' = [app EXCEPT !.pc = "rx_status", !.s = LSR(dev)]
    /\ UNCHANGED <<drv, isr, goal, rx>>
\* Mutant: the status read with a byte is not accumulated.
get_rx_status_dropped ==
    /\ Running("rx_status")
    /\ IF "DR" \in app.s THEN app' = [app EXCEPT !.pc = "rx_rbr", !.s = {}] ELSE Return("none")
    /\ UNCHANGED <<dev, drv, isr, goal, rx>>
get_rx_status ==
    /\ Running("rx_status")
    /\ drv' = [drv EXCEPT !.status = @ \/ "OE" \in app.s]
    /\ IF "DR" \in app.s THEN app' = [app EXCEPT !.pc = "rx_rbr"] ELSE Return("none")
    /\ UNCHANGED <<dev, isr, goal, rx>>
get_rx_rbr ==
    /\ Running("rx_rbr")
    /\ dev' = ReadRBR(dev)
    /\ rx' = [rx EXCEPT !.got = Append(@, RBR(dev))]
    /\ app' = [app EXCEPT !.pc = "rx_lsr", !.s = {}]
    /\ UNCHANGED <<drv, isr, goal>>
UART_get_rx == get_rx_call \/ get_rx_lsr \/ get_rx_status \/ get_rx_rbr

\* UART_get_rx_status: status |= LSR, take it, clear it.
rx_status_call ==
    /\ Calls("get_rx_status")
    /\ dev' = ReadLSR(dev)
    /\ app' = [app EXCEPT !.pc = "sticky_put", !.t = drv.status \/ dev.oe, !.res = "none"]
    /\ UNCHANGED <<drv, isr, goal, rx>>
rx_status_put ==
    /\ Running("sticky_put")
    /\ drv' = [drv EXCEPT !.status = app.t]
    /\ app' = [app EXCEPT !.pc = "sticky_get"]
    /\ UNCHANGED <<dev, isr, goal, rx>>
rx_status_get ==
    /\ Running("sticky_get")
    /\ app' = [app EXCEPT !.pc = "sticky_clear", !.t = drv.status]
    /\ UNCHANGED <<dev, drv, isr, goal, rx>>
rx_status_clear ==
    /\ Running("sticky_clear")
    /\ drv' = [drv EXCEPT !.status = FALSE]
    /\ rx' = [rx EXCEPT !.told = @ \/ app.t]
    /\ Return("none")
    /\ UNCHANGED <<dev, isr, goal>>
UART_get_rx_status == rx_status_call \/ rx_status_put \/ rx_status_get \/ rx_status_clear

Application ==
    \/ UART_irq_tx \/ ier_get \/ ier_put \/ UART_polled_tx \/ write \/ UART_fill_tx_fifo
    \/ UART_tx_complete \/ UART_set_rx_handler \/ UART_enable_irq
    \/ UART_get_rx \/ UART_get_rx_status

-----------------------------------------------------------------------------
(* The service routine.                                                    *)
\* The machine external interrupt.  The vector table has no entry for it
\* and nothing calls uart_isr: __no_irq_handler prints for ever.  Dispatch
\* stands for a platform that calls uart_isr as its comment says.
interrupt ==
    /\ isr.pc = "off" /\ drv.plic /\ INT(dev)
    /\ isr' = [isr EXCEPT !.pc = IF Dispatch THEN "iir" ELSE "no_irq_handler"]
    /\ UNCHANGED <<dev, drv, app, goal, rx>>

\* Mutant: the character timeout is not a case of its own.
uart_isr_no_timeout ==
    /\ isr.pc = "iir"
    /\ dev' = ReadIIR(dev)
    /\ isr' = [isr EXCEPT !.pc = CASE IIR(dev) = 2                    -> "tx"
                                   [] IIR(dev) = 4 /\ drv.rx_handler -> "rx"
                                   [] OTHER                           -> "off"]
    /\ UNCHANGED <<drv, app, goal, rx>>

\* The switch over IIR; no handler can be installed for line status.
uart_isr ==
    /\ isr.pc = "iir"
    /\ dev' = ReadIIR(dev)
    /\ isr' = [isr EXCEPT !.pc = CASE IIR(dev) = 2                           -> "tx"
                                   [] IIR(dev) \in {4, 12} /\ drv.rx_handler -> "rx"
                                   [] OTHER                                  -> "off"]
    /\ UNCHANGED <<drv, app, goal, rx>>

\* Mutant: the FIFO depth does not bound a fill.
fill_size_uncapped == IF drv.tx_idx > drv.tx_buff_size THEN FifoSize
                      ELSE drv.tx_buff_size - drv.tx_idx

\* default_tx_handler.  tx_remain is unsigned: an index past the size wraps
\* to a number far above the FIFO's depth.
fill_size == IF drv.tx_idx > drv.tx_buff_size THEN FifoSize
             ELSE MinOf(FifoSize, drv.tx_buff_size - drv.tx_idx)
default_tx_handler ==
    /\ isr.pc = "tx"
    /\ IF drv.tx_buffer # 0 /\ drv.tx_buff_size > 0
       THEN /\ dev' = ReadLSR(dev)
            /\ drv' = [drv EXCEPT !.status = @ \/ dev.oe]
            /\ isr' = [pc |-> "tx_fill", cnt |-> IF "THRE" \in LSR(dev) THEN fill_size ELSE 0]
       ELSE isr' = [isr EXCEPT !.pc = "off"] /\ UNCHANGED <<dev, drv>>
    /\ UNCHANGED <<app, goal, rx>>
default_tx_fill ==
    /\ isr.pc = "tx_fill" /\ isr.cnt > 0
    /\ dev' = WriteTHR(dev, <<drv.tx_buffer, drv.tx_idx + 1>>)
    /\ drv' = [drv EXCEPT !.tx_idx = @ + 1]
    /\ isr' = [isr EXCEPT !.cnt = @ - 1]
    /\ UNCHANGED <<app, goal, rx>>
default_tx_end ==
    /\ isr.pc = "tx_fill" /\ isr.cnt = 0
    /\ IF drv.tx_idx = drv.tx_buff_size
       THEN /\ drv' = [drv EXCEPT !.tx_buff_size = 0]
            /\ dev' = WriteIER(dev, dev.ier \ {"THRE"})
       ELSE UNCHANGED <<dev, drv>>
    /\ isr' = [isr EXCEPT !.pc = "off"]
    /\ UNCHANGED <<app, goal, rx>>

\* Mutant: the handler looks at the status and leaves the bytes.
rx_handler_leaves ==
    /\ isr.pc = "rx"
    /\ dev' = ReadLSR(dev)
    /\ drv' = [drv EXCEPT !.status = @ \/ dev.oe]
    /\ isr' = [isr EXCEPT !.pc = "off"]
    /\ UNCHANGED <<app, goal, rx>>

\* The documented receive handler: one call of UART_get_rx.
rx_handler_lsr ==
    /\ isr.pc = "rx"
    /\ dev' = ReadLSR(dev)
    /\ drv' = [drv EXCEPT !.status = @ \/ dev.oe]
    /\ isr' = [isr EXCEPT !.pc = IF dev.rxq # <<>> THEN "rx_rbr" ELSE "off"]
    /\ UNCHANGED <<app, goal, rx>>
rx_handler_rbr ==
    /\ isr.pc = "rx_rbr"
    /\ dev' = ReadRBR(dev)
    /\ rx' = [rx EXCEPT !.got = Append(@, RBR(dev))]
    /\ isr' = [isr EXCEPT !.pc = "rx"]
    /\ UNCHANGED <<drv, app, goal>>

Service == \/ uart_isr \/ default_tx_handler \/ default_tx_fill \/ default_tx_end
           \/ rx_handler_lsr \/ rx_handler_rbr

-----------------------------------------------------------------------------
(* The device on its own.                                                  *)
Transmitter ==
    /\ \/ CanTxStart(dev) /\ dev' = TxStart(dev)
       \/ CanTxEnd(dev) /\ dev' = TxEnd(dev)
    /\ UNCHANGED <<drv, app, isr, goal, rx>>

Receiver ==
    /\ \/ /\ rx.arrived < RxMax
          /\ dev' = RxByte(dev, rx.arrived + 1)
          /\ rx' = [rx EXCEPT !.arrived = @ + 1, !.lost = @ \/ RxFull(dev)]
       \/ /\ CanTimeout(dev)
          /\ dev' = CharTimeout(dev)
          /\ UNCHANGED rx
    /\ UNCHANGED <<drv, app, isr, goal>>

Next == Application \/ interrupt \/ Service \/ Transmitter \/ Receiver

\* The hart executes instructions and takes pending interrupts, the shift
\* register advances with the baud clock, the timeout counter with it.
Fairness == /\ WF_vars(Application) /\ WF_vars(interrupt) /\ WF_vars(Service)
            /\ WF_vars(Transmitter) /\ WF_vars(Receiver)

Spec == Init /\ [][Next]_vars /\ Fairness
-----------------------------------------------------------------------------
(* Properties.                                                             *)

\* What has been put on the line or into the device, in order.
OnTheWay == dev.out \o dev.tsr \o dev.txq

\* Types of the state.
TypeOK ==
    /\ dev.ier \subseteq {"RDA", "THRE", "LS"}
    /\ {dev.thi, dev.fifoEn, dev.cti, dev.oe} \subseteq BOOLEAN
    /\ dev.tsr \in Seq(Byte) /\ Len(dev.tsr) <= 1
    /\ dev.txq \in Seq(Byte) /\ Len(dev.txq) <= FifoSize /\ Len(dev.rxq) <= FifoSize
    /\ drv.tx_buffer \in 0..Len(BufSize) /\ drv.tx_buff_size \in Nat /\ drv.tx_idx \in Nat
    /\ isr.cnt \in 0..FifoSize
    /\ rx.arrived \in 0..RxMax

\* Every byte the driver accepted goes out once, in the order of the calls
\* (UART_irq_tx, UART_polled_tx, _write): nothing is lost in the FIFO,
\* repeated or read from beyond the buffer.
WireOrder == IsPrefix(OnTheWay, goal)

\* When UART_tx_complete says so, the whole buffer has left memory: it is
\* safe to reuse it.
CompleteMeansCopied == app.res = "complete" => OnTheWay = goal

\* An interrupt-driven transmit runs to its end: the size is cleared and
\* every byte reaches the line.
Transmits == (drv.tx_buff_size > 0) ~> (drv.tx_buff_size = 0 /\ dev.out = goal)

\* Bytes in the receive FIFO are read once a receive handler is installed,
\* below the trigger level too (character timeout).
Receives == (drv.rx_handler /\ dev.rxq # <<>>) ~> (dev.rxq = <<>>)

\* A driver call the application is in returns: no enabled interrupt keeps
\* the service routine running for ever.
CallsReturn == (app.pc # "idle") ~> (app.pc = "idle")

\* Without interrupts an overrun is still in the line status, or in the
\* sticky status, or on its way there, or was reported by UART_get_rx_status,
\* although every other call that reads the line status clears it (the polled
\* transmits, which drop it, excepted).
ErrorsKept ==
    rx.lost /\ ~drv.plic /\ app.ops \cap {"polled_tx", "write"} = {}
    => dev.oe \/ drv.status \/ rx.told \/ app.t \/ "OE" \in app.s

\* uart.h on UART_tx_complete: transfer to the FIFO and transmission over
\* the serial line are both complete when it returns non-zero.
CompleteMeansSent == app.res = "complete" => dev.out = goal

\* uart.c on UART_set_rx_handler: it sets the receive trigger level; FIFO
\* mode and the bytes waiting in the FIFOs stay as they are.
TriggerLevelOnly ==
    [][set_rx_fcr => dev'.fifoEn = dev.fifoEn /\ dev'.txq = dev.txq /\ dev'.rxq = dev.rxq]_vars

\* uart.h on UART_irq_tx: the default handler disables the transmit
\* interrupt when all the data has been transferred.
ThreDisabledWhenDone ==
    (app.pc = "idle" /\ isr.pc = "off" /\ drv.tx_buff_size = 0) => "THRE" \notin dev.ier
=============================================================================
