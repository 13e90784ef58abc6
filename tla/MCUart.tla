------------------------------- MODULE MCUart -------------------------------
(* Instances of UartDriver.  FifoSize = 2 stands for the 16 bytes of the   *)
(* hardware; a buffer of 3 needs two fills, one of 1 less than one fill.   *)
EXTENDS UartDriver

Transmitting == {"irq_tx", "polled_tx", "tx_complete", "set_rx_handler"}
Printing     == {"write", "tx_complete"}
Receiving    == {"set_rx_handler", "enable_irq", "irq_tx", "tx_complete"}
Polling      == {"get_rx", "get_rx_status", "fill", "tx_complete"}

MCPrograms == {Transmitting, Printing, Receiving, Polling}
MCStarting == {{"irq_tx", "tx_complete"}}
MCSends    == <<3, 1, 2>>
MCOneSend  == <<2>>
MCNoMask   == {}
MCRxMask   == {{"RDA"}}
=============================================================================
