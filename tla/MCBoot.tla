------------------------------- MODULE MCBoot -------------------------------
(* Instances of BootLoader and SdCrc: the table at block 2 of the card, an *)
(* image of 40 blocks at block 40; four attempts of CMD0 stand for 10000.  *)
(* The checksum is computed over blocks of three bytes; the errors are     *)
(* single bits at the ends and in the middle of a byte and a whole byte.   *)
EXTENDS BootLoader, SdCrc
MCData == {0, 165}
MCErrors == {1, 16, 128, 255}

\* What BootLoader takes for granted of sd_copy while it receives a block:
\* an intact block passes and a damaged one (Junk) is noticed, because crc16
\* is the polynomial remainder the card computes.
BlockChecked == pc = "block" => ChecksumExact
=============================================================================
