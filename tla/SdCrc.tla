------------------------------- MODULE SdCrc --------------------------------
(***************************************************************************)
(* The checksums of the SD protocol as sd.c computes them, byte by byte,   *)
(* next to the polynomials its comments name.  A block travels from the    *)
(* card, which appends the CRC of what it sent, to sd_copy, which runs     *)
(* crc16 over what arrived; one burst of errors may strike on the way.     *)
(***************************************************************************)
EXTENDS Integers, SequencesExt, Bitwise

CONSTANTS
    BlockLen,  \* bytes of a block, 512 in sd_copy
    Data,      \* the bytes a block is made of
    Errors     \* the patterns by which a byte may be changed

ASSUME CrcAssumption ==
    BlockLen \in Nat /\ Data \subseteq 0..255 /\ Errors \subseteq 1..255

Shl(x, k, w) == (x * 2^k) % 2^w
Shr(x, k)    == x \div 2^k

-----------------------------------------------------------------------------
(* sd.c.                                                                   *)
\* Mutant: the middle shift is by 11.
crc16_shift(c, data) ==
    LET a == (Shr(c, 8) | Shl(c, 8, 16)) ^^ data
        b == a ^^ (Shr(a, 4) & 15)
        d == b ^^ Shl(b, 11, 16)
    IN d ^^ Shl(d & 255, 5, 16)

crc16(c, data) ==
    LET a == (Shr(c, 8) | Shl(c, 8, 16)) ^^ data
        b == a ^^ (Shr(a, 4) & 15)
        d == b ^^ Shl(b, 12, 16)
    IN d ^^ Shl(d & 255, 5, 16)

crc7(prev, in) ==
    LET r == prev & in
        s == r ^^ (Shr(r, 4) ^^ Shr(r, 7))
    IN (s ^^ Shl(s, 4, 8)) & 127

-----------------------------------------------------------------------------
(* The polynomials: one step of long division per bit, most significant    *)
(* bit of the byte first.  width is the degree, poly the rest of it.       *)
ShiftBit(r, bit, width, poly) ==
    LET out == Shr(r, width - 1) ^^ bit
    IN IF out = 1 THEN Shl(r, 1, width) ^^ poly ELSE Shl(r, 1, width)
Remainder(r, byte, width, poly) ==
    LET After[k \in 0..8] ==
          IF k = 0 THEN r
          ELSE ShiftBit(After[k - 1], Shr(byte, 8 - k) % 2, width, poly)
    IN After[8]

-----------------------------------------------------------------------------
\* What sd_copy computes over the bytes that arrived, and what the card
\* appended to the bytes it sent.
Received(block) == FoldLeft(crc16, 0, block)
Sent(block) == FoldLeft(LAMBDA r, x : Remainder(r, x, 16, 4129), 0, block)
\* The block after a burst that changes byte k by e and the next one by f.
Burst(block, k, e, f) ==
    [j \in 1..BlockLen |-> block[j] ^^ (IF j = k THEN e ELSE IF j = k + 1 THEN f ELSE 0)]

-----------------------------------------------------------------------------
\* crc16 is the remainder modulo 0x11021: the comparison at the end of a
\* block in sd_copy accepts the block if it arrived unharmed, and refuses it
\* after a burst within two adjacent bytes, wherever it struck and whatever
\* follows it.
ChecksumExact ==
    \A block \in [1..BlockLen -> Data], k \in 1..BlockLen :
        \A e, f \in Errors \cup {0} :
            LET arrived == Burst(block, k, e, f)
            IN Received(arrived) = Sent(block) <=> arrived = block

\* What the comment in crc7 says: the remainder modulo 0x89.
Crc7IsPolynomial ==
    \A block \in [1..BlockLen -> Data] :
        FoldLeft(crc7, 0, block) = FoldLeft(LAMBDA r, x : Remainder(r, x, 7, 9), 0, block)
=============================================================================
