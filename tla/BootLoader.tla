----------------------------- MODULE BootLoader -----------------------------
(***************************************************************************)
(* The FPGA boot loader: main, gpt_find_boot_partition, init_sd and        *)
(* sd_copy, with the SD card they talk to.  The card is external: it       *)
(* answers a command within the polls sd_cmd allows or stays silent, it    *)
(* needs some time to leave its idle state, and a faulty one may miss or   *)
(* refuse commands and deliver blocks whose checksum does not match.       *)
(*                                                                         *)
(*   pc     the function the loader is in                                  *)
(*   tries  attempts left in sd_cmd0                                       *)
(*   copy   the running sd_copy: destination, first block, blocks left i,  *)
(*          the destination index p, rc                                    *)
(*   mem    what each destination holds: the card's block, or Junk         *)
(*   card   mode of the card, the block it sends next, whether it is       *)
(*          faulty, whether it has missed a CMD12                          *)
(*                                                                         *)
(* A block is represented by its number on the card; Junk is contents      *)
(* that differ from the card's (their checksum fails).                     *)
(***************************************************************************)
EXTENDS Integers, Sequences

CONSTANTS
    Cmd0Tries,    \* 10000 in sd_cmd0
    ImageBlocks,  \* size argument: 2 * 16384
    TableLba,     \* partition_entries_lba in the header of block 1
    BootLba,      \* first_lba of the first partition entry
    StrayLbas     \* what other blocks may hold in the place of first_lba

ASSUME BootAssumption ==
    /\ Cmd0Tries \in Nat \ {0} /\ ImageBlocks \in Nat \ {0}
    /\ TableLba \in Nat /\ BootLba \in Nat
    /\ StrayLbas \subseteq Nat /\ StrayLbas # {}

VARIABLES pc, tries, copy, mem, card

vars == <<pc, tries, copy, mem, card>>

Dests == {"lba1_buf", "lba2_buf", "dest"}
Blocks(d) == IF d = "dest" THEN ImageBlocks ELSE 1
Junk == -1
NoCopy == [dst |-> "lba1_buf", lba |-> 0, i |-> 0, p |-> 0, rc |-> 0]

Init ==
    /\ pc = "cmd0" /\ tries = Cmd0Tries
    /\ copy = NoCopy
    /\ mem = [d \in Dests |-> [k \in 0..(Blocks(d) - 1) |-> Junk]]
    /\ \E f \in BOOLEAN : card = [mode |-> "off", lba |-> 0, faulty |-> f, missed |-> FALSE]

-----------------------------------------------------------------------------
(* The card, external: what it answers to each command.                    *)
\* Replies of a card in the given mode; "ff" is silence (bit 7 stays set).
Cmd0Replies == {"idle"} \cup (IF card.faulty THEN {"ff"} ELSE {})
Cmd8Replies == {"match"} \cup (IF card.faulty THEN {"ff", "other"} ELSE {})
Cmd41Replies == (IF card.mode = "ready" THEN {"ok"} ELSE {"idle"})
                \cup (IF card.faulty THEN {"ff"} ELSE {})
Cmd18Replies == {"ok"} \cup (IF card.faulty THEN {"ff"} ELSE {})
Cmd12Replies == {"ok"} \cup (IF card.faulty THEN {"ff"} ELSE {})

\* The block a read begins with.  A card that missed CMD12 is still sending:
\* what sd_cmd takes for the reply to CMD18 is a byte of its data, and unless
\* the card hears the command the stream goes on, with the block under way or
\* with the next one.
Begins == {copy.lba} \cup (IF card.mode = "reading" THEN {card.lba, card.lba + 1} ELSE {})

\* The card finishes its own initialisation after it was told to start.
PowerUp == /\ card.mode = "busy"
           /\ card' = [card EXCEPT !.mode = "ready"]
           /\ UNCHANGED <<pc, tries, copy, mem>>

-----------------------------------------------------------------------------
(* init_sd.                                                                *)
Fail == pc' = "halt"

\* Mutant: the attempts are counted afresh in every round.
sd_cmd0_fresh_counter ==
    /\ pc = "cmd0"
    /\ \E r \in Cmd0Replies :
         /\ tries' = IF tries = 1 THEN Cmd0Tries ELSE tries - 1
         /\ card' = IF r = "idle" THEN [card EXCEPT !.mode = "idle"] ELSE card
         /\ pc' = IF r = "idle" THEN "cmd8" ELSE "cmd0"
    /\ UNCHANGED <<copy, mem>>

\* sd_cmd0: the budget is tested after the attempt, so an answer to the
\* last attempt counts as a failure.
sd_cmd0 ==
    /\ pc = "cmd0"
    /\ \E r \in Cmd0Replies :
         /\ tries' = tries - 1
         /\ card' = IF r = "idle" THEN [card EXCEPT !.mode = "idle"] ELSE card
         /\ \/ tries' <= 0 /\ Fail
            \/ tries' > 0 /\ pc' = (IF r = "idle" THEN "cmd8" ELSE "cmd0")
    /\ UNCHANGED <<copy, mem>>

sd_cmd8 ==
    /\ pc = "cmd8"
    /\ \E r \in Cmd8Replies : IF r = "match" THEN pc' = "acmd41" ELSE Fail
    /\ UNCHANGED <<tries, copy, mem, card>>

\* Mutant: idle is taken for a failure instead of asking again.
sd_acmd41_once ==
    /\ pc = "acmd41"
    /\ \E r \in Cmd41Replies :
         IF r = "ok" THEN pc' = "gpt_header" ELSE Fail
    /\ UNCHANGED <<tries, copy, mem, card>>

\* sd_acmd41: repeats as long as the card says idle.
sd_acmd41 ==
    /\ pc = "acmd41"
    /\ \E r \in Cmd41Replies :
         CASE r = "idle" -> pc' = "acmd41" /\ card' = [card EXCEPT !.mode = "busy"]
           [] r = "ok"   -> pc' = "gpt_header" /\ UNCHANGED card
           [] OTHER      -> Fail /\ UNCHANGED card
    /\ UNCHANGED <<tries, copy, mem>>

init_sd == sd_cmd0 \/ sd_cmd8 \/ sd_acmd41

-----------------------------------------------------------------------------
(* sd_copy.  (The checksum byte of CMD18 is not modelled: crc7 makes it 1   *)
(* for every address, and in SPI mode the card does not look at it.)       *)
Call(dst, lba, size) ==
    /\ copy' = [dst |-> dst, lba |-> lba, i |-> size, p |-> 0, rc |-> 0]
    /\ pc' = "cmd18"
    /\ UNCHANGED <<tries, mem, card>>

sd_cmd18 ==
    /\ pc = "cmd18"
    /\ \E r \in Cmd18Replies, b \in Begins :
         IF r = "ok" THEN pc' = "block" /\ card' = [card EXCEPT !.mode = "reading", !.lba = b]
                          /\ UNCHANGED copy
                     ELSE pc' = "return" /\ copy' = [copy EXCEPT !.rc = -1] /\ UNCHANGED card
    /\ UNCHANGED <<tries, mem>>

\* Mutant: a block with a bad checksum ends the copy without an error.
sd_copy_block_no_rc ==
    /\ pc = "block"
    /\ \E b \in {card.lba} \cup (IF card.faulty THEN {Junk} ELSE {}) :
         /\ mem' = [mem EXCEPT ![copy.dst][copy.p] = b]
         /\ copy' = [copy EXCEPT !.p = @ + 1, !.i = @ - 1]
         /\ pc' = IF b # Junk /\ copy.i - 1 > 0 THEN "block" ELSE "cmd12"
    /\ card' = [card EXCEPT !.lba = @ + 1]
    /\ UNCHANGED tries

\* Mutant: a checksum error returns at once.
sd_copy_block_early_return ==
    /\ pc = "block"
    /\ \E b \in {card.lba} \cup (IF card.faulty THEN {Junk} ELSE {}) :
         /\ mem' = [mem EXCEPT ![copy.dst][copy.p] = b]
         /\ IF b = Junk
            THEN copy' = [copy EXCEPT !.p = @ + 1, !.rc = -2] /\ pc' = "return"
            ELSE /\ copy' = [copy EXCEPT !.p = @ + 1, !.i = @ - 1]
                 /\ pc' = IF copy.i - 1 > 0 THEN "block" ELSE "cmd12"
    /\ card' = [card EXCEPT !.lba = @ + 1]
    /\ UNCHANGED tries

\* Mutant: the destination is not advanced.
sd_copy_block_same_place ==
    /\ pc = "block"
    /\ \E b \in {card.lba} \cup (IF card.faulty THEN {Junk} ELSE {}) :
         /\ mem' = [mem EXCEPT ![copy.dst][copy.p] = b]
         /\ IF b = Junk
            THEN copy' = [copy EXCEPT !.rc = -2] /\ pc' = "cmd12"
            ELSE /\ copy' = [copy EXCEPT !.i = @ - 1]
                 /\ pc' = IF copy.i - 1 > 0 THEN "block" ELSE "cmd12"
    /\ card' = [card EXCEPT !.lba = @ + 1]
    /\ UNCHANGED tries

\* One block: token, 512 bytes stored as they arrive, checksum; a mismatch
\* leaves the loop with the bad bytes in memory.  The loop is a do-while.
sd_copy_block ==
    /\ pc = "block"
    /\ \E b \in {card.lba} \cup (IF card.faulty THEN {Junk} ELSE {}) :
         /\ mem' = [mem EXCEPT ![copy.dst][copy.p] = b]
         /\ IF b = Junk
            THEN copy' = [copy EXCEPT !.p = @ + 1, !.rc = -2] /\ pc' = "cmd12"
            ELSE /\ copy' = [copy EXCEPT !.p = @ + 1, !.i = @ - 1]
                 /\ pc' = IF copy.i - 1 > 0 THEN "block" ELSE "cmd12"
    /\ card' = [card EXCEPT !.lba = @ + 1]
    /\ UNCHANGED tries

\* The reply to CMD12 is not looked at.
sd_cmd12 ==
    /\ pc = "cmd12"
    /\ \E r \in Cmd12Replies :
         card' = IF r = "ok" THEN [card EXCEPT !.mode = "ready"] ELSE [card EXCEPT !.missed = TRUE]
    /\ pc' = "return"
    /\ UNCHANGED <<tries, copy, mem>>

sd_copy == sd_cmd18 \/ sd_copy_block \/ sd_cmd12

-----------------------------------------------------------------------------
(* gpt_find_boot_partition and main.                                       *)
gpt_header  == pc = "gpt_header" /\ Call("lba1_buf", 1, 1)
gpt_entries == /\ pc = "return" /\ copy.dst = "lba1_buf" /\ copy.rc = 0
               /\ Call("lba2_buf", TableLba, 1)
gpt_image   == /\ pc = "return" /\ copy.dst = "lba2_buf" /\ copy.rc = 0
               /\ \E lba \in IF mem["lba2_buf"][0] = TableLba THEN {BootLba} ELSE StrayLbas :
                    Call("dest", lba, ImageBlocks)
gpt_done    == /\ pc = "return"
               /\ copy.rc # 0 \/ copy.dst = "dest"
               /\ pc' = IF copy.rc = 0 THEN "jump" ELSE "halt"
               /\ UNCHANGED <<tries, copy, mem, card>>

\* The image runs, or main spins.
End == pc \in {"jump", "halt"} /\ UNCHANGED vars

Loader == init_sd \/ gpt_header \/ gpt_entries \/ gpt_image \/ gpt_done \/ sd_copy
Next == Loader \/ PowerUp \/ End

Spec == Init /\ [][Next]_vars /\ WF_vars(Loader) /\ WF_vars(PowerUp)

-----------------------------------------------------------------------------
(* Properties.                                                             *)

\* sd_copy is under way or has returned, up to the jump.
Copying == pc \in {"cmd18", "block", "cmd12", "return", "jump"}
Lba(d) == CASE d = "lba1_buf" -> 1 [] d = "lba2_buf" -> TableLba [] OTHER -> BootLba

\* The block the running copy began with.
Start == IF card.missed THEN mem[copy.dst][0] ELSE copy.lba

\* The blocks copied so far are consecutive blocks of the card, in place, and
\* only the last one may be bad, with the error recorded; unless the card has
\* missed a CMD12 they are the ones asked for, and the table and the image
\* are looked up in the right blocks; an attempt of CMD0 is made only with
\* budget left.  With StreamClosed it is inductive, and JumpOnlyLoaded follows.
CopyInv ==
    /\ pc = "cmd0" => tries > 0
    /\ Copying => copy.lba = Lba(copy.dst) \/ card.missed
    /\ pc \in {"cmd18", "block"} => copy.rc = 0 /\ copy.i = Blocks(copy.dst) - copy.p /\ copy.i > 0
    /\ pc = "cmd18" => copy.p = 0
    /\ pc = "block" => card.mode = "reading" /\ (copy.p > 0 \/ ~card.missed => card.lba = Start + copy.p)
    /\ pc = "cmd12" => copy.rc \in {0, -2}
    /\ pc \in {"cmd12", "return", "jump"} /\ copy.rc = 0 => copy.p = Blocks(copy.dst)
    /\ Copying => \A k \in 0..(copy.p - 1) :
         \/ mem[copy.dst][k] = Start + k /\ mem[copy.dst][k] # Junk
         \/ copy.rc = -2 /\ k = copy.p - 1
    /\ Copying /\ copy.dst = "lba1_buf" /\ pc # "return" => ~card.missed /\ copy.lba = 1
    /\ Copying /\ (copy.dst # "lba1_buf" \/ (pc = "return" /\ copy.rc = 0)) => mem["lba1_buf"][0] = 1
    /\ Copying /\ copy.dst = "dest" => mem["lba2_buf"][0] = TableLba \/ card.missed
    /\ pc = "jump" => copy.dst = "dest" /\ copy.rc = 0
    /\ ~Copying /\ pc # "halt" => ~card.missed

\* Type invariant.
TypeOK ==
    /\ pc \in {"cmd0", "cmd8", "acmd41", "gpt_header", "cmd18", "block", "cmd12",
               "return", "jump", "halt"}
    /\ tries \in 0..Cmd0Tries
    /\ copy \in [dst : Dests, lba : Nat, i : 0..ImageBlocks, p : 0..ImageBlocks, rc : {0, -1, -2}]
    /\ card \in [mode : {"off", "idle", "busy", "ready", "reading"}, lba : Nat,
                 faulty : BOOLEAN, missed : BOOLEAN]
    /\ DOMAIN mem = Dests
    /\ \A d \in Dests : mem[d] \in [0..(Blocks(d) - 1) -> Int]

\* main jumps into memory only when it holds consecutive, intact blocks of
\* the card, found through the verified header.  They are the boot partition's,
\* found through the verified table, unless the card missed a CMD12: nothing
\* in a block says which one it is.
JumpOnlyLoaded ==
    pc = "jump" =>
        /\ mem["lba1_buf"][0] = 1 /\ mem["dest"][0] # Junk
        /\ \A k \in 0..(ImageBlocks - 1) : mem["dest"][k] = mem["dest"][0] + k
        /\ ~card.missed => mem["lba2_buf"][0] = TableLba /\ mem["dest"][0] = BootLba

\* The card is taken out of its multi-block read on every way out of
\* sd_copy, the checksum error included, unless it misses the command.
StreamClosed == pc \notin {"block", "cmd12"} /\ card.mode = "reading" => card.missed

\* The loader ends: silence on a command other than CMD12, a refusal or a bad
\* block makes it give up.  The card is trusted in two places where the code waits without
\* a limit: it leaves its idle state (sd_acmd41), and once it has accepted
\* CMD18 it sends its data tokens (sd_copy).
Ends == <>(pc \in {"jump", "halt"})

\* With a card that works it starts the image.
Boots == ~card.faulty => <>(pc = "jump")
=============================================================================
