----------------------------- MODULE SmpBarrier -----------------------------
(***************************************************************************)
(* How the boot ROM (startup.S with the macros of smp.h) parks all harts   *)
(* but hart 0, lets hart 0 load the image and then releases everybody, on  *)
(* the software interrupt registers of the CLINT (clint.sv).               *)
(*                                                                         *)
(*   pc, idx   per hart: where it is, and the register its loop has come   *)
(*             to (a word index: address = CLINT_CTRL_ADDR + 4 * idx)      *)
(*   msip      the software interrupt bits                                 *)
(*                                                                         *)
(* The code walks MaxHarts registers whatever the number of harts is.      *)
(* startup.S calls main and then smp_resume.  The main of this boot ROM    *)
(* does not come back: it jumps to the image itself, or spins when the     *)
(* image could not be loaded, and the other harts stay parked.  The        *)
(* macros are written for one that does; how main may end is a parameter.  *)
(***************************************************************************)
EXTENDS Naturals

CONSTANTS
    NrCores,   \* NR_CORES of the CLINT, the harts of the system
    SelSize,   \* 2^AddrSelWidth: the least power of two, at least 2, that holds NrCores
    MaxHarts,  \* MAX_HARTS of smp.h: 256
    MainEnds   \* where main leaves hart 0: {"jump", "spin"} in main.c, {"wake"} if it returns

ASSUME SmpAssumption ==
    /\ NrCores \in Nat \ {0} /\ SelSize \in Nat /\ MaxHarts \in Nat
    /\ SelSize >= 2 /\ SelSize >= NrCores
    /\ MaxHarts >= NrCores /\ MainEnds \subseteq {"wake", "jump", "spin"}

VARIABLES pc, idx, msip

vars == <<pc, idx, msip>>

Harts == 0..(NrCores - 1)

-----------------------------------------------------------------------------
(* The CLINT.  Its address range ends at 4 * NR_CORES inclusive, so the    *)
(* word after the last hart is decoded too: with a power of two of harts   *)
(* the truncated select hits hart 0.                                       *)
Decoded(w) == w <= NrCores
Select(w)  == w % SelSize

\* The register is in the low half of the 64-bit bus word.
LowHalf(w) == w % 2 = 0

WriteMsip(w, bit) ==
    IF Decoded(w) /\ Select(w) \in Harts THEN [msip EXCEPT ![Select(w)] = bit] ELSE msip

\* A write takes the half the address selects, but a read always puts the
\* bit in the low half, and the load unit shifts the bus word by the address:
\* a register in the high half reads 0.  A select beyond the vector reads an
\* undefined bit: 0 or any of the bits.
ReadMsip(w) ==
    IF ~Decoded(w) \/ ~LowHalf(w) THEN {FALSE}
    ELSE IF Select(w) \in Harts THEN {msip[Select(w)]}
    ELSE {FALSE} \cup {msip[h] : h \in Harts}

-----------------------------------------------------------------------------
Init ==
    /\ pc = [h \in Harts |-> IF h = 0 THEN "main" ELSE "wait"]   \* smp_pause
    /\ idx = [h \in Harts |-> 0]
    /\ msip = [h \in Harts |-> FALSE]

main ==
    /\ pc[0] = "main"
    /\ \E to \in MainEnds : pc' = [pc EXCEPT ![0] = to]
    /\ UNCHANGED <<idx, msip>>

\* smp_resume, first loop (hart 0 only): raise every hart's interrupt.
wake ==
    /\ pc[0] = "wake"
    /\ IF idx[0] < MaxHarts
       THEN msip' = WriteMsip(idx[0], TRUE) /\ idx' = [idx EXCEPT ![0] = @ + 1] /\ UNCHANGED pc
       ELSE pc' = [pc EXCEPT ![0] = "wait"] /\ UNCHANGED <<msip, idx>>

\* wfi until the own bit shows in mip, then clear it and start scanning.
wait(h) ==
    /\ pc[h] = "wait" /\ msip[h]
    /\ pc' = [pc EXCEPT ![h] = "clear"]
    /\ UNCHANGED <<idx, msip>>

\* Mutant: the scan starts at the second register.
clear_next_register(h) ==
    /\ pc[h] = "clear"
    /\ msip' = [msip EXCEPT ![h] = FALSE]
    /\ pc' = [pc EXCEPT ![h] = "scan"]
    /\ idx' = [idx EXCEPT ![h] = 1]

clear(h) ==
    /\ pc[h] = "clear"
    /\ msip' = [msip EXCEPT ![h] = FALSE]
    /\ pc' = [pc EXCEPT ![h] = "scan"]
    /\ idx' = [idx EXCEPT ![h] = 0]

\* Mutant: the label of the loop stands before the load of the base address.
scan_reload(h) ==
    /\ pc[h] = "scan"
    /\ IF idx[h] < MaxHarts
       THEN FALSE \in ReadMsip(idx[h]) /\ UNCHANGED <<idx, pc>>
       ELSE pc' = [pc EXCEPT ![h] = "run"] /\ UNCHANGED idx
    /\ UNCHANGED msip

\* Second loop: wait for every register, from the first on, to read zero.
scan(h) ==
    /\ pc[h] = "scan"
    /\ IF idx[h] < MaxHarts
       THEN FALSE \in ReadMsip(idx[h]) /\ idx' = [idx EXCEPT ![h] = @ + 1] /\ UNCHANGED pc
       ELSE pc' = [pc EXCEPT ![h] = "run"] /\ UNCHANGED idx
    /\ UNCHANGED msip

Hart(h) == wait(h) \/ clear(h) \/ scan(h)

\* Everybody is in the image, or hart 0 is and the others wait for ever.
Rest == /\ (\A h \in Harts : pc[h] = "run") \/ pc[0] \in {"jump", "spin"}
        /\ UNCHANGED vars

Next == main \/ wake \/ (\E h \in Harts : Hart(h)) \/ Rest

Spec == Init /\ [][Next]_vars /\ WF_vars(main \/ wake) /\ \A h \in Harts : WF_vars(Hart(h))

-----------------------------------------------------------------------------
(* Properties.                                                             *)

\* Types of the state.
TypeOK ==
    /\ pc \in [Harts -> {"main", "wake", "wait", "clear", "scan", "run", "jump", "spin"}]
    /\ idx \in [Harts -> 0..MaxHarts]
    /\ msip \in [Harts -> BOOLEAN]

\* A hart leaves smp_resume only when hart 0 is back from main and has raised
\* every interrupt, so that nobody sleeps on without one, and when every hart
\* with its register in the low half has taken its own and cleared it.
Barrier ==
    \A h \in Harts : pc[h] = "run" => \A g \in Harts :
        /\ pc[g] = "wait" => msip[g]
        /\ LowHalf(g) => pc[g] \in {"scan", "run"} /\ ~msip[g]

\* What the second loop is for, and what the read path of the CLINT breaks:
\* every hart has cleared its interrupt before any goes on.
FullBarrier ==
    \A h, g \in Harts : pc[h] = "run" => pc[g] \in {"scan", "run"} /\ ~msip[g]

\* If main comes back, every hart gets out of the boot ROM.
AllReleased == (pc[0] = "wake") ~> (\A h \in Harts : pc[h] = "run")

\* Hart 0 has raised the interrupt of g.
Woken(g) == pc[0] \in {"wait", "clear", "scan", "run"} \/ g < idx[0]

\* The inductive strengthening of Barrier.  A hart that is not woken yet has
\* not moved; a woken one has its bit set until it clears it, for good.  So
\* the bit of hart 0 holds every scan at register 0 until hart 0 has raised
\* them all, and a hart past register g in its scan knows that g has cleared
\* its bit if g's register can be read.
BarrierInv ==
    /\ \A g \in Harts : pc[g] \in {"main", "wake", "jump", "spin"} => g = 0
    /\ pc[0] \in {"main", "jump", "spin"} => idx[0] = 0
    /\ \A g \in Harts : ~Woken(g) => ~msip[g] /\ pc[g] \notin {"clear", "scan", "run"}
    /\ \A g \in Harts : Woken(g) => (msip[g] <=> pc[g] \in {"wake", "wait", "clear"})
    /\ \A g, h \in Harts : pc[g] = "scan" /\ h < idx[g] =>
         pc[0] \in {"scan", "run"} /\ (LowHalf(h) => pc[h] \in {"scan", "run"})
    /\ \A g, h \in Harts : pc[g] = "run" =>
         pc[0] \in {"scan", "run"} /\ (LowHalf(h) => pc[h] \in {"scan", "run"})
=============================================================================
