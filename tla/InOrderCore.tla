----------------------------- MODULE InOrderCore -----------------------------
(***************************************************************************)
(* What the back end of the core promises the program: one window of       *)
(* instructions in program order and one queue of stores on their way to   *)
(* memory.  Instructions complete in any order but retire from the head    *)
(* only, complete and without exception, at most two a cycle; a store goes *)
(* to memory in the very step in which it retires, never before and never  *)
(* without it.  A flush discards what has not retired and nothing else.    *)
(***************************************************************************)
EXTENDS Naturals, Sequences

CONSTANT Capacity     \* instructions in flight

VARIABLES window,     \* [id, store, done, ex], oldest first
          outgoing    \* ids of the retired stores that memory has not taken

pvars == <<window, outgoing>>

PInit == window = <<>> /\ outgoing = <<>>

\* An instruction in flight keeps its identity; it may complete.
Advances(old, new) ==
    /\ new.id = old.id /\ new.store = old.store
    /\ new.ex <=> old.ex
    /\ old.done => new.done

\* The n oldest may retire together: none of them traps, and at most the
\* oldest one is a store.
Retirable(n) ==
    /\ n <= Len(window)
    /\ \A k \in 1 .. n : window[k].done /\ ~window[k].ex
    /\ \A k \in 2 .. n : ~window[k].store

\* The store among the n oldest.
Stored(n) == IF n > 0 /\ window[1].store THEN <<window[1].id>> ELSE <<>>

\* n instructions have left and m have come; a new one is complete only if
\* it traps.
Shifts(n, m) ==
    /\ Len(window') = Len(window) - n + m
    /\ Len(window') <= Capacity
    /\ \A k \in 1 .. Len(window) - n : Advances(window[k + n], window'[k])
    /\ \A k \in Len(window) - n + 1 .. Len(window') : window'[k].done => window'[k].ex

PNext ==
    \E n \in 0 .. 2, m \in 0 .. 1, flush, take \in BOOLEAN :
        /\ Retirable(n)
        /\ take => outgoing # <<>>
        /\ outgoing' = (IF take THEN Tail(outgoing) ELSE outgoing) \o Stored(n)
        /\ IF flush THEN window' = <<>> ELSE Shifts(n, m)

PSpec == PInit /\ [][PNext]_pvars
=============================================================================
