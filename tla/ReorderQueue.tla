---------------------------- MODULE ReorderQueue -----------------------------
(***************************************************************************)
(* What the scoreboard promises: a queue of the instructions in flight, in *)
(* program order.  Instructions enter at the tail, complete in any order,  *)
(* and retire only from the head, only when complete, at most two a cycle; *)
(* a flush discards everything that has not retired.                       *)
(***************************************************************************)
EXTENDS Naturals, Sequences

CONSTANTS Instr,      \* decoded instructions
          Capacity    \* instructions in flight

VARIABLE rob          \* [instr, done, ex], oldest first

Retired(n) == n <= Len(rob) /\ \A k \in 1 .. n : rob[k].done

\* An instruction in flight keeps its place; it may complete, never un-complete.
Progress(old, new) ==
    /\ new.instr = old.instr
    /\ old.done => new.done
    /\ old.ex => new.ex

RInit == rob = <<>>

RNext ==
    \/ rob' = <<>>
    \/ \E n \in 0 .. 2, m \in 0 .. 1 :
         /\ Retired(n)
         /\ Len(rob') = Len(rob) - n + m
         /\ Len(rob') <= Capacity
         /\ \A k \in 1 .. Len(rob) - n : Progress(rob[k + n], rob'[k])
         /\ m = 1 => rob'[Len(rob')].instr \in Instr

RSpec == RInit /\ [][RNext]_rob
=============================================================================
