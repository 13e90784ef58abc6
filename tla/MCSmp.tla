------------------------------- MODULE MCSmp --------------------------------
(* SmpBarrier with 4 harts on 4 selects, where the register after the last *)
(* aliases hart 0; MAX_HARTS exceeds the harts.                            *)
EXTENDS SmpBarrier
=============================================================================
