--------------------------- MODULE MCStoreBuffer ----------------------------
(* A small instance of StoreBuffer for TLC: two payloads of two page      *)
(* offsets, and one page offset that no store has.                        *)
EXTENDS StoreBuffer

CONSTANTS s0, s1

MCPageOffset == 0 .. 2
MCOffsetOf == [s \in {s0, s1} |-> IF s = s1 THEN 1 ELSE 0]
=============================================================================
