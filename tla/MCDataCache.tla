---------------------------- MODULE MCDataCache -----------------------------
(* Workloads for DataCache: two words of different lines, which compete    *)
(* for the one place of the model's cache, and two words of one line,      *)
(* which lie in different banks.  Evict: the other line is loaded only and *)
(* takes the place of a line with buffered stores.  Lines2: stores to both *)
(* lines, loads of one.                                                    *)
EXTENDS DataCache

Near  == <<0, 0>>
Bank  == <<0, 1>>
Far   == <<1, 0>>
MCWords == {Near, Bank, Far}

Work(words, stores, enable, atomics) ==
    [loads |-> words, stores |-> stores, enable |-> enable, atomics |-> atomics]

Evict  == Work({Near, Far}, [word : {Near}, be : {{0}}], FALSE, FALSE)
Lines2 == Work({Near}, [word : {Near, Far}, be : {{0}}], FALSE, FALSE)
Banks2 == Work({Near, Bank}, [word : {Near, Bank}, be : {{0}}], FALSE, FALSE)
Modes  == Work({Near, Far}, [word : {Near}, be : {{0}}], TRUE, TRUE)
Parts  == Work({Near, Far}, [word : {Near}, be : {{0}, {0, 1}}], FALSE, FALSE)
Locks  == Work({Near, Far}, [word : {Near, Far}, be : {{0}}], FALSE, TRUE)

MCCoherent == {Evict, Lines2, Banks2, Modes}
MCServed == {Parts, Locks}
=============================================================================
