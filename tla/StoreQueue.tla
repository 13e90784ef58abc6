----------------------------- MODULE StoreQueue -----------------------------
(***************************************************************************)
(* What the store buffer promises the rest of the core: two FIFO queues.   *)
(* Stores enter the speculative queue in program order; a flush empties it *)
(* and nothing else; a commit moves the oldest speculative store to the    *)
(* tail of the committed queue; the memory takes committed stores strictly *)
(* from its head.  Nothing is lost, duplicated, reordered or revived.      *)
(* One step is one clock cycle, in which all of these may happen at once.  *)
(***************************************************************************)
EXTENDS Naturals, Sequences

CONSTANTS Store,       \* what a store carries: address, data, byte enables
          SpecCap,     \* capacity of the speculative queue
          CommitCap    \* capacity of the committed queue

VARIABLES spec,        \* stores executed but not yet committed, oldest first
          comm         \* stores committed but not yet taken by the memory

qvars == <<spec, comm>>

QInit == spec = <<>> /\ comm = <<>>

(***************************************************************************)
(* push: the stores pushed this cycle (at most one); flush: the pipeline   *)
(* is flushed; commit: the oldest speculative store commits; take: the     *)
(* memory takes the oldest committed store.                                *)
(***************************************************************************)
QCycle(push, flush, commit, take) ==
    /\ commit => spec # <<>> /\ Len(comm) < CommitCap
    /\ take => comm # <<>>
    /\ push # <<>> => Len(spec) < SpecCap
    /\ spec' = IF flush THEN <<>>
               ELSE (IF commit THEN Tail(spec) ELSE spec) \o push
    /\ comm' = (IF take THEN Tail(comm) ELSE comm)
                   \o (IF commit THEN <<Head(spec)>> ELSE <<>>)

QNext ==
    \E push \in {<<>>} \cup {<<s>> : s \in Store} :
    \E flush, commit, take \in BOOLEAN :
        /\ ~(flush /\ commit)
        /\ QCycle(push, flush, commit, take)

QSpec == QInit /\ [][QNext]_qvars
=============================================================================
