----------------------------- MODULE MCShmLock ------------------------------
(* Two tasks on core 0 and one on core 1, the smallest instance in which     *)
(* both levels of the lock have a waiter; one line is only touched under the *)
(* lock, the other is also written by core 1 without it.                     *)
EXTENDS ShmLock, TLC

CONSTANTS c0, c1, t1, t2, t3, l1, l2, v0, v1

MCCores == {c0, c1}
MCTasks == {t1, t2, t3}
MCCoreOf == (t1 :> c0) @@ (t2 :> c0) @@ (t3 :> c1)
MCVals == {v0, v1}
MCLines == {l1, l2}
MCPoked == {<<c1, l2>>}
=============================================================================
