--------------------------- MODULE MCLockFreeQueue ---------------------------
(* LockFreeQueue for TLC: the workloads.                                   *)
EXTENDS LockFreeQueue, TLC

CONSTANTS p1, p2, p3, c1

\* One producer of many items with a consumer, so that cells are reused; and
\* three producers that meet at the tail, one of them twice.
Served == {[items |-> (p1 :> 6 @@ p2 :> 0 @@ p3 :> 0), consumers |-> {c1}],
           [items |-> (p1 :> 2 @@ p2 :> 1 @@ p3 :> 1), consumers |-> {}]}

\* One producer alone.
Alone == {[items |-> (p1 :> 3 @@ p2 :> 0 @@ p3 :> 0), consumers |-> {}]}

\* The test's workload: two producers and a consumer (main.cpp:46-49).
TestPlan == {[items |-> (p1 :> 2 @@ p2 :> 2 @@ p3 :> 0), consumers |-> {c1}]}
=============================================================================
