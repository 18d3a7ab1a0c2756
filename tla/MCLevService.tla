---------------------------- MODULE MCLevService ----------------------------
(* LevService for TLC: the setups that are checked together.               *)
EXTENDS LevService, TLC

Plain    == [workThreads |-> 1, maxConn |-> 2, autoMonitor |-> FALSE, stops |-> FALSE]
Silent   == [Plain EXCEPT !.autoMonitor = TRUE]
TwoLoops == [Plain EXCEPT !.workThreads = 2, !.maxConn = 1]
Stopped  == [Plain EXCEPT !.stops = TRUE, !.maxConn = 1]

AllSetups == {Plain, Silent, TwoLoops, Stopped}
OnlySilent == {[Silent EXCEPT !.maxConn = 1]}
Symmetry == Permutations(Client)
=============================================================================
