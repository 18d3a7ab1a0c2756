-------------------------- MODULE MCConvertService --------------------------
(* ConvertService for TLC: the setups that are checked together.           *)
EXTENDS ConvertService

\* Three connections: the query connection and two that carry symbols.
Quiet    == [up |-> 3, faults |-> 0, walk |-> FALSE, timer |-> FALSE, reqs |-> 3]
Long     == [up |-> 3, faults |-> 0, walk |-> FALSE, timer |-> TRUE, reqs |-> 2]
Starting == [up |-> 1, faults |-> 0, walk |-> FALSE, timer |-> FALSE, reqs |-> 2]
Faulty   == [up |-> 3, faults |-> 1, walk |-> FALSE, timer |-> FALSE, reqs |-> 2]
Aging    == [up |-> 3, faults |-> 1, walk |-> FALSE, timer |-> TRUE, reqs |-> 1]
Walking  == [up |-> 1, faults |-> 1, walk |-> TRUE, timer |-> FALSE, reqs |-> 0]

OnlyQuiet == {Quiet}
OnlyFaulty == {Faulty}
AllSetups == {Quiet, Long, Starting, Faulty, Aging, Walking}
=============================================================================
